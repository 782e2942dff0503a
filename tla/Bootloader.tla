------------------------------ MODULE Bootloader ------------------------------
(***************************************************************************)
(* One panel's boot chain: the boot decision of bootloader/main.c, the     *)
(* recovery command loop of bootloader/recovery.c writing the app slot,    *)
(* and the part of the app that touches the boot record (ota_app.c).       *)
(*                                                                         *)
(* The slot is counted in chunks of OTA_CHUNK_SIZE.  CRC32 is taken to be  *)
(* injective: the CRC of a range of the slot is the sequence of chunks it  *)
(* holds, and the CRC of nothing, which crc32.c computes as 0, is          *)
(* EmptyCrc.  boot_state_write is one step: BootState shows that it is a   *)
(* durable register, so a power failure falls before or after it.          *)
(***************************************************************************)
EXTENDS Integers

CONSTANTS
    Image,         \* application images hosts may push
    Size,          \* Size[m]: length of image m in chunks
    Healthy,       \* images that bring the network up once booted
    Factory,       \* images boards were provisioned with, over USB or OTA
    Provisioning,  \* what boot record provisioning left: subset of
                   \* {"none", "confirmed", "stale"}
    SlotChunks,    \* APP_MAX_SIZE in chunks
    SectorChunks,  \* chunks per flash sector
    MaxAttempts,   \* OTA_MAX_BOOT_ATTEMPTS
    NoRecord,      \* no readable boot record
    Erased, Torn,  \* a blank chunk; one cut short or programmed twice over
    BadCrc         \* a garbled CRC field: matches no contents

ASSUME SizesAssumption ==
    /\ SlotChunks \in Nat \ {0}
    /\ SectorChunks \in Nat \ {0}
    /\ MaxAttempts \in Nat
    /\ Size \in [Image -> 1..SlotChunks]
    /\ Healthy \subseteq Image
    /\ Factory \subseteq Healthy

Chunk == 1..SlotChunks
Content == {Erased, Torn} \cup (Image \X Chunk)

VARIABLES
    rec,      \* the boot record boot_state_read returns
    slot,     \* the app slot
    scratch,  \* watchdog SCRATCH0: 0, or OTA_ENTER_UPDATE_MAGIC
    pc,       \* where the processor is
    app_len, app_crc,  \* recovery_run's locals, set by BEGN
    erased,   \* sectors erase_slot has erased so far
    trials    \* history: app starts since the image was committed, unconfirmed

recovery == <<app_len, app_crc, erased>>
vars == <<rec, slot, scratch, pc, app_len, app_crc, erased, trials>>

\* ota_crc32 over the first n chunks of the slot.  A length past the slot
\* reaches bytes no host computed a CRC of.
SlotCrc(n) == [i \in 1..n |-> IF i \in Chunk THEN slot[i] ELSE Torn]
ImageCrc(m) == [i \in 1..Size[m] |-> <<m, i>>]
EmptyCrc == [i \in 1..0 |-> Torn]
Crc == {ImageCrc(m) : m \in Image} \cup {EmptyCrc, BadCrc}

ASSUME ContentAssumption ==
    /\ Erased \notin Image \X Chunk
    /\ Torn \notin Image \X Chunk
    /\ \A n \in 0..SlotChunks + 1 : BadCrc \notin [1..n -> Content]

BootRecord == [len : 0..SlotChunks + 1, crc : Crc, valid : 0..1,
               confirmed : 0..1, attempts : 0..MaxAttempts]
ASSUME NoRecordAssumption == NoRecord \notin BootRecord

\* What END! writes, and what ota_confirm makes of it.
FreshRecord(n, c) == [len |-> n, crc |-> c, valid |-> 1,
                      confirmed |-> 0, attempts |-> 0]
Confirmed(r) == [len |-> r.len, crc |-> r.crc, valid |-> r.valid,
                 confirmed |-> 1, attempts |-> 0]

HasRecord == rec # NoRecord
SlotMatches(r) == SlotCrc(r.len) = r.crc
Whole(m) == SlotCrc(Size[m]) = ImageCrc(m)

\* app_vectortable_sane looks at two words of chunk 1.  Every image has sane
\* ones, a blank chunk has not, a torn chunk may or may not.
MaySane == slot[1] # Erased
MayInsane == slot[1] \in {Erased, Torn}

\* The states of the app: started, in its main loop, or stuck.
Running == {"app", "loop", "hung"}

TypeOK ==
    /\ rec \in BootRecord \cup {NoRecord}
    /\ slot \in [Chunk -> Content]
    /\ scratch \in {"0", "magic"}
    /\ pc \in {"reset", "jump", "recovery", "erase"} \cup Running
    /\ app_len \in 0..SlotChunks + 1
    /\ app_crc \in Crc
    /\ erased \in Nat
    /\ trials \in Nat

\* Provisioning loads a whole image and never writes the record sectors: they
\* are blank, or hold the record of this image, or of one that was replaced.
Init ==
    /\ \E m \in Factory :
         /\ slot = [i \in Chunk |-> IF i <= Size[m] THEN <<m, i>> ELSE Erased]
         /\ \/ "none" \in Provisioning /\ rec = NoRecord
            \/ /\ "confirmed" \in Provisioning
               /\ rec = Confirmed(FreshRecord(Size[m], ImageCrc(m)))
            \/ /\ "stale" \in Provisioning
               /\ \E old \in Image \ {m} :
                    rec = FreshRecord(Size[old], ImageCrc(old))
    /\ scratch = "0"
    /\ pc = "reset"
    /\ app_len = 0 /\ app_crc = EmptyCrc /\ erased = 0
    /\ trials = 0

-----------------------------------------------------------------------------
(* bootloader/main.c: decide_boot_app and jump_to_app *)

\* recovery_run starts with no length and no CRC.
EnterRecovery ==
    /\ pc' = "recovery"
    /\ app_len' = 0 /\ app_crc' = EmptyCrc /\ erased' = 0

\* Bug: the magic is not consumed.
ReadScratchKeeps == pc = "reset" /\ UNCHANGED scratch
ReadScratch == pc = "reset" /\ scratch' = "0"

DecideUpdateRequested ==
    /\ ReadScratch /\ scratch = "magic"
    /\ EnterRecovery
    /\ UNCHANGED <<rec, slot, trials>>

\* No record: a board provisioned over USB; the vector table is all there is.
DecideNoRecord ==
    /\ ReadScratch /\ scratch = "0" /\ ~HasRecord
    /\ \/ MaySane /\ pc' = "jump" /\ UNCHANGED recovery
       \/ MayInsane /\ EnterRecovery
    /\ UNCHANGED <<rec, slot, trials>>

\* Bug: the slot's CRC is not checked again.
BootableNoCrc == rec.valid = 1 /\ MaySane
Bootable == rec.valid = 1 /\ MaySane /\ SlotMatches(rec)

DecideNoGoodImage ==
    /\ ReadScratch /\ scratch = "0" /\ HasRecord
    /\ rec.valid = 0 \/ MayInsane \/ ~SlotMatches(rec)
    /\ EnterRecovery
    /\ UNCHANGED <<rec, slot, trials>>

DecideConfirmed ==
    /\ ReadScratch /\ scratch = "0" /\ HasRecord
    /\ Bootable /\ rec.confirmed = 1
    /\ pc' = "jump"
    /\ UNCHANGED <<rec, slot, recovery, trials>>

\* Bug: the attempt is not persisted.
DecideTrialUncounted ==
    /\ ReadScratch /\ scratch = "0" /\ HasRecord
    /\ Bootable /\ rec.confirmed = 0 /\ rec.attempts < MaxAttempts
    /\ pc' = "jump"
    /\ UNCHANGED <<rec, slot, recovery, trials>>
\* A fresh image: the attempt is persisted before the jump.
DecideTrial ==
    /\ ReadScratch /\ scratch = "0" /\ HasRecord
    /\ Bootable /\ rec.confirmed = 0 /\ rec.attempts < MaxAttempts
    /\ rec' = [rec EXCEPT !.attempts = @ + 1]
    /\ pc' = "jump"
    /\ UNCHANGED <<slot, recovery, trials>>

DecideGiveUp ==
    /\ ReadScratch /\ scratch = "0" /\ HasRecord
    /\ Bootable /\ rec.confirmed = 0 /\ rec.attempts >= MaxAttempts
    /\ rec' = [rec EXCEPT !.valid = 0]
    /\ EnterRecovery
    /\ UNCHANGED <<slot, trials>>

Jump ==
    /\ pc = "jump"
    /\ pc' = "app"
    /\ trials' = IF HasRecord /\ rec.confirmed = 0 THEN trials + 1 ELSE trials
    /\ UNCHANGED <<rec, slot, scratch, recovery>>

Boot == \/ DecideUpdateRequested \/ DecideNoRecord \/ DecideNoGoodImage
        \/ DecideConfirmed \/ DecideTrial \/ DecideGiveUp \/ Jump

-----------------------------------------------------------------------------
(* The app, as far as it concerns the boot record *)

HealthyApp == \E m \in Healthy : Whole(m)

\* main after net_init: confirm the image if the CH9120 answered (ota_confirm),
\* then enter the main loop either way.
AppUp ==
    /\ pc = "app" /\ HealthyApp
    /\ pc' = "loop"
    /\ \/ /\ HasRecord /\ rec.valid = 1 /\ rec.confirmed = 0
          /\ rec' = Confirmed(rec)
          /\ trials' = 0
       \/ UNCHANGED <<rec, trials>>
    /\ UNCHANGED <<slot, scratch, recovery>>

\* Any other contents of the slot: the app crashes before it gets that far.
\* Nothing in the firmware resets it.
AppHang ==
    /\ pc = "app" /\ ~HealthyApp
    /\ pc' = "hung"
    /\ UNCHANGED <<rec, slot, scratch, recovery, trials>>

\* ota_request_update, on the ota command
RequestUpdate ==
    /\ pc = "loop"
    /\ scratch' = "magic"
    /\ pc' = "reset"
    /\ UNCHANGED <<rec, slot, recovery, trials>>

-----------------------------------------------------------------------------
(* bootloader/recovery.c: the command loop.  Commands arrive in any order:  *)
(* the bridge holds bytes over from earlier connections and loses others.  *)

\* BEGN with both fields read.  A garbled one can carry any length.
Begin(n, c) ==
    /\ pc = "recovery"
    /\ app_len' = n /\ app_crc' = c
    /\ IF n = 0 \/ n > SlotChunks
         THEN UNCHANGED <<pc, erased>>            \* ERSZ
         ELSE pc' = "erase" /\ erased' = 0
    /\ UNCHANGED <<rec, slot, scratch, trials>>

\* BEGN cut short after its first field: app_crc keeps its old value.
BeginCutShort(n) ==
    /\ pc = "recovery"
    /\ app_len' = n
    /\ UNCHANGED <<rec, slot, scratch, pc, app_crc, erased, trials>>

\* The chunks of sector k of the slot, and the sectors erase_slot covers.
SectorOf(k) == {i \in Chunk : k * SectorChunks < i /\ i <= (k + 1) * SectorChunks}
AllErased == erased * SectorChunks >= app_len

EraseSector ==
    /\ pc = "erase" /\ ~AllErased
    /\ slot' = [i \in Chunk |-> IF i \in SectorOf(erased) THEN Erased
                                                          ELSE slot[i]]
    /\ erased' = erased + 1
    /\ UNCHANGED <<rec, scratch, pc, app_len, app_crc, trials>>

\* OKER
EraseDone ==
    /\ pc = "erase" /\ AllErased
    /\ pc' = "recovery"
    /\ UNCHANGED <<rec, slot, scratch, recovery, trials>>

\* Programming can only clear bits: a blank chunk takes the data, the same data
\* again changes nothing, anything else is neither one nor the other.
Programmed(old, new) == IF old \in {Erased, new} THEN new ELSE Torn

\* DATA that passed its length and CRC checks: the payload is chunk i of image
\* m.  The payload's CRC does not cover the offset, so it lands at chunk j; an
\* offset within a chunk, or one so large that off + len wraps (recovery.c:152),
\* is left out.
Data(m, i, j) ==
    /\ pc = "recovery"
    /\ slot' = [slot EXCEPT ![j] = Programmed(@, <<m, i>>)]
    /\ UNCHANGED <<rec, scratch, pc, recovery, trials>>

\* Bug: the record is updated in place and keeps the old confirmation.
EndKeepsConfirmed ==
    /\ pc = "recovery"
    /\ IF SlotCrc(app_len) = app_crc
         THEN /\ rec' = [FreshRecord(app_len, app_crc) EXCEPT
                           !.confirmed = IF HasRecord THEN rec.confirmed ELSE 0]
              /\ trials' = 0
         ELSE UNCHANGED <<rec, trials>>
    /\ UNCHANGED <<slot, scratch, pc, recovery>>
\* END!
End ==
    /\ pc = "recovery"
    /\ IF SlotCrc(app_len) = app_crc
         THEN rec' = FreshRecord(app_len, app_crc) /\ trials' = 0  \* DONE
         ELSE UNCHANGED <<rec, trials>>                           \* ECRC
    /\ UNCHANGED <<slot, scratch, pc, recovery>>

\* GO!!
Go ==
    /\ pc = "recovery"
    /\ pc' = "reset"
    /\ UNCHANGED <<rec, slot, scratch, recovery, trials>>

-----------------------------------------------------------------------------
\* Power loss or the RESET button, at any time.  SCRATCH0 does not survive it;
\* a sector being erased is left with some of its chunks unreadable.
PowerCycle ==
    /\ pc' = "reset"
    /\ scratch' = "0"
    /\ \/ UNCHANGED slot
       \/ /\ pc = "erase" /\ ~AllErased
          /\ \E S \in SUBSET SectorOf(erased) :
               slot' = [i \in Chunk |-> IF i \in S THEN Torn ELSE slot[i]]
    /\ UNCHANGED <<rec, recovery, trials>>

\* The power fails while chunk j is being programmed.
PowerCutInData(j) ==
    /\ pc = "recovery"
    /\ slot' = [slot EXCEPT ![j] = Torn]
    /\ pc' = "reset" /\ scratch' = "0"
    /\ UNCHANGED <<rec, recovery, trials>>

Recovery ==
    \/ \E m \in Image : Begin(Size[m], ImageCrc(m))
    \/ \E n \in 0..SlotChunks + 1 : Begin(n, BadCrc) \/ BeginCutShort(n)
    \/ EraseSector \/ EraseDone
    \/ \E m \in Image : \E i \in 1..Size[m], j \in Chunk : Data(m, i, j)
    \/ End \/ Go

Next ==
    \/ Boot
    \/ AppUp \/ AppHang \/ RequestUpdate
    \/ Recovery
    \/ PowerCycle \/ \E j \in Chunk : PowerCutInData(j)

Spec == Init /\ [][Next]_vars

\* The processor runs; somebody presses RESET on a panel that is stuck.
Fairness ==
    /\ WF_vars(Boot)
    /\ WF_vars(AppUp \/ AppHang)
    /\ WF_vars(pc = "hung" /\ PowerCycle)

FairSpec == Spec /\ Fairness
-----------------------------------------------------------------------------
\* With a boot record of nonzero length, the app that runs is one image, whole:
\* never a half erased slot, a mixture of two images or a torn chunk, whatever
\* commands and power failures came before (decide_boot_app's CRC re-check).
BootsOnlyWholeImages ==
    pc \in Running \cup {"jump"} /\ HasRecord /\ rec.len # 0 =>
        \E m \in Image : Whole(m) /\ rec.len = Size[m]

\* An image is started at most MaxAttempts times before it confirms: every
\* start was persisted as an attempt before the jump.
StartsAreCounted ==
    HasRecord /\ rec.confirmed = 0 =>
        /\ trials <= rec.attempts
        /\ pc = "jump" => trials < rec.attempts

\* Only an image that came up itself is ever marked confirmed: an update in
\* progress never inherits the confirmation of the image before it.
ConfirmedIsHealthy ==
    HasRecord /\ rec.valid = 1 /\ rec.confirmed = 1 /\ rec.len # 0 =>
        \E m \in Healthy : rec.crc = ImageCrc(m)

\* An image that hangs before confirming is given up: after enough resets the
\* panel is in recovery and can be flashed again (OTA.md, failure handling).
HungImageFallsBack ==
    pc = "hung" /\ HasRecord /\ rec.len # 0 ~> pc = "recovery"

-----------------------------------------------------------------------------
(* What the documentation says and the code does not do. *)

\* OTA.md: a failed update never makes the panel impossible to flash again
\* over Ethernet: a stuck panel, reset often enough, gets to recovery.
AlwaysRecoverable == pc = "hung" ~> pc = "recovery"
=============================================================================
