-------------------------- MODULE OtaTransfer_proof --------------------------
(***************************************************************************)
(* Proofs about the boot chain of module Bootloader, for every set of      *)
(* images, every slot and sector size and every attempt limit; then about  *)
(* the transfer that drives it, for every image, number of retries and     *)
(* number of faults.                                                       *)
(***************************************************************************)
EXTENDS OtaTransfer, SequenceTheorems, TLAPS

\* Facts about the constants, in the form the steps below use them.
LEMMA CrcFacts ==
  /\ EmptyCrc \in Crc /\ BadCrc \in Crc
  /\ \A m \in Image : ImageCrc(m) \in Crc /\ Size[m] \in 1..SlotChunks
  BY SizesAssumption DEF Crc

\* END! writes a boot record; confirming one leaves a boot record.
LEMMA FreshRecordType ==
  ASSUME NEW n \in 0..SlotChunks + 1, NEW c \in Crc
  PROVE  FreshRecord(n, c) \in BootRecord
  BY SizesAssumption DEF FreshRecord, BootRecord

LEMMA ConfirmedType ==
  ASSUME NEW r \in BootRecord
  PROVE  /\ Confirmed(r) \in BootRecord
         /\ Confirmed(r).len = r.len /\ Confirmed(r).crc = r.crc
         /\ Confirmed(r).valid = r.valid
         /\ Confirmed(r).confirmed = 1 /\ Confirmed(r).attempts = 0
  BY SizesAssumption DEF Confirmed, BootRecord

\* Type correctness: the provisioned panel, then every step.
LEMMA InitTypeOK == Init => TypeOK
<1> SUFFICES ASSUME Init PROVE TypeOK
  OBVIOUS
<1> USE SizesAssumption, CrcFacts
<1>1. PICK m \in Factory :
        /\ slot = [i \in Chunk |-> IF i <= Size[m] THEN <<m, i>> ELSE Erased]
        /\ \/ "none" \in Provisioning /\ rec = NoRecord
           \/ /\ "confirmed" \in Provisioning
              /\ rec = Confirmed(FreshRecord(Size[m], ImageCrc(m)))
           \/ /\ "stale" \in Provisioning
              /\ \E old \in Image \ {m} :
                   rec = FreshRecord(Size[old], ImageCrc(old))
  BY DEF Init
<1>2. m \in Image
  OBVIOUS
<1>3. slot \in [Chunk -> Content]
  BY <1>1, <1>2 DEF Content, Chunk
<1>4. \A im \in Image : FreshRecord(Size[im], ImageCrc(im)) \in BootRecord
  BY FreshRecordType
<1>5. rec \in BootRecord \cup {NoRecord}
  BY <1>1, <1>2, <1>4, ConfirmedType
<1> QED BY <1>3, <1>5 DEF Init, TypeOK

\* Every step keeps the types.
LEMMA TypeStep == TypeOK /\ [Next]_vars => TypeOK'
<1> SUFFICES ASSUME TypeOK, [Next]_vars PROVE TypeOK'
  OBVIOUS
<1> USE SizesAssumption, CrcFacts DEF TypeOK, Running
<1>1. CASE DecideUpdateRequested
  BY <1>1 DEF DecideUpdateRequested, ReadScratch, EnterRecovery
<1>2. CASE DecideNoRecord
  BY <1>2 DEF DecideNoRecord, ReadScratch, EnterRecovery, recovery
<1>3. CASE DecideNoGoodImage
  BY <1>3 DEF DecideNoGoodImage, ReadScratch, EnterRecovery
<1>4. CASE DecideConfirmed
  BY <1>4 DEF DecideConfirmed, ReadScratch, recovery
<1>5. CASE DecideTrial
  BY <1>5 DEF DecideTrial, ReadScratch, recovery, HasRecord, BootRecord
<1>6. CASE DecideGiveUp
  BY <1>6 DEF DecideGiveUp, ReadScratch, EnterRecovery, HasRecord, BootRecord
<1>7. CASE Jump
  BY <1>7 DEF Jump, recovery
<1>8. CASE AppUp
  BY <1>8, ConfirmedType DEF AppUp, recovery, HasRecord
<1>9. CASE AppHang
  BY <1>9 DEF AppHang, recovery
<1>10. CASE RequestUpdate
  BY <1>10 DEF RequestUpdate, recovery
<1>11. ASSUME NEW n \in 0..SlotChunks + 1, NEW c \in Crc, Begin(n, c)
       PROVE  TypeOK'
  BY <1>11 DEF Begin
<1>12. ASSUME NEW n \in 0..SlotChunks + 1, BeginCutShort(n) PROVE TypeOK'
  BY <1>12 DEF BeginCutShort
<1>13. CASE EraseSector
  BY <1>13 DEF EraseSector, Content
<1>14. CASE EraseDone
  BY <1>14 DEF EraseDone, recovery
<1>15. ASSUME NEW m \in Image, NEW i \in 1..Size[m], NEW j \in Chunk,
              Data(m, i, j)
       PROVE  TypeOK'
  <2>1. i \in Chunk
    BY DEF Chunk
  <2> QED BY <1>15, <2>1 DEF Data, recovery, Programmed, Content
<1>16. CASE End
  BY <1>16, FreshRecordType DEF End, recovery
<1>17. CASE Go
  BY <1>17 DEF Go, recovery
<1>18. CASE PowerCycle
  BY <1>18 DEF PowerCycle, recovery, Content
<1>19. ASSUME NEW i \in Chunk, PowerCutInData(i) PROVE TypeOK'
  BY <1>19 DEF PowerCutInData, recovery, Content
<1>20. CASE UNCHANGED vars
  BY <1>20 DEF vars
<1> QED
  <2>1. CASE Recovery
    <3>1. \A m \in Image : Size[m] \in 0..SlotChunks + 1
      OBVIOUS
    <3> QED BY <2>1, <3>1, <1>11, <1>12, <1>13, <1>14, <1>15, <1>16, <1>17
            DEF Recovery
  <2> QED BY <2>1, <1>1, <1>2, <1>3, <1>4, <1>5, <1>6, <1>7, <1>8, <1>9,
             <1>10, <1>18, <1>19, <1>20 DEF Next, Boot

\* The state of the boot chain is well typed, whatever arrives from the network
\* and whenever the power fails.
THEOREM TypeCorrect == Spec => []TypeOK
  BY InitTypeOK, TypeStep, PTL DEF Spec

-----------------------------------------------------------------------------
(* What runs is what the record describes. *)

\* From the moment the bootloader decides to jump until the next reset, the
\* slot is what the boot record says.
VerifiedSlot ==
    pc \in Running \cup {"jump"} /\ HasRecord => rec.valid = 1 /\ SlotMatches(rec)

IInv == TypeOK /\ VerifiedSlot

\* A nonempty range whose CRC is one a record can hold is a whole image.
LEMMA MatchingSlotIsWhole ==
  ASSUME TypeOK, NEW n \in 0..SlotChunks + 1, n # 0,
         NEW c \in Crc, SlotCrc(n) = c
  PROVE  \E m \in Image : Whole(m) /\ n = Size[m] /\ c = ImageCrc(m)
<1>1. SlotCrc(n) \in [1..n -> Content]
  BY DEF SlotCrc, TypeOK, Content
<1>2. c # BadCrc
  BY <1>1, ContentAssumption
<1>3. c # EmptyCrc
  <2> SUFFICES ASSUME c = EmptyCrc PROVE FALSE
    OBVIOUS
  <2>1. DOMAIN SlotCrc(n) = 1..n /\ DOMAIN EmptyCrc = 1..0
    BY DEF SlotCrc, EmptyCrc
  <2>2. 1 \in 1..n
    OBVIOUS
  <2> QED BY <2>1, <2>2
<1>4. PICK m \in Image : c = ImageCrc(m)
  BY <1>2, <1>3 DEF Crc
<1>5. Size[m] \in Nat /\ n \in Nat
  BY SizesAssumption
<1>6. 1..n = 1..Size[m]
  <2>1. DOMAIN SlotCrc(n) = 1..n /\ DOMAIN ImageCrc(m) = 1..Size[m]
    BY DEF SlotCrc, ImageCrc
  <2> QED BY <2>1, <1>4
<1>7. n = Size[m]
  BY <1>5, <1>6
<1> QED BY <1>4, <1>7 DEF Whole

\* A step that keeps the slot, the record and the running app keeps
\* VerifiedSlot; so does one that leaves the app.
LEMMA VerifiedSlotKept ==
  ASSUME VerifiedSlot, slot' = slot, rec' = rec,
         \/ pc' \notin Running \cup {"jump"}
         \/ pc \in Running \cup {"jump"}
  PROVE  VerifiedSlot'
  BY DEF VerifiedSlot, HasRecord, SlotMatches, SlotCrc

\* VerifiedSlot over every step of the panel.
LEMMA VerifiedStep == IInv /\ [Next]_vars => VerifiedSlot'
<1> SUFFICES ASSUME IInv, [Next]_vars PROVE VerifiedSlot'
  OBVIOUS
<1> USE DEF IInv
<1>0. ASSUME pc' \notin Running \cup {"jump"} PROVE VerifiedSlot'
  BY <1>0 DEF VerifiedSlot
<1>1. CASE DecideNoRecord
  BY <1>1 DEF DecideNoRecord, VerifiedSlot, HasRecord
<1>2. CASE DecideConfirmed
  <2>1. rec.valid = 1 /\ SlotMatches(rec) /\ rec' = rec /\ slot' = slot
    BY <1>2 DEF DecideConfirmed, Bootable
  <2> QED BY <2>1 DEF VerifiedSlot, SlotMatches, SlotCrc
<1>3. CASE DecideTrial
  <2>1. rec \in BootRecord
    BY <1>3 DEF DecideTrial, HasRecord, TypeOK
  <2>2. /\ rec'.valid = rec.valid /\ rec'.len = rec.len /\ rec'.crc = rec.crc
        /\ slot' = slot
    BY <1>3, <2>1 DEF DecideTrial, BootRecord
  <2>3. rec.valid = 1 /\ SlotMatches(rec)
    BY <1>3 DEF DecideTrial, Bootable
  <2> QED BY <2>2, <2>3 DEF VerifiedSlot, SlotMatches, SlotCrc
<1>4. CASE Jump
  BY <1>4, VerifiedSlotKept DEF Jump
<1>5. CASE AppUp
  <2>1. CASE rec' = rec
    BY <1>5, <2>1, VerifiedSlotKept DEF AppUp, Running
  <2>2. CASE HasRecord /\ rec' = Confirmed(rec)
    <3>1. rec \in BootRecord /\ slot' = slot
      BY <1>5, <2>2 DEF AppUp, HasRecord, TypeOK
    <3>2. rec.valid = 1 /\ SlotMatches(rec)
      BY <1>5, <2>2 DEF AppUp, VerifiedSlot, Running
    <3> QED BY <2>2, <3>1, <3>2, ConfirmedType
            DEF VerifiedSlot, SlotMatches, SlotCrc
  <2> QED BY <1>5, <2>1, <2>2 DEF AppUp
<1>6. CASE AppHang
  BY <1>6, VerifiedSlotKept DEF AppHang, Running
<1>7. CASE UNCHANGED vars
  BY <1>7 DEF vars, VerifiedSlot, HasRecord, SlotMatches, SlotCrc
<1>8. CASE Recovery
  <2>1. pc' \in {"recovery", "erase", "reset"}
    BY <1>8 DEF Recovery, Begin, BeginCutShort, EraseSector, EraseDone, Data,
                End, Go
  <2> QED BY <1>0, <2>1 DEF Running
<1> QED
  BY <1>0, <1>1, <1>2, <1>3, <1>4, <1>5, <1>6, <1>7, <1>8
  DEF Next, Boot, DecideUpdateRequested, DecideNoGoodImage, DecideGiveUp,
      EnterRecovery, RequestUpdate, PowerCycle, PowerCutInData, Running

\* The invariant holds of the provisioned panel, and always.
LEMMA InitInvariant == Init => IInv
  BY InitTypeOK DEF IInv, VerifiedSlot, Init, Running

LEMMA Invariant == Spec => []IInv
  BY InitInvariant, TypeStep, VerifiedStep, PTL DEF Spec, IInv

\* The app that runs is one whole image (decide_boot_app's CRC re-check), for
\* every sequence of commands, resets and power failures.
THEOREM WholeImagesOnly == Spec => []BootsOnlyWholeImages
<1>1. IInv => BootsOnlyWholeImages
  <2> SUFFICES ASSUME IInv, pc \in Running \cup {"jump"}, HasRecord, rec.len # 0
               PROVE  \E m \in Image : Whole(m) /\ rec.len = Size[m]
    BY DEF BootsOnlyWholeImages
  <2>1. rec.len \in 0..SlotChunks + 1 /\ rec.crc \in Crc
    BY DEF IInv, TypeOK, HasRecord, BootRecord
  <2>2. SlotCrc(rec.len) = rec.crc
    BY DEF IInv, VerifiedSlot, SlotMatches
  <2> QED BY <2>1, <2>2, MatchingSlotIsWhole DEF IInv
<1> QED BY <1>1, Invariant, PTL

-----------------------------------------------------------------------------
(* Starts of an unconfirmed image are bounded. *)

\* StartsAreCounted over every step.
LEMMA CountedStep ==
  TypeOK /\ StartsAreCounted /\ [Next]_vars => StartsAreCounted'
<1> SUFFICES ASSUME TypeOK, StartsAreCounted, [Next]_vars
             PROVE  StartsAreCounted'
  OBVIOUS
<1> USE DEF TypeOK, StartsAreCounted, HasRecord
<1>0. ASSUME rec' = rec, trials' = trials, pc' # "jump"
      PROVE  StartsAreCounted'
  BY <1>0
<1>1. CASE DecideNoRecord
  BY <1>1 DEF DecideNoRecord
<1>2. CASE DecideConfirmed
  BY <1>2 DEF DecideConfirmed
<1>3. CASE DecideTrial
  <2>1. rec \in BootRecord
    BY <1>3 DEF DecideTrial
  <2>2. rec'.attempts = rec.attempts + 1 /\ rec'.confirmed = rec.confirmed
    BY <1>3, <2>1 DEF DecideTrial, BootRecord
  <2>3. trials' = trials /\ trials <= rec.attempts
    BY <1>3 DEF DecideTrial
  <2>4. rec.attempts \in Nat
    BY <2>1, SizesAssumption DEF BootRecord
  <2> QED BY <2>2, <2>3, <2>4
<1>4. CASE DecideGiveUp
  <2>1. rec \in BootRecord /\ rec' = [rec EXCEPT !.valid = 0]
    BY <1>4 DEF DecideGiveUp
  <2>2. rec'.attempts = rec.attempts /\ rec'.confirmed = rec.confirmed
    BY <2>1 DEF BootRecord
  <2> QED BY <1>4, <2>2 DEF DecideGiveUp, EnterRecovery
<1>5. CASE Jump
  <2>1. rec \in BootRecord => rec.attempts \in Nat
    BY SizesAssumption DEF BootRecord
  <2> QED BY <1>5, <2>1 DEF Jump
<1>6. CASE AppUp
  <2>1. CASE HasRecord /\ rec' = Confirmed(rec)
    BY <1>6, <2>1, ConfirmedType DEF AppUp
  <2> QED BY <1>6, <2>1 DEF AppUp
<1>7. CASE End
  <2>1. CASE trials' = 0 /\ rec' = FreshRecord(app_len, app_crc)
    BY <1>7, <2>1 DEF End, FreshRecord
  <2>2. CASE UNCHANGED <<rec, trials>>
    BY <1>7, <2>2 DEF End
  <2> QED BY <1>7, <2>1, <2>2 DEF End
<1>8. CASE Recovery
  <2>1. CASE ~End
    <3>1. rec' = rec /\ trials' = trials /\ pc' # "jump"
      BY <1>8, <2>1
      DEF Recovery, Begin, BeginCutShort, EraseSector, EraseDone, Data, Go
    <3> QED BY <1>0, <3>1
  <2> QED BY <1>7, <2>1
<1>9. CASE UNCHANGED vars
  BY <1>9 DEF vars
<1> QED
  BY <1>0, <1>1, <1>2, <1>3, <1>4, <1>5, <1>6, <1>8, <1>9
  DEF Next, Boot, DecideUpdateRequested, DecideNoGoodImage, EnterRecovery,
      AppHang, RequestUpdate, PowerCycle, PowerCutInData

\* An unconfirmed image is started at most as often as its record says it was
\* attempted, hence at most MaxAttempts times, wherever the power fails.
THEOREM StartsCounted == Spec => []StartsAreCounted
<1>1. Init => StartsAreCounted
  <2> SUFFICES ASSUME Init, HasRecord
               PROVE  trials <= rec.attempts /\ pc # "jump"
    BY DEF StartsAreCounted
  <2>1. rec \in BootRecord
    BY InitTypeOK DEF TypeOK, HasRecord
  <2>2. rec.attempts \in Nat
    BY <2>1, SizesAssumption DEF BootRecord
  <2> QED BY <2>2 DEF Init
<1> QED BY <1>1, Invariant, CountedStep, PTL DEF Spec, IInv

-----------------------------------------------------------------------------
(* Only a healthy image is ever confirmed. *)

\* Two images that fill a common range are the same.
LEMMA WholeUnique ==
  ASSUME NEW m \in Image, NEW n \in Image, Whole(m), Whole(n)
  PROVE  m = n
<1>1. 1 \in 1..Size[m] /\ 1 \in 1..Size[n]
  BY SizesAssumption
<1>2. SlotCrc(Size[m])[1] = <<m, 1>> /\ SlotCrc(Size[n])[1] = <<n, 1>>
  BY <1>1 DEF Whole, ImageCrc
<1>3. SlotCrc(Size[m])[1] = SlotCrc(Size[n])[1]
  BY <1>1 DEF SlotCrc
<1> QED BY <1>2, <1>3

\* ConfirmedIsHealthy over every step.
LEMMA ConfirmedStep ==
  IInv /\ ConfirmedIsHealthy /\ [Next]_vars => ConfirmedIsHealthy'
<1> SUFFICES ASSUME IInv, ConfirmedIsHealthy, [Next]_vars
             PROVE  ConfirmedIsHealthy'
  OBVIOUS
<1>0. ASSUME rec' = rec PROVE ConfirmedIsHealthy'
  BY <1>0 DEF ConfirmedIsHealthy, HasRecord
<1>1. CASE DecideTrial
  <2>1. rec \in BootRecord /\ rec.confirmed = 0
    BY <1>1 DEF DecideTrial, HasRecord, IInv, TypeOK
  <2>2. rec'.confirmed = 0
    BY <1>1, <2>1 DEF DecideTrial, BootRecord
  <2> QED BY <2>2 DEF ConfirmedIsHealthy
<1>2. CASE DecideGiveUp
  <2>1. rec \in BootRecord
    BY <1>2 DEF DecideGiveUp, HasRecord, IInv, TypeOK
  <2>2. rec'.valid = 0
    BY <1>2, <2>1 DEF DecideGiveUp, BootRecord
  <2> QED BY <2>2 DEF ConfirmedIsHealthy
<1>3. CASE AppUp
  <2>1. CASE HasRecord /\ rec' = Confirmed(rec)
    <3>1. rec \in BootRecord /\ pc \in Running
      BY <1>3, <2>1 DEF AppUp, HasRecord, IInv, TypeOK, Running
    <3> SUFFICES ASSUME rec'.len # 0
                 PROVE  \E m \in Healthy : rec'.crc = ImageCrc(m)
      BY DEF ConfirmedIsHealthy
    <3>2. rec.len # 0 /\ rec'.crc = rec.crc
      BY <2>1, <3>1, ConfirmedType
    <3>3. PICK m \in Image : Whole(m) /\ rec.crc = ImageCrc(m)
      <4>1. rec.len \in 0..SlotChunks + 1 /\ rec.crc \in Crc
        BY <3>1 DEF BootRecord
      <4>2. SlotCrc(rec.len) = rec.crc
        BY <2>1, <3>1 DEF IInv, VerifiedSlot, SlotMatches
      <4> QED BY <3>2, <4>1, <4>2, MatchingSlotIsWhole DEF IInv
    <3>4. PICK h \in Healthy : Whole(h)
      BY <1>3 DEF AppUp, HealthyApp
    <3>5. h = m
      BY <3>3, <3>4, WholeUnique, SizesAssumption
    <3> QED BY <3>2, <3>3, <3>5
  <2> QED BY <1>0, <1>3, <2>1 DEF AppUp
<1>4. CASE End
  <2>1. CASE rec' = FreshRecord(app_len, app_crc)
    BY <2>1 DEF ConfirmedIsHealthy, FreshRecord
  <2> QED BY <1>0, <1>4, <2>1 DEF End
<1>5. CASE Recovery
  <2>1. ~End => rec' = rec
    BY <1>5
    DEF Recovery, Begin, BeginCutShort, EraseSector, EraseDone, Data, Go
  <2> QED BY <1>0, <1>4, <2>1
<1> QED
  BY <1>0, <1>1, <1>2, <1>3, <1>5
  DEF Next, Boot, DecideUpdateRequested, DecideNoRecord, DecideNoGoodImage,
      DecideConfirmed, Jump, AppHang, RequestUpdate, PowerCycle,
      PowerCutInData, vars

\* An update never inherits the confirmation of the image before it: what is
\* marked confirmed is an image that brought the network up.
THEOREM OnlyHealthyConfirmed == Spec => []ConfirmedIsHealthy
<1>1. Init => ConfirmedIsHealthy
  <2> SUFFICES ASSUME Init, HasRecord, rec.confirmed = 1
               PROVE  \E m \in Healthy : rec.crc = ImageCrc(m)
    BY DEF ConfirmedIsHealthy
  <2>1. PICK m \in Factory : rec = Confirmed(FreshRecord(Size[m], ImageCrc(m)))
    BY DEF Init, HasRecord, FreshRecord
  <2>2. rec.crc = ImageCrc(m)
    BY <2>1 DEF Confirmed, FreshRecord
  <2> QED BY <2>2, SizesAssumption
<1> QED BY <1>1, Invariant, ConfirmedStep, PTL DEF Spec

-----------------------------------------------------------------------------
(* The transfer protocol drives the boot chain only through the boot        *)
(* chain's own steps, so what is proved above of the panel holds whatever   *)
(* the host, the bridge and the faults do.                                  *)

\* The frames of this host and of the others are frames.
LEMMA FrameFacts ==
  /\ Cmd \subseteq Frame
  /\ Sync \in Cmd /\ Trigger \in Cmd /\ EndCmd \in Cmd /\ GoCmd \in Cmd
  /\ \A m \in Image : BegnFor(m) \in Cmd
  /\ \A m \in Image : \A i \in 1..Size[m] : DataFor(m, i) \in Cmd
  /\ \A f \in Cmd : Bad(f) \in Frame
  BY DEF Cmd, Frame

\* What the fields of a frame can be, by its tag.
LEMMA CmdFields ==
  ASSUME NEW f \in Cmd
  PROVE  /\ f.t \in {"SYNC", "OTA", "END", "GO", "BEGN", "DATA"}
         /\ f.t = "BEGN" => f.m \in Image
         /\ f.t = "DATA" => f.m \in Image /\ f.i \in 1..Size[f.m]
  BY DEF Cmd, Sync, Trigger, EndCmd, GoCmd, BegnFor, DataFor

\* The same for frames that may be damaged.
LEMMA FrameFields ==
  ASSUME NEW f \in Frame
  PROVE  /\ f.t = "BEGN" => f.m \in Image
         /\ f.t = "DATA" => f.m \in Image /\ f.i \in 1..Size[f.m]
         /\ f.t = "BAD" => f.f \in Cmd
         /\ f.t \in {"BEGN", "DATA"} => f \in Cmd
  BY CmdFields DEF Frame, Bad

-----------------------------------------------------------------------------
(* The host's counters stay in range. *)

HostOK ==
    /\ linked \in BOOLEAN
    /\ hpc \in {"probe", "sync", "trigger", "ack", "begin", "oker", "data",
               "dack", "verdict", "go", "done", "failed"}
    /\ off \in 1..Size[New] + 1
    /\ hpc = "dack" => off <= Size[New]
    /\ sends \in 0..ChunkRetries
    /\ attempt \in 1..Retries
    /\ faults \in 0..MaxFaults
    /\ pressed \in BOOLEAN

\* Every step keeps the counters in range.
LEMMA HostOKStep == HostOK /\ [TransferNext]_tvars => HostOK'
<1> SUFFICES ASSUME HostOK, [TransferNext]_tvars PROVE HostOK'
  OBVIOUS
<1> USE TransferAssumption, SizesAssumption DEF HostOK, host, bridge
<1>1. CASE Receive
  BY <1>1
  DEF Receive, RecvSync, RecvJunk, RecvBegin, RecvBadBegin, RecvData,
      RecvBadData, RecvEnd, RecvGo, AppTrigger, AppJunk, Unheard, Take
<1>2. CASE Proceed
  BY <1>2
  DEF Proceed, AppStart, BridgeRestarts, EraseOneSector, SlotErased
<1>3. CASE Host
  <2> USE <1>3 DEF Host, HostStep, Goto, Send, NextAttempt
  <2>1. CASE Probe \/ SendTrigger \/ SendBegin
    BY <2>1 DEF Probe, SendTrigger, SendBegin
  <2>2. CASE SendChunk \/ ChunkFailed
    BY <2>2 DEF SendChunk, ChunkFailed
  <2>3. CASE SendEnd \/ SendGo
    BY <2>3 DEF SendEnd, SendGo
  <2>4. CASE ReadToken
    BY <2>4 DEF ReadToken
  <2>5. CASE Timeout
    BY <2>5 DEF Timeout, GiveUpWaiting
  <2> QED BY <2>1, <2>2, <2>3, <2>4, <2>5
<1>4. CASE Fault
  <2>1. faults' \in 0..MaxFaults
    BY <1>4 DEF Fault
  <2>2. CASE (LoseFrame \/ DamageFrame \/ OtherClient) /\ UNCHANGED <<host, pressed>>
    BY <2>1, <2>2 DEF LoseFrame, DamageFrame, OtherClient
  <2>3. CASE AttemptFails /\ UNCHANGED pressed
    <3>1. UNCHANGED <<off, sends>> /\ attempt' \in 1..Retries
      BY <2>3 DEF AttemptFails, NextAttempt, Goto
    <3>2. hpc' \in {"probe", "failed"} /\ linked' \in BOOLEAN
      BY <2>3 DEF AttemptFails, NextAttempt, Goto
    <3> QED BY <2>1, <2>3, <3>1, <3>2
  <2>4. CASE LateAnswer /\ UNCHANGED pressed
    BY <2>1, <2>4 DEF LateAnswer, GiveUpWaiting, NextAttempt, Goto
  <2>5. CASE PowerFails /\ UNCHANGED <<host, pressed>>
    BY <2>1, <2>5 DEF PowerFails, BridgeRestarts
  <2>6. CASE Reset /\ UNCHANGED host
    BY <2>1, <2>6 DEF Reset, Take
  <2> QED BY <1>4, <2>2, <2>3, <2>4, <2>5, <2>6 DEF Fault
<1> QED BY <1>1, <1>2, <1>3, <1>4
        DEF TransferNext, ResetHung, Stopped, tvars

-----------------------------------------------------------------------------
(* What is in the bridge is always a sequence of frames. *)

UpOK == up \in Seq(Frame)

\* Taking a frame from the bridge, and sending one into it.
LEMMA HeadIsFrame ==
  ASSUME UpOK, up # <<>>
  PROVE  Head(up) \in Frame /\ Tail(up) \in Seq(Frame)
  BY DEF UpOK

LEMMA UpSends ==
  ASSUME UpOK, NEW f \in Frame
  PROVE  Append(up, f) \in Seq(Frame) /\ (Send(f) => UpOK')
  BY DEF UpOK, Send

\* Every step keeps the bridge full of frames.
LEMMA UpStep == UpOK /\ HostOK /\ [TransferNext]_tvars => UpOK'
<1> SUFFICES ASSUME UpOK, HostOK, [TransferNext]_tvars PROVE UpOK'
  OBVIOUS
<1> USE FrameFacts, TransferAssumption, OthersAssumption, SizesAssumption
<1>0. ASSUME up' = up \/ up' = <<>> \/ (up # <<>> /\ up' = Tail(up))
      PROVE  UpOK'
  <2>1. <<>> \in Seq(Frame)
    OBVIOUS
  <2>2. up # <<>> => Tail(up) \in Seq(Frame)
    BY HeadIsFrame
  <2> QED BY <1>0, <2>1, <2>2 DEF UpOK
<1>1. CASE Receive
  BY <1>0, <1>1
  DEF Receive, RecvSync, RecvJunk, RecvBegin, RecvBadBegin, RecvData,
      RecvBadData, RecvEnd, RecvGo, AppTrigger, AppJunk, Unheard, Take, Arrives
<1>2. CASE Proceed
  BY <1>0, <1>2
  DEF Proceed, AppStart, BridgeRestarts, EraseOneSector, SlotErased, bridge
<1>3. CASE Host
  <2>1. CASE Probe
    BY <2>1, UpSends DEF Probe, UpOK
  <2>2. CASE SendTrigger
    BY <2>2, UpSends DEF SendTrigger
  <2>3. CASE SendBegin
    BY <2>3, UpSends DEF SendBegin
  <2>4. CASE SendChunk
    <3>1. off \in 1..Size[New]
      BY <2>4 DEF SendChunk, HostOK
    <3>2. DataFor(New, off) \in Frame
      BY <3>1
    <3> QED BY <2>4, <3>2, UpSends DEF SendChunk
  <2>5. CASE SendEnd
    BY <2>5, UpSends DEF SendEnd
  <2>6. CASE SendGo
    BY <2>6, UpSends DEF SendGo
  <2> QED BY <1>0, <1>3, <2>1, <2>2, <2>3, <2>4, <2>5, <2>6
          DEF Host, ChunkFailed, ReadToken, Timeout, GiveUpWaiting, bridge
<1>4. CASE Fault
  <2>1. CASE DamageFrame
    <3>1. Bad(Head(up)) \in Frame /\ Tail(up) \in Seq(Frame)
      BY <2>1, HeadIsFrame, FrameFields DEF DamageFrame
    <3>2. up' = <<Bad(Head(up))>> \o Tail(up)
      BY <2>1 DEF DamageFrame
    <3> QED BY <3>1, <3>2 DEF UpOK
  <2>2. CASE OtherClient
    BY <2>2, UpSends DEF OtherClient, UpOK
  <2> QED BY <1>0, <1>4, <2>1, <2>2
          DEF Fault, LoseFrame, AttemptFails, LateAnswer, GiveUpWaiting,
              PowerFails, BridgeRestarts, Reset, Arrives, Take, bridge
<1> QED BY <1>0, <1>1, <1>2, <1>3, <1>4
        DEF TransferNext, ResetHung, Stopped, tvars, bridge

-----------------------------------------------------------------------------
(* Every step of the protocol is a step of the boot chain, or leaves it alone. *)

\* A step of the transfer is a step of the boot chain or none.
LEMMA StepRefines == UpOK /\ [TransferNext]_tvars => [Next]_vars
<1> SUFFICES ASSUME UpOK, [TransferNext]_tvars PROVE [Next]_vars
  OBVIOUS
<1> USE SizesAssumption
<1>1. CASE Receive
  <2> USE HeadIsFrame, FrameFields, CmdFields DEF Arrives
  <2>1. CASE RecvBegin
    BY <2>1 DEF RecvBegin, Next, Recovery
  <2>2. CASE RecvBadBegin
    BY <2>2 DEF RecvBadBegin, Next, Recovery
  <2>3. CASE RecvData
    <3>1. Head(up).m \in Image /\ Head(up).i \in 1..Size[Head(up).m]
      BY <2>3 DEF RecvData
    <3>2. Head(up).i \in Chunk
      BY <3>1 DEF Chunk
    <3> QED BY <2>3, <3>1, <3>2 DEF RecvData, Next, Recovery
  <2>4. CASE RecvBadData
    <3>1. Head(up).f.m \in Image /\ Head(up).f.i \in 1..Size[Head(up).f.m]
      BY <2>4 DEF RecvBadData
    <3> QED BY <2>4, <3>1 DEF RecvBadData, Next, Recovery
  <2>5. CASE RecvEnd
    BY <2>5 DEF RecvEnd, Next, Recovery
  <2>6. CASE RecvGo
    BY <2>6 DEF RecvGo, Next, Recovery
  <2>7. CASE AppTrigger
    BY <2>7 DEF AppTrigger, Next
  <2> QED BY <1>1, <2>1, <2>2, <2>3, <2>4, <2>5, <2>6, <2>7
          DEF Receive, RecvSync, RecvJunk, AppJunk, Unheard
<1>2. CASE Proceed
  BY <1>2
  DEF Proceed, AppStart, EraseOneSector, SlotErased, Next, Recovery
<1>3. CASE Host
  BY <1>3 DEF Host, HostStep
<1>4. CASE Fault
  <2>1. CASE PowerFails \/ Reset
    <3>1. CASE PowerCycle
      BY <3>1 DEF Next
    <3>2. CASE Arrives("DATA") /\ PowerCutInData(Head(up).i)
      <4>1. Head(up).m \in Image /\ Head(up).i \in 1..Size[Head(up).m]
        BY <3>2, HeadIsFrame, FrameFields DEF Arrives
      <4>2. Head(up).i \in Chunk
        BY <4>1 DEF Chunk
      <4> QED BY <3>2, <4>2 DEF Next
    <3> QED BY <2>1, <3>1, <3>2 DEF PowerFails, Reset
  <2> QED BY <1>4, <2>1 DEF Fault, Next
<1> QED BY <1>1, <1>2, <1>3, <1>4
        DEF TransferNext, ResetHung, Stopped, tvars, Next

\* So the bridge and the counters are always well typed.
LEMMA TransferTyped == TransferSpec => [](UpOK /\ HostOK)
<1>1. TransferInit => UpOK
  BY DEF TransferInit, UpOK
<1>2. TransferInit => HostOK
  <2>1. 1 \in 1..Size[New] + 1 /\ 1 \in 1..Retries
    BY TransferAssumption, SizesAssumption
  <2>2. 0 \in 0..ChunkRetries /\ 0 \in 0..MaxFaults /\ FALSE \in BOOLEAN
    BY TransferAssumption
  <2> QED BY <2>1, <2>2 DEF TransferInit, HostOK
<1> QED BY <1>1, <1>2, UpStep, HostOKStep, PTL DEF TransferSpec

\* The host, the bridge and their faults can make the panel do nothing but what
\* module Bootloader lets it do.
THEOREM RefinesBootloader == TransferSpec => ImplementsBootloader
<1>1. TransferInit => Init
  BY DEF TransferInit
<1> QED BY <1>1, StepRefines, TransferTyped, PTL
        DEF TransferSpec, ImplementsBootloader, Spec

\* However the transfer goes wrong, the panel never starts anything but one
\* whole image under a boot record that describes one.
THEOREM TransferBootsWholeImages == TransferSpec => []BootsOnlyWholeImages
  BY RefinesBootloader, WholeImagesOnly, PTL DEF ImplementsBootloader

-----------------------------------------------------------------------------
\* The whole of the host, the bridge and the panel is well typed.
THEOREM TransferTypeCorrect == TransferSpec => []TransferTypeOK
<1>1. TransferSpec => []TypeOK
  BY RefinesBootloader, TypeCorrect, PTL DEF ImplementsBootloader
<1>2. TypeOK /\ UpOK /\ HostOK => TransferTypeOK
  BY DEF UpOK, HostOK, TransferTypeOK
<1> QED BY <1>1, <1>2, TransferTyped, PTL

-----------------------------------------------------------------------------
(* No token says which attempt it answers, and a failed attempt may leave   *)
(* frames and answers under way.  They are counted along the way the        *)
(* answers to come will take to the host: the tokens, the OKER that an      *)
(* erasing will send, the frames on their way up.  Label each place with    *)
(* the answers to pushes up to it, those no greeting comes before left out: *)
(* the labels never exceed what the host may still be owed, and those of    *)
(* old verdicts fall with every answer the push reads.                      *)

\* What a place on the way may hold: greetings and their answers, what belongs to
\* a push, the verdicts, and what only another host's push would send.
Okay == Token("OKER")
Greets(x) == x.t \in {"SYNC", "BLOK"}
Pushes(x) == x.t \in {"BEGN", "DATA", "END", "GO", "BAD",
                      "OKER", "DACK", "DNAK", "DONE", "ECRC"}
Verdicts(x) == x.t \in {"END", "DONE"}
Foreign(x) == x.t = "GO" \/ (x.t = "BEGN" /\ x.m # New)

\* Tokens d on their way down, e erasings (none or one), frames u on theirs up.
PipeOf(d, e, u) ==
    [i \in 1..Len(d) + e + Len(u) |->
        IF i <= Len(d) THEN d[i]
        ELSE IF i <= Len(d) + e THEN Okay ELSE u[i - Len(d) - e]]

\* b may stand where a stood; an item tagged in T only where its like stood.
Weaker(b, a, T) ==
    /\ Greets(b) => Greets(a)
    /\ Pushes(b) => Pushes(a)
    /\ Verdicts(b) => Verdicts(a)
    /\ Foreign(b) => Foreign(a)
    /\ b.t \in T => b.t = a.t

\* Way q of m places is what is left of way p of n: x places, from k on, are gone.
From(i, k, x) == IF i < k THEN i ELSE i + x
ThinsBy(p, n, q, m, T, k, x) ==
    \A i \in 1..m : From(i, k, x) \in 1..n /\ Weaker(q[i], p[From(i, k, x)], T)
Thinner(p, n, q, m, T) == \E k \in Nat, x \in Nat : ThinsBy(p, n, q, m, T, k, x)

\* Place i counts for the push: it has begun, or a greeting comes before.
Behind(p, i, w) == w = "push" \/ \E g \in 1..i - 1 : Greets(p[g])
\* Labels never fall along the way, and rise at every answer that counts.
Ranks(lab, p, n) ==
    \A j \in 1..n : \A i \in 1..j - 1 :
        /\ lab[i] <= lab[j]
        /\ Pushes(p[j]) /\ lab[j] # 0 => lab[i] < lab[j]
\* No more than owed answers count, of this host's image only; every verdict under
\* way is among the first stale of them.
Ledger(p, n, w, owed, stale) ==
    \E lab \in [1..n -> Nat] :
        /\ Ranks(lab, p, n)
        /\ \A i \in 1..n : lab[i] <= owed
        /\ \A i \in 1..n : Pushes(p[i]) /\ Behind(p, i, w) => lab[i] # 0 /\ ~Foreign(p[i])
        /\ \A i \in 1..n : Verdicts(p[i]) => lab[i] <= stale

\* A thinner way is within the same ledger.
LEMMA LedgerThins ==
  ASSUME NEW p, NEW n \in Nat, NEW q, NEW m \in Nat, NEW T,
         NEW w, NEW owed \in Int, NEW stale \in Int,
         Thinner(p, n, q, m, T), Ledger(p, n, w, owed, stale)
  PROVE  Ledger(q, m, w, owed, stale)
<1>1. PICK k \in Nat, x \in Nat : ThinsBy(p, n, q, m, T, k, x)
  BY DEF Thinner
<1>2. PICK lab \in [1..n -> Nat] :
        /\ Ranks(lab, p, n)
        /\ \A i \in 1..n : lab[i] <= owed
        /\ \A i \in 1..n : Pushes(p[i]) /\ Behind(p, i, w) => lab[i] # 0 /\ ~Foreign(p[i])
        /\ \A i \in 1..n : Verdicts(p[i]) => lab[i] <= stale
  BY DEF Ledger
<1> DEFINE f(i) == From(i, k, x)
           new == [i \in 1..m |-> lab[f(i)]]
<1>3. \A i \in 1..m : f(i) \in 1..n /\ Weaker(q[i], p[f(i)], T) /\ new[i] = lab[f(i)]
  BY <1>1 DEF ThinsBy
<1>4. \A j \in 1..m : \A i \in 1..j - 1 : i \in 1..m /\ f(i) \in 1..f(j) - 1
  <2> SUFFICES ASSUME NEW j \in 1..m, NEW i \in 1..j - 1
               PROVE  i \in 1..m /\ f(i) \in 1..f(j) - 1
    OBVIOUS
  <2>1. i \in 1..m /\ i \in Nat /\ j \in Nat /\ i < j
    OBVIOUS
  <2>2. f(i) \in 1..n /\ f(j) \in 1..n
    BY <1>3, <2>1
  <2>3. f(i) < f(j)
    BY <2>1 DEF From
  <2> QED BY <2>1, <2>2, <2>3
<1>5. new \in [1..m -> Nat]
  BY <1>3
<1> HIDE DEF new, f
<1>6. Ranks(new, q, m)
  <2> SUFFICES ASSUME NEW j \in 1..m, NEW i \in 1..j - 1
               PROVE  /\ new[i] <= new[j]
                      /\ Pushes(q[j]) /\ new[j] # 0 => new[i] < new[j]
    BY DEF Ranks
  <2>1. i \in 1..m /\ f(i) \in 1..f(j) - 1 /\ f(j) \in 1..n
    BY <1>3, <1>4
  <2>2. new[i] = lab[f(i)] /\ new[j] = lab[f(j)]
    BY <1>3, <2>1
  <2>3. Pushes(q[j]) => Pushes(p[f(j)])
    BY <1>3 DEF Weaker
  <2> QED BY <1>2, <2>1, <2>2, <2>3 DEF Ranks
<1>7. \A i \in 1..m : new[i] <= owed
  BY <1>2, <1>3
<1>8. ASSUME NEW i \in 1..m, Pushes(q[i]), Behind(q, i, w)
      PROVE  new[i] # 0 /\ ~Foreign(q[i])
  <2>1. Pushes(p[f(i)]) /\ (Foreign(q[i]) => Foreign(p[f(i)])) /\ f(i) \in 1..n
        /\ new[i] = lab[f(i)]
    BY <1>3, <1>8 DEF Weaker
  <2>2. Behind(p, f(i), w)
    <3>1. CASE w = "push"
      BY <3>1 DEF Behind
    <3>2. ASSUME NEW g \in 1..i - 1, Greets(q[g]) PROVE Behind(p, f(i), w)
      <4>1. g \in 1..m /\ f(g) \in 1..f(i) - 1
        BY <1>4
      <4>2. Greets(p[f(g)])
        BY <1>3, <3>2, <4>1 DEF Weaker
      <4> QED BY <4>1, <4>2 DEF Behind
    <3> QED BY <1>8, <3>1, <3>2 DEF Behind
  <2> QED BY <1>2, <2>1, <2>2
<1>9. ASSUME NEW i \in 1..m, Verdicts(q[i]) PROVE new[i] <= stale
  BY <1>2, <1>3, <1>9 DEF Weaker
<1> QED BY <1>5, <1>6, <1>7, <1>8, <1>9 DEF Ledger

\* So is a way under laxer bounds, or once the push is over.
LEMMA LedgerWeakens ==
  ASSUME NEW p, NEW n \in Nat, NEW w, NEW v, NEW owed \in Int, NEW stale \in Int,
         NEW o \in Int, NEW s \in Int,
         Ledger(p, n, w, owed, stale), w = "push" \/ v = w, v # "push" \/ w = "push",
         owed <= o, stale <= s \/ owed <= s
  PROVE  Ledger(p, n, v, o, s)
<1>1. PICK lab \in [1..n -> Nat] :
        /\ Ranks(lab, p, n)
        /\ \A i \in 1..n : lab[i] <= owed
        /\ \A i \in 1..n : Pushes(p[i]) /\ Behind(p, i, w) => lab[i] # 0 /\ ~Foreign(p[i])
        /\ \A i \in 1..n : Verdicts(p[i]) => lab[i] <= stale
  BY DEF Ledger
<1>2. \A i \in 1..n : lab[i] \in Nat /\ lab[i] <= o
  BY <1>1
<1>3. \A i \in 1..n : Behind(p, i, v) => Behind(p, i, w)
  BY DEF Behind
<1>4. \A i \in 1..n : Verdicts(p[i]) => lab[i] <= s
  BY <1>1, <1>2
<1> QED BY <1>1, <1>2, <1>3, <1>4 DEF Ledger

\* q is p with x behind it.
LEMMA LedgerGrows ==
  ASSUME NEW p, NEW n \in Nat, NEW q, NEW w, NEW owed \in Nat, NEW stale \in Int,
         NEW o \in Nat, NEW s \in Int,
         Ledger(p, n, w, owed, stale),
         \A i \in 1..n : q[i] = p[i],
         owed <= o, stale <= s \/ owed <= s,
         Pushes(q[n + 1]) => owed < o /\ ~Foreign(q[n + 1]),
         Verdicts(q[n + 1]) => o <= s
  PROVE  Ledger(q, n + 1, w, o, s)
<1>1. PICK lab \in [1..n -> Nat] :
        /\ Ranks(lab, p, n)
        /\ \A i \in 1..n : lab[i] <= owed
        /\ \A i \in 1..n : Pushes(p[i]) /\ Behind(p, i, w) => lab[i] # 0 /\ ~Foreign(p[i])
        /\ \A i \in 1..n : Verdicts(p[i]) => lab[i] <= stale
  BY DEF Ledger
<1> DEFINE new == [i \in 1..n + 1 |-> IF i = n + 1 THEN o ELSE lab[i]]
<1>2. \A i \in 1..n + 1 : i \in 1..n \/ i = n + 1
  OBVIOUS
<1>3. /\ new \in [1..n + 1 -> Nat] /\ new[n + 1] = o
      /\ \A i \in 1..n : new[i] = lab[i] /\ i \in 1..n + 1
  BY <1>2
<1> HIDE DEF new
<1>4. Ranks(new, q, n + 1)
  <2> SUFFICES ASSUME NEW j \in 1..n + 1, NEW i \in 1..j - 1
               PROVE  /\ new[i] <= new[j]
                      /\ Pushes(q[j]) /\ new[j] # 0 => new[i] < new[j]
    BY DEF Ranks
  <2>1. CASE j \in 1..n
    <3>1. i \in 1..n
      BY <2>1
    <3> QED BY <1>1, <1>3, <2>1, <3>1 DEF Ranks
  <2>2. CASE j = n + 1
    <3>1. i \in 1..n
      BY <2>2
    <3>2. new[i] = lab[i] /\ lab[i] <= owed /\ lab[i] \in Nat
      BY <1>1, <1>3, <3>1
    <3> QED BY <1>3, <2>2, <3>2
  <2> QED BY <1>2, <2>1, <2>2
<1>5. \A i \in 1..n + 1 : new[i] <= o
  BY <1>1, <1>2, <1>3
<1>6. ASSUME NEW i \in 1..n + 1, Pushes(q[i]), Behind(q, i, w)
      PROVE  new[i] # 0 /\ ~Foreign(q[i])
  <2>1. CASE i \in 1..n
    <3>1. \A g \in 1..i - 1 : g \in 1..n
      BY <2>1
    <3>2. Behind(p, i, w)
      BY <1>6, <3>1 DEF Behind
    <3> QED BY <1>1, <1>3, <1>6, <2>1, <3>2
  <2>2. CASE i = n + 1
    BY <1>3, <1>6, <2>2
  <2> QED BY <1>2, <2>1, <2>2
<1>7. ASSUME NEW i \in 1..n + 1, Verdicts(q[i]) PROVE new[i] <= s
  <2>1. CASE i \in 1..n
    BY <1>1, <1>3, <1>7, <2>1
  <2>2. CASE i = n + 1
    BY <1>3, <1>7, <2>2
  <2> QED BY <1>2, <2>1, <2>2
<1> QED BY <1>3, <1>4, <1>5, <1>6, <1>7 DEF Ledger

\* Arithmetic that the next lemma cites as it stands.
LEMMA OneLess ==
  ASSUME NEW a \in Nat, NEW b \in Int, NEW x, NEW y, x = a - 1, y = b - 1
  PROVE  (a <= b => x <= y) /\ (a < b => x < y) /\ (a > 1 => x # 0)
  OBVIOUS

\* q is p without its first item.
Ahead(p, n, q, m) ==
    n \in Nat \ {0} /\ m = n - 1 /\ \A i \in 1..n - 1 : q[i] = p[i + 1]

\* Reading one answer lowers every label and both bounds by one.
LEMMA LedgerRead ==
  ASSUME NEW p, NEW n, NEW q, NEW m, NEW owed \in Int, NEW stale \in Int,
         Ledger(p, n, "push", owed, stale), Ahead(p, n, q, m), Pushes(p[1])
  PROVE  Ledger(q, m, "push", owed - 1, stale - 1)
<1>0. n \in Nat \ {0} /\ m = n - 1 /\ \A i \in 1..n - 1 : q[i] = p[i + 1]
  BY DEF Ahead
<1>1. PICK lab \in [1..n -> Nat] :
        /\ Ranks(lab, p, n)
        /\ \A i \in 1..n : lab[i] <= owed
        /\ \A i \in 1..n : Pushes(p[i]) => lab[i] # 0 /\ ~Foreign(p[i])
        /\ \A i \in 1..n : Verdicts(p[i]) => lab[i] <= stale
  BY DEF Ledger, Behind
<1>2. 1 \in 1..n /\ lab[1] # 0 /\ lab[1] \in Nat
  BY <1>0, <1>1
<1> DEFINE low(i) == lab[i + 1]
<1>3. ASSUME NEW i \in 1..n - 1
      PROVE  /\ i + 1 \in 1..n /\ q[i] = p[i + 1] /\ low(i) \in Nat /\ low(i) >= 1
             /\ low(i) <= owed
             /\ Pushes(q[i]) => low(i) > 1 /\ ~Foreign(q[i])
             /\ Verdicts(q[i]) => low(i) <= stale
  <2>1. i + 1 \in 1..n /\ 1 \in 1..(i + 1) - 1 /\ lab[i + 1] \in Nat /\ q[i] = p[i + 1]
    BY <1>0
  <2>2. lab[1] <= lab[i + 1] /\ (Pushes(p[i + 1]) /\ lab[i + 1] # 0 => lab[1] < lab[i + 1])
    BY <1>1, <2>1 DEF Ranks
  <2>3. /\ lab[i + 1] <= owed
        /\ Pushes(p[i + 1]) => lab[i + 1] # 0 /\ ~Foreign(p[i + 1])
        /\ Verdicts(p[i + 1]) => lab[i + 1] <= stale
    BY <1>1, <2>1
  <2> QED BY <1>2, <2>1, <2>2, <2>3
<1>4. ASSUME NEW j \in 1..n - 1, NEW i \in 1..j - 1
      PROVE  /\ i \in 1..n - 1 /\ low(i) <= low(j)
             /\ Pushes(q[j]) => low(i) < low(j)
  <2>0. n \in Nat
    BY <1>0
  <2>1. i \in 1..n - 1 /\ i + 1 \in 1..(j + 1) - 1 /\ j + 1 \in 1..n
    BY <2>0
  <2>2. /\ lab[i + 1] <= lab[j + 1]
        /\ Pushes(p[j + 1]) /\ lab[j + 1] # 0 => lab[i + 1] < lab[j + 1]
    BY <1>1, <2>1 DEF Ranks
  <2>3. Pushes(q[j]) => Pushes(p[j + 1]) /\ lab[j + 1] # 0
    BY <1>3
  <2> QED BY <2>1, <2>2, <2>3
<1> HIDE DEF low
<1> DEFINE new == [i \in 1..n - 1 |-> low(i) - 1]
<1>5. new \in [1..n - 1 -> Nat] /\ \A i \in 1..n - 1 : new[i] = low(i) - 1
  BY <1>0, <1>3
<1> HIDE DEF new
<1>6. Ranks(new, q, n - 1)
  <2> SUFFICES ASSUME NEW j \in 1..n - 1, NEW i \in 1..j - 1
               PROVE  /\ new[i] <= new[j]
                      /\ Pushes(q[j]) /\ new[j] # 0 => new[i] < new[j]
    BY DEF Ranks
  <2>1. i \in 1..n - 1 /\ low(i) <= low(j) /\ (Pushes(q[j]) => low(i) < low(j))
    BY <1>4
  <2>2. low(i) \in Nat /\ low(j) \in Nat
    BY <1>3, <2>1
  <2>3. new[i] = low(i) - 1 /\ new[j] = low(j) - 1
    BY <1>5, <2>1
  <2>4. low(j) \in Int
    BY <2>2
  <2>5. /\ low(i) <= low(j) => new[i] <= new[j]
        /\ low(i) < low(j) => new[i] < new[j]
    BY <2>2, <2>3, <2>4, OneLess
  <2> QED BY <2>1, <2>5
<1>7. ASSUME NEW i \in 1..n - 1
      PROVE  /\ new[i] <= owed - 1
             /\ Pushes(q[i]) => new[i] # 0 /\ ~Foreign(q[i])
             /\ Verdicts(q[i]) => new[i] <= stale - 1
  <2>1. low(i) \in Nat /\ new[i] = low(i) - 1
    BY <1>3, <1>5
  <2>2. /\ low(i) <= owed => new[i] <= owed - 1
        /\ low(i) <= stale => new[i] <= stale - 1
        /\ low(i) > 1 => new[i] # 0
    BY <2>1, OneLess
  <2> QED BY <1>3, <2>2
<1> QED BY <1>0, <1>5, <1>6, <1>7 DEF Ledger

\* Its first item was BLOK: the push begins.
LEMMA LedgerGreeted ==
  ASSUME NEW p, NEW n, NEW q, NEW m, NEW w, NEW owed \in Int, NEW stale \in Int,
         Ledger(p, n, w, owed, stale), Ahead(p, n, q, m), Greets(p[1])
  PROVE  Ledger(q, m, "push", owed, owed)
<1>0. n \in Nat \ {0} /\ m = n - 1 /\ \A i \in 1..n - 1 : q[i] = p[i + 1]
  BY DEF Ahead
<1>1. PICK lab \in [1..n -> Nat] :
        /\ Ranks(lab, p, n)
        /\ \A i \in 1..n : lab[i] <= owed
        /\ \A i \in 1..n : Pushes(p[i]) /\ Behind(p, i, w) => lab[i] # 0 /\ ~Foreign(p[i])
  BY DEF Ledger
<1>2. ASSUME NEW i \in 1..n - 1
      PROVE  i + 1 \in 1..n /\ q[i] = p[i + 1] /\ Behind(p, i + 1, w)
  <2>1. 1 \in 1..(i + 1) - 1 /\ i + 1 \in 1..n /\ q[i] = p[i + 1]
    BY <1>0
  <2> QED BY <2>1 DEF Behind
<1> DEFINE new == [i \in 1..n - 1 |-> lab[i + 1]]
<1>3. new \in [1..n - 1 -> Nat] /\ \A i \in 1..n - 1 : new[i] = lab[i + 1]
  BY <1>0, <1>2
<1> HIDE DEF new
<1>4. Ranks(new, q, n - 1)
  <2> SUFFICES ASSUME NEW j \in 1..n - 1, NEW i \in 1..j - 1
               PROVE  /\ new[i] <= new[j]
                      /\ Pushes(q[j]) /\ new[j] # 0 => new[i] < new[j]
    BY DEF Ranks
  <2>0. n \in Nat
    BY <1>0
  <2>1. i \in 1..n - 1 /\ i + 1 \in 1..(j + 1) - 1 /\ j + 1 \in 1..n
    BY <2>0
  <2>2. /\ lab[i + 1] <= lab[j + 1]
        /\ Pushes(p[j + 1]) /\ lab[j + 1] # 0 => lab[i + 1] < lab[j + 1]
    BY <1>1, <2>1 DEF Ranks
  <2> QED BY <1>2, <1>3, <2>1, <2>2
<1>5. \A i \in 1..n - 1 : new[i] <= owed
  BY <1>1, <1>2, <1>3
<1>6. \A i \in 1..n - 1 : Pushes(q[i]) => new[i] # 0 /\ ~Foreign(q[i])
  BY <1>1, <1>2, <1>3
<1> QED BY <1>0, <1>3, <1>4, <1>5, <1>6 DEF Ledger

\* Nothing, or one item nobody has greeted since, owes the push nothing.
LEMMA LedgerNew ==
  ASSUME NEW p, NEW n \in 0..1, NEW w, n = 0 \/ w # "push",
         NEW owed \in Nat, NEW stale \in Nat
  PROVE  Ledger(p, n, w, owed, stale)
<1> DEFINE new == [i \in 1..n |-> 0]
<1>1. new \in [1..n -> Nat] /\ \A i \in 1..n : new[i] = 0
  OBVIOUS
<1> HIDE DEF new
<1>2. Ranks(new, p, n)
  BY <1>1 DEF Ranks
<1>3. \A i \in 1..n : ~Behind(p, i, w)
  BY DEF Behind
<1> QED BY <1>1, <1>2, <1>3 DEF Ledger

\* Once enough answers were read, no old verdict can be left.
LEMMA NoVerdictLeft ==
  ASSUME NEW p, NEW n \in Nat, NEW owed \in Int, NEW stale \in Int,
         Ledger(p, n, "push", owed, stale), stale <= 0
  PROVE  \A i \in 1..n : ~Verdicts(p[i])
<1>1. PICK lab \in [1..n -> Nat] :
        /\ \A i \in 1..n : Pushes(p[i]) => lab[i] # 0
        /\ \A i \in 1..n : Verdicts(p[i]) => lab[i] <= stale
  BY DEF Ledger, Behind
<1>2. ASSUME NEW x, Verdicts(x) PROVE Pushes(x)
  BY <1>2 DEF Verdicts, Pushes
<1>3. \A i \in 1..n : lab[i] \in Nat
  OBVIOUS
<1> QED BY <1>1, <1>2, <1>3

-----------------------------------------------------------------------------
(* The types of the bridge and of the scratch register. *)

TokenTag == {"BLOK", "ack", "OKER", "ERSZ", "DACK", "DNAK", "DONE", "ECRC", "BYE"}
Tokens == [t : TokenTag] \cup [t : TokenTag, i : Nat]
DownOK == down \in Seq(Tokens)

\* Tokens carry their tags.
LEMMA TokenFacts ==
  \A t \in TokenTag :
    /\ Token(t) \in Tokens /\ Token(t).t = t
    /\ \A i \in Nat : ChunkToken(t, i) \in Tokens /\ ChunkToken(t, i).t = t
  BY DEF Token, ChunkToken, Tokens

\* Frames and tokens come and go at the ends of what is under way.
LEMMA ExtendsSeq ==
  ASSUME NEW S, NEW s \in Seq(S), NEW e \in S
  PROVE  /\ Append(s, e) \in Seq(S) /\ Len(Append(s, e)) = Len(s) + 1
         /\ Len(s) \in Nat /\ Append(s, e)[Len(s) + 1] = e
         /\ \A i \in 1..Len(s) : Append(s, e)[i] = s[i]
  OBVIOUS

\* The rest of a sequence, its one element, its head replaced.
LEMMA ShortensSeq ==
  ASSUME NEW S, NEW s \in Seq(S), s # <<>>
  PROVE  /\ Tail(s) \in Seq(S) /\ Len(Tail(s)) = Len(s) - 1
         /\ Len(s) \in Nat \ {0} /\ Head(s) = s[1] /\ Head(s) \in S
         /\ \A i \in 1..Len(s) - 1 : Tail(s)[i] = s[i + 1] /\ i + 1 \in 1..Len(s)
         /\ Tail(s) = <<>> <=> Len(s) = 1
<1>1. /\ Tail(s) \in Seq(S) /\ Len(Tail(s)) = Len(s) - 1
      /\ Len(s) \in Nat \ {0} /\ Head(s) = s[1] /\ Head(s) \in S
      /\ \A i \in 1..Len(s) - 1 : Tail(s)[i] = s[i + 1] /\ i + 1 \in 1..Len(s)
  OBVIOUS
<1>2. Tail(s) = <<>> <=> Len(Tail(s)) = 0
  BY <1>1, EmptySeq
<1> QED BY <1>1, <1>2

LEMMA SingleSeq ==
  ASSUME NEW e
  PROVE  /\ <<e>> # <<>> /\ Len(<<e>>) = 1 /\ Head(<<e>>) = e /\ Tail(<<e>>) = <<>>
         /\ <<e>>[1] = e
  OBVIOUS

LEMMA ReplaceHead ==
  ASSUME NEW S, NEW s \in Seq(S), s # <<>>, NEW e \in S
  PROVE  /\ <<e>> \o Tail(s) \in Seq(S) /\ Len(<<e>> \o Tail(s)) = Len(s)
         /\ (<<e>> \o Tail(s))[1] = e
         /\ \A i \in 2..Len(s) : (<<e>> \o Tail(s))[i] = s[i]
  OBVIOUS

\* Answers, drains and losses leave tokens on their way down.
LEMMA Replies ==
  ASSUME DownOK, NEW tok \in Tokens, Reply(tok)
  PROVE  DownOK'
  BY ExtendsSeq DEF DownOK, Reply

LEMMA DownKept ==
  ASSUME DownOK, down' \in {down, <<>>} \/ (down # <<>> /\ down' = Tail(down))
  PROVE  DownOK'
<1>1. <<>> \in Seq(Tokens)
  OBVIOUS
<1>2. down # <<>> => Tail(down) \in Seq(Tokens)
  BY ShortensSeq DEF DownOK
<1> QED BY <1>1, <1>2 DEF DownOK

\* Every step does.
LEMMA DownStep == UpOK /\ HostOK /\ DownOK /\ [TransferNext]_tvars => DownOK'
<1> SUFFICES ASSUME UpOK, HostOK, DownOK, [TransferNext]_tvars PROVE DownOK'
  OBVIOUS
<1>1. CASE Receive
  <2>1. up # <<>> => /\ Head(up) \in Frame
                     /\ Head(up).t = "DATA" => Head(up).i \in Nat
                     /\ Head(up).t = "BAD" /\ Head(up).f.t = "DATA" =>
                          Head(up).f.i \in Nat
    BY HeadIsFrame, FrameFields, CmdFields, SizesAssumption
  <2>2. Chunk \subseteq Nat
    BY SizesAssumption DEF Chunk
  <2>3. CASE RecvData
    <3>1. ChunkToken("DACK", Head(up).i) \in Tokens
      BY <2>1, <2>3, TokenFacts DEF TokenTag, RecvData, Arrives
    <3> QED BY <2>3, <3>1, Replies DEF RecvData
  <2>4. CASE RecvBadData
    <3>1. /\ ChunkToken("DNAK", Head(up).f.i) \in Tokens
          /\ \A j \in Chunk : ChunkToken("DACK", j) \in Tokens
      BY <2>1, <2>2, <2>4, TokenFacts DEF TokenTag, RecvBadData, Arrives
    <3> QED BY <2>4, <3>1, Replies, DownKept DEF RecvBadData
  <2>5. CASE RecvEnd
    <3>1. Token("DONE") \in Tokens /\ Token("ECRC") \in Tokens
      BY TokenFacts DEF TokenTag
    <3> QED BY <2>5, <3>1, Replies DEF RecvEnd
  <2>6. CASE RecvBadBegin
    <3>1. Token("ERSZ") \in Tokens
      BY TokenFacts DEF TokenTag
    <3> QED BY <2>6, <3>1, Replies, DownKept DEF RecvBadBegin
  <2>7. CASE RecvSync \/ RecvGo \/ AppTrigger
    <3>1. Token("BLOK") \in Tokens /\ Token("BYE") \in Tokens /\ Token("ack") \in Tokens
      BY TokenFacts DEF TokenTag
    <3> QED BY <2>7, <3>1, Replies DEF RecvSync, RecvGo, AppTrigger
  <2> QED
    BY <1>1, <2>3, <2>4, <2>5, <2>6, <2>7, DownKept
    DEF Receive, RecvJunk, RecvBegin, AppJunk, Unheard
<1>2. CASE Proceed
  <2>1. Token("OKER") \in Tokens
    BY TokenFacts DEF TokenTag
  <2> QED
    BY <1>2, <2>1, Replies, DownKept
    DEF Proceed, AppStart, BridgeRestarts, EraseOneSector, SlotErased, bridge
<1>3. CASE Host
  BY <1>3, DownKept
  DEF Host, Probe, SendTrigger, SendBegin, SendChunk, ChunkFailed, SendEnd,
      SendGo, ReadToken, Timeout, GiveUpWaiting, Drain, bridge
<1>4. CASE Fault
  BY <1>4, DownKept
  DEF Fault, LoseFrame, DamageFrame, OtherClient, AttemptFails, LateAnswer,
      GiveUpWaiting, PowerFails, BridgeRestarts, Reset, Take, bridge
<1> QED BY <1>1, <1>2, <1>3, <1>4, DownKept
        DEF TransferNext, ResetHung, Stopped, tvars, bridge

\* No update request outlives the reset it asked for.
ScratchOK == scratch = "magic" => pc = "reset"

\* Every step keeps ScratchOK.
LEMMA ScratchStep == ScratchOK /\ UpOK /\ [TransferNext]_tvars => ScratchOK'
<1> SUFFICES ASSUME ScratchOK, [Next]_vars PROVE ScratchOK'
  BY StepRefines
<1> QED
  BY DEF ScratchOK, Next, vars, Boot, DecideUpdateRequested, DecideNoRecord,
         DecideNoGoodImage, DecideConfirmed, DecideTrial, DecideGiveUp, Jump,
         ReadScratch, EnterRecovery, AppUp, AppHang, RequestUpdate, Recovery,
         Begin, BeginCutShort, EraseSector, EraseDone, Data, End, Go,
         PowerCycle, PowerCutInData

-----------------------------------------------------------------------------
(* How the way changes. *)

\* Every item may stand where it stands.
LEMMA WeakerSelf == \A x, T : Weaker(x, x, T)
  BY DEF Weaker

\* The same places, nothing stronger in any of them.
LEMMA Replaced ==
  ASSUME NEW p, NEW n \in Nat, NEW q, NEW T, \A i \in 1..n : Weaker(q[i], p[i], T)
  PROVE  Thinner(p, n, q, n, T)
<1>1. \A i \in 1..n : From(i, 0, 0) = i
  BY DEF From
<1>2. ThinsBy(p, n, q, n, T, 0, 0)
  BY <1>1 DEF ThinsBy
<1> QED BY <1>2 DEF Thinner

\* One place less.
LEMMA Removed ==
  ASSUME NEW p, NEW n \in Nat, NEW q, NEW T, NEW k \in 1..n,
         \A i \in 1..n - 1 : q[i] = p[IF i < k THEN i ELSE i + 1]
  PROVE  Thinner(p, n, q, n - 1, T)
<1>1. \A i \in 1..n - 1 : From(i, k, 1) = (IF i < k THEN i ELSE i + 1) /\ From(i, k, 1) \in 1..n
  BY DEF From
<1>2. ThinsBy(p, n, q, n - 1, T, k, 1)
  BY <1>1, WeakerSelf DEF ThinsBy
<1>3. k \in Nat
  OBVIOUS
<1> QED BY <1>2, <1>3 DEF Thinner

\* Where frame j is.
UpAt(d, e, j) == Len(d) + e + j

\* Every place holds a token, the erasing or a frame.
LEMMA PipeCovered ==
  ASSUME NEW d \in Seq(Tokens), NEW e \in 0..1, NEW u \in Seq(Frame),
         NEW i \in 1..Len(d) + e + Len(u)
  PROVE  \/ i \in 1..Len(d)
         \/ e = 1 /\ i = Len(d) + 1
         \/ \E j \in 1..Len(u) : i = UpAt(d, e, j)
<1>0. Len(d) \in Nat /\ Len(u) \in Nat /\ e \in Nat
  OBVIOUS
<1>1. CASE i > Len(d) + e
  <2>1. i - Len(d) - e \in 1..Len(u) /\ i = UpAt(d, e, i - Len(d) - e)
    BY <1>0, <1>1 DEF UpAt
  <2> QED BY <2>1
<1>2. CASE ~(i > Len(d) + e)
  BY <1>0, <1>2
<1> QED BY <1>1, <1>2

\* A reader of the way, place by place.
LEMMA PipeAt ==
  ASSUME NEW d \in Seq(Tokens), NEW e \in 0..1, NEW u \in Seq(Frame)
  PROVE  /\ Len(d) \in Nat /\ Len(u) \in Nat /\ Len(d) + e + Len(u) \in Nat
         /\ \A i \in 1..Len(d) :
              i \in 1..Len(d) + e + Len(u) /\ PipeOf(d, e, u)[i] = d[i]
         /\ e = 1 => /\ Len(d) + 1 \in 1..Len(d) + e + Len(u)
                     /\ PipeOf(d, e, u)[Len(d) + 1] = Okay
         /\ \A i \in 1..Len(u) : /\ Len(d) + e + i \in 1..Len(d) + e + Len(u)
                                 /\ PipeOf(d, e, u)[Len(d) + e + i] = u[i]
<1>1. Len(d) \in Nat /\ Len(u) \in Nat /\ e \in Nat
  OBVIOUS
<1>2. ASSUME NEW i \in 1..Len(d)
      PROVE  i \in 1..Len(d) + e + Len(u) /\ PipeOf(d, e, u)[i] = d[i]
  BY <1>1 DEF PipeOf
<1>3. ASSUME e = 1
      PROVE  /\ Len(d) + 1 \in 1..Len(d) + e + Len(u)
             /\ PipeOf(d, e, u)[Len(d) + 1] = Okay
  BY <1>1, <1>3 DEF PipeOf
<1>4. ASSUME NEW i \in 1..Len(u)
      PROVE  /\ Len(d) + e + i \in 1..Len(d) + e + Len(u)
             /\ PipeOf(d, e, u)[Len(d) + e + i] = u[i]
  <2>1. Len(d) + e + i \in 1..Len(d) + e + Len(u) /\ ~(Len(d) + e + i <= Len(d) + e)
        /\ ~(Len(d) + e + i <= Len(d)) /\ Len(d) + e + i - Len(d) - e = i
    BY <1>1
  <2> QED BY <2>1 DEF PipeOf
<1>6. Len(d) + e + Len(u) \in Nat
  BY <1>1
<1> QED BY <1>1, <1>2, <1>3, <1>4, <1>6

\* Frame j is where UpAt says.
LEMMA PipeUp ==
  ASSUME NEW d \in Seq(Tokens), NEW e \in 0..1, NEW u \in Seq(Frame), NEW j \in 1..Len(u)
  PROVE  /\ PipeOf(d, e, u)[UpAt(d, e, j)] = u[j]
         /\ UpAt(d, e, j) \in 1..Len(d) + e + Len(u)
  BY PipeAt DEF UpAt

\* s is r without its first element.
Shorter(s, r) ==
    /\ Len(s) = Len(r) - 1 /\ Len(r) \in Nat \ {0}
    /\ \A i \in 1..Len(r) - 1 : s[i] = r[i + 1] /\ i + 1 \in 1..Len(r)

\* Taking the first element makes a sequence Shorter.
LEMMA ShorterTail ==
  ASSUME NEW S, NEW s \in Seq(S), s # <<>>
  PROVE  Shorter(Tail(s), s) /\ Tail(s) \in Seq(S) /\ Head(s) = s[1] /\ Head(s) \in S
  BY ShortensSeq DEF Shorter

\* The first frame on its way up is taken or lost.
LEMMA FrameGone ==
  ASSUME NEW d \in Seq(Tokens), NEW e \in 0..1, NEW u \in Seq(Frame), NEW T,
         NEW v \in Seq(Frame), Shorter(v, u)
  PROVE  Thinner(PipeOf(d, e, u), Len(d) + e + Len(u),
                 PipeOf(d, e, v), Len(d) + e + Len(v), T)
<1> DEFINE n == Len(d) + e + Len(u)
           k == Len(d) + e + 1
<1>2. Len(d) \in Nat
  OBVIOUS
<1>3. k \in 1..n /\ n \in Nat /\ Len(d) + e + Len(v) = n - 1
  BY <1>2 DEF Shorter
<1>4. ASSUME NEW i \in 1..n - 1
      PROVE  PipeOf(d, e, v)[i] = PipeOf(d, e, u)[IF i < k THEN i ELSE i + 1]
  <2>1. CASE i \in 1..Len(d)
    <3>1. i < k
      BY <1>2, <2>1
    <3>2. PipeOf(d, e, v)[i] = d[i]
      BY <2>1, PipeAt
    <3>3. PipeOf(d, e, u)[i] = d[i]
      BY <2>1, PipeAt
    <3> QED BY <3>1, <3>2, <3>3
  <2>2. CASE e = 1 /\ i = Len(d) + 1
    <3>1. i < k
      BY <1>2, <2>2
    <3>2. PipeOf(d, e, v)[i] = Okay
      BY <2>2, PipeAt
    <3>3. PipeOf(d, e, u)[i] = Okay
      BY <2>2, PipeAt
    <3> QED BY <3>1, <3>2, <3>3
  <2>3. ASSUME NEW j \in 1..Len(v), i = UpAt(d, e, j)
        PROVE  PipeOf(d, e, v)[i] = PipeOf(d, e, u)[IF i < k THEN i ELSE i + 1]
    <3>1. j + 1 \in 1..Len(u) /\ i + 1 = UpAt(d, e, j + 1)
      BY <1>2, <2>3 DEF Shorter, UpAt
    <3>4. j \in 1..Len(u) - 1 /\ ~(i < k)
      BY <1>2, <2>3 DEF Shorter, UpAt
    <3>2. PipeOf(d, e, v)[i] = v[j]
      BY <2>3, PipeUp
    <3>3. PipeOf(d, e, u)[i + 1] = u[j + 1]
      BY <3>1, PipeUp
    <3> QED BY <3>2, <3>3, <3>4 DEF Shorter
  <2>4. i \in 1..Len(d) + e + Len(v)
    BY <1>3 DEF Shorter
  <2>5. \/ i \in 1..Len(d)
        \/ e = 1 /\ i = Len(d) + 1
        \/ \E j \in 1..Len(v) : i = UpAt(d, e, j)
    BY <2>4, PipeCovered
  <2> QED BY <2>1, <2>2, <2>3, <2>5
<1> HIDE DEF n, k
<1>5. Thinner(PipeOf(d, e, u), n, PipeOf(d, e, v), n - 1, T)
  BY <1>3, <1>4, Removed
<1> QED BY <1>3, <1>5 DEF n

\* The first token on its way down is read or lost.
LEMMA TokenGone ==
  ASSUME NEW d \in Seq(Tokens), NEW e \in 0..1, NEW u \in Seq(Frame), NEW T,
         NEW c \in Seq(Tokens), Shorter(c, d)
  PROVE  /\ Thinner(PipeOf(d, e, u), Len(d) + e + Len(u),
                    PipeOf(c, e, u), Len(c) + e + Len(u), T)
         /\ Ahead(PipeOf(d, e, u), Len(d) + e + Len(u),
                  PipeOf(c, e, u), Len(c) + e + Len(u))
         /\ PipeOf(d, e, u)[1] = d[1]
<1> DEFINE n == Len(d) + e + Len(u)
<1>2. Len(u) \in Nat
  OBVIOUS
<1>3. 1 \in 1..n /\ n \in Nat \ {0} /\ Len(c) + e + Len(u) = n - 1
  BY <1>2 DEF Shorter
<1>4. PipeOf(d, e, u)[1] = d[1]
  <2>1. 1 \in 1..Len(d)
    BY DEF Shorter
  <2> QED BY <2>1, PipeAt
<1>5. ASSUME NEW i \in 1..n - 1
      PROVE  PipeOf(c, e, u)[i] = PipeOf(d, e, u)[i + 1]
  <2>1. CASE i \in 1..Len(d) - 1
    <3>1. i \in 1..Len(c) /\ i + 1 \in 1..Len(d) /\ c[i] = d[i + 1]
      BY <2>1 DEF Shorter
    <3>2. PipeOf(c, e, u)[i] = c[i]
      BY <3>1, PipeAt
    <3>3. PipeOf(d, e, u)[i + 1] = d[i + 1]
      BY <3>1, PipeAt
    <3> QED BY <3>1, <3>2, <3>3
  <2>2. CASE e = 1 /\ i = Len(c) + 1
    <3>1. i + 1 = Len(d) + 1
      BY <2>2 DEF Shorter
    <3>2. PipeOf(c, e, u)[i] = Okay
      BY <2>2, PipeAt
    <3>3. PipeOf(d, e, u)[i + 1] = Okay
      BY <2>2, <3>1, PipeAt
    <3> QED BY <3>2, <3>3
  <2>3. ASSUME NEW j \in 1..Len(u), i = UpAt(c, e, j)
        PROVE  PipeOf(c, e, u)[i] = PipeOf(d, e, u)[i + 1]
    <3>1. i + 1 = UpAt(d, e, j)
      BY <1>2, <2>3 DEF Shorter, UpAt
    <3>2. PipeOf(c, e, u)[i] = u[j]
      BY <2>3, PipeUp
    <3>3. PipeOf(d, e, u)[i + 1] = u[j]
      BY <3>1, PipeUp
    <3> QED BY <3>2, <3>3
  <2>4. i \in 1..Len(c) + e + Len(u)
    BY <1>3 DEF Shorter
  <2>5. i \in 1..Len(c) => i \in 1..Len(d) - 1
    BY DEF Shorter
  <2>6. \/ i \in 1..Len(c)
        \/ e = 1 /\ i = Len(c) + 1
        \/ \E j \in 1..Len(u) : i = UpAt(c, e, j)
    BY <2>4, PipeCovered
  <2> QED BY <2>1, <2>2, <2>3, <2>5, <2>6
<1>6. \A i \in 1..n - 1 : PipeOf(c, e, u)[i] = PipeOf(d, e, u)[IF i < 1 THEN i ELSE i + 1]
  BY <1>5
<1> HIDE DEF n
<1>7. Thinner(PipeOf(d, e, u), n, PipeOf(c, e, u), n - 1, T)
  BY <1>3, <1>6, Removed
<1>8. Ahead(PipeOf(d, e, u), n, PipeOf(c, e, u), n - 1)
  BY <1>3, <1>5 DEF Ahead
<1> QED BY <1>3, <1>4, <1>7, <1>8 DEF n

\* s is r with x behind it.
Longer(s, r, x) ==
    /\ Len(s) = Len(r) + 1 /\ Len(r) \in Nat /\ s[Len(r) + 1] = x
    /\ \A i \in 1..Len(r) : s[i] = r[i]

\* Appending makes it Longer.
LEMMA LongerAppend ==
  ASSUME NEW S, NEW s \in Seq(S), NEW x \in S
  PROVE  Longer(Append(s, x), s, x) /\ Append(s, x) \in Seq(S)
  BY ExtendsSeq DEF Longer

\* The first frame on its way up is answered: the token stands where it stood.
LEMMA FrameAnswered ==
  ASSUME NEW d \in Seq(Tokens), NEW u \in Seq(Frame), NEW T, NEW tok,
         NEW c \in Seq(Tokens), Longer(c, d, tok),
         NEW v \in Seq(Frame), Shorter(v, u), Weaker(tok, u[1], T)
  PROVE  Thinner(PipeOf(d, 0, u), Len(d) + 0 + Len(u),
                 PipeOf(c, 0, v), Len(c) + 0 + Len(v), T)
<1> DEFINE n == Len(d) + 0 + Len(u)
<1>1. 0 \in 0..1
  OBVIOUS
<1>2. n \in Nat /\ Len(c) + 0 + Len(v) = n
  BY DEF Shorter, Longer
<1>3. ASSUME NEW i \in 1..n PROVE Weaker(PipeOf(c, 0, v)[i], PipeOf(d, 0, u)[i], T)
  <2>1. CASE i \in 1..Len(d)
    <3>1. i \in 1..Len(c) /\ c[i] = d[i]
      BY <2>1 DEF Longer
    <3>2. PipeOf(c, 0, v)[i] = c[i]
      BY <1>1, <3>1, PipeAt
    <3>3. PipeOf(d, 0, u)[i] = d[i]
      BY <1>1, <2>1, PipeAt
    <3> QED BY <3>1, <3>2, <3>3, WeakerSelf
  <2>2. CASE i = Len(d) + 1
    <3>1. i \in 1..Len(c) /\ c[i] = tok
      BY <2>2 DEF Longer
    <3>2. i = UpAt(d, 0, 1) /\ 1 \in 1..Len(u)
      BY <2>2 DEF Longer, Shorter, UpAt
    <3>3. PipeOf(c, 0, v)[i] = c[i]
      BY <1>1, <3>1, PipeAt
    <3>4. PipeOf(d, 0, u)[i] = u[1]
      BY <1>1, <3>2, PipeUp
    <3> QED BY <3>1, <3>3, <3>4
  <2>3. ASSUME NEW j \in 1..Len(v), i = UpAt(c, 0, j)
        PROVE  Weaker(PipeOf(c, 0, v)[i], PipeOf(d, 0, u)[i], T)
    <3>1. i = UpAt(d, 0, j + 1)
      BY <2>3 DEF Longer, UpAt
    <3>2. j + 1 \in 1..Len(u) /\ v[j] = u[j + 1]
      BY DEF Shorter
    <3>3. PipeOf(c, 0, v)[i] = v[j]
      BY <1>1, <2>3, PipeUp
    <3>4. PipeOf(d, 0, u)[i] = u[j + 1]
      BY <1>1, <3>1, <3>2, PipeUp
    <3> QED BY <3>2, <3>3, <3>4, WeakerSelf
  <2>4. i \in 1..Len(c) + 0 + Len(v)
    BY <1>2
  <2>5. i \in 1..Len(c) \/ \E j \in 1..Len(v) : i = UpAt(c, 0, j)
    BY <1>1, <2>4, PipeCovered
  <2>6. i \in 1..Len(c) => i \in 1..Len(d) \/ i = Len(d) + 1
    BY DEF Longer
  <2> QED BY <2>1, <2>2, <2>3, <2>5, <2>6
<1> HIDE DEF n
<1> QED BY <1>2, <1>3, Replaced DEF n

\* BEGN starts the erasing, whose end OKER will tell.
LEMMA BeginTaken ==
  ASSUME NEW d \in Seq(Tokens), NEW u \in Seq(Frame), NEW T,
         NEW v \in Seq(Frame), Shorter(v, u), Weaker(Okay, u[1], T)
  PROVE  Thinner(PipeOf(d, 0, u), Len(d) + 0 + Len(u),
                 PipeOf(d, 1, v), Len(d) + 1 + Len(v), T)
<1> DEFINE n == Len(d) + 0 + Len(u)
<1>1. 0 \in 0..1 /\ 1 \in 0..1 /\ Len(d) \in Nat
  OBVIOUS
<1>2. n \in Nat /\ Len(d) + 1 + Len(v) = n
  BY <1>1 DEF Shorter
<1>3. ASSUME NEW i \in 1..n PROVE Weaker(PipeOf(d, 1, v)[i], PipeOf(d, 0, u)[i], T)
  <2>1. CASE i \in 1..Len(d)
    <3>1. PipeOf(d, 1, v)[i] = d[i]
      BY <1>1, <2>1, PipeAt
    <3>2. PipeOf(d, 0, u)[i] = d[i]
      BY <1>1, <2>1, PipeAt
    <3> QED BY <3>1, <3>2, WeakerSelf
  <2>2. CASE i = Len(d) + 1
    <3>1. i = UpAt(d, 0, 1) /\ 1 \in 1..Len(u)
      BY <1>1, <2>2 DEF Shorter, UpAt
    <3>2. PipeOf(d, 1, v)[i] = Okay
      BY <1>1, <2>2, PipeAt
    <3>3. PipeOf(d, 0, u)[i] = u[1]
      BY <1>1, <3>1, PipeUp
    <3> QED BY <3>2, <3>3
  <2>3. ASSUME NEW j \in 1..Len(v), i = UpAt(d, 1, j)
        PROVE  Weaker(PipeOf(d, 1, v)[i], PipeOf(d, 0, u)[i], T)
    <3>1. i = UpAt(d, 0, j + 1)
      BY <1>1, <2>3 DEF UpAt
    <3>2. j + 1 \in 1..Len(u) /\ v[j] = u[j + 1]
      BY DEF Shorter
    <3>3. PipeOf(d, 1, v)[i] = v[j]
      BY <1>1, <2>3, PipeUp
    <3>4. PipeOf(d, 0, u)[i] = u[j + 1]
      BY <1>1, <3>1, <3>2, PipeUp
    <3> QED BY <3>2, <3>3, <3>4, WeakerSelf
  <2>4. i \in 1..Len(d) + 1 + Len(v)
    BY <1>2
  <2>5. i \in 1..Len(d) \/ i = Len(d) + 1 \/ \E j \in 1..Len(v) : i = UpAt(d, 1, j)
    BY <1>1, <2>4, PipeCovered
  <2> QED BY <2>1, <2>2, <2>3, <2>5
<1> HIDE DEF n
<1> QED BY <1>2, <1>3, Replaced DEF n

\* OKER is sent.
LEMMA OkayTold ==
  ASSUME NEW d \in Seq(Tokens), NEW u \in Seq(Frame), NEW T,
         NEW c \in Seq(Tokens), Longer(c, d, Okay)
  PROVE  Thinner(PipeOf(d, 1, u), Len(d) + 1 + Len(u),
                 PipeOf(c, 0, u), Len(c) + 0 + Len(u), T)
<1> DEFINE n == Len(d) + 1 + Len(u)
<1>1. 0 \in 0..1 /\ 1 \in 0..1 /\ Len(d) \in Nat /\ Len(u) \in Nat
  OBVIOUS
<1>2. n \in Nat /\ Len(c) + 0 + Len(u) = n
  BY <1>1 DEF Longer
<1>3. ASSUME NEW i \in 1..n PROVE PipeOf(c, 0, u)[i] = PipeOf(d, 1, u)[i]
  <2>1. CASE i \in 1..Len(d)
    <3>1. i \in 1..Len(c) /\ c[i] = d[i]
      BY <2>1 DEF Longer
    <3>2. PipeOf(c, 0, u)[i] = c[i]
      BY <1>1, <3>1, PipeAt
    <3>3. PipeOf(d, 1, u)[i] = d[i]
      BY <1>1, <2>1, PipeAt
    <3> QED BY <3>1, <3>2, <3>3
  <2>2. CASE i = Len(d) + 1
    <3>1. i \in 1..Len(c) /\ c[i] = Okay
      BY <2>2 DEF Longer
    <3>2. PipeOf(c, 0, u)[i] = c[i]
      BY <1>1, <3>1, PipeAt
    <3>3. PipeOf(d, 1, u)[i] = Okay
      BY <1>1, <2>2, PipeAt
    <3> QED BY <3>1, <3>2, <3>3
  <2>3. ASSUME NEW j \in 1..Len(u), i = UpAt(d, 1, j)
        PROVE  PipeOf(c, 0, u)[i] = PipeOf(d, 1, u)[i]
    <3>1. i = UpAt(c, 0, j)
      BY <2>3 DEF Longer, UpAt
    <3>2. PipeOf(c, 0, u)[i] = u[j]
      BY <1>1, <3>1, PipeUp
    <3>3. PipeOf(d, 1, u)[i] = u[j]
      BY <1>1, <2>3, PipeUp
    <3> QED BY <3>2, <3>3
  <2>4. i \in 1..Len(d) \/ i = Len(d) + 1 \/ \E j \in 1..Len(u) : i = UpAt(d, 1, j)
    BY <1>1, PipeCovered
  <2> QED BY <2>1, <2>2, <2>3, <2>4
<1>4. \A i \in 1..n : Weaker(PipeOf(c, 0, u)[i], PipeOf(d, 1, u)[i], T)
  BY <1>3, WeakerSelf
<1> HIDE DEF n
<1> QED BY <1>2, <1>4, Replaced DEF n

\* A reset ends the erasing.
LEMMA EraseForgotten ==
  ASSUME NEW d \in Seq(Tokens), NEW u \in Seq(Frame), NEW T
  PROVE  Thinner(PipeOf(d, 1, u), Len(d) + 1 + Len(u),
                 PipeOf(d, 0, u), Len(d) + 0 + Len(u), T)
<1> DEFINE n == Len(d) + 1 + Len(u)
           k == Len(d) + 1
<1>1. 0 \in 0..1 /\ 1 \in 0..1 /\ Len(d) \in Nat /\ Len(u) \in Nat
  OBVIOUS
<1>2. n \in Nat /\ k \in 1..n /\ Len(d) + 0 + Len(u) = n - 1
  BY <1>1
<1>3. ASSUME NEW i \in 1..n - 1
      PROVE  PipeOf(d, 0, u)[i] = PipeOf(d, 1, u)[IF i < k THEN i ELSE i + 1]
  <2>1. CASE i \in 1..Len(d)
    <3>1. i < k
      BY <1>1, <2>1
    <3>2. PipeOf(d, 0, u)[i] = d[i]
      BY <1>1, <2>1, PipeAt
    <3>3. PipeOf(d, 1, u)[i] = d[i]
      BY <1>1, <2>1, PipeAt
    <3> QED BY <3>1, <3>2, <3>3
  <2>2. ASSUME NEW j \in 1..Len(u), i = UpAt(d, 0, j)
        PROVE  PipeOf(d, 0, u)[i] = PipeOf(d, 1, u)[IF i < k THEN i ELSE i + 1]
    <3>1. i + 1 = UpAt(d, 1, j)
      BY <1>1, <2>2 DEF UpAt
    <3>2. ~(i < k)
      BY <1>1, <2>2 DEF UpAt
    <3>3. PipeOf(d, 0, u)[i] = u[j]
      BY <1>1, <2>2, PipeUp
    <3>4. PipeOf(d, 1, u)[i + 1] = u[j]
      BY <1>1, <3>1, PipeUp
    <3> QED BY <3>2, <3>3, <3>4
  <2>3. i \in 1..Len(d) + 0 + Len(u)
    BY <1>2
  <2>4. i \in 1..Len(d) \/ \E j \in 1..Len(u) : i = UpAt(d, 0, j)
    BY <1>1, <2>3, PipeCovered
  <2> QED BY <2>1, <2>2, <2>4
<1> HIDE DEF n, k
<1>4. Thinner(PipeOf(d, 1, u), n, PipeOf(d, 0, u), n - 1, T)
  BY <1>2, <1>3, Removed
<1> QED BY <1>2, <1>4 DEF n

\* The first frame on its way up is damaged.
LEMMA FrameSpoilt ==
  ASSUME NEW d \in Seq(Tokens), NEW e \in 0..1, NEW u \in Seq(Frame), NEW T,
         NEW v \in Seq(Frame), Len(v) = Len(u), Weaker(v[1], u[1], T),
         \A i \in 2..Len(u) : v[i] = u[i]
  PROVE  Thinner(PipeOf(d, e, u), Len(d) + e + Len(u),
                 PipeOf(d, e, v), Len(d) + e + Len(v), T)
<1> DEFINE n == Len(d) + e + Len(u)
<1>1. n \in Nat
  OBVIOUS
<1>2. ASSUME NEW i \in 1..n PROVE Weaker(PipeOf(d, e, v)[i], PipeOf(d, e, u)[i], T)
  <2>1. CASE i \in 1..Len(d)
    <3>1. PipeOf(d, e, v)[i] = d[i]
      BY <2>1, PipeAt
    <3>2. PipeOf(d, e, u)[i] = d[i]
      BY <2>1, PipeAt
    <3> QED BY <3>1, <3>2, WeakerSelf
  <2>2. CASE e = 1 /\ i = Len(d) + 1
    <3>1. PipeOf(d, e, v)[i] = Okay
      BY <2>2, PipeAt
    <3>2. PipeOf(d, e, u)[i] = Okay
      BY <2>2, PipeAt
    <3> QED BY <3>1, <3>2, WeakerSelf
  <2>3. ASSUME NEW j \in 1..Len(u), i = UpAt(d, e, j)
        PROVE  Weaker(PipeOf(d, e, v)[i], PipeOf(d, e, u)[i], T)
    <3>1. Weaker(v[j], u[j], T)
      <4>1. CASE j = 1
        BY <4>1
      <4>2. CASE j # 1
        <5>1. j \in 2..Len(u)
          BY <4>2
        <5> QED BY <5>1, WeakerSelf
      <4> QED BY <4>1, <4>2
    <3>2. PipeOf(d, e, v)[i] = v[j]
      BY <2>3, PipeUp
    <3>3. PipeOf(d, e, u)[i] = u[j]
      BY <2>3, PipeUp
    <3> QED BY <3>1, <3>2, <3>3
  <2>4. \/ i \in 1..Len(d)
        \/ e = 1 /\ i = Len(d) + 1
        \/ \E j \in 1..Len(u) : i = UpAt(d, e, j)
    BY PipeCovered
  <2> QED BY <2>1, <2>2, <2>3, <2>4
<1> HIDE DEF n
<1> QED BY <1>1, <1>2, Replaced DEF n

\* One way or the other is emptied.
Nothing(s) == Len(s) = 0

\* The tokens are drained.
LEMMA TokensCleared ==
  ASSUME NEW d \in Seq(Tokens), NEW e \in 0..1, NEW u \in Seq(Frame), NEW T,
         NEW c \in Seq(Tokens), Nothing(c)
  PROVE  Thinner(PipeOf(d, e, u), Len(d) + e + Len(u),
                 PipeOf(c, e, u), Len(c) + e + Len(u), T)
<1> DEFINE x == Len(d)
           n == Len(d) + e + Len(u)
           m == Len(c) + e + Len(u)
<1>1. x \in Nat /\ Len(u) \in Nat /\ c \in Seq(Tokens)
  OBVIOUS
<1>6. Len(c) = 0
  BY DEF Nothing
<1>2. ASSUME NEW i \in 1..m
      PROVE  i + x \in 1..n /\ PipeOf(c, e, u)[i] = PipeOf(d, e, u)[i + x]
  <2>1. i + x \in 1..n
    BY <1>1, <1>6
  <2>2. CASE e = 1 /\ i = Len(c) + 1
    <3>1. i + x = Len(d) + 1
      BY <1>1, <1>6, <2>2
    <3>2. PipeOf(c, e, u)[i] = Okay
      BY <1>1, <2>2, PipeAt
    <3>3. PipeOf(d, e, u)[i + x] = Okay
      BY <2>2, <3>1, PipeAt
    <3> QED BY <2>1, <3>2, <3>3
  <2>3. ASSUME NEW j \in 1..Len(u), i = UpAt(c, e, j)
        PROVE  PipeOf(c, e, u)[i] = PipeOf(d, e, u)[i + x]
    <3>1. i + x = UpAt(d, e, j)
      BY <1>1, <1>6, <2>3 DEF UpAt
    <3>2. PipeOf(c, e, u)[i] = u[j]
      BY <1>1, <2>3, PipeUp
    <3>3. PipeOf(d, e, u)[i + x] = u[j]
      BY <3>1, PipeUp
    <3> QED BY <3>2, <3>3
  <2>4. ~(i \in 1..Len(c))
    BY <1>6
  <2>5. \/ e = 1 /\ i = Len(c) + 1
        \/ \E j \in 1..Len(u) : i = UpAt(c, e, j)
    BY <1>1, <2>4, PipeCovered
  <2> QED BY <2>1, <2>2, <2>3, <2>5
<1>3. \A i \in 1..m : From(i, 0, x) = i + x
  BY DEF From
<1> HIDE DEF x, n, m
<1>4. ThinsBy(PipeOf(d, e, u), n, PipeOf(c, e, u), m, T, 0, x)
  BY <1>2, <1>3, WeakerSelf DEF ThinsBy
<1>5. Thinner(PipeOf(d, e, u), n, PipeOf(c, e, u), m, T)
  BY <1>1, <1>4 DEF Thinner
<1> QED BY <1>5 DEF n, m

\* The frames are dropped.
LEMMA FramesCleared ==
  ASSUME NEW d \in Seq(Tokens), NEW e \in 0..1, NEW u \in Seq(Frame), NEW T
  PROVE  Thinner(PipeOf(d, e, u), Len(d) + e + Len(u),
                 PipeOf(d, e, <<>>), Len(d) + e + Len(<<>>), T)
<1> DEFINE n == Len(d) + e + Len(u)
           m == Len(d) + e + Len(<<>>)
<1>1. Len(d) \in Nat /\ Len(u) \in Nat /\ <<>> \in Seq(Frame) /\ Len(<<>>) = 0
  OBVIOUS
<1>2. ASSUME NEW i \in 1..m
      PROVE  i \in 1..n /\ PipeOf(d, e, <<>>)[i] = PipeOf(d, e, u)[i]
  <2>1. i \in 1..n /\ i <= Len(d) + e
    BY <1>1
  <2> QED BY <2>1 DEF PipeOf
<1>3. \A i \in 1..m : From(i, 0, 0) = i
  BY DEF From
<1> HIDE DEF n, m
<1>4. ThinsBy(PipeOf(d, e, u), n, PipeOf(d, e, <<>>), m, T, 0, 0)
  BY <1>2, <1>3, WeakerSelf DEF ThinsBy
<1>5. Thinner(PipeOf(d, e, u), n, PipeOf(d, e, <<>>), m, T)
  BY <1>4 DEF Thinner
<1> QED BY <1>5 DEF n, m

\* Nothing is thinner than anything.
LEMMA NothingThere ==
  ASSUME NEW p, NEW n, NEW q, NEW T
  PROVE  Thinner(p, n, q, 0, T)
<1>1. ThinsBy(p, n, q, 0, T, 0, 0)
  BY DEF ThinsBy
<1> QED BY <1>1 DEF Thinner

-----------------------------------------------------------------------------
(* The way in the model. *)

\* The way in the model; an erasing under way stands for its OKER.
Erasing == IF pc = "erase" THEN 1 ELSE 0
Way == PipeOf(down, Erasing, up)
WayLen == Len(down) + Erasing + Len(up)

\* The step leaves a thinner way.
Thins(T) == Thinner(Way, WayLen, Way', WayLen', T)

\* A frame is taken or lost without an answer.
LEMMA TakenThins ==
  ASSUME UpOK, DownOK, NEW T, up # <<>>, up' = Tail(up), down' = down,
         Erasing' = Erasing
  PROVE  Thins(T)
<1>1. Shorter(up', up) /\ up' \in Seq(Frame) /\ Erasing \in 0..1
  BY ShorterTail DEF UpOK, Erasing
<1>2. down \in Seq(Tokens) /\ up \in Seq(Frame)
  BY DEF UpOK, DownOK
<1>3. Thinner(PipeOf(down, Erasing, up), Len(down) + Erasing + Len(up),
              PipeOf(down, Erasing, up'), Len(down) + Erasing + Len(up'), T)
  BY <1>1, <1>2, FrameGone
<1> QED BY <1>3 DEF Thins, Way, WayLen

\* A token is read or lost.
LEMMA ReadThins ==
  ASSUME UpOK, DownOK, NEW T, down # <<>>, down' = Tail(down), up' = up,
         Erasing' = Erasing
  PROVE  Thins(T) /\ Ahead(Way, WayLen, Way', WayLen') /\ Way[1] = Head(down)
<1>1. Shorter(down', down) /\ down' \in Seq(Tokens) /\ Erasing \in 0..1
      /\ Head(down) = down[1]
  BY ShorterTail DEF DownOK, Erasing
<1>2. down \in Seq(Tokens) /\ up \in Seq(Frame)
  BY DEF UpOK, DownOK
<1>3. Thinner(PipeOf(down, Erasing, up), Len(down) + Erasing + Len(up),
              PipeOf(down', Erasing, up), Len(down') + Erasing + Len(up), T)
  BY <1>1, <1>2, TokenGone
<1>4. Ahead(PipeOf(down, Erasing, up), Len(down) + Erasing + Len(up),
            PipeOf(down', Erasing, up), Len(down') + Erasing + Len(up))
  BY <1>1, <1>2, TokenGone
<1>5. PipeOf(down, Erasing, up)[1] = down[1]
  BY <1>1, <1>2, TokenGone
<1>6. Way' = PipeOf(down', Erasing, up) /\ WayLen' = Len(down') + Erasing + Len(up)
  BY DEF Way, WayLen
<1> QED BY <1>1, <1>3, <1>4, <1>5, <1>6 DEF Thins, Way, WayLen

\* A frame is answered at once.
LEMMA AnsweredThins ==
  ASSUME UpOK, DownOK, NEW T, up # <<>>, up' = Tail(up), NEW tok \in Tokens,
         down' = Append(down, tok), pc # "erase", pc' # "erase",
         Weaker(tok, Head(up), T)
  PROVE  Thins(T)
<1>1. Shorter(up', up) /\ up' \in Seq(Frame) /\ Weaker(tok, up[1], T)
  BY ShorterTail DEF UpOK
<1>2. Longer(down', down, tok) /\ down' \in Seq(Tokens)
  BY LongerAppend DEF DownOK
<1>3. down \in Seq(Tokens) /\ up \in Seq(Frame) /\ Erasing = 0 /\ Erasing' = 0
  BY DEF UpOK, DownOK, Erasing
<1>4. Thinner(PipeOf(down, 0, up), Len(down) + 0 + Len(up),
              PipeOf(down', 0, up'), Len(down') + 0 + Len(up'), T)
  BY <1>1, <1>2, <1>3, FrameAnswered
<1> QED BY <1>3, <1>4 DEF Thins, Way, WayLen

\* A BEGN starts the erasing.
LEMMA BegunThins ==
  ASSUME UpOK, DownOK, NEW T, up # <<>>, up' = Tail(up), down' = down,
         pc # "erase", pc' = "erase", Weaker(Okay, Head(up), T)
  PROVE  Thins(T)
<1>1. Shorter(up', up) /\ up' \in Seq(Frame) /\ Weaker(Okay, up[1], T)
  BY ShorterTail DEF UpOK
<1>2. down \in Seq(Tokens) /\ up \in Seq(Frame) /\ Erasing = 0 /\ Erasing' = 1
  BY DEF UpOK, DownOK, Erasing
<1>3. Thinner(PipeOf(down, 0, up), Len(down) + 0 + Len(up),
              PipeOf(down, 1, up'), Len(down) + 1 + Len(up'), T)
  BY <1>1, <1>2, BeginTaken
<1> QED BY <1>2, <1>3 DEF Thins, Way, WayLen

\* The erasing ends with OKER.
LEMMA ToldThins ==
  ASSUME UpOK, DownOK, NEW T, up' = up, down' = Append(down, Okay),
         pc = "erase", pc' # "erase"
  PROVE  Thins(T)
<1>1. Okay \in Tokens
  BY TokenFacts DEF Okay, TokenTag
<1>2. Longer(down', down, Okay) /\ down' \in Seq(Tokens)
  BY <1>1, LongerAppend DEF DownOK
<1>3. down \in Seq(Tokens) /\ up \in Seq(Frame) /\ Erasing = 1 /\ Erasing' = 0
  BY DEF UpOK, DownOK, Erasing
<1>4. Thinner(PipeOf(down, 1, up), Len(down) + 1 + Len(up),
              PipeOf(down', 0, up), Len(down') + 0 + Len(up), T)
  BY <1>2, <1>3, OkayTold
<1> QED BY <1>3, <1>4 DEF Thins, Way, WayLen

\* A reset ends the erasing without it.
LEMMA ForgottenThins ==
  ASSUME UpOK, DownOK, NEW T, up' = up, down' = down, pc = "erase", pc' # "erase"
  PROVE  Thins(T)
<1>1. down \in Seq(Tokens) /\ up \in Seq(Frame) /\ Erasing = 1 /\ Erasing' = 0
  BY DEF UpOK, DownOK, Erasing
<1>2. Thinner(PipeOf(down, 1, up), Len(down) + 1 + Len(up),
              PipeOf(down, 0, up), Len(down) + 0 + Len(up), T)
  BY <1>1, EraseForgotten
<1> QED BY <1>1, <1>2 DEF Thins, Way, WayLen

\* A frame is damaged under way.
LEMMA SpoiltThins ==
  ASSUME UpOK, DownOK, NEW T, up # <<>>, NEW b \in Frame, up' = <<b>> \o Tail(up),
         down' = down, Erasing' = Erasing, Weaker(b, Head(up), T)
  PROVE  Thins(T)
<1>1. /\ up' \in Seq(Frame) /\ Len(up') = Len(up) /\ up'[1] = b /\ Head(up) = up[1]
      /\ \A i \in 2..Len(up) : up'[i] = up[i]
  BY ReplaceHead, ShortensSeq DEF UpOK
<1>2. down \in Seq(Tokens) /\ up \in Seq(Frame) /\ Erasing \in 0..1
  BY DEF UpOK, DownOK, Erasing
<1>3. Weaker(up'[1], up[1], T)
  BY <1>1
<1>4. Thinner(PipeOf(down, Erasing, up), Len(down) + Erasing + Len(up),
              PipeOf(down, Erasing, up'), Len(down) + Erasing + Len(up'), T)
  BY <1>1, <1>2, <1>3, FrameSpoilt
<1> QED BY <1>4 DEF Thins, Way, WayLen

\* The way is finite and made of tokens and frames.
LEMMA WayLenType ==
  ASSUME UpOK, DownOK
  PROVE  WayLen \in Nat /\ Erasing \in 0..1 /\ down \in Seq(Tokens) /\ up \in Seq(Frame)
<1>1. Erasing \in 0..1 /\ down \in Seq(Tokens) /\ up \in Seq(Frame)
  BY DEF UpOK, DownOK, Erasing
<1> QED BY <1>1, PipeAt DEF WayLen

\* Nothing moves, or nothing is left.
LEMMA StillThins ==
  ASSUME UpOK, DownOK, NEW T, up' = up, down' = down, Erasing' = Erasing
  PROVE  Thins(T)
<1>1. Way' = Way /\ WayLen' = WayLen
  BY DEF Way, WayLen
<1>2. \A i \in 1..WayLen : Weaker(Way[i], Way[i], T)
  BY WeakerSelf
<1> QED BY <1>1, <1>2, WayLenType, Replaced DEF Thins

LEMMA EmptiedThins ==
  ASSUME NEW T, up' = <<>>, down' = <<>>, pc' # "erase"
  PROVE  Thins(T) /\ WayLen' = 0
<1>1. WayLen' = 0
  BY DEF WayLen, Erasing
<1> QED BY <1>1, NothingThere DEF Thins

-----------------------------------------------------------------------------
(* What a step of the panel, or a fault on its side, does to the way. *)

\* The panel answers tok; the host does nothing.
Replied(tok) == tok \in Tokens /\ down' = Append(down, tok)
KeepsHost == UNCHANGED <<hpc, off, sends, attempt>>

\* What a token may stand in for.
LEMMA TokenWeaker ==
  ASSUME NEW tok, NEW f, NEW T, tok.t \in TokenTag, tok.t \notin T,
         tok.t = "BLOK" => f.t = "SYNC",
         tok.t \in {"OKER", "DACK", "DNAK", "DONE", "ECRC"} =>
           f.t \in {"BEGN", "DATA", "END", "BAD"},
         tok.t = "DONE" => f.t = "END"
  PROVE  Weaker(tok, f, T)
  BY DEF Weaker, Greets, Pushes, Verdicts, Foreign, TokenTag

\* What a damaged frame may stand in for.
LEMMA BadWeaker ==
  ASSUME NEW b, NEW f, NEW T, b.t = "BAD", "BAD" \notin T, f.t \in {"BEGN", "DATA"}
  PROVE  Weaker(b, f, T)
  BY DEF Weaker, Greets, Pushes, Verdicts, Foreign

\* The panel takes a frame in.
LEMMA Takes ==
  ASSUME Receive, UpOK
  PROVE  /\ up # <<>> /\ up' = Tail(up) /\ linked' = linked /\ KeepsHost
         /\ UNCHANGED pressed
         /\ Head(up) \in Frame
         /\ pc # "erase"
  BY HeadIsFrame
  DEF Receive, RecvSync, RecvJunk, RecvBegin, RecvBadBegin, RecvData,
      RecvBadData, RecvEnd, RecvGo, AppTrigger, AppJunk, Unheard, Take, Arrives,
      KeepsHost, host

\* The tokens the panel answers with, by the frame.
LEMMA Answers ==
  ASSUME Receive, UpOK
  PROVE  \/ down' = down /\ pc' # "erase"
         \/ down' = down /\ pc' = "erase" /\ Head(up).t \in {"BEGN", "BAD"}
         \/ /\ pc' # "erase"
            /\ \E tok : /\ Replied(tok) /\ tok.t \in TokenTag /\ tok.t # "OKER"
                        /\ tok.t = "BLOK" => Head(up).t = "SYNC"
                        /\ tok.t \in {"DACK", "DNAK", "DONE", "ECRC"} =>
                             Head(up).t \in {"DATA", "END", "BAD"}
                        /\ tok.t = "DONE" => Head(up).t = "END" /\ RecvEnd
<1>1. /\ Head(up).t = "DATA" => Head(up).i \in Nat
      /\ Head(up).t = "BAD" /\ Head(up).f.t = "DATA" => Head(up).f.i \in Nat
  BY Takes, FrameFields, CmdFields, SizesAssumption
<1>2. Chunk \subseteq Nat
  BY SizesAssumption DEF Chunk
<1> USE DEF Reply, Replied
<1>3. CASE RecvData
  <2>1. /\ ChunkToken("DACK", Head(up).i) \in Tokens
        /\ ChunkToken("DACK", Head(up).i).t = "DACK"
    BY <1>1, <1>3, TokenFacts DEF RecvData, Arrives, TokenTag
  <2> QED BY <1>3, <2>1 DEF RecvData, Arrives, Data, recovery, TokenTag
<1>4. CASE RecvBadData
  <2>1. /\ ChunkToken("DNAK", Head(up).f.i) \in Tokens
        /\ ChunkToken("DNAK", Head(up).f.i).t = "DNAK"
        /\ \A j \in Chunk : ChunkToken("DACK", j) \in Tokens
                            /\ ChunkToken("DACK", j).t = "DACK"
    BY <1>1, <1>2, <1>4, TokenFacts DEF RecvBadData, Arrives, TokenTag
  <2> QED BY <1>4, <2>1 DEF RecvBadData, Arrives, Data, recovery, vars, TokenTag
<1>5. CASE RecvBadBegin
  <2>1. Token("ERSZ") \in Tokens /\ Token("ERSZ").t = "ERSZ"
    BY TokenFacts DEF TokenTag
  <2>2. CASE UNCHANGED <<vars, down>>
    BY <1>5, <2>2 DEF RecvBadBegin, vars
  <2>3. ASSUME NEW n \in 0..SlotChunks + 1, BeginCutShort(n), UNCHANGED down
        PROVE  down' = down /\ pc' # "erase"
    BY <2>3 DEF BeginCutShort
  <2>4. ASSUME NEW n \in 0..SlotChunks + 1, Begin(n, BadCrc),
               IF n \in Chunk THEN UNCHANGED down ELSE Reply(Token("ERSZ"))
        PROVE  \/ down' = down /\ pc' = "erase"
               \/ pc' # "erase" /\ Reply(Token("ERSZ"))
    <3>1. n \in Chunk <=> ~(n = 0 \/ n > SlotChunks)
      BY SizesAssumption DEF Chunk
    <3> QED BY <2>4, <3>1 DEF Begin
  <2>5. Head(up).t = "BAD"
    BY <1>5 DEF RecvBadBegin, Arrives
  <2>6. CASE pc' # "erase" /\ Reply(Token("ERSZ"))
    BY <2>1, <2>6 DEF TokenTag
  <2> QED BY <1>5, <2>2, <2>3, <2>4, <2>5, <2>6 DEF RecvBadBegin
<1>6. CASE RecvEnd
  <2>1. \A t \in {"DONE", "ECRC"} : Token(t) \in Tokens /\ Token(t).t = t
    BY TokenFacts DEF TokenTag
  <2> QED BY <1>6, <2>1 DEF RecvEnd, End, recovery, Arrives, TokenTag
<1>7. CASE RecvSync \/ RecvGo \/ AppTrigger
  <2>1. \A t \in {"BLOK", "BYE", "ack"} : Token(t) \in Tokens /\ Token(t).t = t
    BY TokenFacts DEF TokenTag
  <2>2. CASE RecvSync
    BY <2>1, <2>2 DEF RecvSync, Arrives, vars, TokenTag
  <2>3. CASE RecvGo
    BY <2>1, <2>3 DEF RecvGo, Go, Arrives, TokenTag
  <2>4. CASE AppTrigger
    BY <2>1, <2>4 DEF AppTrigger, RequestUpdate, Arrives, TokenTag
  <2> QED BY <1>7, <2>2, <2>3, <2>4
<1>8. CASE RecvBegin
  BY <1>8 DEF RecvBegin, Begin, Arrives
<1>9. CASE RecvJunk \/ AppJunk \/ Unheard
  BY <1>9, Takes DEF RecvJunk, AppJunk, Unheard, vars
<1> QED BY <1>3, <1>4, <1>5, <1>6, <1>7, <1>8, <1>9 DEF Receive

\* OKER or DONE stand where they stood, except where a step starts to erase or
\* answers END.
LEMMA ReceiveThins ==
  ASSUME Receive, UpOK, DownOK, NEW T \in SUBSET {"OKER", "DONE"},
         "OKER" \in T => pc' # "erase", "DONE" \in T => ~RecvEnd
  PROVE  Thins(T)
<1>0. up # <<>> /\ up' = Tail(up) /\ pc # "erase"
  BY Takes
<1>1. CASE down' = down /\ pc' # "erase"
  BY <1>0, <1>1, TakenThins DEF Erasing
<1>2. CASE down' = down /\ pc' = "erase" /\ Head(up).t \in {"BEGN", "BAD"}
  <2>1. Okay.t = "OKER"
    BY DEF Okay, Token
  <2>2. Weaker(Okay, Head(up), T)
    BY <1>2, <2>1, TokenWeaker DEF TokenTag
  <2> QED BY <1>0, <1>2, <2>2, BegunThins
<1>3. ASSUME pc' # "erase", NEW tok, Replied(tok), tok.t \in TokenTag, tok.t # "OKER",
             tok.t = "BLOK" => Head(up).t = "SYNC",
             tok.t \in {"DACK", "DNAK", "DONE", "ECRC"} =>
               Head(up).t \in {"DATA", "END", "BAD"},
             tok.t = "DONE" => Head(up).t = "END" /\ RecvEnd
      PROVE  Thins(T)
  <2>1. Weaker(tok, Head(up), T)
    BY <1>3, TokenWeaker
  <2> QED BY <1>0, <1>3, <2>1, AnsweredThins DEF Replied
<1> QED BY <1>1, <1>2, <1>3, Answers

\* The panel goes on by itself.
LEMMA Proceeds ==
  ASSUME Proceed
  PROVE  /\ KeepsHost /\ UNCHANGED pressed
         /\ \/ up' = <<>> /\ down' = <<>> /\ linked' = FALSE /\ pc' # "erase"
               /\ pc # "recovery" /\ pc # "erase" /\ pc' # "recovery"
            \/ UNCHANGED <<up, down, linked>> /\ pc # "erase" /\ pc' # "erase"
               /\ pc # "recovery"
               /\ (pc' = "recovery" => app_crc' = EmptyCrc)
            \/ UNCHANGED <<up, down, linked>> /\ pc = "erase" /\ pc' = "erase"
               /\ UNCHANGED <<app_len, app_crc>>
            \/ UNCHANGED <<up, linked>> /\ pc = "erase" /\ pc' = "recovery"
               /\ UNCHANGED <<app_len, app_crc>>
               /\ down' = Append(down, Okay)
<1>1. CASE Boot /\ UNCHANGED bridge
  BY <1>1
  DEF Proceed, Boot, DecideUpdateRequested, DecideNoRecord, DecideNoGoodImage,
      DecideConfirmed, DecideTrial, DecideGiveUp, Jump, ReadScratch,
      EnterRecovery, bridge, KeepsHost, host
<1>2. CASE AppStart
  BY <1>2 DEF Proceed, AppStart, AppUp, AppHang, BridgeRestarts, bridge,
              KeepsHost, host
<1>3. CASE EraseOneSector
  BY <1>3 DEF Proceed, EraseOneSector, EraseSector, bridge, KeepsHost, host
<1>4. CASE SlotErased
  BY <1>4 DEF Proceed, SlotErased, EraseDone, recovery, Reply, Okay, KeepsHost, host
<1> QED BY <1>1, <1>2, <1>3, <1>4 DEF Proceed

\* A reset: of everything, of a panel that hangs, or of the panel alone.
Resets ==
    /\ KeepsHost /\ pc' = "reset" /\ scratch' = "0" /\ rec' = rec
    /\ pressed => pressed'
    /\ pc # "erase" /\ ~Arrives("DATA") => slot' = slot
    /\ \/ up' = <<>> /\ down' = <<>> /\ linked' = FALSE
       \/ UNCHANGED <<up, down, linked, pressed>> /\ pc = "hung"
       \/ /\ pressed' /\ UNCHANGED <<down, linked>>
          /\ up' = up \/ (up # <<>> /\ pc = "recovery" /\ up' = Tail(up))

\* The resets of the model are such resets.
LEMMA PowerResets ==
  ASSUME (PowerFails /\ UNCHANGED <<host, pressed>>) \/ (Reset /\ UNCHANGED host) \/ ResetHung
  PROVE  Resets
<1>1. CASE PowerFails /\ UNCHANGED <<host, pressed>>
  BY <1>1 DEF PowerFails, PowerCycle, PowerCutInData, BridgeRestarts, Resets, KeepsHost, host
<1>2. CASE Reset /\ UNCHANGED host
  <2>1. pressed' = TRUE /\ UNCHANGED <<down, linked>>
    BY <1>2 DEF Reset, Take, bridge
  <2>2. up' = up \/ (up # <<>> /\ pc = "recovery" /\ up' = Tail(up))
    BY <1>2 DEF Reset, Take, bridge, Arrives, PowerCutInData
  <2>3. /\ pc' = "reset" /\ scratch' = "0" /\ rec' = rec
        /\ pc # "erase" /\ ~Arrives("DATA") => slot' = slot
    BY <1>2 DEF Reset, PowerCycle, PowerCutInData
  <2> QED BY <1>2, <2>1, <2>2, <2>3 DEF Resets, KeepsHost, host
<1>3. CASE ResetHung
  BY <1>3 DEF ResetHung, PowerCycle, Resets, KeepsHost, host, bridge
<1> QED BY <1>1, <1>2, <1>3

\* Whatever is not the host's own step, and no other client's.
Around ==
    \/ Receive \/ Proceed \/ Resets \/ UNCHANGED tvars
    \/ (LoseFrame \/ DamageFrame) /\ UNCHANGED <<vars, host, pressed>>

\* Such a step leaves the host alone, and its connection or nothing.
LEMMA AroundKeeps ==
  ASSUME Around, UpOK
  PROVE  KeepsHost /\ (linked' = linked \/ (linked' = FALSE /\ up' = <<>> /\ down' = <<>>
                                            /\ pc' # "erase"))
         /\ (pressed => pressed')
<1>1. CASE Receive
  <2>1. KeepsHost /\ linked' = linked
    BY <1>1, Takes, Zenon
  <2>2. pressed' = pressed
    BY <1>1, Takes, Zenon
  <2> QED BY <2>1, <2>2, Zenon
<1>2. CASE Proceed
  <2>1. pressed' = pressed /\ KeepsHost
    BY <1>2, Proceeds, Zenon
  <2>2. linked' = linked \/ (linked' = FALSE /\ up' = <<>> /\ down' = <<>> /\ pc' # "erase")
    BY <1>2, Proceeds
  <2> QED BY <2>1, <2>2, Zenon
<1>3. CASE Resets
  BY <1>3 DEF Resets
<1>4. CASE UNCHANGED tvars
  BY <1>4 DEF tvars, bridge, KeepsHost, host
<1>5. CASE (LoseFrame \/ DamageFrame) /\ UNCHANGED <<vars, host, pressed>>
  BY <1>5 DEF LoseFrame, DamageFrame, KeepsHost, host
<1> QED BY <1>1, <1>2, <1>3, <1>4, <1>5 DEF Around

\* And it thins the way, except where it starts to erase or answers END.
LEMMA AroundThins ==
  ASSUME Around, UpOK, DownOK, NEW T \in SUBSET {"OKER", "DONE"},
         "OKER" \in T => pc = "erase" \/ pc' # "erase", "DONE" \in T => ~(Receive /\ RecvEnd)
  PROVE  Thins(T)
<1>0. UNCHANGED <<up, down>> /\ (pc' = "erase" <=> pc = "erase") => Thins(T)
  BY StillThins DEF Erasing
<1>1. CASE Receive
  BY <1>1, Takes, ReceiveThins
<1>2. CASE Proceed
  <2>1. pc = "erase" /\ pc' = "recovery" /\ up' = up /\ down' = Append(down, Okay) => Thins(T)
    BY ToldThins
  <2>2. up' = <<>> /\ down' = <<>> /\ pc' # "erase" => Thins(T)
    BY EmptiedThins
  <2> QED BY <1>0, <1>2, <2>1, <2>2, Proceeds
<1>3. CASE Resets
  <2>0. pc' = "reset"
    BY <1>3 DEF Resets
  <2>1. up' = <<>> /\ down' = <<>> => Thins(T)
    BY <2>0, EmptiedThins
  <2>2. UNCHANGED <<up, down>> => Thins(T)
    BY <1>0, <2>0, ForgottenThins
  <2>3. down' = down /\ up # <<>> /\ pc = "recovery" /\ up' = Tail(up) => Thins(T)
    BY <2>0, TakenThins DEF Erasing
  <2> QED BY <1>3, <2>1, <2>2, <2>3 DEF Resets
<1>4. CASE UNCHANGED tvars
  BY <1>0, <1>4 DEF tvars, bridge, vars
<1>5. CASE LoseFrame /\ UNCHANGED vars
  <2>1. Erasing' = Erasing
    BY <1>5 DEF vars, Erasing
  <2>2. up # <<>> /\ up' = Tail(up) /\ down' = down => Thins(T)
    BY <2>1, TakenThins
  <2>3. down # <<>> /\ down' = Tail(down) /\ up' = up => Thins(T)
    BY <2>1, ReadThins
  <2> QED BY <1>5, <2>2, <2>3 DEF LoseFrame
<1>6. CASE DamageFrame /\ UNCHANGED vars
  <2>1. Erasing' = Erasing
    BY <1>6 DEF vars, Erasing
  <2>2. up # <<>> /\ Head(up).t \in {"BEGN", "DATA"} /\ down' = down
        /\ up' = <<Bad(Head(up))>> \o Tail(up)
    BY <1>6 DEF DamageFrame
  <2>3. Bad(Head(up)) \in Frame
    BY <2>2, HeadIsFrame, FrameFields, FrameFacts
  <2>4. Bad(Head(up)).t = "BAD" /\ "BAD" \notin T
    BY DEF Bad
  <2>5. Weaker(Bad(Head(up)), Head(up), T)
    BY <2>2, <2>4, BadWeaker
  <2> QED BY <2>1, <2>2, <2>3, <2>5, SpoiltThins
<1> QED BY <1>1, <1>2, <1>3, <1>4, <1>5, <1>6 DEF Around

-----------------------------------------------------------------------------
(* What is kept of the way while the host waits. *)

\* If only the last place held a verdict, only the last still does.
LEMMA VerdictsThin ==
  ASSUME NEW p, NEW n \in Nat, NEW q, NEW m \in Nat, NEW T, Thinner(p, n, q, m, T),
         \A i \in 1..n : Verdicts(p[i]) => i = n,
         NEW i \in 1..m, Verdicts(q[i])
  PROVE  /\ i = m /\ n \in 1..n /\ Verdicts(p[n])
         /\ q[i].t \in T => q[i].t = p[n].t
<1>1. PICK k \in Nat, x \in Nat : ThinsBy(p, n, q, m, T, k, x)
  BY DEF Thinner
<1>2. From(i, k, x) \in 1..n /\ Weaker(q[i], p[From(i, k, x)], T)
  BY <1>1 DEF ThinsBy
<1>3. Verdicts(p[From(i, k, x)])
  BY <1>2 DEF Weaker
<1>4. From(i, k, x) = n
  BY <1>2, <1>3
<1>5. m \in 1..m /\ From(m, k, x) \in 1..n
  BY <1>1 DEF ThinsBy
<1>6. i < m => From(i, k, x) < From(m, k, x)
  BY DEF From
<1>7. i = m
  BY <1>4, <1>5, <1>6
<1> QED BY <1>2, <1>3, <1>4, <1>7 DEF Weaker

\* An OKER that counts for the push is under way.
Okayed(p, n, w) == \E i \in 1..n : p[i].t = "OKER" /\ Behind(p, i, w)

\* An OKER behind a greeting was one before the step.
LEMMA OkayThins ==
  ASSUME NEW p, NEW n \in Nat, NEW q, NEW m \in Nat, NEW T, Thinner(p, n, q, m, T),
         "OKER" \in T, NEW w, Okayed(q, m, w)
  PROVE  Okayed(p, n, w)
<1>1. PICK k \in Nat, x \in Nat : ThinsBy(p, n, q, m, T, k, x)
  BY DEF Thinner
<1>2. PICK i \in 1..m : q[i].t = "OKER" /\ Behind(q, i, w)
  BY DEF Okayed
<1>3. From(i, k, x) \in 1..n /\ Weaker(q[i], p[From(i, k, x)], T)
  BY <1>1 DEF ThinsBy
<1>4. p[From(i, k, x)].t = "OKER"
  BY <1>2, <1>3 DEF Weaker
<1>5. Behind(p, From(i, k, x), w)
  <2>1. ASSUME NEW g \in 1..i - 1, Greets(q[g]) PROVE Behind(p, From(i, k, x), w)
    <3>1. g \in 1..m
      OBVIOUS
    <3>2. From(g, k, x) \in 1..n /\ Weaker(q[g], p[From(g, k, x)], T)
      BY <1>1, <3>1 DEF ThinsBy
    <3>3. From(g, k, x) < From(i, k, x)
      BY DEF From
    <3>4. From(g, k, x) \in 1..From(i, k, x) - 1
      BY <1>3, <3>2, <3>3
    <3> QED BY <2>1, <3>2, <3>4 DEF Behind, Weaker
  <2> QED BY <1>2, <2>1 DEF Behind
<1> QED BY <1>3, <1>4, <1>5 DEF Okayed

\* Whether the host's push has begun; until then a greeting must come first.
Pushing == hpc \in {"begin", "oker", "data", "dack", "verdict", "go"}
Phase == IF Pushing THEN "push" ELSE "greet"
\* The answers this host may still be owed, and how many of its own, at most,
\* are not older than the verdict still under way.
Owed == IF hpc \in {"oker", "dack", "verdict"} THEN attempt ELSE attempt - 1
Stale == IF hpc \in {"begin", "oker"} THEN attempt - 1
         ELSE IF hpc \in {"data", "dack"} THEN attempt - 1 - off
         ELSE attempt
Active == hpc \notin {"done", "failed"}

LedgerOK == Active => Ledger(Way, WayLen, Phase, Owed, Stale)

\* The host's push goes on, or could on an OKER under way.
ServingNeeded ==
    \/ hpc \in {"data", "dack", "verdict"} /\ linked
    \/ Okayed(Way, WayLen, Phase)
\* The panel serves this host's push, or has been reset within it.
Serves ==
    \/ pc \in {"recovery", "erase"} /\ app_crc \in {ImageCrc(New), BadCrc}
    \/ pressed /\ (pc \in {"recovery", "erase"} => app_crc \in {ImageCrc(New), BadCrc, EmptyCrc})
ServingOK == Active /\ ServingNeeded => Serves

\* All types, and no update request outside a reset.
Types == TypeOK /\ UpOK /\ HostOK /\ DownOK /\ ScratchOK

\* The counters as numbers.
LEMMA CountersType ==
  ASSUME HostOK
  PROVE  /\ attempt \in Nat \ {0} /\ off \in Nat \ {0} /\ Size[New] \in Nat \ {0}
         /\ Owed \in Nat /\ Stale \in Int
<1>1. attempt \in 1..Retries /\ Retries \in Nat /\ off \in 1..Size[New] + 1
      /\ Size[New] \in Nat \ {0}
  BY TransferAssumption, SizesAssumption DEF HostOK
<1>2. attempt \in Nat \ {0} /\ off \in Nat \ {0} /\ attempt - 1 \in Nat
  BY <1>1
<1>3. attempt - 1 - off \in Int
  BY <1>2
<1> QED BY <1>1, <1>2, <1>3 DEF Owed, Stale

\* The way after a step is finite.
LEMMA NextWayLen ==
  ASSUME UpOK', DownOK'
  PROVE  WayLen' \in Nat
<1>1. Len(down') \in Nat /\ Len(up') \in Nat
  BY DEF UpOK, DownOK
<1>2. Erasing' \in 0..1
  BY DEF Erasing
<1>3. WayLen' = Len(down') + Erasing' + Len(up')
  BY DEF WayLen
<1> QED BY <1>1, <1>2, <1>3

\* Steps that are not the host's keep the ledger.
LEMMA AroundLedger ==
  ASSUME LedgerOK, UpOK, DownOK, HostOK, UpOK', DownOK', Around
  PROVE  LedgerOK'
<1> SUFFICES ASSUME Active' PROVE Ledger(Way', WayLen', Phase', Owed', Stale')
  BY DEF LedgerOK
<1>1. KeepsHost
  BY AroundKeeps
<1>2. Active /\ Phase' = Phase /\ Owed' = Owed /\ Stale' = Stale
  BY <1>1 DEF KeepsHost, Active, Phase, Pushing, Owed, Stale
<1>3. Thins({})
  BY AroundThins
<1>4. WayLen \in Nat /\ Owed \in Int /\ Stale \in Int /\ WayLen' \in Nat
  BY WayLenType, NextWayLen, CountersType
<1>5. Thinner(Way, WayLen, Way', WayLen', {}) /\ Ledger(Way, WayLen, Phase, Owed, Stale)
  BY <1>2, <1>3 DEF LedgerOK, Thins
<1>6. Ledger(Way', WayLen', Phase, Owed, Stale)
  BY <1>4, <1>5, LedgerThins
<1> QED BY <1>2, <1>6

\* Tokens come first on the way; then the frame the panel takes next.
LEMMA DownPlace ==
  ASSUME UpOK, DownOK, NEW i \in 1..Len(down)
  PROVE  i \in 1..WayLen /\ Way[i] = down[i]
<1>1. down \in Seq(Tokens) /\ up \in Seq(Frame) /\ Erasing \in 0..1
  BY WayLenType
<1> QED BY <1>1, PipeAt DEF Way, WayLen

LEMMA HeadPlace ==
  ASSUME UpOK, DownOK, up # <<>>, pc # "erase"
  PROVE  Len(down) + 1 \in 1..WayLen /\ Way[Len(down) + 1] = Head(up)
<1>1. down \in Seq(Tokens) /\ up \in Seq(Frame) /\ Erasing = 0 /\ 0 \in 0..1
  BY WayLenType DEF Erasing
<1>2. 1 \in 1..Len(up) /\ Head(up) = up[1] /\ Len(down) \in Nat
  BY <1>1, ShortensSeq
<1>3. UpAt(down, 0, 1) = Len(down) + 1
  BY <1>2 DEF UpAt
<1>4. /\ PipeOf(down, 0, up)[UpAt(down, 0, 1)] = up[1]
      /\ UpAt(down, 0, 1) \in 1..Len(down) + 0 + Len(up)
  BY <1>1, <1>2, PipeUp
<1> QED BY <1>1, <1>2, <1>3, <1>4 DEF Way, WayLen

\* An OKER that will count is behind whatever it was behind before the step.
LEMMA HeadBehind ==
  ASSUME UpOK, DownOK, UpOK', DownOK', Receive, NEW w, Okayed(Way', WayLen', w)
  PROVE  Behind(Way, Len(down) + 1, w)
<1>1. PICK i \in 1..WayLen' : (Way'[i]).t = "OKER" /\ Behind(Way', i, w)
  BY DEF Okayed
<1>2. i \in 1..Len(down') + Erasing'
  <2>1. down' \in Seq(Tokens) /\ up' \in Seq(Frame) /\ Erasing' \in 0..1
    BY DEF UpOK, DownOK, Erasing
  <2>2. ASSUME NEW j \in 1..Len(up'), i = UpAt(down', Erasing', j) PROVE FALSE
    <3>1. Way'[i] = up'[j]
      BY <2>1, <2>2, PipeUp DEF Way
    <3>2. up'[j] \in Frame
      BY <2>1
    <3> QED BY <1>1, <3>1, <3>2, CmdFields DEF Frame, Bad
  <2>3. \/ i \in 1..Len(down')
        \/ Erasing' = 1 /\ i = Len(down') + 1
    BY <2>1, <2>2, PipeCovered DEF WayLen
  <2>4. Len(down') \in Nat
    BY <2>1
  <2> QED BY <2>1, <2>3, <2>4
<1>3. Len(down) \in Nat /\ Len(down') + Erasing' <= Len(down) + 1
      /\ \A g \in 1..Len(down) : g \in 1..Len(down') /\ down'[g] = down[g]
  <2>1. CASE down' = down
    <3>1. Erasing' \in 0..1
      BY DEF Erasing
    <3> QED BY <2>1, <3>1 DEF DownOK
  <2>2. ASSUME NEW tok \in Tokens, down' = Append(down, tok), pc' # "erase"
        PROVE  /\ Len(down) \in Nat /\ Len(down') + Erasing' <= Len(down) + 1
               /\ \A g \in 1..Len(down) : g \in 1..Len(down') /\ down'[g] = down[g]
    BY <2>2, ExtendsSeq DEF DownOK, Erasing
  <2> QED BY <2>1, <2>2, Answers DEF Replied
<1>4. ASSUME NEW g \in 1..i - 1, Greets(Way'[g]) PROVE Behind(Way, Len(down) + 1, w)
  <2>1. g \in 1..Len(down)
    <3>1. Len(down') \in Nat /\ Erasing' \in 0..1
      BY DEF DownOK, Erasing
    <3> QED BY <1>2, <1>3, <3>1
  <2>2. Way[g] = down[g]
    BY <2>1, DownPlace
  <2>3. Way'[g] = down'[g]
    <3>1. down' \in Seq(Tokens) /\ up' \in Seq(Frame) /\ Erasing' \in 0..1
      BY DEF UpOK, DownOK, Erasing
    <3>2. g \in 1..Len(down')
      BY <1>3, <2>1
    <3> QED BY <3>1, <3>2, PipeAt DEF Way
  <2>4. g \in 1..(Len(down) + 1) - 1
    BY <1>3, <2>1
  <2> QED BY <1>3, <1>4, <2>1, <2>2, <2>3, <2>4 DEF Behind
<1> QED BY <1>1, <1>4 DEF Behind

\* While an answer to this host's push can still come, the panel takes no other
\* BEGN and no GO!!.
LEMMA TakesOwn ==
  ASSUME UpOK, DownOK, UpOK', DownOK', Receive, LedgerOK, Active, ServingNeeded',
         KeepsHost
  PROVE  ~Foreign(Head(up))
<1>1. Behind(Way, Len(down) + 1, Phase)
  <2>1. CASE hpc \in {"data", "dack", "verdict"}
    BY <2>1 DEF Behind, Phase, Pushing
  <2>2. CASE hpc \notin {"data", "dack", "verdict"}
    <3>1. hpc' = hpc /\ Phase' = Phase
      BY DEF KeepsHost, Phase, Pushing
    <3>2. Okayed(Way', WayLen', Phase')
      BY <2>2, <3>1 DEF ServingNeeded
    <3> QED BY <3>1, <3>2, HeadBehind
  <2> QED BY <2>1, <2>2
<1>2. Len(down) + 1 \in 1..WayLen /\ Way[Len(down) + 1] = Head(up)
  BY Takes, HeadPlace
<1>3. Ledger(Way, WayLen, Phase, Owed, Stale)
  BY DEF LedgerOK
<1>4. Pushes(Head(up)) => ~Foreign(Head(up))
  BY <1>1, <1>2, <1>3 DEF Ledger
<1> QED BY <1>4 DEF Pushes, Foreign

\* What the panel is serving, over a step that starts no erasing.
LEMMA ReceiveServes ==
  ASSUME Serves, Receive, UpOK, ~Foreign(Head(up))
  PROVE  Serves'
<1>1. pressed' = pressed /\ pc # "erase"
  BY Takes
<1>2. UNCHANGED <<pc, app_crc>> => Serves'
  BY <1>1 DEF Serves, ImageCrc, EmptyCrc
<1>3. pc' = "erase" /\ app_crc' \in {ImageCrc(New), BadCrc} => Serves'
  BY DEF Serves, ImageCrc
<1>4. CASE RecvBegin
  <2>1. Head(up).m = New
    BY <1>4 DEF RecvBegin, Arrives, Foreign
  <2>2. ~(Size[New] = 0 \/ Size[New] > SlotChunks)
    BY TransferAssumption, SizesAssumption
  <2>3. app_crc' = ImageCrc(New) /\ pc' = "erase"
    BY <1>4, <2>1, <2>2 DEF RecvBegin, Begin
  <2> QED BY <1>3, <2>3
<1>5. CASE RecvBadBegin
  <2>1. ASSUME NEW n \in 0..SlotChunks + 1, Begin(n, BadCrc)
        PROVE  Serves'
    <3>1. app_crc' = BadCrc /\ pc' \in {"recovery", "erase"}
      BY <2>1 DEF Begin
    <3> QED BY <3>1 DEF Serves
  <2>2. ASSUME NEW n \in 0..SlotChunks + 1, BeginCutShort(n) PROVE Serves'
    BY <1>2, <2>2 DEF BeginCutShort
  <2> QED BY <1>2, <1>5, <2>1, <2>2 DEF RecvBadBegin, vars, recovery
<1>6. CASE RecvData \/ RecvBadData \/ RecvEnd
  BY <1>2, <1>6 DEF RecvData, RecvBadData, RecvEnd, Data, End, vars, recovery
<1>7. CASE RecvSync \/ RecvJunk \/ AppJunk \/ Unheard
  BY <1>2, <1>7 DEF RecvSync, RecvJunk, AppJunk, Unheard, vars, recovery
<1>8. ~RecvGo
  BY DEF RecvGo, Arrives, Foreign
<1>9. CASE AppTrigger
  <2>1. pc = "loop" /\ pc' = "reset"
    BY <1>9 DEF AppTrigger, RequestUpdate
  <2> QED BY <1>1, <2>1 DEF Serves
<1> QED BY <1>4, <1>5, <1>6, <1>7, <1>8, <1>9 DEF Receive

\* A BEGN that is taken in serves this host.
LEMMA BeginServes ==
  ASSUME Receive, UpOK, pc' = "erase", ~Foreign(Head(up))
  PROVE  Serves'
<1>1. pc # "erase"
  BY Takes
<1>2. CASE RecvBegin
  <2>1. Head(up).m = New
    BY <1>2 DEF RecvBegin, Arrives, Foreign
  <2> QED BY <1>2, <2>1 DEF RecvBegin, Begin, Serves, ImageCrc
<1>3. CASE RecvBadBegin
  BY <1>1, <1>3 DEF RecvBadBegin, Begin, BeginCutShort, Serves, vars
<1> QED BY <1>1, <1>2, <1>3
        DEF Receive, RecvSync, RecvJunk, RecvData, RecvBadData, RecvEnd, RecvGo,
            AppTrigger, AppJunk, Unheard, Data, End, Go, RequestUpdate, vars

\* Steps that are not the host's keep ServingOK.
LEMMA AroundServing ==
  ASSUME ServingOK, LedgerOK, Types, Types', Around
  PROVE  ServingOK'
<1> USE DEF Types
<1> SUFFICES ASSUME Active', ServingNeeded' PROVE Serves'
  BY DEF ServingOK
<1>0. KeepsHost /\ (linked' = linked \/ (linked' = FALSE /\ up' = <<>> /\ down' = <<>>
                                           /\ pc' # "erase"))
      /\ (pressed => pressed')
  BY AroundKeeps
<1>1. Active /\ hpc' = hpc /\ Phase' = Phase
  BY <1>0 DEF KeepsHost, Active, Phase, Pushing
<1>2. Receive => ~Foreign(Head(up))
  BY <1>0, <1>1, TakesOwn
<1>3. ~(linked' = FALSE /\ up' = <<>> /\ down' = <<>> /\ pc' # "erase")
  <2>1. up' = <<>> /\ down' = <<>> /\ pc' # "erase" => WayLen' = 0
    BY DEF WayLen, Erasing
  <2>2. WayLen' = 0 => ~Okayed(Way', WayLen', Phase')
    BY DEF Okayed
  <2> QED BY <2>1, <2>2 DEF ServingNeeded
<1>4. CASE pc # "erase" /\ pc' = "erase"
  <2>1. Receive
    BY <1>4, Proceeds DEF Around, Resets, tvars, vars
  <2> QED BY <1>2, <1>4, <2>1, BeginServes
<1>5. CASE pc = "erase" \/ pc' # "erase"
  <2>1. Thins({"OKER"})
    BY <1>5, AroundThins
  <2>2. Okayed(Way', WayLen', Phase) => Okayed(Way, WayLen, Phase)
    BY <2>1, OkayThins, WayLenType, NextWayLen DEF Thins
  <2>3. ServingNeeded
    BY <1>0, <1>1, <1>3, <2>2 DEF ServingNeeded
  <2>4. Serves
    BY <1>1, <2>3 DEF ServingOK
  <2>5. UNCHANGED <<pc, app_crc, pressed>> => Serves'
    BY <2>4 DEF Serves, ImageCrc, EmptyCrc
  <2>6. CASE Receive
    BY <1>2, <2>4, <2>6, ReceiveServes
  <2>7. CASE Proceed
    <3>1. pressed' = pressed
      BY <2>7, Proceeds
    <3>2. pc # "recovery" /\ pc # "erase" /\ (pc' = "recovery" => app_crc' = EmptyCrc)
          /\ pc' # "erase" => Serves'
      BY <2>4, <3>1 DEF Serves, EmptyCrc
    <3>3. pc = "erase" /\ pc' \in {"erase", "recovery"} /\ app_crc' = app_crc => Serves'
      BY <2>4, <3>1 DEF Serves, ImageCrc, EmptyCrc
    <3> QED BY <1>3, <2>7, <3>2, <3>3, Proceeds
  <2>8. CASE Resets
    <3>1. pressed' => Serves'
      BY <2>8 DEF Resets, Serves
    <3>2. pc = "hung" => pressed
      BY <2>4 DEF Serves
    <3> QED BY <1>0, <1>3, <2>8, <3>1, <3>2 DEF Resets
  <2>9. CASE UNCHANGED tvars
    BY <2>5, <2>9 DEF tvars, vars, recovery
  <2>10. CASE UNCHANGED <<vars, host, pressed>>
    BY <2>5, <2>10 DEF vars, recovery
  <2> QED BY <2>6, <2>7, <2>8, <2>9, <2>10 DEF Around
<1> QED BY <1>4, <1>5

-----------------------------------------------------------------------------
(* The verdict. *)

\* As ImageLanded; a record whose image is not to be started was tried in vain.
Installed ==
    /\ HasRecord /\ rec.len = Size[New] /\ rec.crc = ImageCrc(New)
    /\ Whole(New)
    /\ rec.valid = 0 => rec.attempts >= MaxAttempts
Landed == scratch = "0" /\ (Installed \/ NothingLanded)

\* While the verdict is awaited, only the last item under way can be one, and a
\* DONE tells the truth; once it was read, only GO!! is left.
VerdictOK ==
    hpc = "verdict" /\ FewAttempts =>
        \A i \in 1..WayLen : Verdicts(Way[i]) =>
            /\ i = WayLen /\ linked
            /\ Way[i].t = "DONE" => Landed
FinishedOK ==
    hpc \in {"go", "done"} /\ FewAttempts =>
        /\ Landed /\ pc # "erase"
        /\ up = <<>> \/ (up = <<GoCmd>> /\ hpc = "done")

\* What landed stays: where record and slot are left alone...
LEMMA LandedKept ==
  ASSUME Landed, UNCHANGED <<rec, slot>>, scratch' = "0", pressed => pressed'
  PROVE  Landed'
<1>1. Installed => Installed'
  BY DEF Installed, HasRecord, Whole, SlotCrc, ImageCrc
<1>2. NothingLanded => NothingLanded'
  BY DEF NothingLanded, HasRecord
<1> QED BY <1>1, <1>2 DEF Landed

\* The boot record as the bootloader and the app rewrite it.
LEMMA LandedRewritten ==
  ASSUME TypeOK, Landed, slot' = slot, scratch' = "0", pressed' = pressed,
         rec' \in BootRecord, rec'.len = rec.len, rec'.crc = rec.crc,
         rec'.valid = 0 => rec'.attempts >= MaxAttempts
  PROVE  Landed'
<1>1. HasRecord'
  BY NoRecordAssumption DEF HasRecord
<1>2. Whole(New) => Whole(New)'
  BY DEF Whole, SlotCrc, ImageCrc
<1>3. Installed => Installed'
  BY <1>1, <1>2 DEF Installed, ImageCrc
<1>4. NothingLanded => NothingLanded'
  BY <1>1 DEF NothingLanded
<1> QED BY <1>3, <1>4 DEF Landed

\* ...and while the panel boots what landed.
LEMMA LandedProceeds ==
  ASSUME TypeOK, Landed, Proceed, pc # "erase"
  PROVE  Landed'
<1>0. scratch = "0" /\ pressed' = pressed
  BY Proceeds DEF Landed
<1>1. HasRecord /\ rec \in BootRecord
  BY DEF Landed, Installed, NothingLanded, HasRecord, TypeOK
<1>2. rec.valid \in 0..1 /\ rec.attempts \in 0..MaxAttempts /\ MaxAttempts \in Nat
  BY <1>1, SizesAssumption DEF BootRecord
<1>3. UNCHANGED <<rec, slot>> /\ scratch' = "0" => Landed'
  BY <1>0, LandedKept
<1>4. CASE DecideNoGoodImage \/ DecideConfirmed \/ Jump \/ AppHang
  BY <1>0, <1>3, <1>4
  DEF DecideNoGoodImage, DecideConfirmed, Jump, AppHang, ReadScratch
<1>5. ~DecideNoRecord /\ ~DecideUpdateRequested
  BY <1>0, <1>1 DEF DecideNoRecord, DecideUpdateRequested
<1>6. CASE DecideTrial
  <2>1. slot' = slot /\ scratch' = "0" /\ rec.valid = 1 /\ rec.attempts < MaxAttempts
        /\ rec' = [rec EXCEPT !.attempts = @ + 1]
    BY <1>6 DEF DecideTrial, ReadScratch, Bootable
  <2>2. rec.attempts + 1 \in 0..MaxAttempts
    BY <1>2, <2>1
  <2>3. rec' \in BootRecord /\ rec'.len = rec.len /\ rec'.crc = rec.crc
        /\ rec'.valid = 1
    BY <1>1, <2>1, <2>2 DEF BootRecord
  <2> QED BY <1>0, <2>1, <2>3, LandedRewritten
<1>7. CASE DecideGiveUp
  <2>1. slot' = slot /\ scratch' = "0" /\ rec.attempts >= MaxAttempts
        /\ rec' = [rec EXCEPT !.valid = 0]
    BY <1>7 DEF DecideGiveUp, ReadScratch
  <2>2. rec' \in BootRecord /\ rec'.len = rec.len /\ rec'.crc = rec.crc
        /\ rec'.attempts = rec.attempts
    BY <1>1, <2>1 DEF BootRecord
  <2> QED BY <1>0, <2>1, <2>2, LandedRewritten
<1>8. CASE AppUp
  <2>1. slot' = slot /\ scratch' = "0"
    BY <1>0, <1>8 DEF AppUp
  <2>2. CASE UNCHANGED rec
    BY <1>3, <2>1, <2>2
  <2>3. CASE rec' = Confirmed(rec) /\ rec.valid = 1
    <3>1. /\ rec' \in BootRecord /\ rec'.len = rec.len /\ rec'.crc = rec.crc
          /\ rec'.valid = 1
      BY <1>1, <2>3, ConfirmedType
    <3> QED BY <1>0, <2>1, <3>1, LandedRewritten
  <2> QED BY <1>8, <2>2, <2>3 DEF AppUp
<1>9. ~EraseOneSector /\ ~SlotErased
  BY DEF EraseOneSector, EraseSector, SlotErased, EraseDone
<1> QED BY <1>4, <1>5, <1>6, <1>7, <1>8, <1>9 DEF Proceed, Boot, AppStart

\* What END! finds is this image, or its check fails: nothing else has the CRC
\* that BEGN announced.  RESET leaves recovery a length of 0, whose CRC is right.
LEMMA VerdictIsTrue ==
  ASSUME TypeOK, ScratchOK, Serves, RecvEnd, pressed' = pressed,
         SlotCrc(app_len) = app_crc
  PROVE  Landed'
<1>0. pc = "recovery" /\ rec' = FreshRecord(app_len, app_crc) /\ slot' = slot
      /\ scratch' = scratch
  BY DEF RecvEnd, End
<1>1. scratch' = "0"
  BY <1>0 DEF ScratchOK, TypeOK
<1>2. SlotCrc(app_len) \in [1..app_len -> Content] /\ app_len \in 0..SlotChunks + 1
  BY DEF SlotCrc, TypeOK, Content
<1>3. app_crc # BadCrc
  BY <1>2, ContentAssumption
<1>4. rec' \in BootRecord
  BY <1>0, <1>2, FreshRecordType DEF TypeOK
<1>5. HasRecord'
  BY <1>4, NoRecordAssumption DEF HasRecord
<1>6. rec'.len = app_len /\ rec'.crc = app_crc /\ rec'.valid = 1
  BY <1>0 DEF FreshRecord
<1>7. app_len \in Nat /\ Size[New] \in Nat
  BY <1>2, TransferAssumption, SizesAssumption
<1>8. CASE app_crc = ImageCrc(New)
  <2>1. SlotCrc(app_len) = ImageCrc(New)
    BY <1>8
  <2>2. DOMAIN SlotCrc(app_len) = 1..app_len /\ DOMAIN ImageCrc(New) = 1..Size[New]
    BY DEF SlotCrc, ImageCrc
  <2>3. 1..app_len = 1..Size[New]
    BY <2>1, <2>2
  <2>4. app_len = Size[New]
    BY <1>7, <2>3
  <2>5. Whole(New)'
    BY <1>0, <2>1, <2>4 DEF Whole, SlotCrc, ImageCrc
  <2>6. Installed'
    BY <1>5, <1>6, <1>8, <2>4, <2>5 DEF Installed, ImageCrc
  <2> QED BY <1>1, <2>6 DEF Landed
<1>9. CASE pressed /\ app_crc = EmptyCrc
  <2>1. DOMAIN SlotCrc(app_len) = 1..app_len /\ DOMAIN EmptyCrc = 1..0
    BY DEF SlotCrc, EmptyCrc
  <2>2. 1..app_len = 1..0
    BY <1>9, <2>1
  <2>3. app_len = 0
    BY <1>7, <2>2
  <2>4. NothingLanded'
    BY <1>5, <1>6, <1>9, <2>3 DEF NothingLanded
  <2> QED BY <1>1, <2>4 DEF Landed
<1> QED BY <1>0, <1>3, <1>8, <1>9 DEF Serves

\* DONE stands last only when all else has been read.
LEMMA DonePlace ==
  ASSUME UpOK, DownOK, WayLen \in 1..WayLen, Way[WayLen].t = "DONE"
  PROVE  up = <<>> /\ pc # "erase"
<1>0. down \in Seq(Tokens) /\ up \in Seq(Frame) /\ Erasing \in 0..1
      /\ Len(down) \in Nat /\ Len(up) \in Nat
  BY WayLenType
<1>1. ASSUME Len(up) # 0 PROVE FALSE
  <2>1. Len(up) \in 1..Len(up) /\ UpAt(down, Erasing, Len(up)) = WayLen
    BY <1>0, <1>1 DEF UpAt, WayLen
  <2>2. Way[WayLen] = up[Len(up)]
    BY <1>0, <2>1, PipeUp DEF Way
  <2>3. up[Len(up)] \in Frame
    BY <1>0, <2>1
  <2> QED BY <2>2, <2>3, CmdFields DEF Frame, Bad
<1>2. up = <<>>
  BY <1>0, <1>1, EmptySeq
<1>3. ASSUME Erasing = 1 PROVE FALSE
  <2>1. WayLen = Len(down) + 1
    BY <1>0, <1>1, <1>3 DEF WayLen
  <2>2. Way[WayLen] = Okay
    BY <1>0, <1>3, <2>1, PipeAt DEF Way
  <2> QED BY <2>2 DEF Okay, Token
<1> QED BY <1>2, <1>3 DEF Erasing

\* ...and over every step that is not the host's, once only GO!! can be left.
LEMMA LandedAround ==
  ASSUME Landed, Types, Around, pc # "erase", up \in {<<>>, <<GoCmd>>}
  PROVE  Landed' /\ pc' # "erase" /\ up' \in {up, <<>>}
<1> USE DEF Types
<1>0. scratch = "0"
  BY DEF Landed
<1>1. up # <<>> => Head(up) = GoCmd /\ Tail(up) = <<>> /\ GoCmd.t = "GO"
  BY SingleSeq DEF GoCmd
<1>2. UNCHANGED <<rec, slot, scratch, pressed>> => Landed'
  BY <1>0, LandedKept
<1>3. CASE Receive
  <2>1. up # <<>> /\ up' = <<>> /\ pressed' = pressed
    BY <1>1, <1>3, Takes
  <2>2. RecvGo \/ AppJunk \/ Unheard
    BY <1>1, <1>3, <2>1
    DEF Receive, RecvSync, RecvJunk, RecvBegin, RecvBadBegin, RecvData,
        RecvBadData, RecvEnd, AppTrigger, Arrives
  <2>3. UNCHANGED <<rec, slot, scratch>> /\ pc' # "erase"
    BY <2>2 DEF RecvGo, Go, AppJunk, Unheard, vars
  <2> QED BY <1>2, <2>1, <2>3
<1>4. CASE Proceed
  BY <1>4, LandedProceeds, Proceeds
<1>5. CASE Resets
  <2>1. ~Arrives("DATA")
    BY <1>1 DEF Arrives
  <2>2. up' = up \/ up' = <<>>
    BY <1>1, <1>5 DEF Resets
  <2>3. Landed'
    BY <1>5, <2>1, LandedKept DEF Resets
  <2> QED BY <1>5, <2>2, <2>3 DEF Resets
<1>6. CASE UNCHANGED tvars
  BY <1>2, <1>6 DEF tvars, bridge, vars
<1>7. CASE LoseFrame /\ UNCHANGED <<vars, host, pressed>>
  <2>1. up' = up \/ up' = <<>>
    BY <1>1, <1>7 DEF LoseFrame
  <2> QED BY <1>2, <1>7, <2>1 DEF vars
<1>8. ~DamageFrame
  BY <1>1 DEF DamageFrame
<1> QED BY <1>3, <1>4, <1>5, <1>6, <1>7, <1>8 DEF Around

\* Steps that are not the host's keep FinishedOK.
LEMMA AroundFinished ==
  ASSUME FinishedOK, Types, Around
  PROVE  FinishedOK'
<1> SUFFICES ASSUME hpc' \in {"go", "done"}, FewAttempts' PROVE
      /\ Landed' /\ pc' # "erase"
      /\ up' = <<>> \/ (up' = <<GoCmd>> /\ hpc' = "done")
  BY DEF FinishedOK, GoCmd
<1>1. hpc' = hpc /\ attempt' = attempt
  BY AroundKeeps DEF KeepsHost, Types
<1>2. /\ Landed /\ pc # "erase"
      /\ up = <<>> \/ (up = <<GoCmd>> /\ hpc = "done")
  BY <1>1 DEF FinishedOK, FewAttempts
<1> QED BY <1>1, <1>2, LandedAround

\* END is answered.
LEMMA EndedVerdict ==
  ASSUME Types, Types', ServingOK, VerdictOK, RecvEnd, Around, hpc = "verdict", FewAttempts,
         pressed' = pressed, NEW i \in 1..WayLen', Verdicts(Way'[i])
  PROVE  /\ i = WayLen' /\ linked
         /\ (Way'[i]).t = "DONE" => Landed'
<1> USE DEF Types
<1>0. up # <<>> /\ Head(up).t = "END" /\ pc = "recovery" /\ up' = Tail(up)
  BY DEF RecvEnd, Arrives, Take
<1>1. Thins({})
  BY AroundThins
<1>2. /\ WayLen \in Nat /\ WayLen' \in Nat
      /\ \A k \in 1..WayLen : Verdicts(Way[k]) => k = WayLen
  BY WayLenType, NextWayLen DEF VerdictOK
<1>3. i = WayLen'
  BY <1>1, <1>2, VerdictsThin DEF Thins
<1>4. Len(down) + 1 \in 1..WayLen /\ Way[Len(down) + 1] = Head(up)
  BY <1>0, HeadPlace
<1>5. Len(down) + 1 = WayLen /\ linked
  BY <1>0, <1>4 DEF VerdictOK, Verdicts
<1>6. CASE SlotCrc(app_len) = app_crc
  <2>1. Serves
    BY <1>5 DEF ServingOK, ServingNeeded, Active
  <2> QED BY <1>3, <1>5, <1>6, <2>1, VerdictIsTrue
<1>7. CASE SlotCrc(app_len) # app_crc
  <2>1. down' = Append(down, Token("ECRC")) /\ pc' = "recovery"
    BY <1>7 DEF RecvEnd, Reply, End
  <2>2. Token("ECRC") \in Tokens /\ Token("ECRC").t = "ECRC"
    BY TokenFacts DEF TokenTag
  <2>3. Longer(down', down, Token("ECRC")) /\ down' \in Seq(Tokens)
    BY <2>1, <2>2, LongerAppend DEF DownOK
  <2>4. Len(down) \in Nat /\ Len(up) \in Nat \ {0} /\ Len(up') = Len(up) - 1
    BY <1>0, ShortensSeq DEF UpOK, DownOK
  <2>5. WayLen = Len(down) + Len(up)
    BY <1>0, <2>4 DEF WayLen, Erasing
  <2>6. Len(up) = 1 /\ Len(up') = 0
    BY <1>5, <2>4, <2>5
  <2>7. WayLen' = Len(down') + 0 + Len(up')
    BY <2>1 DEF WayLen, Erasing
  <2>8. Len(down') = Len(down) + 1
    BY <2>3 DEF Longer
  <2>9. i = Len(down) + 1 /\ i \in 1..Len(down') /\ down'[i] = Token("ECRC")
    BY <1>3, <2>3, <2>4, <2>6, <2>7, <2>8 DEF Longer
  <2>10. Way' = PipeOf(down', 0, up') /\ up' \in Seq(Frame) /\ 0 \in 0..1
    BY <2>1 DEF Way, Erasing, UpOK
  <2>11. Way'[i] = down'[i]
    BY <2>3, <2>9, <2>10, PipeAt
  <2>12. (Way'[i]).t = "ECRC"
    BY <2>2, <2>9, <2>11
  <2> QED BY <1>3, <1>5, <2>12
<1> QED BY <1>6, <1>7

\* And VerdictOK.
LEMMA AroundVerdict ==
  ASSUME VerdictOK, ServingOK, Types, Types', Around
  PROVE  VerdictOK'
<1> USE DEF Types
<1> SUFFICES ASSUME hpc' = "verdict", FewAttempts', NEW i \in 1..WayLen', Verdicts(Way'[i])
             PROVE  /\ i = WayLen' /\ linked'
                    /\ (Way'[i]).t = "DONE" => Landed'
  BY DEF VerdictOK
<1>0. hpc = "verdict" /\ FewAttempts
      /\ (linked' = linked \/ (linked' = FALSE /\ up' = <<>> /\ down' = <<>>
                                 /\ pc' # "erase"))
  BY AroundKeeps DEF KeepsHost, FewAttempts
<1>1. ~(linked' = FALSE /\ up' = <<>> /\ down' = <<>> /\ pc' # "erase")
  <2>1. up' = <<>> /\ down' = <<>> /\ pc' # "erase" => WayLen' = 0
    BY DEF WayLen, Erasing
  <2> QED BY <2>1
<1>2. linked' = linked
  BY <1>0, <1>1
<1>3. CASE Receive /\ RecvEnd
  <2>1. pressed' = pressed
    BY <1>3, Takes
  <2> QED BY <1>0, <1>2, <1>3, <2>1, EndedVerdict
<1>4. CASE ~(Receive /\ RecvEnd)
  <2>1. Thins({"DONE"})
    BY <1>4, AroundThins
  <2>2. /\ WayLen \in Nat /\ WayLen' \in Nat
        /\ \A k \in 1..WayLen : Verdicts(Way[k]) => k = WayLen
    BY <1>0, WayLenType, NextWayLen DEF VerdictOK
  <2>3. /\ i = WayLen' /\ WayLen \in 1..WayLen /\ Verdicts(Way[WayLen])
        /\ (Way'[i]).t \in {"DONE"} => (Way'[i]).t = Way[WayLen].t
    BY <2>1, <2>2, VerdictsThin DEF Thins
  <2>4. linked /\ (Way[WayLen].t = "DONE" => Landed)
    BY <1>0, <2>3 DEF VerdictOK
  <2>5. Way[WayLen].t = "DONE" => Landed'
    BY <2>3, <2>4, DonePlace, LandedAround
  <2> QED BY <1>2, <2>3, <2>4, <2>5
<1> QED BY <1>3, <1>4

-----------------------------------------------------------------------------
(* The host's own steps. *)

\* The way once the drain is done and before anything is sent.
Mid == PipeOf(down', Erasing, up)
MidLen == Len(down') + Erasing + Len(up)

\* The drain thins the way.
LEMMA DrainThins ==
  ASSUME UpOK, DownOK, NEW T, down' \in {down, <<>>}
  PROVE  Thinner(Way, WayLen, Mid, MidLen, T) /\ MidLen \in Nat /\ down' \in Seq(Tokens)
<1>1. down \in Seq(Tokens) /\ up \in Seq(Frame) /\ Erasing \in 0..1 /\ WayLen \in Nat
  BY WayLenType
<1>2. CASE down' = down
  <2>1. Mid = Way /\ MidLen = WayLen
    BY <1>2 DEF Mid, MidLen, Way, WayLen
  <2>2. Thinner(Way, WayLen, Way, WayLen, T)
    BY <1>1, WeakerSelf, Replaced
  <2> QED BY <1>1, <1>2, <2>1, <2>2
<1>3. CASE down' = <<>>
  <2>1. <<>> \in Seq(Tokens) /\ Nothing(<<>>)
    BY DEF Nothing
  <2>2. Thinner(PipeOf(down, Erasing, up), Len(down) + Erasing + Len(up),
                PipeOf(<<>>, Erasing, up), Len(<<>>) + Erasing + Len(up), T)
    BY <1>1, <2>1, TokensCleared
  <2>3. Len(<<>>) + Erasing + Len(up) \in Nat
    BY <1>1, <2>1, PipeAt
  <2> QED BY <1>3, <2>1, <2>2, <2>3 DEF Mid, MidLen, Way, WayLen
<1> QED BY <1>2, <1>3

\* A frame goes out behind all that is under way.
LEMMA SentPlaces ==
  ASSUME UpOK, DownOK, down' \in {down, <<>>}, pc' = pc,
         NEW f \in Frame, up' = Append(up, f)
  PROVE  /\ WayLen' = MidLen + 1 /\ MidLen \in Nat
         /\ \A i \in 1..MidLen : Way'[i] = Mid[i]
         /\ Way'[MidLen + 1] = f
<1>1. Erasing' = Erasing /\ Erasing \in 0..1 /\ up \in Seq(Frame)
  BY WayLenType DEF Erasing
<1>2. down' \in Seq(Tokens) /\ MidLen \in Nat
  BY DrainThins
<1>3. Longer(up', up, f) /\ up' \in Seq(Frame)
  BY <1>1, LongerAppend
<1>4. Way' = PipeOf(down', Erasing, up') /\ WayLen' = Len(down') + Erasing + Len(up')
  BY <1>1 DEF Way, WayLen
<1>5. Len(down') \in Nat /\ Len(up') = Len(up) + 1 /\ Len(up) \in Nat
  BY <1>2, <1>3 DEF Longer
<1>6. WayLen' = MidLen + 1
  BY <1>1, <1>4, <1>5 DEF MidLen
<1>7. ASSUME NEW i \in 1..MidLen PROVE Way'[i] = Mid[i]
  <2>1. CASE i \in 1..Len(down')
    <3>1. PipeOf(down', Erasing, up')[i] = down'[i]
      BY <1>1, <1>2, <1>3, <2>1, PipeAt
    <3>2. PipeOf(down', Erasing, up)[i] = down'[i]
      BY <1>1, <1>2, <2>1, PipeAt
    <3> QED BY <1>4, <3>1, <3>2 DEF Mid
  <2>2. CASE Erasing = 1 /\ i = Len(down') + 1
    <3>1. PipeOf(down', Erasing, up')[i] = Okay
      BY <1>1, <1>2, <1>3, <2>2, PipeAt
    <3>2. PipeOf(down', Erasing, up)[i] = Okay
      BY <1>1, <1>2, <2>2, PipeAt
    <3> QED BY <1>4, <3>1, <3>2 DEF Mid
  <2>3. ASSUME NEW j \in 1..Len(up), i = UpAt(down', Erasing, j) PROVE Way'[i] = Mid[i]
    <3>1. j \in 1..Len(up') /\ up'[j] = up[j]
      BY <1>3, <1>5 DEF Longer
    <3>2. PipeOf(down', Erasing, up')[i] = up'[j]
      BY <1>1, <1>2, <1>3, <2>3, <3>1, PipeUp
    <3>3. PipeOf(down', Erasing, up)[i] = up[j]
      BY <1>1, <1>2, <2>3, PipeUp
    <3> QED BY <1>4, <3>1, <3>2, <3>3 DEF Mid
  <2>4. i \in 1..Len(down') + Erasing + Len(up)
    BY DEF MidLen
  <2> QED BY <1>1, <1>2, <2>1, <2>2, <2>3, <2>4, PipeCovered
<1>8. Way'[MidLen + 1] = f
  <2>1. Len(up) + 1 \in 1..Len(up') /\ up'[Len(up) + 1] = f
    BY <1>3, <1>5 DEF Longer
  <2>2. MidLen + 1 = UpAt(down', Erasing, Len(up) + 1)
    BY <1>1, <1>5 DEF MidLen, UpAt
  <2>3. PipeOf(down', Erasing, up')[UpAt(down', Erasing, Len(up) + 1)] = up'[Len(up) + 1]
    BY <1>1, <1>2, <1>3, <2>1, PipeUp
  <2> QED BY <1>4, <2>1, <2>2, <2>3
<1> QED BY <1>2, <1>6, <1>7, <1>8

\* Sending keeps the ledger, and brings no OKER.
LEMMA SentLedger ==
  ASSUME UpOK, DownOK, down' \in {down, <<>>}, pc' = pc,
         NEW f \in Frame, up' = Append(up, f),
         NEW w, NEW owed \in Nat, NEW stale \in Int, NEW o \in Nat, NEW s \in Int,
         Ledger(Way, WayLen, w, owed, stale),
         owed <= o, stale <= s \/ owed <= s,
         Pushes(f) => owed < o /\ ~Foreign(f),
         Verdicts(f) => o <= s
  PROVE  Ledger(Way', WayLen', w, o, s)
<1>1. Ledger(Mid, MidLen, w, owed, stale) /\ MidLen \in Nat
  <2>1. Thinner(Way, WayLen, Mid, MidLen, {}) /\ MidLen \in Nat /\ WayLen \in Nat
    BY DrainThins, WayLenType
  <2>2. owed \in Int
    OBVIOUS
  <2> QED BY <2>1, <2>2, LedgerThins
<1>2. /\ WayLen' = MidLen + 1
      /\ \A i \in 1..MidLen : Way'[i] = Mid[i]
      /\ Way'[MidLen + 1] = f
  BY SentPlaces
<1>3. Ledger(Way', MidLen + 1, w, o, s)
  <2>1. /\ Pushes(Way'[MidLen + 1]) => owed < o /\ ~Foreign(Way'[MidLen + 1])
        /\ Verdicts(Way'[MidLen + 1]) => o <= s
    BY <1>2
  <2> QED BY <1>1, <1>2, <2>1, LedgerGrows
<1> QED BY <1>2, <1>3

LEMMA SentOkays ==
  ASSUME UpOK, DownOK, down' \in {down, <<>>}, pc' = pc,
         NEW f \in Frame, up' = Append(up, f), NEW w, Okayed(Way', WayLen', w)
  PROVE  Okayed(Way, WayLen, w)
<1>1. /\ WayLen' = MidLen + 1 /\ MidLen \in Nat
      /\ \A i \in 1..MidLen : Way'[i] = Mid[i]
      /\ Way'[MidLen + 1] = f
  BY SentPlaces
<1>2. f.t # "OKER"
  BY CmdFields DEF Frame, Bad
<1>3. PICK i \in 1..WayLen' : (Way'[i]).t = "OKER" /\ Behind(Way', i, w)
  BY DEF Okayed
<1>4. i \in 1..MidLen /\ \A g \in 1..i - 1 : g \in 1..MidLen
  BY <1>1, <1>2, <1>3
<1>5. Okayed(Mid, MidLen, w)
  BY <1>1, <1>3, <1>4 DEF Okayed, Behind
<1>6. Thinner(Way, WayLen, Mid, MidLen, {"OKER"}) /\ MidLen \in Nat /\ WayLen \in Nat
  BY DrainThins, WayLenType
<1> QED BY <1>5, <1>6, OkayThins

\* What was under way is kept or thrown away, on either side.
LEMMA ClearedThins ==
  ASSUME UpOK, DownOK, NEW T, down' \in {down, <<>>}, up' \in {up, <<>>}, pc' = pc
  PROVE  /\ Thinner(Way, WayLen, Mid, MidLen, T) /\ MidLen \in Nat /\ WayLen \in Nat
         /\ Thinner(Mid, MidLen, Way', WayLen', T) /\ WayLen' \in Nat
<1>1. down \in Seq(Tokens) /\ up \in Seq(Frame) /\ Erasing \in 0..1 /\ WayLen \in Nat
  BY WayLenType
<1>2. Thinner(Way, WayLen, Mid, MidLen, T) /\ MidLen \in Nat /\ down' \in Seq(Tokens)
  BY DrainThins
<1>3. Way' = PipeOf(down', Erasing, up') /\ WayLen' = Len(down') + Erasing + Len(up')
  BY DEF Way, WayLen, Erasing
<1>4. CASE up' = up
  <2>1. Way' = Mid /\ WayLen' = MidLen
    BY <1>3, <1>4 DEF Mid, MidLen
  <2>2. Thinner(Mid, MidLen, Mid, MidLen, T)
    BY <1>2, WeakerSelf, Replaced
  <2> QED BY <1>1, <1>2, <2>1, <2>2
<1>5. CASE up' = <<>>
  <2>1. Thinner(PipeOf(down', Erasing, up), Len(down') + Erasing + Len(up),
                PipeOf(down', Erasing, <<>>), Len(down') + Erasing + Len(<<>>), T)
    BY <1>1, <1>2, FramesCleared
  <2>2. <<>> \in Seq(Frame)
    OBVIOUS
  <2>3. Len(down') + Erasing + Len(<<>>) \in Nat
    BY <1>1, <1>2, <2>2, PipeAt
  <2> QED BY <1>1, <1>2, <1>3, <1>5, <2>1, <2>3 DEF Mid, MidLen
<1> QED BY <1>4, <1>5

\* Clearing keeps the ledger, and brings no OKER.
LEMMA ClearedLedger ==
  ASSUME UpOK, DownOK, down' \in {down, <<>>}, up' \in {up, <<>>}, pc' = pc,
         NEW w, NEW owed \in Int, NEW stale \in Int, Ledger(Way, WayLen, w, owed, stale)
  PROVE  Ledger(Way', WayLen', w, owed, stale)
<1>1. Ledger(Mid, MidLen, w, owed, stale)
  BY ClearedThins, LedgerThins
<1> QED BY <1>1, ClearedThins, LedgerThins

LEMMA ClearedOkays ==
  ASSUME UpOK, DownOK, down' \in {down, <<>>}, up' \in {up, <<>>}, pc' = pc,
         NEW w, Okayed(Way', WayLen', w)
  PROVE  Okayed(Way, WayLen, w)
<1>1. /\ Thinner(Way, WayLen, Mid, MidLen, {"OKER"}) /\ MidLen \in Nat /\ WayLen \in Nat
      /\ Thinner(Mid, MidLen, Way', WayLen', {"OKER"}) /\ WayLen' \in Nat
  BY ClearedThins
<1>2. Okayed(Mid, MidLen, w)
  BY <1>1, OkayThins
<1> QED BY <1>1, <1>2, OkayThins

\* Behind what is under way, or nowhere.
LEMMA PassedOnLedger ==
  ASSUME UpOK, DownOK, UpOK', DownOK', down' \in {down, <<>>}, pc' = pc,
         NEW f \in Frame, up' = Append(up, f) \/ up' = up,
         NEW w, NEW owed \in Nat, NEW stale \in Int, NEW o \in Nat, NEW s \in Int,
         Ledger(Way, WayLen, w, owed, stale),
         owed <= o, stale <= s \/ owed <= s,
         Pushes(f) => owed < o /\ ~Foreign(f),
         Verdicts(f) => o <= s
  PROVE  Ledger(Way', WayLen', w, o, s)
<1>1. CASE up' = Append(up, f)
  BY <1>1, SentLedger
<1>2. CASE up' = up
  <2>1. owed \in Int /\ o \in Int
    OBVIOUS
  <2>2. Ledger(Way', WayLen', w, owed, stale)
    BY <1>2, <2>1, ClearedLedger
  <2>3. WayLen' \in Nat
    BY NextWayLen
  <2> QED BY <2>1, <2>2, <2>3, LedgerWeakens
<1> QED BY <1>1, <1>2

\* The host's steps leave the panel as it is.
LEMMA HostServes ==
  ASSUME UNCHANGED vars, pressed' = pressed, Serves
  PROVE  Serves'
  BY DEF vars, recovery, Serves, ImageCrc, EmptyCrc

LEMMA HostLanded ==
  ASSUME UNCHANGED vars, pressed' = pressed, Landed
  PROVE  Landed'
<1>1. scratch' = "0" /\ UNCHANGED <<rec, slot>>
  BY DEF vars, Landed
<1> QED BY <1>1, LandedKept

\* Sending keeps ServingOK.
LEMMA PassedOnServing ==
  ASSUME ServingOK, Types, UNCHANGED vars, pressed' = pressed, Active, Phase' = Phase,
         down' \in {down, <<>>}, NEW f \in Frame, up' = Append(up, f) \/ up' = up,
         hpc' \in {"data", "dack", "verdict"} /\ linked' =>
           hpc \in {"data", "dack", "verdict"} /\ linked
  PROVE  ServingOK'
<1> USE DEF Types
<1> SUFFICES ASSUME ServingNeeded' PROVE Serves'
  BY DEF ServingOK
<1>1. pc' = pc
  BY DEF vars
<1>2. Okayed(Way', WayLen', Phase) => Okayed(Way, WayLen, Phase)
  <2>1. up' = Append(up, f) => (Okayed(Way', WayLen', Phase) => Okayed(Way, WayLen, Phase))
    BY <1>1, SentOkays
  <2>2. up' = up => (Okayed(Way', WayLen', Phase) => Okayed(Way, WayLen, Phase))
    BY <1>1, ClearedOkays
  <2> QED BY <2>1, <2>2
<1>3. ServingNeeded
  BY <1>2 DEF ServingNeeded
<1> QED BY <1>3, HostServes DEF ServingOK

\* The inductive invariant of the transfer.
Sound == LedgerOK /\ ServingOK /\ VerdictOK /\ FinishedOK

\* What this host sends is its own.
LEMMA FramesOwn ==
  /\ Sync \in Frame /\ ~Pushes(Sync) /\ ~Verdicts(Sync)
  /\ Trigger \in Frame /\ ~Pushes(Trigger) /\ ~Verdicts(Trigger)
  /\ BegnFor(New) \in Frame /\ ~Foreign(BegnFor(New)) /\ ~Verdicts(BegnFor(New))
  /\ EndCmd \in Frame /\ ~Foreign(EndCmd)
  /\ \A i \in 1..Size[New] : /\ DataFor(New, i) \in Frame
                             /\ ~Foreign(DataFor(New, i)) /\ ~Verdicts(DataFor(New, i))
<1>1. /\ Sync \in Frame /\ Trigger \in Frame /\ BegnFor(New) \in Frame /\ EndCmd \in Frame
      /\ \A i \in 1..Size[New] : DataFor(New, i) \in Frame
  BY FrameFacts, TransferAssumption
<1> QED BY <1>1 DEF Sync, Trigger, BegnFor, EndCmd, DataFor, Pushes, Verdicts, Foreign

\* The host's sends; END goes out when no old verdict can be left.
LEMMA SendSound ==
  ASSUME Sound, Types, Types', HostStep,
         Probe \/ SendTrigger \/ SendBegin \/ SendChunk \/ SendEnd
  PROVE  Sound'
<1> USE DEF Types, Sound
<1>0. UNCHANGED vars /\ pressed' = pressed /\ pc' = pc
  BY DEF HostStep, vars
<1>1. /\ attempt \in Nat \ {0} /\ off \in Nat \ {0} /\ Size[New] \in Nat \ {0}
      /\ Owed \in Nat /\ Stale \in Int
  BY CountersType
<1>2. CASE Probe
  <2>1. /\ hpc = "probe" /\ hpc' = "sync" /\ attempt' = attempt
        /\ down' \in {down, <<>>} /\ up' = Append(up, Sync)
    BY <1>2 DEF Probe, Drain, Goto
  <2>2. /\ Active /\ Phase = "greet" /\ Phase' = "greet" /\ Owed = attempt - 1
        /\ Owed' = Owed /\ Stale' = Stale
    BY <2>1 DEF Active, Phase, Pushing, Owed, Stale
  <2>3. Ledger(Way', WayLen', Phase, Owed, Stale)
    BY <1>0, <1>1, <2>1, <2>2, FramesOwn, PassedOnLedger DEF LedgerOK
  <2>4. LedgerOK'
    BY <2>2, <2>3 DEF LedgerOK
  <2>5. ServingOK'
    BY <1>0, <2>1, <2>2, FramesOwn, PassedOnServing
  <2> QED BY <2>1, <2>4, <2>5 DEF VerdictOK, FinishedOK
<1>3. CASE SendTrigger
  <2>1. /\ hpc = "trigger" /\ hpc' = "ack" /\ attempt' = attempt
        /\ down' \in {down, <<>>}
        /\ up' = Append(up, Trigger) \/ up' = up
    BY <1>3 DEF SendTrigger, Drain, Goto, Send
  <2>2. /\ Active /\ Phase = "greet" /\ Phase' = "greet" /\ Owed = attempt - 1
        /\ Owed' = Owed /\ Stale' = Stale
    BY <2>1 DEF Active, Phase, Pushing, Owed, Stale
  <2>3. Ledger(Way', WayLen', Phase, Owed, Stale)
    BY <1>0, <1>1, <2>1, <2>2, FramesOwn, PassedOnLedger DEF LedgerOK
  <2>4. LedgerOK'
    BY <2>2, <2>3 DEF LedgerOK
  <2>5. ServingOK'
    BY <1>0, <2>1, <2>2, FramesOwn, PassedOnServing
  <2> QED BY <2>1, <2>4, <2>5 DEF VerdictOK, FinishedOK
<1>4. CASE SendBegin
  <2>1. /\ hpc = "begin" /\ hpc' = "oker" /\ attempt' = attempt
        /\ down' \in {down, <<>>}
        /\ up' = Append(up, BegnFor(New)) \/ up' = up
    BY <1>4 DEF SendBegin, Drain, Goto, Send
  <2>2. /\ Active /\ Phase = "push" /\ Phase' = "push" /\ Owed = attempt - 1
        /\ Owed' = attempt /\ Stale' = Stale
    BY <2>1 DEF Active, Phase, Pushing, Owed, Stale
  <2>3. attempt \in Nat /\ Owed <= attempt /\ Owed < attempt
    BY <1>1, <2>2
  <2>4. Ledger(Way', WayLen', Phase, attempt, Stale)
    BY <1>0, <1>1, <2>1, <2>2, <2>3, FramesOwn, PassedOnLedger DEF LedgerOK
  <2>5. LedgerOK'
    BY <2>2, <2>4 DEF LedgerOK
  <2>6. ServingOK'
    BY <1>0, <2>1, <2>2, FramesOwn, PassedOnServing
  <2> QED BY <2>1, <2>5, <2>6 DEF VerdictOK, FinishedOK
<1>5. CASE SendChunk
  <2>1. /\ hpc = "data" /\ hpc' = "dack" /\ attempt' = attempt /\ off' = off
        /\ off \in 1..Size[New] /\ linked' = linked
        /\ down' \in {down, <<>>}
        /\ up' = Append(up, DataFor(New, off)) \/ up' = up
    BY <1>1, <1>5 DEF SendChunk, Goto, Send
  <2>2. /\ Active /\ Phase = "push" /\ Phase' = "push" /\ Owed = attempt - 1
        /\ Owed' = attempt /\ Stale' = Stale
    BY <2>1 DEF Active, Phase, Pushing, Owed, Stale
  <2>3. attempt \in Nat /\ Owed <= attempt /\ Owed < attempt
    BY <1>1, <2>2
  <2>4. Ledger(Way', WayLen', Phase, attempt, Stale)
    BY <1>0, <1>1, <2>1, <2>2, <2>3, FramesOwn, PassedOnLedger DEF LedgerOK
  <2>5. LedgerOK'
    BY <2>2, <2>4 DEF LedgerOK
  <2>6. ServingOK'
    BY <1>0, <2>1, <2>2, FramesOwn, PassedOnServing
  <2> QED BY <2>1, <2>5, <2>6 DEF VerdictOK, FinishedOK
<1>6. CASE SendEnd
  <2>1. /\ hpc = "data" /\ hpc' = "verdict" /\ attempt' = attempt /\ off > Size[New]
        /\ linked' = linked /\ down' = down
        /\ up' = (IF linked THEN Append(up, EndCmd) ELSE up)
    BY <1>6 DEF SendEnd, Goto, Send
  <2>2. /\ Active /\ Phase = "push" /\ Phase' = "push" /\ Owed = attempt - 1
        /\ Owed' = attempt /\ Stale' = attempt /\ Stale = attempt - 1 - off
    BY <2>1 DEF Active, Phase, Pushing, Owed, Stale
  <2>3. attempt \in Nat /\ attempt \in Int /\ Owed <= attempt /\ Owed < attempt
        /\ attempt <= attempt
    BY <1>1, <2>2
  <2>4. up' = Append(up, EndCmd) \/ up' = up
    BY <2>1
  <2>5. down' \in {down, <<>>} /\ EndCmd \in Frame /\ ~Foreign(EndCmd)
        /\ Ledger(Way, WayLen, Phase, Owed, Stale)
    BY <2>1, <2>2, FramesOwn DEF LedgerOK
  <2>6. Ledger(Way', WayLen', Phase, attempt, attempt)
    BY <1>0, <1>1, <2>3, <2>4, <2>5, PassedOnLedger
  <2>7. LedgerOK'
    BY <2>2, <2>6 DEF LedgerOK
  <2>8. ServingOK'
    BY <1>0, <2>1, <2>2, <2>4, <2>5, PassedOnServing
  <2>9. ASSUME FewAttempts' PROVE \A i \in 1..WayLen : ~Verdicts(Way[i])
    <3>1. attempt <= Size[New] + 2
      BY <2>1, <2>9 DEF FewAttempts
    <3>2. Stale <= 0
      BY <1>1, <2>1, <2>2, <3>1
    <3>3. Owed \in Int /\ WayLen \in Nat
      BY <1>1, WayLenType
    <3> QED BY <1>1, <2>2, <2>5, <3>2, <3>3, NoVerdictLeft
  <2>10. ASSUME FewAttempts', NEW i \in 1..WayLen', Verdicts(Way'[i])
         PROVE  i = WayLen' /\ linked' /\ (Way'[i]).t # "DONE"
    <3>1. Mid = Way /\ MidLen = WayLen
      BY <2>1 DEF Mid, MidLen, Way, WayLen
    <3>2. CASE linked
      <4>1. /\ WayLen' = WayLen + 1 /\ WayLen \in Nat
            /\ \A k \in 1..WayLen : Way'[k] = Way[k]
            /\ Way'[WayLen + 1] = EndCmd
        BY <1>0, <2>1, <2>5, <3>1, <3>2, SentPlaces
      <4>2. i \notin 1..WayLen
        BY <2>9, <2>10, <4>1
      <4>3. i = WayLen + 1
        BY <4>1, <4>2
      <4> QED BY <2>1, <3>2, <4>1, <4>3 DEF EndCmd
    <3>3. CASE ~linked
      <4>1. Way' = Way /\ WayLen' = WayLen
        BY <1>0, <2>1, <3>3 DEF Way, WayLen, Erasing
      <4> QED BY <2>9, <2>10, <4>1
    <3> QED BY <3>2, <3>3
  <2>11. VerdictOK'
    BY <2>10 DEF VerdictOK
  <2> QED BY <2>1, <2>7, <2>8, <2>11 DEF FinishedOK
<1> QED BY <1>2, <1>3, <1>4, <1>5, <1>6

\* GO!! follows the verdict.
LEMMA GoSound ==
  ASSUME Sound, Types, HostStep, SendGo
  PROVE  Sound'
<1>1. /\ hpc = "go" /\ hpc' = "done" /\ attempt' = attempt /\ pc' = pc
      /\ UNCHANGED vars /\ pressed' = pressed
      /\ up' = Append(up, GoCmd) \/ up' = up
  BY DEF SendGo, Goto, Send, HostStep, vars
<1>2. ~Active' /\ LedgerOK' /\ ServingOK' /\ VerdictOK'
  BY <1>1 DEF Active, LedgerOK, ServingOK, VerdictOK
<1>3. ASSUME FewAttempts'
      PROVE  Landed' /\ pc' # "erase" /\ (up' = <<>> \/ up' = <<GoCmd>>)
  <2>1. Landed /\ pc # "erase" /\ up = <<>>
    BY <1>1, <1>3 DEF Sound, FinishedOK, FewAttempts
  <2>2. Append(<<>>, GoCmd) = <<GoCmd>>
    OBVIOUS
  <2> QED BY <1>1, <2>1, <2>2, HostLanded
<1>4. FinishedOK'
  BY <1>1, <1>3 DEF FinishedOK, GoCmd
<1> QED BY <1>2, <1>4 DEF Sound

\* The attempt is over.
LEMMA RetrySound ==
  ASSUME Sound, Types, Types', UNCHANGED vars, pressed' = pressed, Active, NextAttempt,
         NEW w, Ledger(Way', WayLen', w, Owed, Stale), w = Phase,
         \A x : Okayed(Way', WayLen', x) => Okayed(Way, WayLen, x)
  PROVE  Sound'
<1> USE DEF Types
<1>1. attempt \in Nat \ {0} /\ attempt <= Retries /\ Owed \in Nat /\ Stale \in Int
      /\ Retries \in Nat
  BY CountersType, TransferAssumption DEF HostOK
<1>2. CASE attempt < Retries
  <2>1. hpc' = "probe" /\ attempt' = attempt + 1
    BY <1>2 DEF NextAttempt, Goto
  <2>2. /\ Active' /\ Phase' = "greet" /\ Owed' = attempt /\ Stale' = attempt + 1
    <3>1. Phase' = "greet" /\ Active'
      BY <2>1 DEF Active, Phase, Pushing
    <3>2. Owed' = attempt' - 1 /\ Stale' = attempt'
      BY <2>1 DEF Owed, Stale
    <3> QED BY <1>1, <2>1, <3>1, <3>2
  <2>3. Owed <= attempt /\ Owed <= attempt + 1
    BY <1>1 DEF Owed
  <2>4. w = "push" \/ "greet" = w
    BY DEF Phase
  <2>5. Ledger(Way', WayLen', "greet", attempt, attempt + 1)
    <3>1. attempt + 1 \in Int /\ attempt \in Int /\ WayLen' \in Nat /\ Owed \in Int
      BY <1>1, NextWayLen
    <3> QED BY <1>1, <2>3, <2>4, <3>1, LedgerWeakens
  <2>6. LedgerOK'
    BY <2>2, <2>5 DEF LedgerOK
  <2>7. ASSUME ServingNeeded' PROVE Serves'
    <3>1. Okayed(Way', WayLen', "greet")
      BY <2>1, <2>2, <2>7 DEF ServingNeeded
    <3>2. Okayed(Way, WayLen, "greet")
      BY <3>1
    <3>3. Okayed(Way, WayLen, Phase)
      BY <3>2 DEF Okayed, Behind, Phase
    <3> QED BY <3>3, HostServes DEF Sound, ServingOK, ServingNeeded
  <2> QED BY <2>1, <2>6, <2>7 DEF Sound, ServingOK, VerdictOK, FinishedOK
<1>3. CASE ~(attempt < Retries)
  <2>1. hpc' = "failed"
    BY <1>3 DEF NextAttempt, Goto
  <2> QED BY <2>1 DEF Sound, LedgerOK, ServingOK, VerdictOK, FinishedOK, Active
<1> QED BY <1>2, <1>3

\* A wait that runs out moves nothing.
LEMMA BridgeStill ==
  ASSUME UNCHANGED bridge, UNCHANGED vars
  PROVE  Way' = Way /\ WayLen' = WayLen /\ pc' = pc
  BY DEF bridge, vars, Way, WayLen, Erasing

\* A wait runs out.
LEMMA GiveUpSound ==
  ASSUME Sound, Types, Types', UNCHANGED vars, pressed' = pressed, GiveUpWaiting
  PROVE  Sound'
<1>1. Way' = Way /\ WayLen' = WayLen /\ UNCHANGED bridge
  BY BridgeStill DEF GiveUpWaiting
<1>2. CASE NextAttempt /\ hpc \in {"oker", "dack", "verdict"}
  <2>1. Active
    BY <1>2 DEF Active
  <2>2. Ledger(Way', WayLen', Phase, Owed, Stale)
    BY <1>1, <2>1 DEF Sound, LedgerOK
  <2>3. \A x : Okayed(Way', WayLen', x) => Okayed(Way, WayLen, x)
    BY <1>1
  <2> QED BY <1>2, <2>1, <2>2, <2>3, RetrySound
<1>3. CASE hpc \in {"sync", "ack"} /\ hpc' \in {"probe", "trigger"} /\ attempt' = attempt
  <2>1. /\ Active /\ Active' /\ Phase' = Phase /\ Owed' = Owed /\ Stale' = Stale
    BY <1>3 DEF Active, Phase, Pushing, Owed, Stale
  <2>2. LedgerOK'
    BY <1>1, <2>1 DEF Sound, LedgerOK
  <2>3. ServingNeeded' => ServingNeeded
    BY <1>1, <1>3, <2>1 DEF ServingNeeded
  <2>4. ServingOK'
    BY <2>1, <2>3, HostServes DEF Sound, ServingOK
  <2> QED BY <1>3, <2>2, <2>4 DEF Sound, VerdictOK, FinishedOK
<1> QED BY <1>2, <1>3 DEF GiveUpWaiting, Goto

\* A chunk was sent too often.
LEMMA ChunkFailedSound ==
  ASSUME Sound, Types, Types', HostStep, ChunkFailed
  PROVE  Sound'
<1>1. UNCHANGED vars /\ pressed' = pressed /\ UNCHANGED bridge /\ NextAttempt /\ Active
  BY DEF HostStep, ChunkFailed, Active
<1>2. Way' = Way /\ WayLen' = WayLen
  BY <1>1, BridgeStill
<1>3. Ledger(Way', WayLen', Phase, Owed, Stale)
  BY <1>1, <1>2 DEF Sound, LedgerOK
<1>4. \A x : Okayed(Way', WayLen', x) => Okayed(Way, WayLen, x)
  BY <1>2
<1> QED BY <1>1, <1>3, <1>4, RetrySound

\* A socket error.
LEMMA FailSound ==
  ASSUME Sound, Types, Types', UNCHANGED vars, pressed' = pressed, AttemptFails
  PROVE  Sound'
<1>1. /\ Active /\ NextAttempt /\ pc' = pc
      /\ down' \in {down, <<>>} /\ up' \in {up, <<>>}
  BY DEF AttemptFails, Active, vars
<1>2. UpOK /\ DownOK /\ Owed \in Int /\ Stale \in Int
  BY CountersType DEF Types
<1>3. Ledger(Way', WayLen', Phase, Owed, Stale)
  BY <1>1, <1>2, ClearedLedger DEF Sound, LedgerOK
<1>4. \A x : Okayed(Way', WayLen', x) => Okayed(Way, WayLen, x)
  BY <1>1, <1>2, ClearedOkays
<1> QED BY <1>1, <1>3, <1>4, RetrySound

\* Another client's frame.
LEMMA OtherSound ==
  ASSUME Sound, Types, Types', OtherClient, UNCHANGED <<vars, host, pressed>>
  PROVE  Sound'
<1> USE DEF Types
<1>1. /\ hpc = "probe" /\ hpc' = hpc /\ attempt' = attempt /\ linked' = FALSE
      /\ UNCHANGED vars /\ pressed' = pressed /\ pc' = pc
  BY DEF OtherClient, host, vars
<1>2. /\ Active /\ Active' /\ Phase = "greet" /\ Phase' = "greet"
      /\ Owed' = Owed /\ Stale' = Stale /\ Owed = attempt - 1 /\ Stale = attempt
  BY <1>1 DEF Active, Phase, Pushing, Owed, Stale
<1>3. PICK f \in Others :
        /\ up' = Append(up, f)
        /\ \/ f \in {Sync, Trigger} /\ down' = down
           \/ f \notin {Sync, Trigger} /\ up = <<>> /\ pc # "erase" /\ down' = <<>>
  BY DEF OtherClient
<1>4. f \in Frame /\ attempt \in Nat /\ Owed \in Nat /\ Stale \in Nat /\ Stale \in Int
  BY <1>2, OthersAssumption, FrameFacts, CountersType
<1>5. CASE f \in {Sync, Trigger} /\ down' = down
  <2>1. ~Pushes(f) /\ ~Verdicts(f)
    BY <1>5, FramesOwn
  <2>2. Ledger(Way', WayLen', Phase, Owed, Stale)
    BY <1>1, <1>2, <1>3, <1>4, <1>5, <2>1, PassedOnLedger DEF Sound, LedgerOK
  <2>3. LedgerOK'
    BY <1>2, <2>2 DEF LedgerOK
  <2>4. ServingOK'
    BY <1>1, <1>2, <1>3, <1>4, <1>5, PassedOnServing DEF Sound
  <2> QED BY <1>1, <2>3, <2>4 DEF Sound, VerdictOK, FinishedOK
<1>6. CASE up = <<>> /\ pc # "erase" /\ down' = <<>>
  <2>1. Append(up, f) = <<f>>
    BY <1>6
  <2>2. Len(up') = 1 /\ Len(down') = 0
    BY <1>3, <1>6, <2>1, SingleSeq
  <2>3. WayLen' = 1
    BY <1>1, <1>6, <2>2 DEF WayLen, Erasing
  <2>4. Ledger(Way', 1, "greet", Owed, Stale)
    BY <1>4, LedgerNew
  <2>5. LedgerOK'
    BY <1>2, <2>3, <2>4 DEF LedgerOK
  <2>6. ~Okayed(Way', WayLen', "greet")
    BY <2>3 DEF Okayed, Behind
  <2>7. ServingOK'
    BY <1>1, <1>2, <2>6 DEF ServingOK, ServingNeeded
  <2> QED BY <1>1, <2>5, <2>7 DEF Sound, VerdictOK, FinishedOK
<1> QED BY <1>3, <1>5, <1>6

\* What is behind a greeting that has been read was behind it before.
LEMMA OkayAhead ==
  ASSUME NEW p, NEW n, NEW q, NEW m, NEW v, NEW w, Ahead(p, n, q, m), Greets(p[1]),
         Okayed(q, m, v)
  PROVE  Okayed(p, n, w)
<1>1. n \in Nat \ {0} /\ m = n - 1 /\ \A i \in 1..n - 1 : q[i] = p[i + 1]
  BY DEF Ahead
<1>2. PICK i \in 1..m : q[i].t = "OKER"
  BY DEF Okayed
<1>3. i + 1 \in 1..n /\ p[i + 1] = q[i] /\ 1 \in 1..(i + 1) - 1
  BY <1>1
<1> QED BY <1>2, <1>3 DEF Okayed, Behind

\* Arithmetic for the acknowledged chunk.
LEMMA OneFurther ==
  ASSUME NEW a \in Int, NEW b \in Int, NEW c \in Int, c <= b + 1
  PROVE  a - 1 - b - 1 <= a - 1 - c
  OBVIOUS

\* The host reads a token; each answer it accepts pays off one label.
LEMMA ReadSound ==
  ASSUME Sound, Types, Types', HostStep, ReadToken
  PROVE  Sound'
<1> USE DEF Types, Sound
<1>0. /\ down # <<>> /\ down' = Tail(down) /\ up' = up /\ linked' = linked
      /\ UNCHANGED vars /\ pressed' = pressed /\ pc' = pc /\ Erasing' = Erasing
      /\ hpc \in {"sync", "ack", "oker", "dack", "verdict"} /\ Active
  BY DEF ReadToken, HostStep, vars, Erasing, Waiting, Accepts, Active
<1>1. /\ attempt \in Nat \ {0} /\ off \in Nat \ {0} /\ Owed \in Nat /\ Stale \in Int
      /\ Owed \in Int /\ WayLen \in Nat /\ WayLen' \in Nat
  BY CountersType, WayLenType, NextWayLen
<1>2. Thins({}) /\ Ahead(Way, WayLen, Way', WayLen') /\ Way[1] = Head(down)
  BY <1>0, ReadThins
<1>3. Thins({"OKER"}) /\ Thins({"DONE"})
  BY <1>0, ReadThins
<1>4. \A x : Okayed(Way', WayLen', x) => Okayed(Way, WayLen, x)
  BY <1>1, <1>3, OkayThins DEF Thins
<1>5. Ledger(Way', WayLen', Phase, Owed, Stale)
  BY <1>0, <1>1, <1>2, LedgerThins DEF Thins, LedgerOK
<1>6. Ledger(Way, WayLen, Phase, Owed, Stale)
  BY <1>0 DEF LedgerOK
<1>7. 1 \in 1..WayLen
  BY <1>2 DEF Ahead
  \* What is left once an answer to the push was read.
<1>8. ASSUME Phase = "push", Pushes(Head(down))
      PROVE  Ledger(Way', WayLen', "push", Owed - 1, Stale - 1)
  <2>1. Ledger(Way, WayLen, "push", Owed, Stale) /\ Pushes(Way[1])
    BY <1>2, <1>6, <1>8
  <2> QED BY <1>1, <1>2, <2>1, LedgerRead
<1>9. CASE UNCHANGED host
  <2>1. /\ Active' /\ Phase' = Phase /\ Owed' = Owed /\ Stale' = Stale
        /\ hpc' = hpc /\ attempt' = attempt
    BY <1>0, <1>9 DEF host, Active, Phase, Pushing, Owed, Stale
  <2>2. LedgerOK'
    BY <1>5, <2>1 DEF LedgerOK
  <2>3. ServingNeeded' => ServingNeeded
    BY <1>0, <1>4, <2>1 DEF ServingNeeded
  <2>4. ServingOK'
    BY <1>0, <2>1, <2>3, HostServes DEF ServingOK
  <2>5. ASSUME hpc = "verdict", FewAttempts', NEW i \in 1..WayLen', Verdicts(Way'[i])
        PROVE  i = WayLen' /\ linked' /\ ((Way'[i]).t = "DONE" => Landed')
    <3>1. \A k \in 1..WayLen : Verdicts(Way[k]) => k = WayLen
      BY <2>1, <2>5 DEF VerdictOK, FewAttempts
    <3>2. /\ i = WayLen' /\ WayLen \in 1..WayLen /\ Verdicts(Way[WayLen])
          /\ (Way'[i]).t \in {"DONE"} => (Way'[i]).t = Way[WayLen].t
      BY <1>1, <1>3, <2>5, <3>1, VerdictsThin DEF Thins
    <3>3. linked /\ (Way[WayLen].t = "DONE" => Landed)
      BY <2>1, <2>5, <3>2 DEF VerdictOK, FewAttempts
    <3> QED BY <1>0, <3>2, <3>3, HostLanded
  <2>6. VerdictOK'
    BY <2>1, <2>5 DEF VerdictOK
  <2> QED BY <1>0, <2>1, <2>2, <2>4, <2>6 DEF FinishedOK
<1>10. CASE hpc = "sync" /\ Head(down).t = "BLOK" /\ hpc' = "begin"
            /\ UNCHANGED <<off, sends, attempt>>
  <2>1. Active' /\ Phase' = "push" /\ Owed' = Owed /\ Stale' = Owed
    BY <1>10 DEF Active, Phase, Pushing, Owed, Stale
  <2>2. Greets(Way[1])
    BY <1>2, <1>10 DEF Greets
  <2>3. Ledger(Way', WayLen', "push", Owed, Owed)
    BY <1>1, <1>2, <1>6, <2>2, LedgerGreeted
  <2>4. LedgerOK'
    BY <2>1, <2>3 DEF LedgerOK
  <2>5. ServingNeeded' => ServingNeeded
    BY <1>2, <1>10, <2>2, OkayAhead DEF ServingNeeded
  <2>6. ServingOK'
    BY <1>0, <2>5, HostServes DEF ServingOK
  <2> QED BY <1>10, <2>4, <2>6 DEF VerdictOK, FinishedOK
<1>11. CASE hpc = "ack" /\ hpc' = "probe" /\ UNCHANGED <<off, sends, attempt>>
  <2>1. Active' /\ Phase' = Phase /\ Owed' = Owed /\ Stale' = Stale
    BY <1>11 DEF Active, Phase, Pushing, Owed, Stale
  <2>2. LedgerOK'
    BY <1>5, <2>1 DEF LedgerOK
  <2>3. ServingNeeded' => ServingNeeded
    BY <1>4, <1>11, <2>1 DEF ServingNeeded
  <2>4. ServingOK'
    BY <1>0, <2>3, HostServes DEF ServingOK
  <2> QED BY <1>11, <2>2, <2>4 DEF VerdictOK, FinishedOK
<1>12. CASE hpc = "oker" /\ Head(down).t = "OKER" /\ hpc' = "data" /\ off' = 1
            /\ attempt' = attempt
  <2>1. /\ Active' /\ Phase = "push" /\ Phase' = "push"
        /\ Owed = attempt /\ Stale = attempt - 1
        /\ Owed' = attempt - 1 /\ Stale' = attempt - 1 - 1
    BY <1>12 DEF Active, Phase, Pushing, Owed, Stale
  <2>2. Pushes(Head(down))
    BY <1>12 DEF Pushes
  <2>3. Ledger(Way', WayLen', "push", Owed - 1, Stale - 1)
    BY <1>8, <2>1, <2>2
  <2>4. LedgerOK'
    BY <2>1, <2>3 DEF LedgerOK
  <2>5. ServingNeeded
    <3>1. Okayed(Way, WayLen, Phase)
      BY <1>2, <1>7, <1>12, <2>1 DEF Okayed, Behind
    <3> QED BY <3>1 DEF ServingNeeded
  <2>6. ServingOK'
    BY <1>0, <2>5, HostServes DEF ServingOK
  <2> QED BY <1>12, <2>4, <2>6 DEF VerdictOK, FinishedOK
<1>13. CASE hpc = "dack" /\ Head(down).t \in {"DACK", "DNAK"} /\ hpc' = "data"
            /\ off' \in {off, off + 1} /\ attempt' = attempt
  <2>1. /\ Active' /\ Phase = "push" /\ Phase' = "push"
        /\ Owed = attempt /\ Stale = attempt - 1 - off
        /\ Owed' = attempt - 1 /\ Stale' = attempt - 1 - off'
    BY <1>13 DEF Active, Phase, Pushing, Owed, Stale
  <2>2. Pushes(Head(down))
    BY <1>13 DEF Pushes
  <2>3. Ledger(Way', WayLen', "push", Owed - 1, Stale - 1)
    BY <1>8, <2>1, <2>2
  <2>4. Owed - 1 \in Int /\ Stale - 1 \in Int /\ Stale' \in Int /\ Owed' = Owed - 1
        /\ Stale - 1 <= Stale' /\ Owed - 1 <= Owed' /\ Owed' \in Int
    <3>1. off' \in Int /\ off' <= off + 1 /\ off \in Int /\ attempt \in Int
      BY <1>1, <1>13
    <3>2. attempt - 1 - off - 1 <= attempt - 1 - off'
      BY <3>1, OneFurther, Zenon
    <3>3. attempt - 1 - off' \in Int
      BY <1>1, <3>1
    <3>4. Stale - 1 <= Stale' /\ Stale' \in Int
      BY <2>1, <3>2, <3>3
    <3>5. Owed - 1 \in Int /\ Stale - 1 \in Int
      BY <1>1
    <3> QED BY <2>1, <3>4, <3>5
  <2>5. Ledger(Way', WayLen', "push", Owed', Stale')
    BY <1>1, <2>3, <2>4, LedgerWeakens
  <2>6. LedgerOK'
    BY <2>1, <2>5 DEF LedgerOK
  <2>7. ServingNeeded' => ServingNeeded
    BY <1>0, <1>4, <1>13, <2>1 DEF ServingNeeded
  <2>8. ServingOK'
    BY <1>0, <2>7, HostServes DEF ServingOK
  <2> QED BY <1>13, <2>6, <2>8 DEF VerdictOK, FinishedOK
<1>14. CASE hpc = "verdict" /\ Head(down).t = "DONE" /\ hpc' = "go"
            /\ UNCHANGED <<off, sends, attempt>>
  <2>1. /\ Active' /\ Phase = "push" /\ Phase' = "push"
        /\ Owed = attempt /\ Stale = attempt /\ Owed' = attempt - 1 /\ Stale' = attempt
    BY <1>14 DEF Active, Phase, Pushing, Owed, Stale
  <2>2. Pushes(Head(down))
    BY <1>14 DEF Pushes
  <2>3. Ledger(Way', WayLen', "push", Owed - 1, Stale - 1)
    BY <1>8, <2>1, <2>2
  <2>4. Owed - 1 \in Int /\ Stale - 1 \in Int /\ Stale' \in Int /\ Owed' = Owed - 1
        /\ Stale - 1 <= Stale' /\ Owed - 1 <= Owed' /\ Owed' \in Int
    BY <1>1, <2>1
  <2>5. Ledger(Way', WayLen', "push", Owed', Stale')
    BY <1>1, <2>3, <2>4, LedgerWeakens
  <2>6. LedgerOK'
    BY <2>1, <2>5 DEF LedgerOK
  <2>7. ServingNeeded' => ServingNeeded
    BY <1>4, <1>14, <2>1 DEF ServingNeeded
  <2>8. ServingOK'
    BY <1>0, <2>7, HostServes DEF ServingOK
  <2>9. ASSUME FewAttempts' PROVE Landed' /\ pc' # "erase" /\ up' = <<>>
    <3>1. FewAttempts /\ Way[1].t = "DONE" /\ Verdicts(Way[1])
      BY <1>2, <1>14, <2>9 DEF FewAttempts, Verdicts
    <3>2. 1 = WayLen /\ Landed
      BY <1>7, <1>14, <3>1 DEF VerdictOK
    <3>3. WayLen \in 1..WayLen /\ Way[WayLen].t = "DONE"
      BY <1>7, <3>1, <3>2
    <3>4. up = <<>> /\ pc # "erase"
      BY <3>3, DonePlace
    <3> QED BY <1>0, <3>2, <3>4, HostLanded
  <2> QED BY <1>14, <2>6, <2>8, <2>9 DEF VerdictOK, FinishedOK
<1>15. CASE NextAttempt
  <2>1. \A x : Okayed(Way', WayLen', x) => Okayed(Way, WayLen, x)
    BY <1>4
  <2> QED BY <1>0, <1>5, <1>15, <2>1, RetrySound
<1>16. ReadToken => \/ UNCHANGED host
                    \/ hpc = "sync" /\ Head(down).t = "BLOK" /\ hpc' = "begin"
                         /\ UNCHANGED <<off, sends, attempt>>
                    \/ hpc = "ack" /\ hpc' = "probe" /\ UNCHANGED <<off, sends, attempt>>
                    \/ hpc = "oker" /\ Head(down).t = "OKER" /\ hpc' = "data" /\ off' = 1
                         /\ attempt' = attempt
                    \/ hpc = "dack" /\ Head(down).t \in {"DACK", "DNAK"} /\ hpc' = "data"
                         /\ off' \in {off, off + 1} /\ attempt' = attempt
                    \/ hpc = "verdict" /\ Head(down).t = "DONE" /\ hpc' = "go"
                         /\ UNCHANGED <<off, sends, attempt>>
                    \/ NextAttempt
  BY DEF ReadToken, Goto, ChunkToken
<1> QED BY <1>9, <1>10, <1>11, <1>12, <1>13, <1>14, <1>15, <1>16

\* Every step keeps the ledger and what hangs on it.
LEMMA SoundStep == Sound /\ Types /\ Types' /\ [TransferNext]_tvars => Sound'
<1> SUFFICES ASSUME Sound, Types, Types', [TransferNext]_tvars PROVE Sound'
  OBVIOUS
<1>1. CASE Around
  BY <1>1, AroundLedger, AroundServing, AroundVerdict, AroundFinished DEF Sound, Types
<1>2. CASE Host
  <2>1. HostStep /\ UNCHANGED vars /\ pressed' = pressed
    BY <1>2 DEF Host, HostStep
  <2> QED BY <1>2, <2>1, SendSound, ChunkFailedSound, GoSound, ReadSound, GiveUpSound
          DEF Host, Timeout
<1>3. CASE (AttemptFails \/ LateAnswer) /\ UNCHANGED <<vars, pressed>>
  BY <1>3, FailSound, GiveUpSound DEF LateAnswer
<1>4. CASE OtherClient /\ UNCHANGED <<vars, host, pressed>>
  BY <1>4, OtherSound
<1>5. ASSUME \/ PowerFails /\ UNCHANGED <<host, pressed>>
             \/ Reset /\ UNCHANGED host
             \/ ResetHung
      PROVE  Around
  BY <1>5, PowerResets DEF Around
<1> QED BY <1>1, <1>2, <1>3, <1>4, <1>5 DEF TransferNext, Fault, Stopped, Around

\* At first nothing is under way.
LEMMA InitSound == TransferInit => Sound
<1> SUFFICES ASSUME TransferInit PROVE Sound
  OBVIOUS
<1>1. WayLen = 0 /\ hpc = "probe" /\ attempt = 1
  BY DEF TransferInit, Init, WayLen, Erasing
<1>2. Owed = 0 /\ Stale = 1
  BY <1>1 DEF Owed, Stale
<1>3. Phase = "greet"
  BY <1>1 DEF Phase, Pushing
<1>4. Ledger(Way, WayLen, Phase, Owed, Stale)
  BY <1>1, <1>2, <1>3, LedgerNew
<1>5. ~ServingNeeded
  BY <1>1 DEF ServingNeeded, Okayed
<1> QED BY <1>1, <1>4, <1>5 DEF Sound, LedgerOK, ServingOK, VerdictOK, FinishedOK

\* The ledger's last entry: what the host was told is so.
LEMMA SoundShows ==
  ASSUME Sound, TypeOK, UpOK
  PROVE  DoneMeansInstalled /\ NoBounceBack
<1> SUFFICES ASSUME hpc \in {"go", "done"}, FewAttempts
             PROVE  /\ ImageLanded \/ NothingLanded
                    /\ scratch = "0" /\ \A i \in 1..Len(up) : up[i] # Trigger
  BY DEF DoneMeansInstalled, NoBounceBack
<1>1. Landed /\ (up = <<>> \/ up = <<GoCmd>>)
  BY DEF Sound, FinishedOK
<1>2. ASSUME Installed, rec.attempts < MaxAttempts PROVE Bootable
  <2>1. rec \in BootRecord
    BY <1>2 DEF Installed, HasRecord, TypeOK
  <2>2. rec.attempts \in Nat /\ MaxAttempts \in Nat /\ rec.valid \in {0, 1}
    BY <2>1, SizesAssumption DEF BootRecord
  <2>3. rec.valid = 1
    BY <1>2, <2>2 DEF Installed
  <2>4. SlotMatches(rec)
    BY <1>2 DEF SlotMatches, Installed, Whole
  <2>5. slot[1] = <<New, 1>> /\ 1 \in Chunk
    <3>1. 1 \in 1..Size[New] /\ 1 \in Chunk /\ New \in Image
      BY TransferAssumption, SizesAssumption DEF Chunk
    <3>2. SlotCrc(Size[New])[1] = ImageCrc(New)[1]
      BY <1>2 DEF Installed, Whole
    <3> QED BY <3>1, <3>2 DEF SlotCrc, ImageCrc
  <2>6. MaySane
    BY <2>5, TransferAssumption, ContentAssumption DEF MaySane
  <2> QED BY <2>3, <2>4, <2>6 DEF Bootable
<1>3. Installed => ImageLanded
  BY <1>2 DEF Installed, ImageLanded
<1>4. \A i \in 1..Len(up) : up[i] # Trigger
  <2>1. GoCmd # Trigger
    BY DEF GoCmd, Trigger
  <2> QED BY <1>1, <2>1
<1> QED BY <1>1, <1>3, <1>4 DEF Landed

\* Types hold always, and so does Sound.
LEMMA TypesAlways == TransferSpec => []Types
<1>1. TransferSpec => []TypeOK
  BY RefinesBootloader, TypeCorrect, PTL DEF ImplementsBootloader
<1>2. TransferInit => DownOK /\ ScratchOK
  <2>1. <<>> \in Seq(Tokens)
    OBVIOUS
  <2> QED BY <2>1 DEF TransferInit, Init, DownOK, ScratchOK
<1>3. TransferSpec => [](UpOK /\ HostOK /\ DownOK /\ ScratchOK)
  BY <1>2, TransferTyped, DownStep, ScratchStep, PTL DEF TransferSpec
<1>4. TypeOK /\ UpOK /\ HostOK /\ DownOK /\ ScratchOK => Types
  BY DEF Types
<1> QED BY <1>1, <1>3, <1>4, PTL

LEMMA SoundAlways == TransferSpec => []Sound
  BY InitSound, SoundStep, TypesAlways, PTL DEF TransferSpec

\* In each of the first Size[New] + 2 whole-flash attempts "verified" means
\* installed, or that RESET fell within the push and END verified nothing: for
\* every image, number of retries and of faults, and order of frames, with the
\* SYNCs and answers that earlier attempts left under way.
THEOREM VerifiedMeansInstalled == TransferSpec => []DoneMeansInstalled
<1>1. Sound /\ Types => DoneMeansInstalled
  BY SoundShows DEF Types
<1> QED BY <1>1, SoundAlways, TypesAlways, PTL

\* And no ota trigger, nor any other frame but GO!!, is then under way to a panel
\* whose host has its verdict.
THEOREM NoTriggerLeft == TransferSpec => []NoBounceBack
<1>1. Sound /\ Types => NoBounceBack
  BY SoundShows DEF Types
<1> QED BY <1>1, SoundAlways, TypesAlways, PTL
=============================================================================
