----------------------------- MODULE OtaTransfer -----------------------------
(***************************************************************************)
(* One run of tools/ota_flash.py against one panel: the host's probe,      *)
(* trigger and lock-step push, the CH9120 bridge between them, and the     *)
(* boot chain of module Bootloader at the other end.                       *)
(*                                                                         *)
(* The bridge is a FIFO of bytes each way.  Both ends resynchronise on     *)
(* 4-byte magics, so the model moves whole frames; a frame that lost or    *)
(* changed bytes is Bad(f).  What is in flight survives a new connection.  *)
(***************************************************************************)
EXTENDS Bootloader, Sequences

CONSTANTS
    New,           \* the image this host pushes
    Others,        \* frames other clients may leave in the bridge
    InRecovery,    \* --in-recovery: never send the ota trigger
    Retries,       \* --retries, whole-flash attempts
    ChunkRetries,  \* sends of one chunk before the attempt fails
    MaxFaults      \* bound: faults of the environment in one behaviour

ASSUME TransferAssumption ==
    /\ New \in Image
    /\ Retries \in Nat \ {0} /\ ChunkRetries \in Nat /\ MaxFaults \in Nat
    /\ InRecovery \in BOOLEAN

VARIABLES
    up, down,   \* frames on their way to the panel, tokens on theirs back
    linked,     \* the CH9120 still knows the host's connection
    hpc,        \* where the host is
    off,        \* chunk being sent
    sends,      \* times it was sent
    attempt,    \* whole-flash attempts begun
    faults,     \* faults so far
    pressed     \* history: RESET was pressed, the bridge carrying on

host == <<hpc, off, sends, attempt>>
bridge == <<up, down, linked>>
tvars == <<vars, bridge, host, faults, pressed>>

Sync == [t |-> "SYNC"]
Trigger == [t |-> "OTA"]
BegnFor(m) == [t |-> "BEGN", m |-> m]
DataFor(m, i) == [t |-> "DATA", m |-> m, i |-> i]
EndCmd == [t |-> "END"]
GoCmd == [t |-> "GO"]
Bad(f) == [t |-> "BAD", f |-> f]

Cmd == {Sync, Trigger, EndCmd, GoCmd}
         \cup {BegnFor(m) : m \in Image}
         \cup UNION {{DataFor(m, i) : i \in 1..Size[m]} : m \in Image}
Frame == Cmd \cup {Bad(f) : f \in Cmd}

\* The panel's answers.
Token(t) == [t |-> t]
ChunkToken(t, i) == [t |-> t, i |-> i]

ASSUME OthersAssumption == Others \subseteq Cmd

TransferTypeOK ==
    /\ TypeOK
    /\ up \in Seq(Frame)
    /\ linked \in BOOLEAN
    /\ hpc \in {"probe", "sync", "trigger", "ack", "begin", "oker", "data",
               "dack", "verdict", "go", "done", "failed"}
    /\ off \in 1..Size[New] + 1
    /\ sends \in 0..ChunkRetries
    /\ attempt \in 1..Retries
    /\ faults \in 0..MaxFaults
    /\ pressed \in BOOLEAN

TransferInit ==
    /\ Init
    /\ up = <<>> /\ down = <<>> /\ linked = FALSE
    /\ hpc = "probe" /\ off = 1 /\ sends = 0 /\ attempt = 1
    /\ faults = 0 /\ pressed = FALSE

-----------------------------------------------------------------------------
(* The panel's end *)

Arrives(t) == up # <<>> /\ Head(up).t = t
Take == up' = Tail(up) /\ UNCHANGED linked
Reply(tok) == down' = Append(down, tok)

RecvSync ==
    /\ pc = "recovery" /\ Arrives("SYNC")
    /\ Take /\ Reply(Token("BLOK"))
    /\ UNCHANGED vars

\* The JSON trigger is junk to the bootloader: read_command slides past it.
RecvJunk ==
    /\ pc = "recovery" /\ Arrives("OTA")
    /\ Take /\ UNCHANGED down
    /\ UNCHANGED vars

RecvBegin ==
    /\ pc = "recovery" /\ Arrives("BEGN")
    /\ Begin(Size[Head(up).m], ImageCrc(Head(up).m))
    /\ Take /\ UNCHANGED down

\* A damaged BEGN is skipped, cut short, or carries wrong fields.
RecvBadBegin ==
    /\ pc = "recovery" /\ Arrives("BAD") /\ Head(up).f.t = "BEGN"
    /\ Take
    /\ \/ UNCHANGED <<vars, down>>
       \/ \E n \in 0..SlotChunks + 1 :
            \/ BeginCutShort(n) /\ UNCHANGED down
            \/ /\ Begin(n, BadCrc)
               /\ IF n \in Chunk THEN UNCHANGED down
                                 ELSE Reply(Token("ERSZ"))

EraseOneSector == EraseSector /\ UNCHANGED bridge

SlotErased == EraseDone /\ Reply(Token("OKER")) /\ UNCHANGED <<up, linked>>

RecvData ==
    /\ pc = "recovery" /\ Arrives("DATA")
    /\ Data(Head(up).m, Head(up).i, Head(up).i)
    /\ Take /\ Reply(ChunkToken("DACK", Head(up).i))

\* A damaged DATA is skipped, refused, or lands at the wrong offset.
RecvBadData ==
    /\ pc = "recovery" /\ Arrives("BAD") /\ Head(up).f.t = "DATA"
    /\ Take
    /\ \/ UNCHANGED <<vars, down>>
       \/ UNCHANGED vars /\ Reply(ChunkToken("DNAK", Head(up).f.i))
       \/ \E j \in Chunk \ {Head(up).f.i} :
            /\ Data(Head(up).f.m, Head(up).f.i, j)
            /\ Reply(ChunkToken("DACK", j))

\* Bug: the record is written and DONE is sent without comparing the CRC.
RecvEndUnchecked ==
    /\ pc = "recovery" /\ Arrives("END")
    /\ rec' = FreshRecord(app_len, app_crc) /\ trials' = 0
    /\ UNCHANGED <<slot, scratch, pc, recovery>>
    /\ Take /\ Reply(Token("DONE"))
RecvEnd ==
    /\ pc = "recovery" /\ Arrives("END")
    /\ End
    /\ Take
    /\ Reply(Token(IF SlotCrc(app_len) = app_crc THEN "DONE" ELSE "ECRC"))

RecvGo ==
    /\ pc = "recovery" /\ Arrives("GO")
    /\ Go
    /\ Take /\ Reply(Token("BYE"))

\* The app acknowledges the trigger, then reboots; to the rest of the protocol
\* it answers nothing the host waits for.
AppTrigger ==
    /\ pc = "loop" /\ Arrives("OTA")
    /\ RequestUpdate
    /\ Take /\ Reply(Token("ack"))

AppJunk ==
    /\ pc = "loop" /\ up # <<>> /\ ~Arrives("OTA")
    /\ Take
    /\ UNCHANGED <<vars, down>>

\* Nobody reads the UART before recovery or the app's loop starts.
Unheard ==
    /\ pc \notin {"recovery", "erase", "loop"} /\ up # <<>>
    /\ Take
    /\ UNCHANGED <<vars, down>>

\* The CH9120 restarts: nothing is buffered, no connection is known.
BridgeRestarts == up' = <<>> /\ down' = <<>> /\ linked' = FALSE

\* net_init resets the CH9120 and flushes what is left of its bytes.
AppStart ==
    \/ AppUp /\ BridgeRestarts
    \/ AppHang /\ UNCHANGED bridge

Receive ==
    /\ \/ RecvSync \/ RecvJunk \/ RecvBegin \/ RecvBadBegin
       \/ RecvData \/ RecvBadData \/ RecvEnd \/ RecvGo
       \/ AppTrigger \/ AppJunk \/ Unheard
    /\ UNCHANGED <<host, faults, pressed>>

Proceed ==
    /\ \/ Boot /\ UNCHANGED bridge
       \/ AppStart \/ EraseOneSector \/ SlotErased
    /\ UNCHANGED <<host, faults, pressed>>

-----------------------------------------------------------------------------
(* The host's end *)

\* On a connection the CH9120 has forgotten, a frame goes nowhere.
Send(f) == up' = (IF linked THEN Append(up, f) ELSE up) /\ UNCHANGED linked
Goto(p) == hpc' = p
\* Bug: the next attempt does not reconnect.
NextAttemptSameLink ==
    /\ Goto(IF attempt < Retries THEN "begin" ELSE "failed")
    /\ attempt' = IF attempt < Retries THEN attempt + 1 ELSE attempt
    /\ UNCHANGED <<off, sends>>
NextAttempt ==
    /\ Goto(IF attempt < Retries THEN "probe" ELSE "failed")
    /\ attempt' = IF attempt < Retries THEN attempt + 1 ELSE attempt
    /\ UNCHANGED <<off, sends>>
HostStep == UNCHANGED <<vars, faults, pressed>>

\* drain: what has arrived is thrown away; what is still under way is not.
Drain == down' \in {down, <<>>}

\* try_sync on a new connection
Probe ==
    /\ hpc = "probe"
    /\ Drain /\ up' = Append(up, Sync) /\ linked' = TRUE
    /\ Goto("sync") /\ UNCHANGED <<off, sends, attempt>>

\* send_trigger
SendTrigger ==
    /\ hpc = "trigger"
    /\ Drain /\ Send(Trigger)
    /\ Goto("ack") /\ UNCHANGED <<off, sends, attempt>>

\* push_image: BEGN
SendBegin ==
    /\ hpc = "begin"
    /\ Drain /\ Send(BegnFor(New))
    /\ Goto("oker") /\ UNCHANGED <<off, sends, attempt>>

\* DATA, first time or again
SendChunk ==
    /\ hpc = "data" /\ off <= Size[New] /\ sends < ChunkRetries
    /\ Send(DataFor(New, off)) /\ sends' = sends + 1
    /\ Goto("dack") /\ UNCHANGED <<down, off, attempt>>

ChunkFailed ==
    /\ hpc = "data" /\ off <= Size[New] /\ sends = ChunkRetries
    /\ NextAttempt
    /\ UNCHANGED bridge

SendEnd ==
    /\ hpc = "data" /\ off > Size[New]
    /\ Send(EndCmd)
    /\ Goto("verdict") /\ UNCHANGED <<down, off, sends, attempt>>

\* GO, whose BYE! is not waited for in earnest
SendGo ==
    /\ hpc = "go"
    /\ Send(GoCmd)
    /\ Goto("done") /\ UNCHANGED <<down, off, sends, attempt>>

\* read_token: the tokens each wait accepts; any other is skipped.
Accepts == [sync |-> {"BLOK"}, ack |-> {"ack"}, oker |-> {"OKER"},
            dack |-> {"DACK", "DNAK"}, verdict |-> {"DONE", "ECRC"}]
Waiting == hpc \in DOMAIN Accepts

ReadToken ==
    /\ Waiting /\ down # <<>>
    /\ down' = Tail(down) /\ UNCHANGED <<up, linked>>
    /\ LET tok == Head(down) IN
       \/ tok.t \notin Accepts[hpc] /\ UNCHANGED host
       \/ /\ hpc = "sync" /\ tok.t = "BLOK"
          /\ Goto("begin") /\ UNCHANGED <<off, sends, attempt>>
       \/ /\ hpc = "ack" /\ tok.t = "ack"
          /\ Goto("probe") /\ UNCHANGED <<off, sends, attempt>>
       \/ /\ hpc = "oker" /\ tok.t = "OKER"
          /\ Goto("data") /\ off' = 1 /\ sends' = 0 /\ UNCHANGED attempt
       \/ /\ hpc = "dack" /\ tok = ChunkToken("DACK", off)
          /\ Goto("data") /\ off' = off + 1 /\ sends' = 0 /\ UNCHANGED attempt
       \/ /\ hpc = "dack" /\ tok.t \in {"DACK", "DNAK"}
          /\ tok # ChunkToken("DACK", off)
          /\ Goto("data") /\ UNCHANGED <<off, sends, attempt>>
       \/ /\ hpc = "verdict" /\ tok.t = "DONE"
          /\ Goto("go") /\ UNCHANGED <<off, sends, attempt>>
       \/ hpc = "verdict" /\ tok.t = "ECRC" /\ NextAttempt

\* A wait runs out: try_sync turns to the trigger, send_trigger to a new probe,
\* the waits of push_image to the next whole-flash attempt.
GiveUpWaiting ==
    /\ UNCHANGED bridge
    /\ \/ /\ hpc = "sync"
          /\ Goto(IF InRecovery THEN "probe" ELSE "trigger")
          /\ UNCHANGED <<off, sends, attempt>>
       \/ hpc = "ack" /\ Goto("probe") /\ UNCHANGED <<off, sends, attempt>>
       \/ hpc \in {"oker", "dack", "verdict"} /\ NextAttempt

\* The timeouts are long against the panel's answers: without a fault they run
\* out only once nothing is left that could answer.
Quiet == up = <<>> /\ down = <<>> /\ pc # "erase"
Timeout == Waiting /\ Quiet /\ GiveUpWaiting

Host == /\ \/ Probe \/ SendTrigger \/ SendBegin \/ SendChunk \/ ChunkFailed
           \/ SendEnd \/ SendGo \/ ReadToken \/ Timeout
        /\ HostStep

-----------------------------------------------------------------------------
(* Faults *)

\* Bytes lost or damaged in the bridge, a connection dropped, an answer that is
\* slower than the timeout, a power failure; RESET, which the bridge does not feel.
LoseFrame ==
    /\ \/ up # <<>> /\ up' = Tail(up) /\ UNCHANGED down
       \/ down # <<>> /\ down' = Tail(down) /\ UNCHANGED up
    /\ UNCHANGED linked

DamageFrame ==
    /\ up # <<>> /\ Head(up).t \in {"BEGN", "DATA"}
    /\ up' = <<Bad(Head(up))>> \o Tail(up)
    /\ UNCHANGED <<down, linked>>

\* A socket error, or ensure_recovery's deadline: the attempt is over, and the
\* bridge may drop what it held for the old connection.
AttemptFails ==
    /\ hpc \notin {"done", "failed"}
    /\ NextAttempt
    /\ up' \in {up, <<>>} /\ down' \in {down, <<>>} /\ linked' = FALSE

LateAnswer == Waiting /\ ~Quiet /\ GiveUpWaiting

\* While this host is not connected another client is: a flasher with another
\* image that is then stopped.  Being in lock-step, it leaves one unanswered
\* frame; whatever it had sent before that, SYNC and the trigger apart, it had
\* the answers to: none of its frames but these and BEGN comes before a BEGN
\* that this run of recovery has served.
OtherClient ==
    /\ hpc = "probe"
    /\ \E f \in Others :
         /\ up' = Append(up, f)
         /\ \/ f \in {Sync, Trigger} /\ UNCHANGED down
            \/ /\ f \notin {Sync, Trigger} /\ up = <<>> /\ pc # "erase"
               /\ f.t = "BEGN" \/ (pc = "recovery" /\ app_len # 0)
               /\ down' = <<>>
    /\ linked' = FALSE

PowerFails ==
    /\ \/ PowerCycle
       \/ Arrives("DATA") /\ PowerCutInData(Head(up).i)
    /\ BridgeRestarts

\* The RP2040 alone starts again: the connection stands, the frames under way
\* reach a recovery that has had no BEGN, or an app that is still starting.
Reset ==
    /\ \/ PowerCycle /\ UNCHANGED bridge
       \/ Arrives("DATA") /\ PowerCutInData(Head(up).i) /\ Take /\ UNCHANGED down
    /\ pressed' = TRUE

Fault ==
    /\ faults < MaxFaults /\ faults' = faults + 1
    /\ \/ (LoseFrame \/ DamageFrame \/ OtherClient) /\ UNCHANGED <<vars, host, pressed>>
       \/ (AttemptFails \/ LateAnswer) /\ UNCHANGED <<vars, pressed>>
       \/ PowerFails /\ UNCHANGED <<host, pressed>>
       \/ Reset /\ UNCHANGED host

\* Somebody resets a panel that is stuck.
ResetHung ==
    /\ pc = "hung" /\ PowerCycle
    /\ UNCHANGED <<bridge, host, faults, pressed>>

\* The host is through and the panel waits for somebody to talk to it.
Stopped ==
    /\ hpc \in {"done", "failed"} /\ pc \in {"loop", "recovery"} /\ up = <<>>
    /\ UNCHANGED tvars

TransferNext == Receive \/ Proceed \/ Host \/ Fault \/ ResetHung \/ Stopped

TransferSpec == TransferInit /\ [][TransferNext]_tvars
\* The processor runs, the bridge delivers, the host carries on; somebody
\* resets a panel that is stuck.
TransferFairSpec ==
    /\ TransferSpec
    /\ WF_tvars(Receive) /\ WF_tvars(Proceed)
    /\ WF_tvars(Host) /\ WF_tvars(ResetHung)
-----------------------------------------------------------------------------
\* No token says which attempt it answers, and each failed attempt may leave one
\* answer more under way.  A push reads one answer for BEGN and one for each
\* chunk before the verdict, so the leftovers of so many attempts are used up by
\* then: with the default of 3 retries, those of any image of a chunk or more.
FewAttempts == attempt <= Size[New] + 2

\* What END verified: this image, which a panel still in recovery, GO!! having
\* been lost, starts at the next reset, unless that has been tried in vain; or,
\* where RESET took BEGN's length from recovery, nothing at all.
ImageLanded ==
    /\ HasRecord /\ rec.len = Size[New] /\ rec.crc = ImageCrc(New)
    /\ Whole(New)
    /\ pc = "recovery" /\ rec.attempts < MaxAttempts => Bootable
NothingLanded == pressed /\ HasRecord /\ rec.len = 0

\* When the flasher says the image is verified, the panel's record and slot hold
\* exactly this image: no token about another image, and none that an earlier
\* connection left under way, is taken for the verdict on this one.  The one
\* exception is a RESET within the push: recovery.c:168 then answers DONE over a
\* record of length 0, and ota_flash.py says verified all the same.
DoneMeansInstalled ==
    hpc \in {"go", "done"} /\ FewAttempts => ImageLanded \/ NothingLanded

\* No ota trigger, however often it was repeated, is left to send the freshly
\* flashed app back to recovery.
NoBounceBack ==
    hpc \in {"go", "done"} /\ FewAttempts =>
        /\ scratch = "0"
        /\ \A i \in 1..Len(up) : up[i] # Trigger

\* The panel's side of the protocol is the boot chain of module Bootloader.
ImplementsBootloader == Spec

\* As long as faults are fewer than whole-flash attempts, the flash succeeds,
\* unless a RESET gave the panel a record of length 0: it may then start a
\* half-written slot and never come back to recovery (AlwaysRecoverable).
FlashSucceeds == <>(hpc = "done" \/ NothingLanded)
=============================================================================
