------------------------------ MODULE BootState ------------------------------
(***************************************************************************)
(* boot_state.c: the boot record kept ping-pong in two flash sectors.      *)
(*                                                                         *)
(* A sector holds either a record whose magic and CRC check out, or bytes  *)
(* rec_valid rejects (blank, half erased, half programmed): Unreadable.    *)
(* boot_state_write erases and then programs the older sector; the power   *)
(* may fail between the two or inside either.                              *)
(***************************************************************************)
EXTENDS Naturals

CONSTANTS Payload,     \* the fields a caller fills (length, CRC, flags)
          NoRecord,    \* boot_state_read returned false
          Unreadable,  \* sector bytes that rec_valid rejects
          Idle,        \* no boot_state_write in progress
          SeqLimit     \* bound: no write starts at this sequence number; the
                       \* flash wears out long before the 32-bit seq wraps

ASSUME BootStateAssumption == /\ NoRecord \notin Payload
                              /\ SeqLimit \in Nat

Sector == {"A", "B"}
Record == [seq : Nat, data : Payload]

ASSUME UnreadableAssumption == Unreadable \notin Record
ASSUME IdleAssumption ==
    Idle \notin [stage : {"erase", "program"}, target : Sector, rec : Record]

VARIABLES flash,   \* contents of the two sectors
          write,   \* the boot_state_write in progress, or Idle
          power    \* history: changes with every power failure

vars == <<flash, write, power>>

Other(s) == IF s = "A" THEN "B" ELSE "A"

\* rec_valid: magic and CRC match.
Valid(s) == flash[s] # Unreadable

NoneValid == \A s \in Sector : ~Valid(s)

\* The comparison boot_state_read and boot_state_write share: among two valid
\* sectors the higher seq wins, A on a tie; one valid sector wins alone.
ANewer == Valid("A") /\ (Valid("B") => flash["A"].seq >= flash["B"].seq)
Newest == IF ANewer THEN "A" ELSE "B"

\* boot_state_read
Read == IF NoneValid THEN NoRecord ELSE flash[Newest].data

\* boot_state_write's choice of sector and of sequence number.
MaxSeq == IF NoneValid THEN 0 ELSE flash[Newest].seq
\* Bug: the newer sector is overwritten instead of the older one.
TargetNewest == IF NoneValid THEN "A" ELSE Newest
Target == IF NoneValid THEN "A" ELSE Other(Newest)
\* Bug: the sequence number is reused.
SeqNotBumped == MaxSeq
NextSeq == MaxSeq + 1

TypeOK ==
    /\ flash \in [Sector -> Record \cup {Unreadable}]
    /\ write \in {Idle} \cup
          [stage : {"erase", "program"}, target : Sector, rec : Record]
    /\ power \in BOOLEAN

\* The sectors as provisioning leaves them: it never writes them, so either
\* blank, or with the record of an earlier life of the board.
Init == /\ flash \in [Sector -> {Unreadable} \cup [seq : {1}, data : Payload]]
        /\ flash["B"] = Unreadable
        /\ write = Idle
        /\ power = TRUE

StartWrite(d) ==
    /\ write = Idle
    /\ MaxSeq < SeqLimit
    /\ write' = [stage |-> "erase", target |-> Target,
                 rec |-> [seq |-> NextSeq, data |-> d]]
    /\ UNCHANGED <<flash, power>>

\* flash_range_erase
Erase ==
    /\ write # Idle /\ write.stage = "erase"
    /\ flash' = [flash EXCEPT ![write.target] = Unreadable]
    /\ write' = [write EXCEPT !.stage = "program"]
    /\ UNCHANGED power

\* flash_range_program
Program ==
    /\ write # Idle /\ write.stage = "program"
    /\ flash' = [flash EXCEPT ![write.target] = write.rec]
    /\ write' = Idle
    /\ UNCHANGED power

\* The power fails.  The sector being written, if any, is as it was or holds
\* neither the old nor the new record.  (All bits programmed but the call not
\* yet returned is the state after Program.)
PowerFail ==
    /\ power' = ~power
    /\ write' = Idle
    /\ \/ UNCHANGED flash
       \/ /\ write # Idle
          /\ flash' = [flash EXCEPT ![write.target] = Unreadable]

Next == \/ \E d \in Payload : StartWrite(d)
        \/ Erase
        \/ Program
        \/ PowerFail

Spec == Init /\ [][Next]_vars
-----------------------------------------------------------------------------
\* While a sector is being rewritten the other one holds the current record,
\* whenever there is one, and is older than the record on its way
\* (boot_state.h: the current newest record survives an interrupted write).
NewestSurvives ==
    write # Idle /\ ~NoneValid =>
        /\ Newest = Other(write.target)
        /\ write.rec.seq > flash[Newest].seq

\* No step, power failures included, takes the store back to an older record:
\* the sequence number boot_state_read goes by never decreases.
NeverRollsBack == [][MaxSeq' >= MaxSeq]_vars

\* The two-sector store is a durable register: an erase is invisible, a
\* program commits the whole record, and only a power failure keeps the old one.
Register == INSTANCE AtomicRecord
              WITH value <- Read,
                   pending <- IF write = Idle THEN NoRecord
                              ELSE write.rec.data
ImplementsRegister == Register!Spec
=============================================================================
