--------------------------- MODULE BootState_proof ---------------------------
(***************************************************************************)
(* Proofs about the two-sector boot record, for every set of payloads and  *)
(* every bound on the sequence number.                                     *)
(***************************************************************************)
EXTENDS BootState, TLAPS

\* Every step keeps the sectors and the write in progress well formed.
LEMMA TypeStep == TypeOK /\ [Next]_vars => TypeOK'
<1> SUFFICES ASSUME TypeOK, [Next]_vars PROVE TypeOK'
  OBVIOUS
<1> USE BootStateAssumption, UnreadableAssumption, IdleAssumption
        DEF TypeOK, Sector, Record
<1>1. ASSUME NEW d \in Payload, StartWrite(d) PROVE TypeOK'
  <2>1. Target \in Sector
    BY DEF Target, Other, Newest
  <2>2. NextSeq \in Nat
    <3>1. MaxSeq \in Nat
      BY DEF MaxSeq, NoneValid, Valid, Newest, ANewer
    <3> QED BY <3>1 DEF NextSeq
  <2> QED BY <1>1, <2>1, <2>2 DEF StartWrite
<1>2. CASE Erase
  BY <1>2 DEF Erase
<1>3. CASE Program
  BY <1>3 DEF Program
<1>4. CASE PowerFail
  BY <1>4 DEF PowerFail
<1>5. CASE UNCHANGED vars
  BY <1>5 DEF vars
<1> QED BY <1>1, <1>2, <1>3, <1>4, <1>5 DEF Next

\* Sectors and the write in progress keep their types (the fields of
\* boot_state_t that boot_state.c itself relies on).
THEOREM TypeCorrect == Spec => []TypeOK
<1>1. Init => TypeOK
  BY DEF Init, TypeOK, Record, Sector
<1> QED BY <1>1, TypeStep, PTL DEF Spec

-----------------------------------------------------------------------------
\* The inductive invariant: types, and the newest record sits in the sector
\* that is not being written.
IInv == TypeOK /\ NewestSurvives

\* The newest of the sectors, by cases on which of them are readable.
LEMMA NewestByCases ==
  ASSUME TypeOK
  PROVE  /\ Newest \in Sector
         /\ ~NoneValid => /\ Valid(Newest)
                          /\ flash[Newest] \in Record
                          /\ Valid(Other(Newest)) =>
                               flash[Newest].seq >= flash[Other(Newest)].seq
  BY UnreadableAssumption
  DEF TypeOK, Newest, ANewer, NoneValid, Valid, Other, Sector, Record

\* MaxSeq is a natural number, zero only on blank sectors.
LEMMA MaxSeqType == TypeOK => MaxSeq \in Nat
  BY NewestByCases DEF MaxSeq, Record

\* If s is the only readable sector of the next state, it is the newest one.
LEMMA OnlyReadable ==
  ASSUME NEW s \in Sector, Valid(s), ~Valid(Other(s))
  PROVE  Newest = s /\ ~NoneValid
  BY DEF Newest, ANewer, NoneValid, Valid, Other, Sector

\* A step on a write in progress leaves the sector of the newest record alone
\* (boot_state_write targets the older or the unreadable sector).
LEMMA EraseSparesNewest ==
  ASSUME IInv, write # Idle,
         flash' = [flash EXCEPT ![write.target] = Unreadable]
  PROVE  /\ NoneValid' = NoneValid
         /\ ~NoneValid => /\ Newest' = Newest
                          /\ flash'[Newest] = flash[Newest]
<1> USE DEF IInv, TypeOK
<1>1. write.target \in Sector /\ flash \in [Sector -> Record \cup {Unreadable}]
  OBVIOUS
<1>2. CASE NoneValid
  BY <1>1, <1>2 DEF NoneValid, Valid, Sector
<1>3. CASE ~NoneValid
  <2>1. Newest = Other(write.target) /\ Valid(Newest)
    BY <1>3, NewestByCases DEF NewestSurvives
  <2>2. /\ flash'[Newest] = flash[Newest]
        /\ flash'[write.target] = Unreadable
    BY <1>1, <2>1 DEF Other, Sector
  <2> QED BY <1>1, <1>3, <2>1, <2>2
          DEF Newest, ANewer, NoneValid, Valid, Other, Sector
<1> QED BY <1>2, <1>3

\* The programmed record becomes the newest one.
LEMMA ProgramCommits ==
  ASSUME IInv, Program
  PROVE  /\ ~NoneValid'
         /\ Newest' = write.target
         /\ flash'[write.target] = write.rec
<1> USE UnreadableAssumption DEF IInv, TypeOK, Program
<1>1. /\ write.target \in Sector
      /\ write.rec \in Record
      /\ flash \in [Sector -> Record \cup {Unreadable}]
  BY IdleAssumption
<1>2. flash' = [flash EXCEPT ![write.target] = write.rec]
  OBVIOUS
<1>3. flash'[write.target] = write.rec /\ flash'[write.target] # Unreadable
  BY <1>1, <1>2
<1>4. flash'[Other(write.target)] = flash[Other(write.target)]
  BY <1>1, <1>2 DEF Other, Sector
<1>5. flash[Other(write.target)] # Unreadable =>
          flash'[write.target].seq > flash'[Other(write.target)].seq
  <2> SUFFICES ASSUME flash[Other(write.target)] # Unreadable
               PROVE  flash'[write.target].seq > flash'[Other(write.target)].seq
    OBVIOUS
  <2>1. ~NoneValid
    BY <1>1 DEF NoneValid, Valid, Other, Sector
  <2> QED BY <1>3, <1>4, <2>1 DEF NewestSurvives
<1>6. flash[Other(write.target)] # Unreadable => flash[Other(write.target)] \in Record
  BY <1>1 DEF Other, Sector
<1> QED BY <1>1, <1>3, <1>4, <1>5, <1>6
        DEF Newest, ANewer, NoneValid, Valid, Other, Sector, Record

-----------------------------------------------------------------------------
LEMMA InitInvariant == Init => IInv
  BY DEF Init, IInv, TypeOK, NewestSurvives, Record, Sector

LEMMA NextInvariant == IInv /\ [Next]_vars => IInv'
<1> SUFFICES ASSUME IInv, [Next]_vars PROVE NewestSurvives'
  BY TypeStep DEF IInv
<1>1. ASSUME NEW d \in Payload, StartWrite(d) PROVE NewestSurvives'
  <2>1. Newest' = Newest /\ NoneValid' = NoneValid /\ flash' = flash
    BY <1>1 DEF StartWrite, Newest, ANewer, NoneValid, Valid
  <2>2. write' = [stage |-> "erase", target |-> Target,
                  rec |-> [seq |-> NextSeq, data |-> d]]
    BY <1>1 DEF StartWrite
  <2>3. SUFFICES ASSUME ~NoneValid
                 PROVE  /\ Newest = Other(Target)
                        /\ NextSeq > flash[Newest].seq
    BY <2>1, <2>2 DEF NewestSurvives
  <2> QED BY <2>3, NewestByCases
          DEF IInv, Target, NextSeq, MaxSeq, Other, Sector, Record
<1>2. CASE Erase
  <2>1. /\ write'.target = write.target
        /\ write'.rec = write.rec
        /\ write # Idle
    BY <1>2 DEF Erase, IInv, TypeOK
  <2>2. flash' = [flash EXCEPT ![write.target] = Unreadable]
    BY <1>2 DEF Erase
  <2> QED BY <2>1, <2>2, EraseSparesNewest DEF IInv, NewestSurvives
<1>3. CASE Program
  BY <1>3 DEF Program, NewestSurvives
<1>4. CASE PowerFail
  BY <1>4 DEF PowerFail, NewestSurvives
<1>5. CASE UNCHANGED vars
  BY <1>5 DEF vars, IInv, NewestSurvives, Newest, ANewer, NoneValid, Valid
<1> QED BY <1>1, <1>2, <1>3, <1>4, <1>5 DEF Next

LEMMA Invariant == Spec => []IInv
  BY InitInvariant, NextInvariant, PTL DEF Spec

\* The newest record survives every interrupted write (boot_state.h on
\* boot_state_write), whatever the payloads and however many writes.
THEOREM NewestRecordSurvives == Spec => []NewestSurvives
<1>1. IInv => NewestSurvives
  BY DEF IInv
<1> QED BY <1>1, Invariant, PTL

\* boot_state_read never goes back to an older record.
THEOREM SeqMonotonic == Spec => NeverRollsBack
<1>1. IInv /\ [Next]_vars => [MaxSeq' >= MaxSeq]_vars
  <2> SUFFICES ASSUME IInv, Next PROVE MaxSeq' >= MaxSeq
    OBVIOUS
  <2>0. MaxSeq \in Nat
    BY MaxSeqType DEF IInv
  <2>1. ASSUME flash' = flash PROVE MaxSeq' >= MaxSeq
    BY <2>0, <2>1 DEF MaxSeq, Newest, ANewer, NoneValid, Valid
  <2>2. ASSUME write # Idle,
               flash' = [flash EXCEPT ![write.target] = Unreadable]
        PROVE  MaxSeq' >= MaxSeq
    BY <2>0, <2>2, EraseSparesNewest DEF MaxSeq
  <2>3. CASE Program
    <3>1. MaxSeq' = write.rec.seq
      BY <2>3, ProgramCommits DEF MaxSeq
    <3>2. write.rec.seq >= MaxSeq
      BY <2>0, <2>3, NewestByCases, IdleAssumption
      DEF IInv, NewestSurvives, MaxSeq, Program, TypeOK, Record
    <3> QED BY <3>1, <3>2
  <2> QED BY <2>1, <2>2, <2>3 DEF Next, StartWrite, Erase, PowerFail
<1> QED BY <1>1, Invariant, PTL DEF Spec, NeverRollsBack

\* The two ping-pong sectors implement the durable register: a write takes
\* effect as a whole when it is programmed, or not at all.
THEOREM RefinesRegister == Spec => ImplementsRegister
<1> DEFINE pendingBar == IF write = Idle THEN NoRecord ELSE write.rec.data
<1> USE BootStateAssumption
<1>1. Init => Register!Init
  BY NewestByCases, InitInvariant
  DEF Init, Register!Init, Read, IInv, Record
<1>2. IInv /\ [Next]_vars => [Register!Next]_(Register!vars)
  <2> SUFFICES ASSUME IInv, [Next]_vars
               PROVE  Register!Next \/ UNCHANGED <<Read, pendingBar, power>>
    BY DEF Register!vars
  <2> USE DEF IInv
  <2>0. ASSUME flash' = flash PROVE Read' = Read
    BY <2>0 DEF Read, Newest, ANewer, NoneValid, Valid
  <2>1. ASSUME NEW d \in Payload, StartWrite(d) PROVE Register!Begin(d)
    <3>1. pendingBar = NoRecord
      BY <2>1 DEF StartWrite
    <3>2. write'.rec.data = d /\ write' # Idle
      <4>1. Target \in Sector /\ NextSeq \in Nat
        BY MaxSeqType DEF NextSeq, Target, Other, Newest, Sector
      <4> QED BY <2>1, <4>1, IdleAssumption DEF StartWrite, Record
    <3> QED BY <2>0, <2>1, <3>1, <3>2 DEF Register!Begin, StartWrite
  <2>2. ASSUME write # Idle,
               flash' = [flash EXCEPT ![write.target] = Unreadable]
        PROVE  Read' = Read
    BY <2>2, EraseSparesNewest DEF Read
  <2>3. CASE Erase
    <3>1. pendingBar' = pendingBar
      BY <2>3, IdleAssumption DEF Erase, TypeOK
    <3> QED BY <2>2, <2>3, <3>1 DEF Erase
  <2>4. CASE Program
    <3>1. Read' = write.rec.data
      BY <2>4, ProgramCommits DEF Read
    <3>2. write.rec.data \in Payload /\ write # Idle /\ write' = Idle
      BY <2>4, IdleAssumption DEF Program, TypeOK, Record
    <3>3. Register!Commit
      BY <2>4, <3>1, <3>2 DEF Register!Commit, Program
    <3> QED BY <3>3 DEF Register!Next
  <2>5. CASE PowerFail
    <3>1. Read' = Read /\ write' = Idle /\ power' = ~power
      BY <2>0, <2>2, <2>5 DEF PowerFail
    <3> QED BY <3>1 DEF Register!Next, Register!PowerFail
  <2>6. CASE UNCHANGED vars
    BY <2>0, <2>6 DEF vars
  <2> QED BY <2>1, <2>3, <2>4, <2>5, <2>6 DEF Next, Register!Next
<1> QED BY <1>1, <1>2, Invariant, PTL
        DEF Spec, ImplementsRegister, Register!Spec
=============================================================================
