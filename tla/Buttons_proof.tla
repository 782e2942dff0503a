---------------------------- MODULE Buttons_proof ----------------------------
(***************************************************************************)
(* Proofs about the debouncer, for every number of buttons, counter width, *)
(* set of windows and size of the event buffer.                            *)
(***************************************************************************)
EXTENDS Buttons, FunctionTheorems, FiniteSetTheorems, TLAPS

\* The event buffer is never overrun: each reported button has a place of its
\* own below MaxEvents, the number of due buttons before it.
LEMMA EventsFit ==
  ASSUME NEW due \in SUBSET Button
  PROVE  /\ IsFiniteSet(Reported(due))
         /\ Cardinality(Reported(due)) <= MaxEvents
<1> DEFINE Before(i) == {j \in due : j < i}
           Place == [i \in Reported(due) |-> Cardinality(Before(i))]
<1>1. IsFiniteSet(due)
  <2>1. IsFiniteSet(Button)
    BY FS_Interval, ButtonsAssumption DEF Button
  <2> QED BY <2>1, FS_Subset
<1>2. \A i : IsFiniteSet(Before(i)) /\ Cardinality(Before(i)) \in Nat
  <2> SUFFICES ASSUME NEW i
               PROVE  IsFiniteSet(Before(i)) /\ Cardinality(Before(i)) \in Nat
    OBVIOUS
  <2>1. Before(i) \in SUBSET due
    OBVIOUS
  <2>2. IsFiniteSet(Before(i))
    BY ONLY <1>1, <2>1, FS_Subset
  <2> QED BY <2>2, FS_CardinalityType
<1>3. ASSUME NEW i \in due, NEW j \in due, i < j
      PROVE  Cardinality(Before(i)) < Cardinality(Before(j))
  <2>1. Before(i) \in SUBSET Before(j) /\ i \in Before(j) /\ i \notin Before(i)
    <3>1. \A k \in due : k \in Int
      BY ButtonsAssumption DEF Button
    <3> QED BY <1>3, <3>1
  <2>2. Cardinality(Before(i)) <= Cardinality(Before(j))
    BY ONLY <1>2, <2>1, FS_Subset
  <2>3. Cardinality(Before(i)) # Cardinality(Before(j))
    BY ONLY <1>2, <2>1, FS_Subset
  <2> HIDE DEF Before
  <2> QED BY <1>2, <2>2, <2>3
<1>4. Place \in [Reported(due) -> 0..MaxEvents - 1]
  <2> SUFFICES ASSUME NEW i \in Reported(due)
               PROVE  Cardinality(Before(i)) \in 0..MaxEvents - 1
    OBVIOUS
  <2>1. Cardinality(Before(i)) < MaxEvents
    BY DEF Reported
  <2> HIDE DEF Before
  <2> QED BY <1>2, <2>1, ButtonsAssumption
<1>5. ASSUME NEW i \in Reported(due), NEW j \in Reported(due), i # j
      PROVE  Place[i] # Place[j]
  <2>1. i \in due /\ j \in due /\ i \in Int /\ j \in Int
    BY ButtonsAssumption DEF Reported, Button
  <2>2. i < j \/ j < i
    BY <1>5, <2>1
  <2>3. Cardinality(Before(i)) # Cardinality(Before(j))
    <3> HIDE DEF Before
    <3> QED BY <1>2, <1>3, <2>1, <2>2
  <2> QED BY <2>3
<1>6. Place \in Injection(Reported(due), 0..MaxEvents - 1)
  BY <1>4, <1>5 DEF Injection, IsInjective
<1>7. /\ IsFiniteSet(0..MaxEvents - 1)
      /\ Cardinality(0..MaxEvents - 1) = MaxEvents
  BY FS_Interval, ButtonsAssumption
<1> HIDE DEF Place
<1> QED BY ONLY <1>6, <1>7, FS_Injection

\* A buffer with room for every button defers none.
LEMMA RoomForAll ==
  ASSUME MaxEvents >= BTN_COUNT, NEW due \in SUBSET Button
  PROVE  Reported(due) = due
<1> SUFFICES ASSUME NEW i \in due
             PROVE  Cardinality({j \in due : j < i}) < MaxEvents
  BY DEF Reported
<1>1. {j \in due : j < i} \in SUBSET (1..i - 1) /\ i \in 1..BTN_COUNT
  <2>1. i \in 1..BTN_COUNT /\ \A j \in due : j \in Int /\ 1 <= j
    BY ButtonsAssumption DEF Button
  <2>2. ASSUME NEW j \in due, j < i PROVE j \in 1..i - 1
    BY <2>1, <2>2
  <2> QED BY <2>1, <2>2
<1>2. IsFiniteSet(1..i - 1) /\ Cardinality(1..i - 1) = i - 1
  BY <1>1, FS_Interval, ButtonsAssumption
<1>3. Cardinality({j \in due : j < i}) <= i - 1
  BY ONLY <1>1, <1>2, FS_Subset
<1>4. Cardinality({j \in due : j < i}) \in Nat
  BY ONLY <1>1, <1>2, FS_Subset, FS_CardinalityType
<1> QED BY <1>1, <1>3, <1>4, ButtonsAssumption

-----------------------------------------------------------------------------
\* The events of a call are one per reported button.
LEMMA EventCount ==
  ASSUME TypeOK, NEW raw \in [Button -> BOOLEAN], NEW d \in 0..MaxGap, Update(raw, d)
  PROVE  /\ evs' \subseteq [id : Button, pressed : BOOLEAN]
         /\ Cardinality(evs') <= MaxEvents
<1> DEFINE due == Due(raw, now_ms')
           Id == [e \in evs' |-> e.id]
<1>1. due \in SUBSET Button /\ Reported(due) \in SUBSET Button
  BY DEF Due, Reported
<1>2. evs' = {[id |-> i, pressed |-> raw[i]] : i \in Reported(due)}
  BY DEF Update
<1>3. Id \in Injection(evs', Reported(due))
  <2> HIDE DEF due
  <2>1. Id \in [evs' -> Reported(due)]
    BY <1>2
  <2>2. \A e, f \in evs' : Id[e] = Id[f] => e = f
    BY <1>2
  <2> QED BY <2>1, <2>2 DEF Injection, IsInjective
<1>4. IsFiniteSet(Reported(due)) /\ Cardinality(Reported(due)) <= MaxEvents
  BY <1>1, EventsFit
<1>5. /\ IsFiniteSet(evs') /\ Cardinality(evs') <= Cardinality(Reported(due))
  BY ONLY <1>3, <1>4, FS_Injection
<1>6. Cardinality(evs') \in Nat /\ Cardinality(Reported(due)) \in Nat
  BY <1>4, <1>5, FS_CardinalityType
<1>7. evs' \subseteq [id : Button, pressed : BOOLEAN]
  <2> HIDE DEF due
  <2> QED BY <1>1, <1>2
<1> QED BY <1>4, <1>5, <1>6, <1>7, ButtonsAssumption

\* The counter and its differences stay in range.
LEMMA LaterType ==
  ASSUME now_ms \in Clock, NEW d \in 0..MaxGap PROVE Later(d) \in Clock
<1>1. PICK w \in Windows : w \in Nat /\ w + MaxGap <= ClockMod
  BY ButtonsAssumption, ClockAssumption
<1> QED BY <1>1, ButtonsAssumption DEF Later, Clock

LEMMA TypeStep == TypeOK /\ [Next]_vars => TypeOK'
<1> SUFFICES ASSUME TypeOK, [Next]_vars PROVE TypeOK'
  OBVIOUS
<1> USE ButtonsAssumption DEF TypeOK
<1>1. ASSUME NEW d \in 0..MaxGap, NEW raw \in [Button -> BOOLEAN], Seed(raw, d)
      PROVE  TypeOK'
  <2>1. now_ms' \in Clock
    BY <1>1, LaterType DEF Seed
  <2>2. Cardinality(evs') <= MaxEvents
    BY <1>1, FS_EmptySet DEF Seed
  <2> QED BY <1>1, <2>1, <2>2 DEF Seed, SeedLevel
<1>2. ASSUME NEW d \in 0..MaxGap, NEW raw \in [Button -> BOOLEAN], Update(raw, d)
      PROVE  TypeOK'
  <2>1. now_ms' \in Clock
    BY <1>2, LaterType DEF Update
  <2>2. /\ evs' \subseteq [id : Button, pressed : BOOLEAN]
        /\ Cardinality(evs') <= MaxEvents
    BY <1>2, EventCount
  <2>3. raw_since_ms' \in [Button -> Clock]
    BY <1>2, <2>1 DEF Update, Since
  <2>4. age' \in [Button -> 0..AgeLimit]
    BY <1>2 DEF Update, Older
  <2>5. stable' \in [Button -> BOOLEAN] /\ told' \in [Button -> BOOLEAN]
    BY <1>2 DEF Update
  <2> QED BY <1>2, <2>1, <2>2, <2>3, <2>4, <2>5 DEF Update
<1>3. ASSUME NEW w \in Windows, SetDebounce(w) PROVE TypeOK'
  BY <1>3 DEF SetDebounce
<1>4. CASE UNCHANGED vars
  BY <1>4 DEF vars
<1> QED BY <1>1, <1>2, <1>3, <1>4 DEF Next, Sample

LEMMA InitType == Init => TypeOK
<1> SUFFICES ASSUME Init PROVE TypeOK
  OBVIOUS
<1>1. 0 \in Clock /\ 0 \in 0..AgeLimit
  BY ButtonsAssumption DEF Clock
<1>2. Cardinality(evs) <= MaxEvents
  BY FS_EmptySet, ButtonsAssumption DEF Init
<1>3. /\ stable \in [Button -> BOOLEAN] /\ raw_last \in [Button -> BOOLEAN]
    /\ told \in [Button -> BOOLEAN]
    /\ raw_since_ms \in [Button -> Clock] /\ age \in [Button -> 0..AgeLimit]
  BY <1>1 DEF Init
<1> QED BY <1>1, <1>2, <1>3 DEF Init, TypeOK

\* The debouncer's fields, its events and its clock are well typed, and the
\* caller's event buffer is never overrun.
THEOREM TypeCorrect == Spec => []TypeOK
<1> QED BY InitType, TypeStep, PTL DEF Spec

-----------------------------------------------------------------------------
\* The inductive invariant.  The counter never shows more time than has passed;
\* it shows exactly what has passed while a level waits for its window, if the
\* buffer has room for every button.
NeverTooOld ==
    \A i \in Button : Elapsed(now_ms, raw_since_ms[i]) <= age[i]

Waiting ==
    \A i \in Button :
        raw_last[i] # stable[i] =>
            /\ age[i] = Elapsed(now_ms, raw_since_ms[i])
            /\ \E w \in Windows : age[i] < w

IInv == TypeOK /\ StreamMatches /\ NeverTooOld

\* d milliseconds later the counter shows d more, or wraps.
LEMMA ElapsedLater ==
  ASSUME TypeOK, NEW d \in 0..MaxGap, NEW since \in Clock
  PROVE  LET e == Elapsed(now_ms, since)
             f == Elapsed(Later(d), since)
         IN  /\ e \in 0..ClockMod - 1 /\ f \in 0..ClockMod - 1
             /\ f <= e + d
             /\ e + d < ClockMod => f = e + d
             /\ Elapsed(Later(d), Later(d)) = 0
<1>1. PICK w \in Windows : w \in Nat \ {0} /\ w + MaxGap <= ClockMod
  BY ButtonsAssumption, ClockAssumption
<1>2. now_ms \in Clock /\ ClockMod \in Nat /\ d \in Nat /\ d < ClockMod
  BY <1>1, ButtonsAssumption DEF TypeOK
<1> QED BY <1>2 DEF Elapsed, Later, Clock

LEMMA TimeStep ==
  ASSUME TypeOK, NEW d \in 0..MaxGap, NEW raw \in [Button -> BOOLEAN],
         Update(raw, d), NEW i \in Button
  PROVE  /\ raw[i] # raw_last[i] => Elapsed(now_ms', raw_since_ms'[i]) = 0 /\ age'[i] = 0
         /\ raw[i] = raw_last[i] =>
              /\ raw_since_ms'[i] = raw_since_ms[i]
              /\ age'[i] = Older(age[i], d)
              /\ Elapsed(now_ms', raw_since_ms[i]) \in 0..ClockMod - 1
              /\ Elapsed(now_ms', raw_since_ms[i]) <= Elapsed(now_ms, raw_since_ms[i]) + d
              /\ Elapsed(now_ms, raw_since_ms[i]) + d < ClockMod =>
                   Elapsed(now_ms', raw_since_ms[i]) = Elapsed(now_ms, raw_since_ms[i]) + d
<1>1. raw_since_ms[i] \in Clock /\ now_ms' = Later(d)
  BY DEF TypeOK, Update
<1>2. raw_since_ms'[i] = IF raw[i] # raw_last[i] THEN now_ms' ELSE raw_since_ms[i]
  BY DEF Update, Since
<1>3. age'[i] = IF raw[i] # raw_last[i] THEN 0 ELSE Older(age[i], d)
  BY DEF Update
<1> QED BY <1>1, <1>2, <1>3, ElapsedLater

LEMMA InitInvariant == Init => IInv
<1> SUFFICES ASSUME Init PROVE StreamMatches /\ NeverTooOld
  BY InitType DEF IInv
<1> QED BY ButtonsAssumption DEF Init, StreamMatches, NeverTooOld, Elapsed

LEMMA StreamStep == IInv /\ [Next]_vars => StreamMatches'
<1> SUFFICES ASSUME IInv, [Next]_vars PROVE StreamMatches'
  OBVIOUS
<1> USE DEF IInv, StreamMatches
<1>1. ASSUME NEW d \in 0..MaxGap, NEW raw \in [Button -> BOOLEAN], Seed(raw, d)
      PROVE  told' = stable'
  BY <1>1 DEF Seed, SeedLevel
<1>2. ASSUME NEW d \in 0..MaxGap, NEW raw \in [Button -> BOOLEAN], Update(raw, d)
      PROVE  told' = stable'
  <2> DEFINE R == Reported(Due(raw, now_ms'))
  <2>1. \A i \in R : raw[i] = ~stable[i]
    BY DEF Reported, Due, TypeOK
  <2>2. \A i \in Button :
          [id |-> i, pressed |-> ~told[i]] \in evs' <=> i \in R
    <3>1. evs' = {[id |-> i, pressed |-> raw[i]] : i \in R}
      BY <1>2 DEF Update
    <3> HIDE DEF R
    <3> QED BY <2>1, <3>1
  <2>3. stable' = [i \in Button |-> IF i \in R THEN raw[i] ELSE stable[i]]
    BY <1>2 DEF Update, Committed
  <2>4. told' = [i \in Button |-> IF [id |-> i, pressed |-> ~told[i]] \in evs'
                                   THEN ~told[i] ELSE told[i]]
    BY <1>2 DEF Update
  <2> HIDE DEF R
  <2> QED BY <2>1, <2>2, <2>3, <2>4
<1>3. ASSUME NEW w \in Windows, SetDebounce(w) PROVE told' = stable'
  BY <1>3 DEF SetDebounce
<1>4. CASE UNCHANGED vars
  BY <1>4 DEF vars
<1> QED BY <1>1, <1>2, <1>3, <1>4 DEF Next, Sample

LEMMA AgeStep == IInv /\ [Next]_vars => NeverTooOld'
<1> SUFFICES ASSUME IInv, [Next]_vars PROVE NeverTooOld'
  OBVIOUS
<1> USE DEF IInv
<1>1. ASSUME NEW d \in 0..MaxGap, NEW raw \in [Button -> BOOLEAN], Seed(raw, d)
      PROVE  NeverTooOld'
  <2>1. now_ms' \in Clock
    BY <1>1, LaterType DEF Seed, TypeOK
  <2> QED BY <1>1, <2>1, ButtonsAssumption DEF Seed, NeverTooOld, Elapsed, Clock
<1>2. ASSUME NEW d \in 0..MaxGap, NEW raw \in [Button -> BOOLEAN], Update(raw, d)
      PROVE  NeverTooOld'
  <2> SUFFICES ASSUME NEW i \in Button
               PROVE  Elapsed(now_ms', raw_since_ms'[i]) <= age'[i]
    BY DEF NeverTooOld
  <2>1. CASE raw[i] # raw_last[i]
    BY <1>2, <2>1, TimeStep
  <2>2. CASE raw[i] = raw_last[i]
    <3>1. /\ age'[i] = Older(age[i], d) /\ raw_since_ms'[i] = raw_since_ms[i]
          /\ Elapsed(now_ms', raw_since_ms[i]) \in 0..ClockMod - 1
          /\ Elapsed(now_ms', raw_since_ms[i]) <= Elapsed(now_ms, raw_since_ms[i]) + d
      BY <1>2, <2>2, TimeStep
    <3>2. /\ age[i] \in 0..AgeLimit
          /\ Elapsed(now_ms, raw_since_ms[i]) <= age[i]
          /\ Elapsed(now_ms, raw_since_ms[i]) \in 0..ClockMod - 1
      BY ElapsedLater DEF NeverTooOld, TypeOK
    <3> HIDE DEF IInv
    <3> QED BY <3>1, <3>2, ButtonsAssumption DEF Older
  <2> QED BY <2>1, <2>2
<1>3. ASSUME NEW w \in Windows, SetDebounce(w) PROVE NeverTooOld'
  BY <1>3 DEF SetDebounce, NeverTooOld, Elapsed
<1>4. CASE UNCHANGED vars
  BY <1>4 DEF vars, NeverTooOld, Elapsed
<1> QED BY <1>1, <1>2, <1>3, <1>4 DEF Next, Sample

LEMMA Invariant == Spec => []IInv
<1>1. IInv /\ [Next]_vars => IInv'
  BY TypeStep, StreamStep, AgeStep DEF IInv
<1> QED BY <1>1, InitInvariant, PTL DEF Spec

\* The level the program goes by is the one its events tell, whatever the size
\* of the event buffer.
THEOREM EventsTellAll == Spec => []StreamMatches
<1>1. IInv => StreamMatches
  BY DEF IInv
<1> QED BY <1>1, Invariant, PTL

\* No bounce is reported: a flip was read at every sample for a whole window.
THEOREM FlipsAreSteady == Spec => OnlySteady
<1>1. IInv /\ IInv' /\ [Next]_vars =>
        [\A i \in Button : initialized /\ stable'[i] # stable[i] =>
             stable'[i] = raw_last'[i] /\ age'[i] >= debounce_ms]_vars
  <2> SUFFICES ASSUME IInv, IInv', Next, NEW i \in Button,
                      initialized, stable'[i] # stable[i]
               PROVE  stable'[i] = raw_last'[i] /\ age'[i] >= debounce_ms
    OBVIOUS
  <2>1. PICK d \in 0..MaxGap, raw \in [Button -> BOOLEAN] : Update(raw, d)
    BY DEF Next, Sample, Seed, SetDebounce
  <2>2. i \in Due(raw, now_ms') /\ stable'[i] = raw[i] /\ raw_last' = raw
    BY <2>1 DEF Update, Committed, Reported
  <2>3. Elapsed(now_ms', raw_since_ms'[i]) >= debounce_ms
    BY <2>1, <2>2 DEF Due, Update
  <2>4. Elapsed(now_ms', raw_since_ms'[i]) <= age'[i]
    BY DEF IInv, NeverTooOld
  <2>5. /\ Elapsed(now_ms', raw_since_ms'[i]) \in Int
        /\ age'[i] \in Int /\ debounce_ms \in Int
    BY ButtonsAssumption DEF IInv, TypeOK, Elapsed, Clock
  <2> QED BY <2>2, <2>3, <2>4, <2>5
<1> QED BY <1>1, Invariant, PTL DEF Spec, OnlySteady

-----------------------------------------------------------------------------
\* With room for every button no level waits longer than its window.
LEMMA WaitingUpdate ==
  ASSUME MaxEvents >= BTN_COUNT, TypeOK, Waiting, NEW d \in 0..MaxGap,
         NEW raw \in [Button -> BOOLEAN], Update(raw, d),
         NEW i \in Button, raw_last'[i] # stable'[i]
  PROVE  /\ age'[i] = Elapsed(now_ms', raw_since_ms'[i])
         /\ age'[i] < debounce_ms
<1>1. Due(raw, now_ms') \in SUBSET Button /\ raw_last' = raw
  BY DEF Due, Update
<1>2. Committed(Due(raw, now_ms')) = Due(raw, now_ms')
  BY <1>1, RoomForAll DEF Committed
<1>3. i \notin Due(raw, now_ms') /\ raw[i] # stable[i]
  BY <1>1, <1>2 DEF Update
<1>4. ~(Elapsed(now_ms', raw_since_ms'[i]) >= debounce_ms)
  BY <1>3 DEF Due, Update
<1>5. age'[i] = Elapsed(now_ms', raw_since_ms'[i])
  <2>1. CASE raw[i] # raw_last[i]
    BY <2>1, TimeStep
  <2>2. CASE raw[i] = raw_last[i]
    <3>1. PICK w \in Windows : age[i] < w
      BY <1>3, <2>2 DEF Waiting
    <3>2. age[i] = Elapsed(now_ms, raw_since_ms[i])
      BY <1>3, <2>2 DEF Waiting
    <3>3. /\ w \in Nat /\ w + MaxGap <= ClockMod /\ age[i] \in 0..AgeLimit
          /\ ClockMod \in Nat /\ AgeLimit \in Nat /\ AgeLimit >= ClockMod
          /\ MaxGap \in Nat
      BY ButtonsAssumption, ClockAssumption DEF TypeOK
    <3>4. age[i] + d < ClockMod
      BY <3>1, <3>3
    <3>5. age'[i] = age[i] + d
      BY <2>2, <3>3, <3>4, TimeStep DEF Older
    <3>6. Elapsed(now_ms', raw_since_ms'[i]) = age[i] + d
      BY <2>2, <3>2, <3>4, TimeStep
    <3> QED BY <3>5, <3>6
  <2> QED BY <2>1, <2>2
<1>6. Elapsed(now_ms', raw_since_ms'[i]) \in Int /\ debounce_ms \in Int
  <2>1. TypeOK'
    BY TypeStep DEF Next, Sample
  <2> QED BY <2>1, ButtonsAssumption DEF TypeOK, Elapsed, Clock
<1> QED BY <1>4, <1>5, <1>6

LEMMA WaitingStep ==
  ASSUME MaxEvents >= BTN_COUNT, TypeOK, Waiting, [Next]_vars
  PROVE  Waiting'
<1>1. ASSUME NEW d \in 0..MaxGap, NEW raw \in [Button -> BOOLEAN], Seed(raw, d)
      PROVE  Waiting'
  BY <1>1 DEF Seed, SeedLevel, Waiting
<1>2. ASSUME NEW d \in 0..MaxGap, NEW raw \in [Button -> BOOLEAN], Update(raw, d)
      PROVE  Waiting'
  <2>1. debounce_ms \in Windows
    BY DEF TypeOK
  <2> QED BY <1>2, <2>1, WaitingUpdate DEF Waiting
<1>3. ASSUME NEW w \in Windows, SetDebounce(w) PROVE Waiting'
  BY <1>3 DEF SetDebounce, Waiting, Elapsed
<1>4. CASE UNCHANGED vars
  BY <1>4 DEF vars, Waiting, Elapsed
<1> QED BY <1>1, <1>2, <1>3, <1>4 DEF Next, Sample

\* With room for every button, as main.c provides, a level that has held for
\* the window is reported by the very next call, whenever the counter wraps.
THEOREM ReportsPromptly ==
  ASSUME MaxEvents >= BTN_COUNT
  PROVE  Spec => Prompt
<1>1. Init => Waiting
  BY DEF Init, Waiting
<1>2. TypeOK /\ Waiting /\ [Next]_vars => Waiting'
  BY WaitingStep
<1>3. TypeOK /\ Waiting /\ [Next]_vars =>
        [initialized /\ UNCHANGED debounce_ms =>
           \A i \in Button :
               raw_last'[i] # stable'[i] =>
                   age'[i] < debounce_ms \/ Cardinality(evs') = MaxEvents]_vars
  <2> SUFFICES ASSUME TypeOK, Waiting, Next, vars' # vars,
                      initialized, UNCHANGED debounce_ms,
                      NEW i \in Button, raw_last'[i] # stable'[i]
               PROVE  age'[i] < debounce_ms
    OBVIOUS
  <2>1. PICK d \in 0..MaxGap, raw \in [Button -> BOOLEAN] : Update(raw, d)
    BY DEF Next, Sample, Seed, SetDebounce, vars
  <2> QED BY <2>1, WaitingUpdate
<1> QED BY <1>1, <1>2, <1>3, TypeCorrect, PTL DEF Spec, Prompt

\* The debouncer implements the event stream: after the first snapshot its
\* level changes only by events, at most MaxEvents a call.
THEOREM RefinesStream == Spec => ImplementsStream
<1>1. Init => Stream!Init
  BY DEF Init, Stream!Init
<1>2. IInv /\ [Next]_vars => [Stream!Next]_(Stream!vars)
  <2> SUFFICES ASSUME IInv, [Next]_vars
               PROVE  Stream!Next \/ UNCHANGED <<initialized, stable, told>>
    BY DEF Stream!vars
  <2> USE DEF IInv
  <2>1. ASSUME NEW d \in 0..MaxGap, NEW raw \in [Button -> BOOLEAN], Seed(raw, d)
        PROVE  Stream!Snapshot
    BY <2>1 DEF Seed, SeedLevel, Stream!Snapshot
  <2>2. ASSUME NEW d \in 0..MaxGap, NEW raw \in [Button -> BOOLEAN], Update(raw, d)
        PROVE  Stream!Next
    <3> DEFINE R == Reported(Due(raw, now_ms'))
    <3>1. R \in SUBSET Button /\ \A i \in R : raw[i] = ~stable[i]
      BY DEF Reported, Due, TypeOK
    <3>2. Cardinality(R) <= MaxEvents
      BY EventsFit DEF Due
    <3>3. stable' = [i \in Button |-> IF i \in R THEN raw[i] ELSE stable[i]]
      BY <2>2 DEF Update, Committed
    <3>4. stable' = Stream!Flip(stable, R)
      <4> HIDE DEF R
      <4> QED BY <3>1, <3>3 DEF Stream!Flip
    <3>5. told' = stable' /\ told = stable
      BY <2>2, StreamStep DEF StreamMatches, Next, Sample
    <3>6. Stream!Events(R)
      <4>1. initialized /\ UNCHANGED initialized
        BY <2>2 DEF Update
      <4>2. told' = Stream!Flip(told, R)
        BY <3>4, <3>5
      <4> HIDE DEF R
      <4>3. Stream!Cardinality(R) = Cardinality(R)
        BY DEF Stream!Cardinality, Cardinality, IsFiniteSet, Stream!IsFiniteSet
      <4> QED BY <3>2, <3>4, <4>1, <4>2, <4>3 DEF Stream!Events
    <3> QED BY <3>1, <3>6 DEF Stream!Next
  <2>3. ASSUME NEW w \in Windows, SetDebounce(w)
        PROVE  UNCHANGED <<initialized, stable, told>>
    BY <2>3 DEF SetDebounce
  <2>4. CASE UNCHANGED vars
    BY <2>4 DEF vars
  <2> QED BY <2>1, <2>2, <2>3, <2>4 DEF Next, Sample, Stream!Next
<1> QED BY <1>1, <1>2, Invariant, PTL DEF Spec, ImplementsStream, Stream!Spec
=============================================================================
