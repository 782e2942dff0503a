------------------------------ MODULE Buttons ------------------------------
(***************************************************************************)
(* buttons.c: debounced press and release events from raw samples.         *)
(*                                                                         *)
(* Time is the caller's millisecond counter, which wraps; samples come at  *)
(* any spacing up to MaxGap and read any levels.                           *)
(***************************************************************************)
EXTENDS Integers, FiniteSets

CONSTANTS
    BTN_COUNT,   \* number of buttons
    ClockMod,    \* the millisecond counter counts modulo this, 2^32
    Windows,     \* debounce_ms values the config command accepts
    MaxEvents,   \* max_events of buttons_update
    MaxGap,      \* bound: milliseconds between two samples
    AgeLimit     \* bound: longest time the history variable age tells apart

Button == 1..BTN_COUNT
Clock == 0..ClockMod - 1

ASSUME ButtonsAssumption ==
    /\ BTN_COUNT \in Nat \ {0} /\ ClockMod \in Nat \ {0}
    /\ Windows # {} /\ Windows \subseteq Nat \ {0}
    /\ MaxEvents \in Nat \ {0} /\ MaxGap \in Nat
    /\ AgeLimit \in Nat /\ AgeLimit >= ClockMod

\* A window and the pass that outlasts it are short against the counter.
ASSUME ClockAssumption == \A w \in Windows : w + MaxGap <= ClockMod

VARIABLES
    stable, raw_last, raw_since_ms, debounce_ms, initialized,   \* buttons_t
    now_ms,   \* the millisecond counter at the latest sample
    evs,      \* the events of the latest call
    told,     \* history: the level after the first snapshot and the events
    age       \* history: how long ago the raw level changed, not modulo

vars == <<stable, raw_last, raw_since_ms, debounce_ms, initialized,
          now_ms, evs, told, age>>

TypeOK ==
    /\ stable \in [Button -> BOOLEAN] /\ raw_last \in [Button -> BOOLEAN]
    /\ raw_since_ms \in [Button -> Clock]
    /\ debounce_ms \in Windows
    /\ initialized \in BOOLEAN
    /\ now_ms \in Clock
    /\ evs \subseteq [id : Button, pressed : BOOLEAN]
    /\ Cardinality(evs) <= MaxEvents
    /\ told \in [Button -> BOOLEAN]
    /\ age \in [Button -> 0..AgeLimit]

\* buttons_init
Init ==
    /\ stable = [i \in Button |-> FALSE] /\ raw_last = stable
    /\ raw_since_ms = [i \in Button |-> 0]
    /\ debounce_ms \in Windows
    /\ initialized = FALSE
    /\ now_ms = 0
    /\ evs = {}
    /\ told = stable
    /\ age = [i \in Button |-> 0]

\* The counter d milliseconds later, and (uint32_t)(t - since).
Later(d) == IF now_ms + d < ClockMod THEN now_ms + d ELSE now_ms + d - ClockMod
\* Bug: the difference of a wrapped counter is taken for zero.
ElapsedNoWrap(t, since) == IF t >= since THEN t - since ELSE 0
Elapsed(t, since) == IF t >= since THEN t - since ELSE t - since + ClockMod

Older(a, d) == IF a + d < AgeLimit THEN a + d ELSE AgeLimit

\* main.c's first call, before its loop.
SeedLevel(raw) == raw

Seed(raw, d) ==
    /\ ~initialized /\ initialized' = TRUE
    /\ now_ms' = Later(d)
    /\ stable' = SeedLevel(raw) /\ raw_last' = raw
    /\ raw_since_ms' = [i \in Button |-> now_ms']
    /\ evs' = {}
    /\ told' = raw
    /\ age' = [i \in Button |-> 0]
    /\ UNCHANGED debounce_ms

\* Bugs: a bounce does not restart the window; every sample does.
SinceKept(raw, t) == raw_since_ms
SinceAlways(raw, t) ==
    [i \in Button |-> IF raw[i] # stable[i] THEN t ELSE raw_since_ms[i]]
Since(raw, t) ==
    [i \in Button |-> IF raw[i] # raw_last[i] THEN t ELSE raw_since_ms[i]]

\* The buttons whose new level has held for the window.
Due(raw, t) ==
    {i \in Button : /\ raw[i] # stable[i]
                    /\ Elapsed(t, Since(raw, t)[i]) >= debounce_ms}

\* Those among them the event buffer has room for; the others stay due.
Reported(due) ==
    {i \in due : Cardinality({j \in due : j < i}) < MaxEvents}

\* Bug: the level flips whether or not there is room for the event.
CommittedAll(due) == due
Committed(due) == Reported(due)

Update(raw, d) ==
    /\ initialized /\ UNCHANGED <<initialized, debounce_ms>>
    /\ now_ms' = Later(d)
    /\ raw_last' = raw
    /\ raw_since_ms' = Since(raw, now_ms')
    /\ stable' = [i \in Button |->
                     IF i \in Committed(Due(raw, now_ms')) THEN raw[i] ELSE stable[i]]
    /\ evs' = {[id |-> i, pressed |-> raw[i]] : i \in Reported(Due(raw, now_ms'))}
    /\ told' = [i \in Button |->
                   IF [id |-> i, pressed |-> ~told[i]] \in evs' THEN ~told[i] ELSE told[i]]
    /\ age' = [i \in Button |-> IF raw[i] # raw_last[i] THEN 0 ELSE Older(age[i], d)]

\* buttons_set_debounce
SetDebounce(w) ==
    /\ initialized
    /\ debounce_ms' = w
    /\ UNCHANGED <<stable, raw_last, raw_since_ms, initialized, now_ms, evs,
                   told, age>>

Sample(d) == \E raw \in [Button -> BOOLEAN] : Seed(raw, d) \/ Update(raw, d)

Next == \/ \E d \in 0..MaxGap : Sample(d)
        \/ \E w \in Windows : SetDebounce(w)

Spec == Init /\ [][Next]_vars
\* The main loop samples again and again, and time passes.
FairSpec == Spec /\ WF_vars(\E d \in 1..MaxGap : Sample(d))
-----------------------------------------------------------------------------
\* The level the program goes by is the level its events tell, whatever the room
\* for events: no flip is lost and no button held at power-up gives one
\* (buttons.c on committing a flip only if it can be reported).
StreamMatches == told = stable

\* A level is reported only after it was read at every sample for a whole
\* window: a bounce of either polarity gives no event.
OnlySteady ==
    [][\A i \in Button : initialized /\ stable'[i] # stable[i] =>
           stable'[i] = raw_last'[i] /\ age'[i] >= debounce_ms]_vars

\* A level that has held for the window is reported by the very next call,
\* unless the event buffer is full: the wrap of the counter delays nothing.
Prompt ==
    [][initialized /\ UNCHANGED debounce_ms =>
         \A i \in Button :
             raw_last'[i] # stable'[i] =>
                 age'[i] < debounce_ms \/ Cardinality(evs') = MaxEvents]_vars

\* A level that stays is reported in the end, even past a full event buffer.
HeldIsReported ==
    \A i \in Button, b \in BOOLEAN :
        <>[](initialized /\ raw_last[i] = b) => <>[](stable[i] = b)

\* The debouncer keeps the promise of ButtonStream.
Stream == INSTANCE ButtonStream WITH known <- initialized, level <- stable
ImplementsStream == Stream!Spec
=============================================================================
