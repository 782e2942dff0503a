---------------------------- MODULE ButtonStream ----------------------------
(***************************************************************************)
(* What the debouncer promises whoever reads its events: after the first   *)
(* snapshot, the level of a button changes only by an event that says so,  *)
(* at most one per button and a bounded number per call.                   *)
(***************************************************************************)
EXTENDS Naturals, FiniteSets

CONSTANTS Button, MaxEvents

VARIABLES known,   \* whether the first snapshot was taken
          level,   \* buttons_pressed
          told     \* the level according to that snapshot and the events

vars == <<known, level, told>>

Init == /\ known = FALSE
        /\ level = [i \in Button |-> FALSE]
        /\ told = level

Snapshot == /\ ~known /\ known' = TRUE
            /\ level' \in [Button -> BOOLEAN]
            /\ told' = level'

Flip(f, S) == [i \in Button |-> IF i \in S THEN ~f[i] ELSE f[i]]

Events(S) == /\ known /\ UNCHANGED known
             /\ Cardinality(S) <= MaxEvents
             /\ level' = Flip(level, S)
             /\ told' = Flip(told, S)

Next == Snapshot \/ \E S \in SUBSET Button : Events(S)

Spec == Init /\ [][Next]_vars
=============================================================================
