---------------------------- MODULE AtomicRecord ----------------------------
(***************************************************************************)
(* What boot_state_write promises its callers: a durable register.  A      *)
(* write either takes effect as a whole or, when the power fails, leaves   *)
(* the old value; nothing else changes the register.                       *)
(***************************************************************************)
CONSTANTS Payload,   \* values a caller can store
          NoRecord   \* the register before its first write

VARIABLES value,     \* what boot_state_read returns
          pending,   \* the value being written, NoRecord when none is
          power      \* changes with every power failure

vars == <<value, pending, power>>

TypeOK == /\ value \in Payload \cup {NoRecord}
          /\ pending \in Payload \cup {NoRecord}
          /\ power \in BOOLEAN

Init == /\ value \in Payload \cup {NoRecord}
        /\ pending = NoRecord
        /\ power \in BOOLEAN

Begin(d) == /\ pending = NoRecord
            /\ pending' = d
            /\ UNCHANGED <<value, power>>

Commit == /\ pending # NoRecord
          /\ value' = pending
          /\ pending' = NoRecord
          /\ UNCHANGED power

\* Only a power failure takes a write back.
PowerFail == /\ power' = ~power
             /\ pending' = NoRecord
             /\ UNCHANGED value

Next == \/ \E d \in Payload : Begin(d)
        \/ Commit
        \/ PowerFail

Spec == Init /\ [][Next]_vars
=============================================================================
