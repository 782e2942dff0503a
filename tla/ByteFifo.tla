------------------------------ MODULE ByteFifo ------------------------------
(***************************************************************************)
(* What the receive ring of net.c promises: a bounded FIFO between one     *)
(* producer and one consumer.                                              *)
(***************************************************************************)
EXTENDS Sequences, Naturals

CONSTANTS Byte, Capacity

VARIABLES queue,  \* accepted and not yet consumed
          out     \* everything the consumer got

Init == queue = <<>> /\ out = <<>>

\* The producer; a full queue refuses the byte, which is then lost.
Put(b) ==
    /\ Len(queue) < Capacity
    /\ queue' = Append(queue, b)
    /\ UNCHANGED out

Get ==
    /\ queue # <<>>
    /\ out' = Append(out, Head(queue))
    /\ queue' = Tail(queue)

\* Discards the k oldest bytes.
Drop(k) ==
    /\ queue' = SubSeq(queue, k + 1, Len(queue))
    /\ UNCHANGED out

Next == \/ \E b \in Byte : Put(b)
        \/ Get
        \/ \E k \in 1..Len(queue) : Drop(k)

Spec == Init /\ [][Next]_<<queue, out>>
=============================================================================
