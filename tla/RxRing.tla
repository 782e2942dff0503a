------------------------------- MODULE RxRing -------------------------------
(***************************************************************************)
(* net.c: bytes from the CH9120 go through the UART's hardware FIFO, a     *)
(* receive interrupt and a software ring to net_read in the main loop.     *)
(*                                                                         *)
(* The interrupt preempts the main loop between any two accesses to the    *)
(* ring's indices, and is itself not preempted: one turn of its loop is    *)
(* one step.  Bytes are numbered in the order the wire brings them.        *)
(***************************************************************************)
EXTENDS Integers, Sequences

CONSTANTS
    RingSize,   \* RX_RING_SIZE
    HwSize,     \* depth of the UART's receive FIFO
    ReadMax,    \* max of a net_read call: the size of main's rxbuf
    SentLimit   \* bound: bytes the wire brings

ASSUME RxAssumption ==
    /\ RingSize \in Nat /\ RingSize > 1
    /\ HwSize \in Nat \ {0}
    /\ ReadMax \in Nat \ {0}
    /\ SentLimit \in Nat

VARIABLES
    sent,       \* bytes the wire has brought
    hw,         \* the UART's receive FIFO
    s_rx_ring, s_rx_head, s_rx_tail,
    main,       \* where the main loop is: "out" of net.c, in net_read at its
                \* test ("test") or between its two statements ("next"), in
                \* net_rx_flush with s_rx_head read ("flush")
    n,          \* bytes this net_read has put in its buffer
    saw,        \* net_rx_flush: the s_rx_head it read
    got,        \* history: everything net_read handed to the main loop
    lost,       \* history: bytes dropped by a full FIFO or a full ring
    flushed,    \* history: bytes net_rx_flush discarded
    ringMark    \* history: the newest byte the ring had taken when net_rx_flush
                \* was last called

ring == <<s_rx_ring, s_rx_head, s_rx_tail>>
reader == <<main, n, saw>>
history == <<got, lost, flushed, ringMark>>
vars == <<sent, hw, ring, reader, history>>

Index == 0..RingSize - 1

\* (i + 1) & RX_RING_MASK
Succ(i) == IF i + 1 = RingSize THEN 0 ELSE i + 1

\* The ring's contents: Used bytes, the k-th of them at At(k).
Used == IF s_rx_head >= s_rx_tail THEN s_rx_head - s_rx_tail
                                  ELSE s_rx_head + RingSize - s_rx_tail
Slot(k) == IF s_rx_tail + k - 1 < RingSize THEN s_rx_tail + k - 1
                                           ELSE s_rx_tail + k - 1 - RingSize
Contents == [k \in 1..Used |-> s_rx_ring[Slot(k)]]

TypeOK ==
    /\ sent \in 0..SentLimit
    /\ hw \in Seq(1..SentLimit) /\ Len(hw) <= HwSize
    /\ s_rx_ring \in [Index -> 0..SentLimit]
    /\ s_rx_head \in Index /\ s_rx_tail \in Index
    /\ main \in {"out", "test", "next", "flush"}
    /\ n \in 0..ReadMax
    /\ saw \in Index
    /\ got \in Seq(1..SentLimit)
    /\ lost \in Nat /\ flushed \in Nat
    /\ ringMark \in 0..SentLimit

\* rx_irq_enable: from here on the interrupt owns the hardware FIFO.
Init ==
    /\ sent = 0 /\ hw = <<>>
    /\ s_rx_ring = [i \in Index |-> 0]
    /\ s_rx_head = 0 /\ s_rx_tail = 0
    /\ main = "out" /\ n = 0 /\ saw = 0
    /\ got = <<>> /\ lost = 0 /\ flushed = 0
    /\ ringMark = 0

-----------------------------------------------------------------------------
\* A byte arrives; a full hardware FIFO loses it.
Arrive ==
    /\ sent < SentLimit
    /\ sent' = sent + 1
    /\ IF Len(hw) < HwSize
         THEN hw' = Append(hw, sent + 1) /\ UNCHANGED lost
         ELSE lost' = lost + 1 /\ UNCHANGED hw
    /\ UNCHANGED <<ring, reader, got, flushed, ringMark>>

\* net_rx_irq
\* Bug: the full ring is overwritten.
NeverFull == FALSE
RingFull == Succ(s_rx_head) = s_rx_tail

Irq ==
    /\ hw # <<>>
    /\ hw' = Tail(hw)
    /\ IF RingFull
         THEN lost' = lost + 1 /\ UNCHANGED ring     \* s_rx_overruns++
         ELSE /\ s_rx_ring' = [s_rx_ring EXCEPT ![s_rx_head] = Head(hw)]
              /\ s_rx_head' = Succ(s_rx_head)
              /\ UNCHANGED <<s_rx_tail, lost>>
    /\ UNCHANGED <<sent, reader, got, flushed, ringMark>>

\* net_read
\* Bug: the last byte is left behind.
EmptyButOne == s_rx_tail = s_rx_head \/ Succ(s_rx_tail) = s_rx_head
RingEmpty == s_rx_tail = s_rx_head

CallRead ==
    /\ main = "out"
    /\ main' = "test" /\ n' = 0
    /\ UNCHANGED <<sent, hw, ring, saw, history>>

\* Bug: the last byte a call may take is not removed from the ring.
TakeLastTwice ==
    /\ main = "test" /\ n < ReadMax /\ ~RingEmpty
    /\ got' = Append(got, s_rx_ring[s_rx_tail]) /\ n' = n + 1
    /\ main' = IF n + 1 = ReadMax THEN "out" ELSE "next"
    /\ UNCHANGED <<sent, hw, ring, saw, lost, flushed, ringMark>>
TakeByte ==
    /\ main = "test" /\ n < ReadMax /\ ~RingEmpty
    /\ got' = Append(got, s_rx_ring[s_rx_tail]) /\ n' = n + 1
    /\ main' = "next"
    /\ UNCHANGED <<sent, hw, ring, saw, lost, flushed, ringMark>>

FreeSlot ==
    /\ main = "next"
    /\ s_rx_tail' = Succ(s_rx_tail)
    /\ main' = "test"
    /\ UNCHANGED <<sent, hw, s_rx_ring, s_rx_head, n, saw, history>>

EndRead ==
    /\ main = "test"
    /\ n = ReadMax \/ RingEmpty
    /\ main' = "out"
    /\ UNCHANGED <<sent, hw, ring, n, saw, history>>

\* net_rx_flush: reads s_rx_head, then stores it in s_rx_tail.
NewestInRing == IF hw = <<>> THEN sent ELSE Head(hw) - 1

\* Bug: the indices are swapped, nothing is discarded.
CallFlushTail ==
    /\ main = "out"
    /\ saw' = s_rx_tail
    /\ ringMark' = NewestInRing
    /\ main' = "flush"
    /\ UNCHANGED <<sent, hw, ring, n, got, lost, flushed>>
CallFlush ==
    /\ main = "out"
    /\ saw' = s_rx_head
    /\ ringMark' = NewestInRing
    /\ main' = "flush"
    /\ UNCHANGED <<sent, hw, ring, n, got, lost, flushed>>

FlushedBytes == IF saw >= s_rx_tail THEN saw - s_rx_tail
                                    ELSE saw + RingSize - s_rx_tail
\* Bug: one byte too many is skipped.
EndFlushOneMore ==
    /\ main = "flush"
    /\ s_rx_tail' = Succ(saw)
    /\ flushed' = flushed + FlushedBytes
    /\ main' = "out"
    /\ UNCHANGED <<sent, hw, s_rx_ring, s_rx_head, n, saw, got, lost,
                   ringMark>>
EndFlush ==
    /\ main = "flush"
    /\ s_rx_tail' = saw
    /\ flushed' = flushed + FlushedBytes
    /\ main' = "out"
    /\ UNCHANGED <<sent, hw, s_rx_ring, s_rx_head, n, saw, got, lost,
                   ringMark>>

Next == \/ Arrive \/ Irq
        \/ CallRead \/ TakeByte \/ FreeSlot \/ EndRead
        \/ CallFlush \/ EndFlush

Spec == Init /\ [][Next]_vars

\* The interrupt is served; the main loop calls net_read again and again.
FairSpec ==
    /\ Spec
    /\ WF_vars(Irq)
    /\ WF_vars(CallRead) /\ WF_vars(TakeByte \/ FreeSlot \/ EndRead)
    /\ WF_vars(EndFlush)
-----------------------------------------------------------------------------
\* Commands reach the main loop in the order they were sent and no byte twice,
\* wherever the interrupt cuts into net_read or net_rx_flush.
InOrder == \A i \in 1..Len(got) - 1 : got[i] < got[i + 1]

\* No byte vanishes: each one is waiting, handed over, discarded by
\* net_rx_flush, or was counted lost when a FIFO was full.  (Between the two
\* statements of net_read a byte is both handed over and in the ring.)
Accounted ==
    sent = Len(hw) + Used + Len(got) + lost + flushed
             - (IF main = "next" THEN 1 ELSE 0)

\* The ring is a FIFO that holds RingSize - 1 bytes.
Fifo == INSTANCE ByteFifo
          WITH Byte <- 1..SentLimit,
               Capacity <- RingSize - 1,
               queue <- Contents,
               out <- IF main = "next" THEN SubSeq(got, 1, Len(got) - 1)
                                       ELSE got
ImplementsFifo == Fifo!Spec

\* After net_rx_flush nothing the ring held when it was called is delivered.
FlushEmptiesRing ==
    [][Len(got') > Len(got) => got'[Len(got')] > ringMark]_vars

\* No byte is stuck behind an interrupt or a full ring: it is handed over,
\* discarded or counted lost sooner or later.
Buffered(b) == \/ \E i \in 1..Len(hw) : hw[i] = b
               \/ \E k \in 1..Used : s_rx_ring[Slot(k)] = b
NothingStuck == \A b \in 1..SentLimit : Buffered(b) ~> ~Buffered(b)
=============================================================================
