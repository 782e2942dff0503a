---------------------------- MODULE RxRing_proof ----------------------------
(***************************************************************************)
(* Proofs about the receive ring, for every ring and FIFO size, every      *)
(* number of bytes and every interleaving of interrupt and main loop.      *)
(***************************************************************************)
EXTENDS RxRing, SequenceTheorems, TLAPS

\* The k-th byte waiting in the ring, and the last byte handed over.
At(k) == s_rx_ring[Slot(k)]
Last == IF got = <<>> THEN 0 ELSE got[Len(got)]

-----------------------------------------------------------------------------
(* Sequences and index arithmetic *)

LEMMA AppendFacts ==
  ASSUME NEW S, NEW s \in Seq(S), NEW e \in S
  PROVE  /\ Append(s, e) \in Seq(S) /\ Len(Append(s, e)) = Len(s) + 1
         /\ \A i \in 1..Len(s) : Append(s, e)[i] = s[i]
         /\ Append(s, e)[Len(s) + 1] = e
  OBVIOUS

LEMMA TailFacts ==
  ASSUME NEW S, NEW s \in Seq(S), s # <<>>
  PROVE  /\ Tail(s) \in Seq(S) /\ Len(s) > 0 /\ Len(Tail(s)) = Len(s) - 1
         /\ \A i \in 1..Len(s) - 1 : Tail(s)[i] = s[i + 1]
         /\ Head(s) = s[1] /\ s[1] \in S
  OBVIOUS

LEMMA SuccIndex == ASSUME NEW i \in Index PROVE Succ(i) \in Index
  BY RxAssumption DEF Index, Succ

LEMMA UsedFacts ==
  ASSUME s_rx_head \in Index, s_rx_tail \in Index
  PROVE  /\ Used \in 0..RingSize - 1
         /\ RingFull <=> Used = RingSize - 1
         /\ RingEmpty <=> Used = 0
         /\ \A k \in 1..RingSize : Slot(k) \in Index
         /\ Slot(1) = s_rx_tail
         /\ Slot(Used + 1) = s_rx_head
         /\ \A k \in 1..Used : Slot(k) # s_rx_head
  BY RxAssumption DEF Index, Used, RingFull, RingEmpty, Slot, Succ

\* The interrupt adds a byte behind the others.
LEMMA PutIndex ==
  ASSUME s_rx_head \in Index, s_rx_tail \in Index, ~RingFull,
         s_rx_head' = Succ(s_rx_head), UNCHANGED s_rx_tail
  PROVE  /\ Used' = Used + 1
         /\ \A k \in 1..RingSize : Slot(k)' = Slot(k)
  BY RxAssumption DEF Index, Used, RingFull, Slot, Succ

\* net_read removes the first.
LEMMA GetIndex ==
  ASSUME s_rx_head \in Index, s_rx_tail \in Index, Used > 0,
         s_rx_tail' = Succ(s_rx_tail), UNCHANGED s_rx_head
  PROVE  /\ Used' = Used - 1
         /\ \A k \in 1..Used - 1 : Slot(k)' = Slot(k + 1)
  BY RxAssumption DEF Index, Used, Slot, Succ

\* net_rx_flush removes those up to the head it saw.
LEMMA FlushIndex ==
  ASSUME s_rx_head \in Index, s_rx_tail \in Index, saw \in Index,
         FlushedBytes <= Used, s_rx_tail' = saw, UNCHANGED s_rx_head
  PROVE  /\ FlushedBytes \in Nat
         /\ Used' = Used - FlushedBytes
         /\ \A k \in 1..Used - FlushedBytes : Slot(k)' = Slot(k + FlushedBytes)
  BY RxAssumption DEF Index, Used, Slot, FlushedBytes

-----------------------------------------------------------------------------
(* The inductive invariant: along the way from the wire to the main loop the  *)
(* bytes are numbered in falling order, and what was buffered when            *)
(* net_rx_flush was called is on its way out.                                 *)

RingOrdered ==
    /\ \A k \in 1..Used : At(k) \in 1..sent
    /\ \A j, k \in 1..Used : j < k => At(j) < At(k)

FifoOrdered ==
    /\ \A i \in 1..Len(hw) : hw[i] \in 1..sent
    /\ \A i, j \in 1..Len(hw) : i < j => hw[i] < hw[j]
    /\ \A k \in 1..Used, i \in 1..Len(hw) : At(k) < hw[i]

\* Between the two statements of net_read the first byte is handed over but
\* still in the ring.
ReadOrdered ==
    /\ Last \in 0..sent
    /\ main # "next" => \A k \in 1..Used : Last < At(k)
    /\ main = "next" => Used > 0 /\ got # <<>> /\ Last = At(1)
    /\ \A i \in 1..Len(hw) : Last < hw[i]

FlushMarks ==
    /\ ringMark \in 0..sent
    /\ \A i \in 1..Len(hw) : ringMark < hw[i]
    /\ main # "flush" => \A k \in 1..Used : ringMark < At(k)
    /\ main = "flush" =>
         /\ FlushedBytes <= Used
         /\ \A k \in 1..Used : k > FlushedBytes => ringMark < At(k)

IInv == TypeOK /\ RingOrdered /\ FifoOrdered /\ ReadOrdered /\ FlushMarks
             /\ InOrder

LEMMA InitInvariant == Init => IInv
<1> SUFFICES ASSUME Init PROVE IInv
  OBVIOUS
<1>1. Used = 0 /\ Len(hw) = 0 /\ Len(got) = 0
  BY RxAssumption DEF Init, Used
<1>2. 0 \in Index
  BY RxAssumption DEF Index
<1>3. TypeOK
  BY <1>1, <1>2, RxAssumption DEF Init, TypeOK
<1>4. Last = 0
  BY DEF Init, Last
<1> QED
  BY <1>1, <1>3, <1>4, RxAssumption
  DEF Init, IInv, RingOrdered, FifoOrdered, ReadOrdered, FlushMarks, InOrder

\* What the steps below use of the invariant.
IFacts ==
    /\ TypeOK /\ RingOrdered /\ FifoOrdered /\ ReadOrdered /\ FlushMarks
    /\ InOrder
    /\ sent \in Nat /\ Used \in 0..RingSize - 1 /\ Last \in Nat
    /\ Len(hw) \in Nat /\ Len(got) \in Nat /\ ringMark \in Nat
    /\ \A i \in 1..Len(hw) : hw[i] \in Nat
    /\ \A k \in 1..Used : At(k) \in Nat

LEMMA Facts == IInv => IFacts
<1> SUFFICES ASSUME IInv PROVE IFacts
  OBVIOUS
<1> USE DEF IInv
<1>1. TypeOK /\ RingOrdered /\ FifoOrdered /\ ReadOrdered /\ FlushMarks /\ InOrder
  OBVIOUS
<1>2. sent \in Nat /\ Len(hw) \in Nat /\ Len(got) \in Nat /\ ringMark \in Nat
  BY RxAssumption DEF TypeOK
<1>3. Used \in 0..RingSize - 1
  BY UsedFacts DEF TypeOK
<1>4. Last \in Nat
  BY <1>2 DEF ReadOrdered
<1>5. /\ \A i \in 1..Len(hw) : hw[i] \in Nat
      /\ \A k \in 1..Used : At(k) \in Nat
  BY <1>2 DEF FifoOrdered, RingOrdered
<1> QED BY <1>1, <1>2, <1>3, <1>4, <1>5 DEF IFacts

\* A byte arrives: newer than every other.
LEMMA ArriveStep == IInv /\ Arrive => IInv'
<1> SUFFICES ASSUME IInv, Arrive PROVE IInv'
  OBVIOUS
<1>0. IFacts
  BY Facts
<1> USE <1>0 DEF IFacts
<1>1. UNCHANGED <<ring, reader, got, flushed, ringMark>>
  BY DEF Arrive
<1>2. /\ Used' = Used /\ \A k \in 1..Used : At(k)' = At(k)
      /\ Last' = Last /\ FlushedBytes' = FlushedBytes
  BY <1>1 DEF ring, reader, Used, At, Slot, Last, FlushedBytes
<1>3. sent' = sent + 1 /\ sent' \in 1..SentLimit
  BY RxAssumption DEF Arrive, TypeOK
<1>4. /\ Len(hw') \in {Len(hw), Len(hw) + 1} /\ Len(hw') <= HwSize
      /\ \A i \in 1..Len(hw) : hw'[i] = hw[i]
      /\ Len(hw') = Len(hw) + 1 => hw'[Len(hw) + 1] = sent + 1
      /\ hw' \in Seq(1..SentLimit) /\ lost' \in Nat
  <2>1. CASE Len(hw) < HwSize
    <3>1. hw' = Append(hw, sent + 1) /\ UNCHANGED lost
      BY <2>1 DEF Arrive
    <3>2. hw \in Seq(1..SentLimit) /\ sent + 1 \in 1..SentLimit /\ lost \in Nat
      BY <1>3 DEF TypeOK
    <3> HIDE DEF IFacts
    <3> QED BY <1>0, <2>1, <3>1, <3>2, AppendFacts, RxAssumption DEF IFacts
  <2>2. CASE ~(Len(hw) < HwSize)
    BY <2>2, RxAssumption DEF Arrive, TypeOK
  <2> QED BY <2>1, <2>2
<1>5. TypeOK'
  BY <1>1, <1>3, <1>4, RxAssumption DEF TypeOK, ring, reader
<1>6. RingOrdered'
  BY <1>2, <1>3 DEF RingOrdered
<1>7. FifoOrdered'
  <2>1. \A i \in 1..Len(hw') : hw'[i] = IF i <= Len(hw) THEN hw[i] ELSE sent + 1
    BY <1>4
  <2>2. \A i \in 1..Len(hw') : hw'[i] \in 1..sent'
    BY <1>3, <1>4, <2>1 DEF FifoOrdered
  <2>3. \A i, j \in 1..Len(hw') : i < j => hw'[i] < hw'[j]
    BY <1>4, <2>1 DEF FifoOrdered
  <2>4. \A k \in 1..Used', i \in 1..Len(hw') : At(k)' < hw'[i]
    BY <1>2, <1>4, <2>1 DEF FifoOrdered, RingOrdered
  <2> QED BY <2>2, <2>3, <2>4 DEF FifoOrdered
<1>8. \A i \in 1..Len(hw') : Last < hw'[i] /\ ringMark < hw'[i]
  <2>1. \A i \in 1..Len(hw') : hw'[i] = IF i <= Len(hw) THEN hw[i] ELSE sent + 1
    BY <1>4
  <2> QED BY <1>4, <2>1 DEF ReadOrdered, FlushMarks
<1>9. ReadOrdered'
  BY <1>1, <1>2, <1>3, <1>8 DEF ReadOrdered, reader
<1>10. FlushMarks'
  BY <1>1, <1>2, <1>3, <1>8 DEF FlushMarks, reader
<1>11. InOrder'
  BY <1>1 DEF InOrder
<1> QED BY <1>5, <1>6, <1>7, <1>9, <1>10, <1>11 DEF IInv

\* The interrupt moves the oldest byte of the FIFO behind the ring's newest.
LEMMA IrqStep == IInv /\ Irq => IInv'
<1> SUFFICES ASSUME IInv, Irq PROVE IInv'
  OBVIOUS
<1>0. IFacts
  BY Facts
<1> USE <1>0 DEF IFacts
<1>1. UNCHANGED <<sent, reader, got, flushed, ringMark, s_rx_tail>>
  BY DEF Irq, ring
<1>2. /\ Len(hw) > 0 /\ Len(hw') = Len(hw) - 1
      /\ \A i \in 1..Len(hw') : hw'[i] = hw[i + 1]
      /\ hw' \in Seq(1..SentLimit) /\ Head(hw) = hw[1]
      /\ hw[1] \in 1..SentLimit
  BY TailFacts DEF Irq, TypeOK
<1>3. Last' = Last /\ FlushedBytes' = FlushedBytes /\ InOrder'
  BY <1>1 DEF Last, FlushedBytes, InOrder, reader
<1>4. /\ lost' \in Nat
      /\ s_rx_ring' \in [Index -> 0..SentLimit] /\ s_rx_head' \in Index
      /\ Used' \in {Used, Used + 1}
      /\ \A k \in 1..Used : At(k)' = At(k)
      /\ Used' = Used + 1 => \A k \in {Used + 1} : At(k)' = hw[1]
  <2>1. CASE RingFull
    <3>1. lost' = lost + 1 /\ UNCHANGED ring
      BY <2>1 DEF Irq
    <3> QED BY <3>1 DEF TypeOK, ring, Used, At, Slot
  <2>2. CASE ~RingFull
    <3>1. /\ s_rx_ring' = [s_rx_ring EXCEPT ![s_rx_head] = Head(hw)]
          /\ s_rx_head' = Succ(s_rx_head) /\ UNCHANGED <<s_rx_tail, lost>>
      BY <2>2 DEF Irq
    <3>2. s_rx_head \in Index /\ s_rx_tail \in Index
      BY DEF TypeOK
    <3>3. Head(hw) \in 0..SentLimit
      BY <1>2, RxAssumption
    <3>4. Used' = Used + 1 /\ \A k \in 1..Used + 1 : Slot(k)' = Slot(k)
      <4>1. Used < RingSize - 1
        BY <2>2, <3>2, UsedFacts, RxAssumption
      <4> QED BY <2>2, <3>1, <3>2, <4>1, PutIndex, RxAssumption
    <3>5. \A k \in 1..Used : At(k)' = At(k)
      <4> SUFFICES ASSUME NEW k \in 1..Used PROVE At(k)' = At(k)
        OBVIOUS
      <4>1. Slot(k) # s_rx_head /\ Slot(k) \in Index /\ Slot(k)' = Slot(k)
        BY <3>2, <3>4, UsedFacts, RxAssumption
      <4> QED BY <3>1, <4>1 DEF At, TypeOK
    <3>6. \A k \in {Used + 1} : At(k)' = hw[1]
      <4> SUFFICES ASSUME NEW k, k = Used + 1 PROVE At(k)' = hw[1]
        OBVIOUS
      <4>1. Slot(k) = s_rx_head
        BY <3>2, UsedFacts
      <4>2. Slot(k)' = Slot(k)
        BY <3>4
      <4> QED BY <1>2, <3>1, <3>2, <4>1, <4>2 DEF At, TypeOK
    <3> QED BY <3>1, <3>2, <3>3, <3>4, <3>5, <3>6, SuccIndex DEF TypeOK
  <2> QED BY <2>1, <2>2
<1>5. TypeOK'
  <2>1. /\ sent' \in 0..SentLimit /\ lost' \in Nat
        /\ main' \in {"out", "test", "next", "flush"} /\ n' \in 0..ReadMax
        /\ saw' \in Index /\ got' \in Seq(1..SentLimit) /\ flushed' \in Nat
        /\ ringMark' \in 0..SentLimit
    BY <1>1, <1>4 DEF TypeOK, reader
  <2>2. /\ hw' \in Seq(1..SentLimit) /\ Len(hw') =< HwSize
    BY <1>1, <1>2, <1>4, RxAssumption DEF TypeOK
  <2>3. /\ s_rx_ring' \in [Index -> 0..SentLimit]
        /\ s_rx_head' \in Index /\ s_rx_tail' \in Index
    BY <1>1, <1>4 DEF TypeOK
  <2> QED BY <2>1, <2>2, <2>3 DEF TypeOK
<1>6. \A k \in 1..Used' :
        \/ k \in 1..Used /\ At(k)' = At(k)
        \/ k = Used + 1 /\ Used' = Used + 1 /\ At(k)' = hw[1]
  <2> SUFFICES ASSUME NEW k \in 1..Used'
               PROVE  \/ k \in 1..Used /\ At(k)' = At(k)
                      \/ k = Used + 1 /\ Used' = Used + 1 /\ At(k)' = hw[1]
    OBVIOUS
  <2>1. CASE k \in 1..Used
    BY <1>4, <2>1
  <2>2. CASE k \notin 1..Used
    <3>1. k = Used + 1 /\ Used' = Used + 1
      BY <1>4, <2>2
    <3> QED BY <1>4, <3>1
  <2> QED BY <2>1, <2>2
<1>7. RingOrdered'
  <2>1. \A k \in 1..Used' : At(k)' \in 1..sent'
    BY <1>1, <1>2, <1>4, <1>6 DEF RingOrdered, FifoOrdered
  <2>2. \A j, k \in 1..Used' : j < k => At(j)' < At(k)'
    BY <1>2, <1>4, <1>6 DEF RingOrdered, FifoOrdered
  <2> QED BY <2>1, <2>2 DEF RingOrdered
<1>8. FifoOrdered'
  <2>1. \A i \in 1..Len(hw') : hw'[i] \in 1..sent'
    BY <1>1, <1>2 DEF FifoOrdered
  <2>2. ASSUME NEW i \in 1..Len(hw'), NEW j \in 1..Len(hw'), i < j
        PROVE  hw'[i] < hw'[j]
    <3>1. /\ i + 1 \in 1..Len(hw) /\ hw'[i] = hw[i + 1]
          /\ j + 1 \in 1..Len(hw) /\ hw'[j] = hw[j + 1]
      BY <1>2
    <3> QED BY <2>2, <3>1 DEF FifoOrdered
  <2>3. ASSUME NEW k \in 1..Used', NEW i \in 1..Len(hw')
        PROVE  At(k)' < hw'[i]
    <3>1. i + 1 \in 1..Len(hw) /\ hw'[i] = hw[i + 1] /\ 1 \in 1..Len(hw)
      BY <1>2
    <3>2. 1 < i + 1
      BY <1>2
    <3>3. hw[1] < hw'[i]
      BY <3>1, <3>2 DEF FifoOrdered
    <3>4. k \in 1..Used => At(k) < hw'[i]
      BY <3>1 DEF FifoOrdered
    <3> QED BY <1>6, <3>3, <3>4
  <2> QED BY <2>1, <2>2, <2>3 DEF FifoOrdered
<1>9. ReadOrdered'
  <2>1. ASSUME NEW i \in 1..Len(hw') PROVE Last' < hw'[i]
    <3>1. i + 1 \in 1..Len(hw) /\ hw'[i] = hw[i + 1]
      BY <1>2
    <3> QED BY <1>3, <3>1 DEF ReadOrdered
  <2>2. main' # "next" => \A k \in 1..Used' : Last' < At(k)'
    BY <1>1, <1>2, <1>3, <1>4, <1>6 DEF ReadOrdered, reader
  <2>3. main' = "next" => Used' > 0 /\ got' # <<>> /\ Last' = At(1)'
    BY <1>1, <1>3, <1>4, <1>6 DEF ReadOrdered, reader
  <2> QED BY <1>1, <1>3, <2>1, <2>2, <2>3 DEF ReadOrdered
<1>10. FlushMarks'
  <2>1. \A i \in 1..Len(hw') : ringMark' < hw'[i]
    <3>1. \A i \in 1..Len(hw') : i + 1 \in 1..Len(hw)
      BY <1>2
    <3> QED BY <1>1, <1>2, <3>1 DEF FlushMarks
  <2>2. main' # "flush" => \A k \in 1..Used' : ringMark' < At(k)'
    BY <1>1, <1>2, <1>4, <1>6 DEF FlushMarks, reader
  <2>3. main' = "flush" =>
          /\ FlushedBytes' <= Used'
          /\ \A k \in 1..Used' : k > FlushedBytes' => ringMark' < At(k)'
    <3>1. main = "flush" => FlushedBytes <= Used
      BY DEF FlushMarks
    <3>2. FlushedBytes \in Int
      <4>1. saw \in Int /\ s_rx_tail \in Int
        BY RxAssumption DEF TypeOK, Index
      <4> QED BY <4>1, RxAssumption DEF FlushedBytes
    <3> QED BY <1>1, <1>2, <1>3, <1>4, <1>6, <3>1, <3>2 DEF FlushMarks, reader
  <2> QED BY <1>1, <2>1, <2>2, <2>3 DEF FlushMarks
<1> QED BY <1>3, <1>5, <1>7, <1>8, <1>9, <1>10 DEF IInv

\* net_read hands over the oldest byte of the ring ...
LEMMA TakeStep == IInv /\ TakeByte => IInv' /\ got'[Len(got')] > ringMark
<1> SUFFICES ASSUME IInv, TakeByte
             PROVE  IInv' /\ got'[Len(got')] > ringMark
  OBVIOUS
<1>0. IFacts
  BY Facts
<1> USE <1>0 DEF IFacts
<1>1. UNCHANGED <<sent, hw, ring, saw, lost, flushed, ringMark>>
  BY DEF TakeByte
<1>2. Used > 0 /\ At(1) = s_rx_ring[s_rx_tail]
  BY RxAssumption, UsedFacts DEF TakeByte, At, TypeOK
<1>3. At(1) \in 1..sent /\ Last < At(1) /\ ringMark < At(1)
  <2>1. main = "test" /\ 1 \in 1..Used
    BY <1>2 DEF TakeByte
  <2> QED BY <2>1 DEF RingOrdered, ReadOrdered, FlushMarks
<1>4. /\ Used' = Used /\ \A k \in 1..Used : At(k)' = At(k)
  BY <1>1 DEF ring, Used, At, Slot
<1>5. /\ got' \in Seq(1..SentLimit) /\ Len(got') = Len(got) + 1
      /\ \A i \in 1..Len(got) : got'[i] = got[i]
      /\ got'[Len(got')] = At(1)
  <2>1. At(1) \in 1..SentLimit
    BY <1>3, RxAssumption DEF TypeOK
  <2> QED BY <1>2, <2>1 DEF TakeByte, TypeOK
<1>6. Last' = At(1) /\ got' # <<>>
  <2>1. got' # <<>>
    BY <1>5
  <2> QED BY <1>5, <2>1 DEF Last
<1>7. TypeOK'
  <2>1. n' \in 0..ReadMax /\ main' = "next"
    BY RxAssumption DEF TakeByte, TypeOK
  <2> QED BY <1>1, <1>5, <2>1 DEF TypeOK, ring
<1>8. RingOrdered' /\ FifoOrdered'
  BY <1>1, <1>4 DEF RingOrdered, FifoOrdered
<1>9. ReadOrdered'
  <2>1. main' = "next"
    BY DEF TakeByte
  <2>2. \A i \in 1..Len(hw) : At(1) < hw[i]
    BY <1>2 DEF FifoOrdered
  <2>3. Last' = At(1)' /\ Last' \in 0..sent'
    BY <1>1, <1>2, <1>3, <1>4, <1>6
  <2> QED BY <1>1, <1>2, <1>4, <1>6, <2>1, <2>2, <2>3 DEF ReadOrdered
<1>10. FlushMarks'
  BY <1>1, <1>4 DEF TakeByte, FlushMarks
<1>11. InOrder'
  <2>1. got # <<>> => Last = got[Len(got)]
    BY DEF Last
  <2> SUFFICES ASSUME NEW i \in 1..Len(got') - 1 PROVE got'[i] < got'[i + 1]
    BY DEF InOrder
  <2>2. i \in 1..Len(got) /\ got'[i] = got[i]
    BY <1>5
  <2>3. CASE i = Len(got)
    <3>1. got # <<>>
      BY <2>2
    <3> QED BY <1>3, <1>5, <2>1, <2>2, <2>3, <3>1
  <2>4. CASE i # Len(got)
    <3>1. i \in 1..Len(got) - 1 /\ i + 1 \in 1..Len(got)
      BY <2>2, <2>4
    <3>2. got[i] < got[i + 1]
      BY <3>1 DEF InOrder
    <3> QED BY <1>5, <2>2, <3>1, <3>2
  <2> QED BY <2>3, <2>4
<1> QED BY <1>3, <1>5, <1>7, <1>8, <1>9, <1>10, <1>11 DEF IInv

\* ... and then frees its slot.
LEMMA FreeStep == IInv /\ FreeSlot => IInv'
<1> SUFFICES ASSUME IInv, FreeSlot PROVE IInv'
  OBVIOUS
<1>0. IFacts
  BY Facts
<1> USE <1>0 DEF IFacts
<1>1. UNCHANGED <<sent, hw, s_rx_ring, s_rx_head, n, saw, history>>
  BY DEF FreeSlot
<1>2. Used > 0 /\ Last = At(1) /\ main' = "test"
  BY DEF FreeSlot, ReadOrdered
<1>3. Used' = Used - 1 /\ \A k \in 1..Used - 1 : At(k)' = At(k + 1)
  BY <1>1, <1>2, GetIndex DEF FreeSlot, TypeOK, At
<1>4. Last' = Last /\ InOrder' /\ ringMark' = ringMark
  BY <1>1 DEF Last, InOrder, history
<1>5. TypeOK'
  BY <1>1, <1>2, SuccIndex DEF FreeSlot, TypeOK, history
<1>6. RingOrdered' /\ FifoOrdered'
  BY <1>1, <1>2, <1>3 DEF RingOrdered, FifoOrdered
<1>7. ReadOrdered'
  BY <1>1, <1>2, <1>3, <1>4 DEF ReadOrdered, RingOrdered
<1>8. FlushMarks'
  <2>1. main # "flush"
    BY DEF FreeSlot
  <2> QED BY <1>1, <1>2, <1>3, <1>4, <2>1 DEF FlushMarks
<1> QED BY <1>4, <1>5, <1>6, <1>7, <1>8 DEF IInv

\* net_rx_flush has read s_rx_head: all of the ring is on its way out.
LEMMA CallFlushStep == IInv /\ CallFlush => IInv'
<1> SUFFICES ASSUME IInv, CallFlush PROVE IInv'
  OBVIOUS
<1>0. IFacts
  BY Facts
<1> USE <1>0 DEF IFacts
<1>1. /\ UNCHANGED <<sent, hw, ring, n, got, lost, flushed>>
      /\ main = "out" /\ main' = "flush"
  BY DEF CallFlush
<1>2. Used' = Used /\ \A k \in 1..Used : At(k)' = At(k)
  BY <1>1 DEF ring, Used, At, Slot
<1>3. FlushedBytes' = Used
  BY <1>1 DEF CallFlush, FlushedBytes, Used, ring
<1>4. Last' = Last /\ InOrder'
  BY <1>1 DEF Last, InOrder
<1>5. /\ ringMark' \in 0..sent
      /\ \A i \in 1..Len(hw) : ringMark' < hw[i]
  <2>1. CASE hw = <<>>
    BY <2>1 DEF CallFlush, NewestInRing
  <2>2. CASE hw # <<>>
    <3>1. ringMark' = hw[1] - 1 /\ 1 \in 1..Len(hw)
      BY <2>2 DEF CallFlush, NewestInRing, TypeOK
    <3> QED BY <3>1 DEF FifoOrdered
  <2> QED BY <2>1, <2>2
<1>6. TypeOK'
  <2>1. ringMark' \in 0..SentLimit
    BY <1>5, RxAssumption DEF TypeOK
  <2> QED BY <1>1, <2>1 DEF CallFlush, TypeOK, ring
<1>7. RingOrdered' /\ FifoOrdered' /\ ReadOrdered'
  BY <1>1, <1>2, <1>4 DEF RingOrdered, FifoOrdered, ReadOrdered
<1>8. FlushMarks'
  BY <1>1, <1>2, <1>3, <1>5 DEF FlushMarks
<1> QED BY <1>4, <1>6, <1>7, <1>8 DEF IInv

LEMMA EndFlushStep == IInv /\ EndFlush => IInv'
<1> SUFFICES ASSUME IInv, EndFlush PROVE IInv'
  OBVIOUS
<1>0. IFacts
  BY Facts
<1> USE <1>0 DEF IFacts
<1>1. /\ UNCHANGED <<sent, hw, s_rx_ring, s_rx_head, n, saw, got, lost,
                     ringMark>>
      /\ main = "flush" /\ main' = "out" /\ s_rx_tail' = saw
  BY DEF EndFlush
<1>2. FlushedBytes <= Used /\ s_rx_head \in Index /\ s_rx_tail \in Index
      /\ saw \in Index
  BY <1>1 DEF FlushMarks, TypeOK
<1>3. /\ FlushedBytes \in Nat /\ Used' = Used - FlushedBytes
      /\ \A k \in 1..Used' : Slot(k)' = Slot(k + FlushedBytes)
  BY <1>1, <1>2, FlushIndex
<1>4. \A k \in 1..Used' : At(k)' = At(k + FlushedBytes)
  BY <1>1, <1>3 DEF At
<1>5. Last' = Last /\ InOrder'
  BY <1>1 DEF Last, InOrder
<1>6. TypeOK'
  BY <1>1, <1>2, <1>3 DEF EndFlush, TypeOK
<1>7. \A k \in 1..Used' : k + FlushedBytes \in 1..Used
  BY <1>2, <1>3
<1>8. RingOrdered' /\ FifoOrdered'
  <2>1. \A k \in 1..Used' : At(k)' \in 1..sent'
    BY <1>1, <1>4, <1>7 DEF RingOrdered
  <2>2. ASSUME NEW j \in 1..Used', NEW k \in 1..Used', j < k
        PROVE  At(j)' < At(k)'
    <3>1. /\ j + FlushedBytes \in 1..Used /\ At(j)' = At(j + FlushedBytes)
          /\ k + FlushedBytes \in 1..Used /\ At(k)' = At(k + FlushedBytes)
          /\ j + FlushedBytes < k + FlushedBytes
      BY <1>3, <1>4, <1>7, <2>2
    <3> QED BY <3>1 DEF RingOrdered
  <2>3. ASSUME NEW k \in 1..Used', NEW i \in 1..Len(hw') PROVE At(k)' < hw'[i]
    BY <1>1, <1>4, <1>7 DEF FifoOrdered
  <2> QED BY <1>1, <2>1, <2>2, <2>3 DEF RingOrdered, FifoOrdered
<1>9. ReadOrdered'
  BY <1>1, <1>2, <1>3, <1>4, <1>5, <1>7 DEF ReadOrdered
<1>10. FlushMarks'
  BY <1>1, <1>2, <1>3, <1>4, <1>7 DEF FlushMarks
<1> QED BY <1>5, <1>6, <1>8, <1>9, <1>10 DEF IInv

LEMMA QuietStep ==
  IInv /\ (CallRead \/ EndRead \/ UNCHANGED vars) => IInv'
<1> SUFFICES ASSUME IInv, CallRead \/ EndRead \/ UNCHANGED vars PROVE IInv'
  OBVIOUS
<1>0. IFacts
  BY Facts
<1> USE <1>0 DEF IFacts
<1>1. /\ UNCHANGED <<sent, hw, ring, saw, history>>
      /\ n' \in 0..ReadMax
      /\ \/ main' = main
         \/ main \in {"out", "test"} /\ main' \in {"out", "test"}
  BY RxAssumption DEF CallRead, EndRead, vars, reader, TypeOK
<1>2. /\ Used' = Used /\ \A k \in 1..Used : At(k)' = At(k)
      /\ FlushedBytes' = FlushedBytes /\ Last' = Last /\ InOrder'
  BY <1>1 DEF ring, history, Used, At, Slot, FlushedBytes, Last, InOrder
<1>3. TypeOK'
  BY <1>1 DEF TypeOK, ring, history
<1>4. RingOrdered' /\ FifoOrdered'
  BY <1>1, <1>2 DEF RingOrdered, FifoOrdered
<1>5. ReadOrdered'
  BY <1>1, <1>2 DEF ReadOrdered, history
<1>6. FlushMarks'
  BY <1>1, <1>2 DEF FlushMarks, history
<1> QED BY <1>2, <1>3, <1>4, <1>5, <1>6 DEF IInv

LEMMA Invariant == Spec => []IInv
<1>1. IInv /\ [Next]_vars => IInv'
  BY ArriveStep, IrqStep, TakeStep, FreeStep, CallFlushStep, EndFlushStep,
     QuietStep DEF Next
<1> QED BY <1>1, InitInvariant, PTL DEF Spec

\* The ring's indices stay in range and what it holds are bytes of the wire.
THEOREM TypeCorrect == Spec => []TypeOK
<1>1. IInv => TypeOK
  BY DEF IInv
<1> QED BY <1>1, Invariant, PTL

\* The main loop gets the bytes in the order they were sent, none twice.
THEOREM DeliveredInOrder == Spec => []InOrder
<1>1. IInv => InOrder
  BY DEF IInv
<1> QED BY <1>1, Invariant, PTL

\* Nothing the ring held when net_rx_flush was called is delivered afterwards.
THEOREM FlushedForGood == Spec => FlushEmptiesRing
<1>1. IInv /\ [Next]_vars
        => [Len(got') > Len(got) => got'[Len(got')] > ringMark]_vars
  <2> SUFFICES ASSUME IInv, Next, Len(got') > Len(got)
               PROVE  got'[Len(got')] > ringMark
    OBVIOUS
  <2>1. TakeByte
    <3>1. Len(got) \in Nat
      BY DEF IInv, TypeOK
    <3> QED BY <3>1 DEF Next, Arrive, Irq, CallRead, FreeSlot, EndRead,
                        CallFlush, EndFlush, history
  <2> QED BY <2>1, TakeStep
<1> QED BY <1>1, Invariant, PTL DEF Spec, FlushEmptiesRing

\* A byte that is not delivered is waiting, was flushed, or was counted lost.
THEOREM AllAccounted == Spec => []Accounted
<1>1. Init => Accounted
  BY RxAssumption DEF Init, Accounted, Used
<1>2. IInv /\ Accounted /\ [Next]_vars => Accounted'
  <2> SUFFICES ASSUME IInv, Accounted, [Next]_vars PROVE Accounted'
    OBVIOUS
  <2>1. /\ s_rx_head \in Index /\ s_rx_tail \in Index /\ saw \in Index
        /\ hw \in Seq(1..SentLimit) /\ got \in Seq(1..SentLimit)
        /\ lost \in Nat /\ flushed \in Nat /\ sent \in Nat
        /\ Used \in Nat /\ Len(hw) \in Nat /\ Len(got) \in Nat
        /\ main = "next" => Used > 0
        /\ main = "flush" => FlushedBytes <= Used
    BY Facts DEF IFacts, TypeOK, ReadOrdered, FlushMarks
  <2>2. UNCHANGED ring => Used' = Used
    BY DEF ring, Used
  <2>3. CASE Arrive
    <3>1. Used' = Used /\ UNCHANGED <<main, got, flushed>>
      BY <2>2, <2>3 DEF Arrive, reader
    <3>2. CASE hw' = Append(hw, sent + 1) /\ UNCHANGED lost
      <4>1. Len(hw') = Len(hw) + 1
        BY <2>1, <3>2
      <4> QED BY <2>1, <2>3, <3>1, <3>2, <4>1 DEF Arrive, Accounted
    <3>3. CASE lost' = lost + 1 /\ UNCHANGED hw
      BY <2>1, <2>3, <3>1, <3>3 DEF Arrive, Accounted
    <3> QED BY <2>3, <3>2, <3>3 DEF Arrive
  <2>4. CASE Irq
    <3>1. UNCHANGED <<sent, main, got, flushed>> /\ Len(hw') = Len(hw) - 1
      BY <2>1, <2>4, TailFacts DEF Irq, reader
    <3>2. CASE lost' = lost + 1 /\ UNCHANGED ring
      BY <2>1, <2>2, <3>1, <3>2 DEF Accounted
    <3>3. CASE ~RingFull
      <4>1. Used' = Used + 1 /\ UNCHANGED lost
        BY <2>1, <2>4, <3>3, PutIndex DEF Irq
      <4> QED BY <2>1, <3>1, <4>1 DEF Accounted
    <3> QED BY <2>4, <3>2, <3>3 DEF Irq
  <2>5. CASE TakeByte
    <3>1. /\ UNCHANGED <<sent, hw, lost, flushed>> /\ Used' = Used
          /\ main = "test" /\ main' = "next" /\ Len(got') = Len(got) + 1
      BY <2>1, <2>2, <2>5 DEF TakeByte
    <3> QED BY <2>1, <3>1 DEF Accounted
  <2>6. CASE FreeSlot
    <3>1. /\ UNCHANGED <<sent, hw, lost, flushed, got>> /\ Used' = Used - 1
          /\ main = "next" /\ main' = "test"
      BY <2>1, <2>6, GetIndex DEF FreeSlot, history
    <3> QED BY <2>1, <3>1 DEF Accounted
  <2>7. CASE EndFlush
    <3>1. /\ UNCHANGED <<sent, hw, lost, got>> /\ Used' = Used - FlushedBytes
          /\ FlushedBytes \in Nat /\ flushed' = flushed + FlushedBytes
          /\ main = "flush" /\ main' = "out"
      BY <2>1, <2>7, FlushIndex DEF EndFlush
    <3> QED BY <2>1, <3>1 DEF Accounted
  <2>8. CASE CallRead \/ EndRead \/ CallFlush \/ UNCHANGED vars
    <3>1. /\ UNCHANGED <<sent, hw, lost, got, flushed>> /\ Used' = Used
          /\ main' = "next" <=> main = "next"
      BY <2>2, <2>8
      DEF CallRead, EndRead, CallFlush, vars, reader, history
    <3> QED BY <2>1, <3>1 DEF Accounted
  <2> QED BY <2>3, <2>4, <2>5, <2>6, <2>7, <2>8 DEF Next
<1> QED BY <1>1, <1>2, Invariant, PTL DEF Spec

-----------------------------------------------------------------------------
(* The ring as a queue *)

\* What the consumer has got once its slot is free.
Out == IF main = "next" THEN SubSeq(got, 1, Len(got) - 1) ELSE got

\* The ring's contents are a sequence, the k-th byte of it at At(k).
Queued ==
    /\ Contents \in Seq(1..SentLimit) /\ Len(Contents) = Used
    /\ \A k \in 1..Used : Contents[k] = At(k)
    /\ Used \in 0..RingSize - 1
    /\ got \in Seq(1..SentLimit)

LEMMA TableIsSequence ==
  ASSUME NEW S, NEW m \in Nat, NEW f \in [1..m -> S]
  PROVE  f \in Seq(S) /\ Len(f) = m
  OBVIOUS

LEMMA ContentsQueued == IInv => Queued
<1> SUFFICES ASSUME IInv PROVE Queued
  OBVIOUS
<1>1. IFacts
  BY Facts
<1>2. Used \in 0..RingSize - 1 /\ Used \in Nat /\ sent \in 0..SentLimit
      /\ SentLimit \in Nat
  BY <1>1, RxAssumption DEF IFacts, TypeOK
<1>3. \A k \in 1..Used : At(k) \in 1..SentLimit
  BY <1>1, <1>2 DEF IFacts, RingOrdered
<1>4. Contents \in [1..Used -> 1..SentLimit]
  BY <1>3 DEF Contents, At
<1>5. Contents \in Seq(1..SentLimit) /\ Len(Contents) = Used
  BY <1>2, <1>4, TableIsSequence
<1>6. \A k \in 1..Used : Contents[k] = At(k)
  BY DEF Contents, At
<1> QED BY <1>1, <1>2, <1>5, <1>6 DEF Queued, IFacts, TypeOK

LEMMA SameContents ==
  ASSUME Queued, Queued', Used' = Used, \A k \in 1..Used : At(k)' = At(k)
  PROVE  Contents' = Contents
<1>1. \A k \in 1..Used : Contents'[k] = Contents[k]
  BY DEF Queued
<1> QED BY <1>1, SeqEqual DEF Queued

LEMMA AtKept ==
  ASSUME UNCHANGED ring
  PROVE  Used' = Used /\ \A k \in 1..Used : At(k)' = At(k)
  BY DEF ring, Used, At, Slot

\* The interrupt puts a byte into the queue.
LEMMA IrqPuts ==
  ASSUME IInv, Queued, Queued', Irq
  PROVE  (Contents' = Contents \/ \E b \in 1..SentLimit : Fifo!Put(b)) /\ Out' = Out
<1>1. IFacts /\ TypeOK
  BY Facts DEF IInv
<1>2. Out' = Out
  BY DEF Irq, reader, Out
<1>3. CASE RingFull
  BY <1>2, <1>3, AtKept, SameContents DEF Irq
<1>4. CASE ~RingFull
  <2>1. /\ s_rx_ring' = [s_rx_ring EXCEPT ![s_rx_head] = Head(hw)]
        /\ s_rx_head' = Succ(s_rx_head) /\ s_rx_tail' = s_rx_tail
        /\ s_rx_head \in Index /\ s_rx_tail \in Index
    BY <1>1, <1>4 DEF Irq, TypeOK
  <2>2. Head(hw) \in 1..SentLimit
    BY <1>1, TailFacts DEF Irq, TypeOK
  <2>3. /\ Used' = Used + 1 /\ \A k \in 1..RingSize : Slot(k)' = Slot(k)
    BY <1>4, <2>1, PutIndex
  <2>4. /\ Used \in Nat /\ RingSize \in Nat /\ Used < RingSize - 1
        /\ Slot(Used + 1) = s_rx_head
        /\ \A k \in 1..Used : k \in 1..RingSize /\ Slot(k) # s_rx_head
                               /\ Slot(k) \in Index
    <3>1. /\ Used \in 0..RingSize - 1 /\ Used # RingSize - 1
          /\ Slot(Used + 1) = s_rx_head
          /\ \A k \in 1..RingSize : Slot(k) \in Index
          /\ \A k \in 1..Used : Slot(k) # s_rx_head
      BY <1>4, <2>1, UsedFacts
    <3>2. \A k \in 1..Used : k \in 1..RingSize
      BY <3>1, RxAssumption
    <3> QED BY <3>1, <3>2, RxAssumption
  <2>5. PICK u \in 1..RingSize : u = Used + 1
    BY <2>4
  <2>6. At(u)' = Head(hw) /\ \A k \in 1..Used : At(k)' = At(k)
    <3>1. s_rx_ring \in [Index -> 0..SentLimit]
      BY <1>1 DEF TypeOK
    <3>2. At(u)' = s_rx_ring'[s_rx_head]
      BY <2>3, <2>4, <2>5 DEF At
    <3>3. \A k \in 1..Used : At(k)' = s_rx_ring'[Slot(k)]
      BY <2>3, <2>4 DEF At
    <3> QED BY <2>1, <2>4, <3>1, <3>2, <3>3 DEF At
  <2>7. PICK b : b = Head(hw)
    OBVIOUS
  <2>8. /\ Append(Contents, b) \in Seq(1..SentLimit)
        /\ Len(Append(Contents, b)) = Used + 1
        /\ \A k \in 1..Used : Append(Contents, b)[k] = Contents[k]
        /\ Append(Contents, b)[Used + 1] = b
    BY <2>2, <2>7, AppendFacts DEF Queued
  <2>9. \A k \in 1..Used + 1 : Contents'[k] = Append(Contents, b)[k]
    <3> SUFFICES ASSUME NEW k \in 1..Used + 1
                 PROVE  Contents'[k] = Append(Contents, b)[k]
      OBVIOUS
    <3>1. k \in 1..Used \/ k = u
      BY <2>4, <2>5
    <3>2. Contents'[k] = At(k)'
      BY <2>3 DEF Queued
    <3> QED BY <2>5, <2>6, <2>7, <2>8, <3>1, <3>2 DEF Queued
  <2>10. Contents' = Append(Contents, b)
    BY <2>3, <2>8, <2>9, SeqEqual DEF Queued
  <2>11. Fifo!Put(b)
    BY <1>2, <2>4, <2>10 DEF Fifo!Put, Queued, Out
  <2> QED BY <1>2, <2>2, <2>7, <2>11
<1> QED BY <1>2, <1>3, <1>4

\* Between the two statements of net_read nothing has happened to the queue ...
LEMMA TakeStutters ==
  ASSUME IInv, Queued, Queued', TakeByte
  PROVE  Contents' = Contents /\ Out' = Out
<1>1. UNCHANGED ring /\ main = "test" /\ main' = "next"
  BY DEF TakeByte
<1>2. Contents' = Contents
  BY <1>1, AtKept, SameContents
<1>3. PICK e : e = s_rx_ring[s_rx_tail]
  OBVIOUS
<1>4. got' = Append(got, e) /\ got' \in Seq(1..SentLimit)
  BY <1>3 DEF TakeByte, Queued
<1>5. Out' = SubSeq(got', 1, Len(got') - 1) /\ Out = got
  BY <1>1 DEF Out
<1>6. SubSeq(Append(got, e), 1, Len(Append(got, e)) - 1) = got
  BY DEF Queued
<1> QED BY <1>2, <1>4, <1>5, <1>6

\* ... its slot freed, the oldest byte has left it.
LEMMA FreeGets ==
  ASSUME IInv, Queued, Queued', FreeSlot
  PROVE  Fifo!Get
<1>1. /\ main = "next" /\ main' = "test" /\ got' = got
      /\ s_rx_tail' = Succ(s_rx_tail) /\ UNCHANGED <<s_rx_ring, s_rx_head>>
  BY DEF FreeSlot, history
<1>2. Used > 0 /\ got # <<>> /\ Last = At(1) /\ Used \in Nat
      /\ s_rx_head \in Index /\ s_rx_tail \in Index
  BY <1>1, Facts DEF IFacts, ReadOrdered, IInv, TypeOK
<1>3. Used' = Used - 1 /\ \A k \in 1..Used - 1 : At(k)' = At(k + 1)
  BY <1>1, <1>2, GetIndex DEF At
<1>4. Contents # <<>>
  BY <1>2 DEF Queued
<1>5. /\ Tail(Contents) \in Seq(1..SentLimit) /\ Len(Tail(Contents)) = Used - 1
      /\ \A k \in 1..Used - 1 : Tail(Contents)[k] = Contents[k + 1]
      /\ Head(Contents) = Contents[1]
  BY <1>4, TailFacts DEF Queued
<1>6. ASSUME NEW k \in 1..Used - 1 PROVE Contents'[k] = Tail(Contents)[k]
  <2>1. k + 1 \in 1..Used /\ k \in 1..Used'
    BY <1>2, <1>3
  <2> QED BY <1>3, <1>5, <2>1 DEF Queued
<1>7. Contents' = Tail(Contents)
  BY <1>3, <1>5, <1>6, SeqEqual DEF Queued
<1>8. Head(Contents) = got[Len(got)]
  <2>1. 1 \in 1..Used
    BY <1>2
  <2> QED BY <1>2, <1>5, <2>1 DEF Queued, Last
<1>9. got = Append(SubSeq(got, 1, Len(got) - 1), got[Len(got)])
  BY <1>2 DEF Queued
<1>10. got' = Append(SubSeq(got, 1, Len(got) - 1), Head(Contents))
  BY <1>1, <1>8, <1>9, Zenon
<1> QED BY <1>1, <1>4, <1>7, <1>10 DEF Fifo!Get

\* net_rx_flush discards the bytes up to the head it saw.
LEMMA FlushDrops ==
  ASSUME IInv, Queued, Queued', EndFlush
  PROVE  (Contents' = Contents \/ \E k \in 1..Len(Contents) : Fifo!Drop(k)) /\ Out' = Out
<1>1. /\ main = "flush" /\ main' = "out" /\ got' = got /\ s_rx_tail' = saw
      /\ UNCHANGED <<s_rx_ring, s_rx_head>>
  BY DEF EndFlush
<1>2. Out' = Out
  BY <1>1 DEF Out
<1>3. FlushedBytes <= Used /\ s_rx_head \in Index /\ s_rx_tail \in Index
      /\ saw \in Index
  BY <1>1 DEF IInv, FlushMarks, TypeOK
<1>4. PICK f \in Nat : f = FlushedBytes
  BY <1>1, <1>3, FlushIndex
<1>5. /\ f <= Used /\ Used' = Used - f /\ Used \in Nat
      /\ \A k \in 1..Used - f : Slot(k)' = Slot(k + f)
  BY <1>1, <1>3, <1>4, FlushIndex DEF Queued
<1>6. \A k \in 1..Used - f : At(k)' = At(k + f)
  BY <1>1, <1>5 DEF At
<1>7. CASE f = 0
  <2>1. Used' = Used /\ \A k \in 1..Used : At(k)' = At(k)
    <3>1. \A k \in 1..Used : k + f = k /\ k \in 1..Used - f
      BY <1>5, <1>7
    <3> QED BY <1>5, <1>6, <1>7, <3>1
  <2> QED BY <1>2, <2>1, SameContents
<1>8. CASE f # 0
  <2>1. f \in 1..Len(Contents)
    BY <1>5, <1>8 DEF Queued
  <2>2. /\ SubSeq(Contents, f + 1, Used) \in Seq(1..SentLimit)
        /\ Len(SubSeq(Contents, f + 1, Used)) = Used - f
        /\ \A k \in 1..Used - f : SubSeq(Contents, f + 1, Used)[k] = Contents[k + f]
    <3>1. \A i \in f + 1..Used : Contents[i] \in 1..SentLimit
      <4>1. \A i \in f + 1..Used : i \in 1..Used
        BY <1>5
      <4>2. \A i \in 1..Len(Contents) : Contents[i] \in 1..SentLimit
        BY ElementOfSeq DEF Queued
      <4> QED BY <4>1, <4>2 DEF Queued
    <3>2. Used - (f + 1) + 1 = Used - f /\ f + 1 \in Int /\ Used \in Int
          /\ (IF f + 1 <= Used THEN Used - (f + 1) + 1 ELSE 0) = Used - f
      BY <1>5
    <3>3. \A k \in 1..Used - f : f + 1 + k - 1 = k + f
      BY <1>5
    <3> QED BY <3>1, <3>2, <3>3, SubSeqProperties
  <2>3. ASSUME NEW k \in 1..Used - f
        PROVE  Contents'[k] = SubSeq(Contents, f + 1, Used)[k]
    <3>1. k + f \in 1..Used /\ k \in 1..Used'
      BY <1>5
    <3> QED BY <1>6, <2>2, <3>1 DEF Queued
  <2>4. Contents' = SubSeq(Contents, f + 1, Len(Contents))
    BY <1>5, <2>2, <2>3, SeqEqual DEF Queued
  <2>5. Fifo!Drop(f)
    BY <1>2, <2>4 DEF Fifo!Drop, Out
  <2> QED BY <1>2, <2>1, <2>5
<1> QED BY <1>7, <1>8

\* The ring, with its indices shared between interrupt and main loop, is a bounded
\* FIFO: every step of either is a Put, a Get or a Drop, or changes nothing.
THEOREM RefinesFifo == Spec => ImplementsFifo
<1>1. Init => Fifo!Init
  <2> SUFFICES ASSUME Init PROVE Contents = <<>> /\ Out = <<>>
    BY DEF Fifo!Init, Out
  <2>1. Used = 0
    BY RxAssumption DEF Init, Used
  <2>2. Contents = <<>>
    BY <2>1 DEF Contents
  <2> QED BY <2>2 DEF Init, Out
<1>2. IInv /\ Queued /\ Queued' /\ [Next]_vars => [Fifo!Next]_<<Contents, Out>>
  <2> SUFFICES ASSUME IInv, Queued, Queued', [Next]_vars
               PROVE  Fifo!Next \/ (Contents' = Contents /\ Out' = Out)
    OBVIOUS
  <2>1. CASE UNCHANGED ring /\ Out' = Out
    BY <2>1, AtKept, SameContents
  <2>2. CASE Irq
    BY <2>2, IrqPuts DEF Fifo!Next
  <2>3. CASE TakeByte
    BY <2>3, TakeStutters
  <2>4. CASE FreeSlot
    BY <2>4, FreeGets DEF Fifo!Next
  <2>5. CASE EndFlush
    BY <2>5, FlushDrops DEF Fifo!Next
  <2>6. CASE Arrive \/ CallRead \/ EndRead \/ CallFlush \/ UNCHANGED vars
    BY <2>1, <2>6 DEF Arrive, CallRead, EndRead, CallFlush, vars, history, reader, Out
  <2> QED BY <2>2, <2>3, <2>4, <2>5, <2>6 DEF Next
<1>3. [Fifo!Next]_<<Contents, Out>> =>
        [Fifo!Next]_<<Contents, IF main = "next" THEN SubSeq(got, 1, Len(got) - 1)
                                                 ELSE got>>
  BY DEF Out
<1> QED BY <1>1, <1>2, <1>3, Invariant, ContentsQueued, PTL
        DEF Spec, ImplementsFifo, Fifo!Spec
=============================================================================
