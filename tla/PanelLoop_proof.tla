-------------------------- MODULE PanelLoop_proof --------------------------
(***************************************************************************)
(* For every number of buttons and rings, every set of lines, every size   *)
(* of the buffers and whether or not the TCPS pin works: the line buffer   *)
(* never overflows, a refused command changes nothing out of range, the    *)
(* host's idea of the buttons is the panel's, the LEDs show the commanded  *)
(* colours as soon as no refresh is pending, and a host whose connect edge *)
(* was seen, with nothing of an earlier connection still to arrive, gets   *)
(* exactly the answers to its lines, in their order.                       *)
(***************************************************************************)
EXTENDS PanelLoop, SequenceTheorems, TLAPS

\* What is on its way from the host to a line is a sequence of pieces.
Streams ==
    /\ air \in Seq(Piece) /\ rx \in Seq(Piece) /\ todo \in Seq(Piece)
    /\ rxbuf \in Seq(Piece) /\ linebuf \in Seq(Piece)

LEMMA PieceFacts == Newline \in Piece /\ Verb("hello") \in Piece
  BY DEF Piece

LEMMA StreamFacts ==
  /\ <<>> \in Seq(Piece)
  /\ \A s \in Seq(Piece) : s # <<>> => Head(s) \in Piece /\ Tail(s) \in Seq(Piece)
  /\ \A s \in Seq(Piece), p \in Piece :
        Append(s, p) \in Seq(Piece) /\ Len(Append(s, p)) = Len(s) + 1
  OBVIOUS

LEMMA BufferTaken ==
  ASSUME NEW s \in Seq(Piece), NEW n \in 0..Len(s)
  PROVE  /\ SubSeq(s, 1, n) \in Seq(Piece) /\ Len(SubSeq(s, 1, n)) = n
         /\ SubSeq(s, n + 1, Len(s)) \in Seq(Piece)
  OBVIOUS

-----------------------------------------------------------------------------
(* What a turn of the loop over rxbuf leaves alone *)

LEMMA DispatchLeaves ==
  ASSUME NEW line, Dispatch(line)
  PROVE  UNCHANGED leds
  BY DEF Dispatch, DispatchRing, DispatchLamp, DispatchConfig, DispatchHello,
         DispatchOta, DispatchPing, Refuse, ringvars

LEMMA TakeCases ==
  ASSUME Take
  PROVE  \/ Dispatch(linebuf) /\ linebuf' = <<>> /\ discard' = FALSE
         \/ Quiet /\ linebuf' = <<>> /\ discard' = FALSE
         \/ Quiet /\ UNCHANGED <<linebuf, discard>>
         \/ Keep
         \/ Overflow
  BY DEF Take, EndOfLine, Skip

-----------------------------------------------------------------------------
(* Types *)

LEMMA StreamsInit == Init => Streams
  BY DEF Init, Streams

LEMMA StreamsStep == Streams /\ [Next]_vars => Streams'
<1> SUFFICES ASSUME Streams, [Next]_vars PROVE Streams'
  OBVIOUS
<1> USE StreamFacts DEF Streams
<1>1. CASE Poll
  <2>1. rx' \in {rx, <<>>} /\ linebuf' \in {linebuf, <<>>}
    BY <1>1 DEF Poll, Flush, DropHalfLine
  <2>2. UNCHANGED <<rxbuf, air, todo>>
    BY <1>1 DEF Poll
  <2> QED BY <2>1, <2>2
<1>2. CASE Buttons
  BY <1>2 DEF Buttons, loopvars, streamvars, hostvars
<1>3. CASE Read
  <2> DEFINE n == IF Len(rx) < RxMax THEN Len(rx) ELSE RxMax
  <2>1. n \in 0..Len(rx)
    BY PanelAssumption DEF PanelAssumption
  <2>2. rxbuf' = SubSeq(rx, 1, n) /\ rx' = SubSeq(rx, n + 1, Len(rx))
    BY <1>3 DEF Read
  <2>3. UNCHANGED <<air, todo, linebuf>>
    BY <1>3 DEF Read, hostvars
  <2> QED BY <2>1, <2>2, <2>3, BufferTaken
<1>4. CASE Take
  <2>1. rxbuf # <<>> /\ rxbuf' = Tail(rxbuf) /\ UNCHANGED <<air, rx, todo>>
    BY <1>4 DEF Take, streamvars
  <2>2. linebuf' \in {<<>>, linebuf, Append(linebuf, Head(rxbuf))}
    BY <1>4, TakeCases DEF Keep, Overflow
  <2> QED BY <2>1, <2>2
<1>5. CASE Refresh
  BY <1>5 DEF Refresh, loopvars, streamvars, hostvars
<1>6. CASE Connect \/ Disconnect
  BY <1>6 DEF Connect, Disconnect, loopvars, streamvars
<1>7. CASE Ask
  <2>1. <<Verb("hello"), Newline>> \in Seq(Piece)
    BY PieceFacts
  <2> QED BY <1>7, <2>1 DEF Ask, loopvars, streamvars
<1>8. CASE SendPiece
  BY <1>8 DEF SendPiece, loopvars
<1>9. ASSUME NEW l \in Lines, BeginLine(l) PROVE Streams'
  <2>1. l \in Seq(Piece)
    BY PanelAssumption DEF PanelAssumption
  <2> QED BY <1>9, <2>1, PieceFacts DEF BeginLine, loopvars, streamvars
<1>10. CASE Restart
  BY <1>10 DEF Restart
<1>11. CASE UNCHANGED vars
  BY <1>11 DEF vars, loopvars, streamvars, hostvars
<1>12. CASE Arrive
  BY <1>12 DEF Arrive, loopvars, hostvars
<1> QED BY <1>1, <1>2, <1>3, <1>4, <1>5, <1>6, <1>7, <1>8, <1>9, <1>10, <1>11,
           <1>12
        DEF Next, Pass, Host

\* A colour command that passes rings_set's check leaves every field a byte.
LEMMA NextRingIsAState ==
  ASSUME TypeOK, NEW line, RingCmdOk(line)
  PROVE  NextRing(line) \in [Field -> 0..255]
<1>1. Get(line, "id") \in Ring
  BY DEF RingCmdOk
<1>2. st[Get(line, "id")] \in [Field -> 0..255]
  BY <1>1 DEF TypeOK
<1>3. ASSUME NEW f \in Field PROVE NextRing(line)[f] \in 0..255
  <2>1. Get(line, f) \in -1..255
    BY DEF RingCmdOk
  <2> QED BY <1>2, <1>3, <2>1 DEF NextRing
<1> QED BY <1>3 DEF NextRing

LEMMA DispatchTypes ==
  ASSUME TypeOK, NEW line, Dispatch(line)
  PROVE  /\ pc' \in {pc, "rebooting"}
         /\ st' \in [Ring -> [Field -> 0..255]] /\ dirty' \in [Ring -> BOOLEAN]
         /\ lamp' \in {0, 1} /\ debounce_ms' \in 1..1000
         /\ host' \in {host, "ready"} /\ view' \in {view, stable}
         /\ mixed' \in BOOLEAN
<1>1. mixed' \in BOOLEAN
  BY DEF TypeOK, Dispatch, DispatchRing, DispatchLamp, DispatchConfig,
         DispatchHello, DispatchOta, DispatchPing, Refuse, Reply
<1>2. CASE DispatchRing(line)
  <2>1. NextRing(line) \in [Field -> 0..255] /\ Get(line, "id") \in Ring
    BY <1>2, NextRingIsAState DEF DispatchRing, RingCmdOk
  <2>2. UNCHANGED <<pc, lamp, debounce_ms, host, view>>
    BY <1>2 DEF DispatchRing, settings
  <2>3. st' \in [Ring -> [Field -> 0..255]]
    BY <1>2, <2>1 DEF DispatchRing, TypeOK
  <2>4. dirty' \in [Ring -> BOOLEAN]
    BY <1>2, <2>1 DEF DispatchRing, TypeOK
  <2> QED BY <1>1, <2>2, <2>3, <2>4 DEF TypeOK
<1>3. CASE DispatchLamp(line)
  BY <1>1, <1>3 DEF DispatchLamp, Answer, TypeOK, ringvars
<1>4. CASE DispatchConfig(line)
  BY <1>1, <1>4 DEF DispatchConfig, Answer, TypeOK, ringvars
<1>5. CASE DispatchHello(line)
  BY <1>1, <1>5 DEF DispatchHello, Greet, TypeOK, ringvars, settings
<1>6. CASE DispatchOta(line)
  BY <1>1, <1>6 DEF DispatchOta, TypeOK, ringvars, settings
<1>7. CASE DispatchPing(line)
  BY <1>1, <1>7 DEF DispatchPing, TypeOK, ringvars, settings
<1>8. CASE Refuse(line)
  BY <1>1, <1>8 DEF Refuse, TypeOK, ringvars, settings
<1> QED BY <1>2, <1>3, <1>4, <1>5, <1>6, <1>7, <1>8 DEF Dispatch

\* TypeOK in three parts, which few actions disturb together.
PanelTypes ==
    /\ pc \in {"top", "buttons", "read", "line", "rebooting"}
    /\ peer_was_connected \in BOOLEAN /\ discard \in BOOLEAN
    /\ Len(linebuf) <= LineMax /\ Len(rxbuf) <= RxMax
    /\ lamp \in {0, 1} /\ debounce_ms \in 1..1000
RingTypes ==
    /\ st \in [Ring -> [Field -> 0..255]]
    /\ dirty \in [Ring -> BOOLEAN]
    /\ leds \in [Ring -> [Field -> 0..255] \cup {Unknown}]
HostTypes ==
    /\ stable \in [Button -> BOOLEAN]
    /\ view \in [Button -> BOOLEAN] \cup {Unknown}
    /\ host \in {"down", "fresh", "asked", "ready"}
    /\ conns \in 0..MaxConns /\ lines \in 0..MaxLines
    /\ polled \in BOOLEAN /\ clean \in BOOLEAN /\ mixed \in BOOLEAN

LEMMA TypeParts == TypeOK <=> PanelTypes /\ RingTypes /\ HostTypes
  BY Zenon DEF TypeOK, PanelTypes, RingTypes, HostTypes

LEMMA TypePartsNext == PanelTypes' /\ RingTypes' /\ HostTypes' => TypeOK'
  BY Zenon DEF TypeOK, PanelTypes, RingTypes, HostTypes

LEMMA PanelTypesKept ==
  PanelTypes /\ UNCHANGED <<pc, loopvars, settings>> => PanelTypes'
  BY DEF PanelTypes, loopvars, settings

LEMMA RingTypesKept == RingTypes /\ UNCHANGED ringvars => RingTypes'
  BY DEF RingTypes, ringvars

LEMMA HostTypesKept ==
  HostTypes /\ UNCHANGED <<stable, view, host, conns, lines, polled, clean, mixed>>
    => HostTypes'
  BY DEF HostTypes

LEMMA StartTypes ==
  /\ Off \in [Field -> 0..255]
  /\ AllOff \in [Ring -> [Field -> 0..255]]
  /\ NotRendered \in [Ring -> BOOLEAN]
  /\ FirstFrames \in [Ring -> [Field -> 0..255] \cup {Unknown}]
<1>1. Off \in [Field -> 0..255]
  BY DEF Off
<1> QED BY <1>1 DEF AllOff, NotRendered, FirstFrames

LEMMA EmptyFits == Len(<<>>) <= LineMax /\ Len(<<>>) <= RxMax
  BY PanelAssumption DEF PanelAssumption

LEMMA ZeroCounts == 0 \in 0..MaxConns /\ 0 \in 0..MaxLines
  BY PanelAssumption DEF PanelAssumption

LEMMA InitTypes == Init => TypeOK
<1> SUFFICES ASSUME Init PROVE TypeOK
  OBVIOUS
<1>1. PanelTypes
  <2>1. /\ pc = "top" /\ peer_was_connected = FALSE /\ discard = FALSE
        /\ linebuf = <<>> /\ rxbuf = <<>> /\ lamp = 0 /\ debounce_ms = 30
    BY Zenon DEF Init
  <2>2. Len(linebuf) <= LineMax /\ Len(rxbuf) <= RxMax
    BY <2>1, EmptyFits
  <2>3. debounce_ms \in 1..1000 /\ lamp \in {0, 1}
    BY <2>1
  <2> QED BY <2>1, <2>2, <2>3, Zenon DEF PanelTypes
<1>2. RingTypes
  BY StartTypes DEF Init, RingTypes
<1>3. HostTypes
  <2>1. /\ stable \in [Button -> BOOLEAN] /\ view = Unknown
        /\ host = "down" /\ conns = 0 /\ lines = 0
        /\ polled = FALSE /\ clean = FALSE /\ mixed = FALSE
    BY Zenon DEF Init
  <2> QED BY <2>1, ZeroCounts DEF HostTypes
<1> QED BY <1>1, <1>2, <1>3, TypeParts

\* A turn of the loop keeps the line buffer within its size.
LEMMA TakeTypes == Streams /\ TypeOK /\ Take => TypeOK'
<1> SUFFICES ASSUME Streams, TypeOK, Take PROVE TypeOK'
  OBVIOUS
<1>1. UNCHANGED <<peer_was_connected, stable, conns, lines, polled, clean>>
  BY DEF Take
<1>2. Len(rxbuf') <= RxMax
  <2>1. rxbuf # <<>> /\ rxbuf' = Tail(rxbuf) /\ rxbuf \in Seq(Piece)
    BY DEF Take, Streams
  <2>2. Len(Tail(rxbuf)) = Len(rxbuf) - 1 /\ Len(rxbuf) \in Nat
    BY <2>1
  <2> QED BY <2>1, <2>2, PanelAssumption DEF TypeOK, PanelAssumption
<1>3. Len(linebuf') <= LineMax /\ discard' \in BOOLEAN
  <2>1. Len(<<>>) <= LineMax
    BY PanelAssumption DEF PanelAssumption
  <2>2. CASE linebuf' = <<>> /\ discard' \in BOOLEAN
    BY <2>1, <2>2
  <2>3. CASE UNCHANGED <<linebuf, discard>>
    BY <2>3 DEF TypeOK
  <2>4. CASE Keep
    <3>1. Len(linebuf) < LineMax /\ UNCHANGED discard
          /\ linebuf' = Append(linebuf, Head(rxbuf))
      BY <2>4 DEF Keep
    <3>2. Len(linebuf) \in Nat /\ Len(linebuf') = Len(linebuf) + 1
      BY <3>1, StreamFacts DEF Streams, Take
    <3> QED BY <3>1, <3>2, PanelAssumption DEF TypeOK, PanelAssumption
  <2> QED BY <2>2, <2>3, <2>4, TakeCases DEF Overflow
<1>4. /\ pc' \in {pc, "rebooting"}
      /\ st' \in [Ring -> [Field -> 0..255]] /\ dirty' \in [Ring -> BOOLEAN]
      /\ lamp' \in {0, 1} /\ debounce_ms' \in 1..1000
      /\ host' \in {host, "ready"} /\ view' \in {view, stable}
      /\ mixed' \in BOOLEAN
  <2>1. CASE Dispatch(linebuf)
    BY <2>1, DispatchTypes
  <2>2. CASE Quiet
    BY <2>2 DEF Quiet, TypeOK, ringvars, settings
  <2>3. CASE Overflow
    BY <2>3 DEF Overflow, Reply, TypeOK, ringvars, settings
  <2> QED BY <2>1, <2>2, <2>3, TakeCases DEF Keep
<1>5. UNCHANGED leds
  <2>1. CASE Dispatch(linebuf)
    BY <2>1, DispatchLeaves
  <2> QED BY <2>1, TakeCases DEF Quiet, Keep, Overflow, ringvars
<1> QED BY <1>1, <1>2, <1>3, <1>4, <1>5 DEF TypeOK

LEMMA TypeOKStep == Streams /\ TypeOK /\ [Next]_vars => TypeOK'
<1> SUFFICES ASSUME Streams, TypeOK, [Next]_vars PROVE TypeOK'
  OBVIOUS
<1>0. PanelTypes /\ RingTypes /\ HostTypes
  BY TypeParts
<1>1. CASE Poll
  <2>1. PanelTypes'
    <3>1. pc' = "buttons" /\ peer_was_connected' \in BOOLEAN
          /\ UNCHANGED <<rxbuf, lamp, debounce_ms>>
      BY <1>1, PanelAssumption DEF Poll, Connected, PanelAssumption, settings
    <3>2. \/ linebuf' = <<>> /\ discard' = FALSE
          \/ UNCHANGED <<linebuf, discard>>
      BY <1>1 DEF Poll, DropHalfLine
    <3> QED BY <1>0, <3>1, <3>2, EmptyFits DEF PanelTypes
  <2>2. RingTypes'
    BY <1>0, <1>1, RingTypesKept DEF Poll
  <2>3. HostTypes'
    <3>1. /\ host' \in {host, "ready"} /\ view' \in {view, stable}
          /\ UNCHANGED <<stable, conns, lines, mixed>>
      BY <1>1 DEF Poll, Greet
    <3>2. polled' \in BOOLEAN
      BY <1>0, <1>1 DEF Poll, HostTypes
    <3>3. clean' \in BOOLEAN
      BY <1>0, <1>1 DEF Poll, HostTypes
    <3> QED BY <1>0, <3>1, <3>2, <3>3 DEF HostTypes
  <2> QED BY <2>1, <2>2, <2>3, TypePartsNext
<1>2. CASE Buttons
  <2>1. UNCHANGED <<loopvars, ringvars, settings, hostvars, history>>
        /\ pc' = "read"
    BY <1>2 DEF Buttons
  <2>2. PICK S \in SUBSET Button :
          /\ stable' = [i \in Button |-> (stable[i] # (i \in S))]
          /\ Tell(S)
    BY <1>2 DEF Buttons
  <2>3. stable' \in [Button -> BOOLEAN] /\ view' \in [Button -> BOOLEAN] \cup {Unknown}
    BY <1>0, <2>2 DEF Tell, HostTypes
  <2>4. HostTypes'
    BY <1>0, <2>1, <2>3 DEF HostTypes, hostvars, history
  <2>5. PanelTypes'
    BY <1>0, <2>1 DEF PanelTypes, loopvars, settings
  <2> QED BY <1>0, <2>1, <2>4, <2>5, RingTypesKept, TypePartsNext
<1>3. CASE Read
  <2> DEFINE n == IF Len(rx) < RxMax THEN Len(rx) ELSE RxMax
  <2>1. n \in 0..Len(rx) /\ n <= RxMax
    BY PanelAssumption DEF PanelAssumption, Streams
  <2>2. rxbuf' = SubSeq(rx, 1, n)
    BY <1>3 DEF Read
  <2>3. Len(rxbuf') <= RxMax
    BY <2>1, <2>2, BufferTaken DEF Streams
  <2>4. PanelTypes'
    BY <1>0, <1>3, <2>3 DEF Read, PanelTypes, settings
  <2>5. HostTypes'
    BY <1>0, <1>3, HostTypesKept DEF Read, hostvars, history
  <2> QED BY <1>0, <1>3, <2>4, <2>5, RingTypesKept, TypePartsNext DEF Read
<1>4. CASE Take
  BY <1>4, TakeTypes
<1>5. CASE Refresh
  <2>1. RingTypes'
    BY <1>0, <1>5 DEF Refresh, Flushed, RingTypes
  <2>2. PanelTypes'
    BY <1>0, <1>5 DEF Refresh, PanelTypes, loopvars, settings
  <2>3. HostTypes'
    BY <1>0, <1>5, HostTypesKept DEF Refresh, hostvars, history
  <2> QED BY <2>1, <2>2, <2>3, TypePartsNext
<1>6. CASE UNCHANGED <<pc, loopvars, ringvars, settings>> /\ HostTypes'
  BY <1>0, <1>6, PanelTypesKept, RingTypesKept, TypePartsNext
<1>7. CASE Connect
  <2>1. HostTypes'
    BY <1>0, <1>7, PanelAssumption
    DEF Connect, HostTypes, PanelAssumption, history
  <2> QED BY <1>6, <1>7, <2>1 DEF Connect
<1>8. CASE Disconnect
  <2>1. HostTypes'
    <3>1. /\ view' = Unknown /\ host' = "down" /\ lines' = 0
          /\ UNCHANGED <<stable, conns>>
          /\ polled' = FALSE /\ clean' = FALSE /\ mixed' = FALSE
      BY <1>8, Zenon DEF Disconnect
    <3> QED BY <1>0, <3>1, ZeroCounts DEF HostTypes
  <2> QED BY <1>6, <1>8, <2>1 DEF Disconnect
<1>9. CASE Ask
  <2>1. HostTypes'
    BY <1>0, <1>9 DEF Ask, HostTypes
  <2> QED BY <1>6, <1>9, <2>1 DEF Ask
<1>10. CASE SendPiece
  <2>1. HostTypes'
    BY <1>0, <1>10, HostTypesKept DEF SendPiece, history
  <2> QED BY <1>6, <1>10, <2>1 DEF SendPiece
<1>11. ASSUME NEW l \in Lines, BeginLine(l) PROVE TypeOK'
  <2>1. HostTypes'
    BY <1>0, <1>11, PanelAssumption DEF BeginLine, HostTypes, PanelAssumption
  <2> QED BY <1>6, <1>11, <2>1 DEF BeginLine
<1>12. CASE Restart
  <2>1. PanelTypes'
    <3>1. /\ pc' = "top" /\ peer_was_connected' = FALSE /\ discard' = FALSE
          /\ linebuf' = <<>> /\ rxbuf' = <<>> /\ lamp' = 0 /\ debounce_ms' = 30
      BY <1>12, Zenon DEF Restart
    <3>2. Len(linebuf') <= LineMax /\ Len(rxbuf') <= RxMax
      BY <3>1, EmptyFits
    <3>3. debounce_ms' \in 1..1000 /\ lamp' \in {0, 1}
      BY <3>1
    <3> QED BY <3>1, <3>2, <3>3, Zenon DEF PanelTypes
  <2>2. RingTypes'
    BY <1>12, StartTypes DEF Restart, RingTypes
  <2>3. HostTypes'
    <3>1. /\ stable' \in [Button -> BOOLEAN] /\ view' = Unknown
          /\ host' = "down" /\ lines' = 0 /\ UNCHANGED conns
          /\ polled' = FALSE /\ clean' = FALSE /\ mixed' = FALSE
      BY <1>12, Zenon DEF Restart
    <3> QED BY <1>0, <3>1, ZeroCounts DEF HostTypes
  <2> QED BY <2>1, <2>2, <2>3, TypePartsNext
<1>13. CASE UNCHANGED vars
  BY <1>0, <1>6, <1>13, HostTypesKept DEF vars, hostvars, history
<1>14. CASE Arrive
  BY <1>0, <1>6, <1>14, HostTypesKept DEF Arrive, hostvars, history
<1> QED BY <1>1, <1>2, <1>3, <1>4, <1>5, <1>7, <1>8, <1>9, <1>10, <1>11, <1>12,
           <1>13, <1>14
        DEF Next, Pass, Host

\* Every variable has its type, and no line runs out of linebuf (main.c:270).
THEOREM TypeCorrect == Spec => []TypeOK
<1>1. Init => Streams /\ TypeOK
  BY StreamsInit, InitTypes
<1>2. Streams /\ TypeOK /\ [Next]_vars => (Streams /\ TypeOK)'
  BY StreamsStep, TypeOKStep
<1> QED BY <1>1, <1>2, PTL DEF Spec

-----------------------------------------------------------------------------
(* The host's idea of the buttons *)

LEMMA DispatchView ==
  ASSUME NEW line, Dispatch(line)
  PROVE  view' \in {view, stable}
  BY DEF Dispatch, DispatchRing, DispatchLamp, DispatchConfig, DispatchHello,
         DispatchOta, DispatchPing, Refuse, Greet

\* Only a hello sets the view, from the panel's own states; only buttons_update
\* changes those, and the events it sends make the same change to the view.
LEMMA ViewMatchesStep == TypeOK /\ ViewMatches /\ [Next]_vars => ViewMatches'
<1> SUFFICES ASSUME TypeOK, ViewMatches, [Next]_vars PROVE ViewMatches'
  OBVIOUS
<1>1. CASE Buttons
  <2>1. PICK S \in SUBSET Button :
          /\ stable' = [i \in Button |-> (stable[i] # (i \in S))]
          /\ Tell(S)
    BY <1>1 DEF Buttons
  <2> QED BY <2>1 DEF Tell, ViewMatches
<1>2. CASE view' \in {view, stable} /\ UNCHANGED stable
  BY <1>2 DEF ViewMatches
<1>3. CASE view' = Unknown
  BY <1>3 DEF ViewMatches
<1>4. CASE Poll
  BY <1>2, <1>4 DEF Poll, Greet
<1>5. CASE Take
  <2>1. view' \in {view, stable}
    BY <1>5, TakeCases, DispatchView DEF Quiet, Keep, Overflow
  <2> QED BY <1>2, <1>5, <2>1 DEF Take
<1>6. CASE Read \/ Refresh \/ Arrive \/ Connect \/ Ask \/ SendPiece
  BY <1>2, <1>6 DEF Read, Refresh, Arrive, Connect, Ask, SendPiece
<1>7. ASSUME NEW l \in Lines, BeginLine(l) PROVE ViewMatches'
  BY <1>2, <1>7 DEF BeginLine
<1>8. CASE Disconnect \/ Restart
  BY <1>3, <1>8 DEF Disconnect, Restart
<1>9. CASE UNCHANGED vars
  BY <1>2, <1>9 DEF vars
<1> QED BY <1>1, <1>4, <1>5, <1>6, <1>7, <1>8, <1>9 DEF Next, Pass, Host

\* The button states a host was told in a hello and in the events since then are
\* the panel's (main.c:240, main.c:251).
THEOREM ViewAlwaysMatches == Spec => []ViewMatches
<1>1. Init => ViewMatches
  BY DEF Init, ViewMatches
<1> QED BY <1>1, ViewMatchesStep, TypeCorrect, PTL DEF Spec

-----------------------------------------------------------------------------
(* The LEDs *)

LEMMA DispatchLeds ==
  ASSUME TypeOK, LedsMatch, NEW line, Dispatch(line)
  PROVE  LedsMatch'
<1>1. CASE DispatchRing(line)
  <2> DEFINE i == Get(line, "id")
  <2>1. /\ i \in Ring /\ UNCHANGED leds
        /\ st' = [st EXCEPT ![i] = NextRing(line)]
        /\ dirty' = [dirty EXCEPT ![i] = @ \/ NextRing(line) # st[i]]
    BY <1>1 DEF DispatchRing, RingCmdOk
  <2>2. ASSUME NEW j \in Ring, ~dirty'[j] PROVE ~dirty[j] /\ st'[j] = st[j]
    <3> HIDE DEF i
    <3>1. CASE j = i
      BY <2>1, <2>2, <3>1 DEF TypeOK
    <3>2. CASE j # i
      BY <2>1, <2>2, <3>2 DEF TypeOK
    <3> QED BY <3>1, <3>2
  <2> QED BY <2>1, <2>2 DEF LedsMatch
<1>2. CASE UNCHANGED ringvars
  BY <1>2 DEF ringvars, LedsMatch
<1> QED BY <1>1, <1>2 DEF Dispatch, DispatchLamp, DispatchConfig, DispatchHello,
                          DispatchOta, DispatchPing, Refuse

\* A command that changes a colour marks the ring, and only a rendered frame
\* takes the mark away.
LEMMA LedsMatchStep == TypeOK /\ LedsMatch /\ [Next]_vars => LedsMatch'
<1> SUFFICES ASSUME TypeOK, LedsMatch, [Next]_vars PROVE LedsMatch'
  OBVIOUS
<1>1. CASE UNCHANGED ringvars
  BY <1>1 DEF ringvars, LedsMatch
<1>2. CASE Take
  BY <1>1, <1>2, TakeCases, DispatchLeds DEF Quiet, Keep, Overflow
<1>3. CASE Refresh
  BY <1>3 DEF Refresh, Flushed, LedsMatch, TypeOK
<1>4. CASE Restart
  BY <1>4 DEF Restart, AllOff, NotRendered, FirstFrames, LedsMatch
<1>5. CASE \/ Poll \/ Buttons \/ Read \/ Arrive
           \/ Connect \/ Disconnect \/ Ask \/ SendPiece
  BY <1>1, <1>5 DEF Poll, Buttons, Read, Arrive, Connect, Disconnect, Ask,
                    SendPiece
<1>6. ASSUME NEW l \in Lines, BeginLine(l) PROVE LedsMatch'
  BY <1>1, <1>6 DEF BeginLine
<1>7. CASE UNCHANGED vars
  BY <1>1, <1>7 DEF vars
<1> QED BY <1>2, <1>3, <1>4, <1>5, <1>6, <1>7 DEF Next, Pass, Host

\* A ring shows its commanded colour unless a refresh is pending (rings.c:32,
\* main.c:44-54).
THEOREM LedsAlwaysMatch == Spec => []LedsMatch
<1>1. ASSUME Init, NEW i \in Ring, ~dirty[i] PROVE leds[i] = st[i]
  <2>1. i \in Renderable
    BY <1>1 DEF Init, NotRendered
  <2> QED BY <1>1, <2>1 DEF Init, AllOff, FirstFrames
<1>2. Init => LedsMatch
  BY <1>1 DEF LedsMatch
<1> QED BY <1>2, LedsMatchStep, TypeCorrect, PTL DEF Spec

-----------------------------------------------------------------------------
(* The answers a host gets *)

\* What is on its way to the line the panel is putting together, and the lines it
\* holds: line k, which is q[k], ends at place b[k], the last one at the end.  The
\* first may have begun before what is still on its way.
Ahead == rxbuf \o (rx \o (air \o todo))

Cuts(s, m, b, q) ==
    /\ m \in Nat /\ b \in [0..m -> Int] /\ q \in [1..m -> Lines]
    /\ b[0] <= 0 /\ b[m] = Len(s)
    /\ \A k \in 1..m :
         /\ b[k] \in 1..Len(s) /\ s[b[k]] = Newline
         /\ b[k] = b[k - 1] + Len(q[k]) + 1
         /\ \A j \in 1..Len(q[k]) :
              b[k - 1] + j >= 1 => s[b[k - 1] + j] = q[k][j]

\* A line that is being skipped has its answer already.
Skipped == IF discard THEN 1 ELSE 0

\* The host is due the answers to the lines under way, in their order.
PendingBy(m, b, q) ==
    /\ Cuts(Ahead, m, b, q)
    /\ m = Len(owed) + Skipped
    /\ \A k \in 1..m : k > Skipped => owed[k - Skipped] = Expected(q[k])
    /\ IF discard THEN linebuf = <<>>
       ELSE /\ Len(linebuf) + b[0] = 0
            /\ \A j \in 1..Len(linebuf) : linebuf[j] = q[1][j]
Pending == \E m, b, q : PendingBy(m, b, q)

Answers == {"hello"} \cup {Expected(l) : l \in Lines}

\* rxbuf is empty but between a read and the end of the pass; a host that was told
\* nothing yet has sent nothing and is due nothing.
StreamOK ==
    /\ owed \in Seq(Answers)
    /\ pc \in {"top", "buttons", "read"} => rxbuf = <<>>
    /\ host \in {"down", "fresh"} => todo = <<>> /\ owed = <<>> /\ ~mixed
CleanOK ==
    clean => /\ TcpsWorks /\ peer_was_connected /\ host = "ready"
            /\ ~mixed /\ Pending

-----------------------------------------------------------------------------
(* Cuts as the stream moves *)

LEMMA LineFacts ==
  ASSUME NEW l \in Lines
  PROVE  /\ l \in Seq(Piece) /\ Len(l) \in Nat \ {0}
         /\ \A j \in 1..Len(l) : l[j] # Newline
<1>1. l \in Seq(Piece) /\ l # <<>>
  BY PanelAssumption, LinesAssumption DEF PanelAssumption, LinesAssumption
<1> QED BY <1>1, LinesAssumption, EmptySeq DEF LinesAssumption

LEMMA CutsFacts ==
  ASSUME NEW s, NEW m, NEW b, NEW q, Cuts(s, m, b, q), Len(s) \in Nat
  PROVE  /\ m \in Nat /\ b \in [0..m -> Int] /\ q \in [1..m -> Lines]
         /\ b[0] \in Int /\ b[0] <= 0 /\ b[m] = Len(s)
         /\ Len(s) > 0 => m \in Nat \ {0}
  BY DEF Cuts

LEMMA LineEndFacts ==
  ASSUME NEW s, NEW m, NEW b, NEW q, Cuts(s, m, b, q), Len(s) \in Nat,
         NEW k \in 1..m
  PROVE  /\ k \in Int /\ k - 1 \in 0..m /\ k \in 0..m
         /\ b[k - 1] \in Int /\ b[k] \in Int /\ b[k] \in 1..Len(s)
         /\ s[b[k]] = Newline
         /\ q[k] \in Lines /\ Len(q[k]) \in Nat
         /\ b[k] = b[k - 1] + Len(q[k]) + 1
         /\ \A j \in 1..Len(q[k]) : b[k - 1] + j >= 1 =>
              b[k - 1] + j \in 1..Len(s) /\ s[b[k - 1] + j] = q[k][j]
<1>1. m \in Nat /\ b \in [0..m -> Int] /\ q \in [1..m -> Lines]
  BY CutsFacts
<1>2. k \in Int /\ k - 1 \in 0..m /\ k \in 0..m
  BY <1>1
<1>3. b[k - 1] \in Int /\ b[k] \in Int /\ q[k] \in Lines
  BY <1>1, <1>2
<1>4. Len(q[k]) \in Nat
  BY <1>3, LineFacts
<1>5. /\ b[k] \in 1..Len(s) /\ s[b[k]] = Newline
      /\ b[k] = b[k - 1] + Len(q[k]) + 1
      /\ \A j \in 1..Len(q[k]) :
           b[k - 1] + j >= 1 => s[b[k - 1] + j] = q[k][j]
  BY DEF Cuts
<1>6. ASSUME NEW j \in 1..Len(q[k]), b[k - 1] + j >= 1
      PROVE  b[k - 1] + j \in 1..Len(s)
  BY <1>3, <1>4, <1>5, <1>6
<1> QED BY <1>2, <1>3, <1>4, <1>5, <1>6

LEMMA CutsIntro ==
  ASSUME NEW t, NEW m \in Nat, NEW c \in [0..m -> Int], NEW r \in [1..m -> Lines],
         c[0] <= 0, c[m] = Len(t),
         \A k \in 1..m :
           /\ c[k] \in 1..Len(t) /\ t[c[k]] = Newline
           /\ c[k] = c[k - 1] + Len(r[k]) + 1
           /\ \A j \in 1..Len(r[k]) :
                c[k - 1] + j >= 1 => t[c[k - 1] + j] = r[k][j]
  PROVE  Cuts(t, m, c, r)
  BY DEF Cuts

LEMMA ShiftedPlace ==
  ASSUME NEW n \in Nat, NEW x \in Int, NEW y \in Int, NEW j \in Nat,
         x = y - 1, x + j >= 1, y + j \in 1..n + 1
  PROVE  x + j \in 1..n /\ (x + j) + 1 = y + j
  OBVIOUS

\* Where the lines end does not depend on which buffer holds what.
LEMMA CutsSame ==
  ASSUME NEW s, NEW t, Len(s) \in Nat, Len(t) = Len(s),
         \A i \in 1..Len(s) : t[i] = s[i],
         NEW m, NEW b, NEW q, Cuts(s, m, b, q)
  PROVE  Cuts(t, m, b, q)
<1>1. ASSUME NEW k \in 1..m
      PROVE  /\ b[k] \in 1..Len(t) /\ t[b[k]] = Newline
             /\ b[k] = b[k - 1] + Len(q[k]) + 1
             /\ \A j \in 1..Len(q[k]) :
                  b[k - 1] + j >= 1 => t[b[k - 1] + j] = q[k][j]
  <2>1. /\ b[k] \in 1..Len(s) /\ s[b[k]] = Newline
        /\ b[k] = b[k - 1] + Len(q[k]) + 1
        /\ \A j \in 1..Len(q[k]) : b[k - 1] + j >= 1 =>
             b[k - 1] + j \in 1..Len(s) /\ s[b[k - 1] + j] = q[k][j]
    BY LineEndFacts
  <2> QED BY <2>1
<1>2. /\ m \in Nat /\ b \in [0..m -> Int] /\ q \in [1..m -> Lines]
      /\ b[0] <= 0 /\ b[m] = Len(t)
  BY CutsFacts
<1> QED BY <1>1, <1>2, CutsIntro

\* The next piece is not the end of a line.
Sooner(b, m) == [k \in 0..m |-> b[k] - 1]

LEMMA CutsInLine ==
  ASSUME NEW s, NEW t, Len(t) \in Nat, Len(s) = Len(t) + 1,
         \A i \in 1..Len(t) : t[i] = s[i + 1], s[1] # Newline,
         NEW m, NEW b, NEW q, Cuts(s, m, b, q)
  PROVE  /\ m \in Nat \ {0} /\ q[1] \in Lines /\ b[0] \in Int /\ b[0] <= 0
         /\ Len(q[1]) >= 1 - b[0] /\ s[1] = q[1][1 - b[0]]
         /\ Cuts(t, m, Sooner(b, m), q)
<1> DEFINE c == Sooner(b, m)
<1>0. Len(s) \in Nat /\ Len(s) > 0
  OBVIOUS
<1>1. /\ m \in Nat \ {0} /\ b \in [0..m -> Int] /\ q \in [1..m -> Lines]
      /\ b[0] \in Int /\ b[0] <= 0 /\ b[m] = Len(s)
  BY <1>0, CutsFacts
<1>2. 1 \in 1..m /\ 0 \in 0..m /\ m \in 0..m /\ 1 - 1 = 0
  BY <1>1
<1>3. c \in [0..m -> Int] /\ \A k \in 0..m : c[k] = b[k] - 1
  BY <1>1 DEF Sooner
<1>4. ASSUME NEW k \in 1..m PROVE b[k] \in 2..Len(s)
  <2>1. b[k] \in 1..Len(s) /\ s[b[k]] = Newline
    BY <1>0, LineEndFacts
  <2>2. b[k] # 1
    BY <2>1
  <2> QED BY <2>1, <2>2
<1>5. /\ q[1] \in Lines /\ Len(q[1]) \in Nat /\ b[1] = b[0] + Len(q[1]) + 1
      /\ \A j \in 1..Len(q[1]) : b[0] + j >= 1 => s[b[0] + j] = q[1][j]
  BY <1>0, <1>2, LineEndFacts
<1>6. Len(q[1]) >= 1 - b[0]
  BY <1>1, <1>2, <1>4, <1>5
<1>7. s[1] = q[1][1 - b[0]]
  <2>1. 1 - b[0] \in 1..Len(q[1]) /\ b[0] + (1 - b[0]) = 1
    BY <1>1, <1>5, <1>6
  <2> QED BY <1>5, <2>1
<1>8. ASSUME NEW k \in 1..m
      PROVE  /\ c[k] \in 1..Len(t) /\ t[c[k]] = Newline
             /\ c[k] = c[k - 1] + Len(q[k]) + 1
             /\ \A j \in 1..Len(q[k]) :
                  c[k - 1] + j >= 1 => t[c[k - 1] + j] = q[k][j]
  <2>1. /\ k - 1 \in 0..m /\ k \in 0..m
        /\ b[k - 1] \in Int /\ b[k] \in Int /\ b[k] \in 1..Len(s)
        /\ s[b[k]] = Newline
        /\ q[k] \in Lines /\ Len(q[k]) \in Nat
        /\ b[k] = b[k - 1] + Len(q[k]) + 1
        /\ \A j \in 1..Len(q[k]) : b[k - 1] + j >= 1 =>
             b[k - 1] + j \in 1..Len(s) /\ s[b[k - 1] + j] = q[k][j]
    BY <1>0, LineEndFacts
  <2>2. c[k] = b[k] - 1 /\ c[k - 1] = b[k - 1] - 1
    BY <1>3, <2>1
  <2> HIDE DEF c
  <2>3. c[k] \in 1..Len(t) /\ c[k] + 1 = b[k]
    BY <1>4, <2>1, <2>2
  <2>4. ASSUME NEW j \in 1..Len(q[k]), c[k - 1] + j >= 1
        PROVE  t[c[k - 1] + j] = q[k][j]
    <3>1. b[k - 1] + j >= 1 /\ c[k - 1] + j = b[k - 1] + j - 1
      BY <2>1, <2>2, <2>4
    <3>2. b[k - 1] + j \in 1..Len(s) /\ s[b[k - 1] + j] = q[k][j]
      BY <2>1, <2>4, <3>1
    <3>3. c[k - 1] + j \in 1..Len(t) /\ (c[k - 1] + j) + 1 = b[k - 1] + j
      <4>1. /\ c[k - 1] \in Int /\ b[k - 1] \in Int /\ j \in Nat
            /\ b[k - 1] + j \in 1..Len(t) + 1 /\ c[k - 1] = b[k - 1] - 1
        BY <2>1, <2>2, <2>4, <3>2
      <4> QED BY <2>4, <4>1, ShiftedPlace
    <3>4. t[c[k - 1] + j] = s[(c[k - 1] + j) + 1]
      BY <3>3
    <3> QED BY <3>2, <3>3, <3>4
  <2>5. c[k] = c[k - 1] + Len(q[k]) + 1
    BY <2>1, <2>2
  <2>6. t[c[k]] = Newline
    BY <2>1, <2>3
  <2> QED BY <2>3, <2>4, <2>5, <2>6
<1>9. c[0] <= 0 /\ c[m] = Len(t)
  BY <1>1, <1>2, <1>3
<1> HIDE DEF c
<1>10. Cuts(t, m, c, q)
  BY <1>1, <1>3, <1>8, <1>9, CutsIntro
<1> QED BY <1>1, <1>5, <1>6, <1>7, <1>10 DEF c

\* The next piece ends the first line.
SoonerRest(b, m) == [k \in 0..m - 1 |-> b[k + 1] - 1]
Rest(q, m) == [k \in 1..m - 1 |-> q[k + 1]]

\* A place behind another moves up by one.
LEMMA OneSooner ==
  ASSUME NEW n \in Nat, NEW x \in 1..n + 1, NEW y \in 1..n + 1, NEW l \in Nat,
         x = y + l + 1
  PROVE  x - 1 \in 1..n /\ (x - 1) + 1 = x
  OBVIOUS

LEMMA CutsLineEnd ==
  ASSUME NEW s, NEW t, Len(t) \in Nat, Len(s) = Len(t) + 1,
         \A i \in 1..Len(t) : t[i] = s[i + 1], s[1] = Newline,
         NEW m, NEW b, NEW q, Cuts(s, m, b, q)
  PROVE  /\ m \in Nat \ {0} /\ q[1] \in Lines /\ b[0] \in Int
         /\ Len(q[1]) = -b[0] /\ b[1] = 1
         /\ Cuts(t, m - 1, SoonerRest(b, m), Rest(q, m))
<1> DEFINE c == SoonerRest(b, m)
           r == Rest(q, m)
<1>0. Len(s) \in Nat /\ Len(s) > 0
  OBVIOUS
<1>1. /\ m \in Nat \ {0} /\ b \in [0..m -> Int] /\ q \in [1..m -> Lines]
      /\ b[0] \in Int /\ b[0] <= 0 /\ b[m] = Len(s)
  BY <1>0, CutsFacts
<1>2. 1 \in 1..m /\ m - 1 \in Nat /\ 1 - 1 = 0
      /\ 0 \in 0..m - 1 /\ m - 1 \in 0..m - 1 /\ 0 + 1 = 1 /\ (m - 1) + 1 = m
  BY <1>1
<1>3. /\ q[1] \in Lines /\ Len(q[1]) \in Nat /\ b[1] = b[0] + Len(q[1]) + 1
      /\ b[1] \in 1..Len(s)
      /\ \A j \in 1..Len(q[1]) : b[0] + j >= 1 => s[b[0] + j] = q[1][j]
  BY <1>0, <1>2, LineEndFacts
<1>4. b[1] = 1
  <2> SUFFICES ASSUME b[1] # 1 PROVE FALSE
    OBVIOUS
  <2>1. 1 - b[0] \in 1..Len(q[1]) /\ b[0] + (1 - b[0]) = 1
    BY <1>0, <1>1, <1>3
  <2>2. \A j \in 1..Len(q[1]) : b[0] + j >= 1 => s[b[0] + j] = q[1][j]
    BY <1>3
  <2>3. s[1] = q[1][1 - b[0]]
    BY <2>1, <2>2
  <2>4. q[1][1 - b[0]] # Newline
    BY <1>3, <2>1, LineFacts
  <2> QED BY <2>3, <2>4
<1>5. Len(q[1]) = -b[0]
  BY <1>1, <1>3, <1>4
<1>6. c \in [0..m - 1 -> Int] /\ r \in [1..m - 1 -> Lines]
      /\ (\A k \in 0..m - 1 : c[k] = b[k + 1] - 1)
      /\ (\A k \in 1..m - 1 : r[k] = q[k + 1])
  <2>1. \A k \in 0..m - 1 : k + 1 \in 0..m
    BY <1>1
  <2>2. \A k \in 1..m - 1 : k + 1 \in 1..m
    BY <1>1
  <2>3. \A k \in 0..m - 1 : b[k + 1] - 1 \in Int
    BY <1>1, <2>1
  <2>4. \A k \in 1..m - 1 : q[k + 1] \in Lines
    BY <1>1, <2>2
  <2> QED BY <2>3, <2>4 DEF SoonerRest, Rest
<1>7. c[0] <= 0 /\ c[m - 1] = Len(t)
  <2>1. c[0] = b[1] - 1 /\ c[m - 1] = b[m] - 1
    BY <1>2, <1>6
  <2> QED BY <1>1, <1>4, <2>1
<1> HIDE DEF c, r
<1>8. ASSUME NEW k \in 1..m - 1
      PROVE  /\ c[k] \in 1..Len(t) /\ t[c[k]] = Newline
             /\ c[k] = c[k - 1] + Len(r[k]) + 1
             /\ \A j \in 1..Len(r[k]) :
                  c[k - 1] + j >= 1 => t[c[k - 1] + j] = r[k][j]
  <2>1. /\ k \in 0..m - 1 /\ k - 1 \in 0..m - 1 /\ (k - 1) + 1 = k
        /\ (k + 1) - 1 = k /\ k + 1 \in 1..m /\ k \in 1..m
    BY <1>1
  <2>2. c[k] = b[k + 1] - 1 /\ c[k - 1] = b[k] - 1 /\ r[k] = q[k + 1]
    BY <1>6, <2>1
  <2>3. /\ b[k + 1] \in 1..Len(s) /\ s[b[k + 1]] = Newline
        /\ b[k + 1] = b[k] + Len(q[k + 1]) + 1
        /\ Len(q[k + 1]) \in Nat
        /\ \A j \in 1..Len(q[k + 1]) : b[k] + j >= 1 =>
             b[k] + j \in 1..Len(s) /\ s[b[k] + j] = q[k + 1][j]
    <3>1. ASSUME NEW i \in 1..m, i - 1 = k
          PROVE  /\ b[i] \in 1..Len(s) /\ s[b[i]] = Newline
                 /\ b[i] = b[k] + Len(q[i]) + 1
                 /\ Len(q[i]) \in Nat
                 /\ \A j \in 1..Len(q[i]) : b[k] + j >= 1 =>
                      b[k] + j \in 1..Len(s) /\ s[b[k] + j] = q[i][j]
      <4>1. b[i - 1] = b[k]
        BY <3>1
      <4>2. /\ b[i] \in 1..Len(s) /\ s[b[i]] = Newline /\ Len(q[i]) \in Nat
            /\ b[i] = b[i - 1] + Len(q[i]) + 1
            /\ \A j \in 1..Len(q[i]) : b[i - 1] + j >= 1 =>
                 b[i - 1] + j \in 1..Len(s) /\ s[b[i - 1] + j] = q[i][j]
        BY <1>0, LineEndFacts
      <4> QED BY <4>1, <4>2
    <3> QED BY <2>1, <3>1
  <2>4. b[k] \in 1..Len(s)
    BY <1>0, <2>1, LineEndFacts
  <2>5. c[k] = c[k - 1] + Len(r[k]) + 1
    BY <1>0, <2>2, <2>3, <2>4
  <2>6. c[k] \in 1..Len(t) /\ c[k] + 1 = b[k + 1]
    <3>1. b[k + 1] \in 1..Len(t) + 1 /\ b[k] \in 1..Len(t) + 1
      BY <2>3, <2>4
    <3>2. b[k + 1] - 1 \in 1..Len(t) /\ (b[k + 1] - 1) + 1 = b[k + 1]
      BY <2>3, <3>1, OneSooner
    <3> QED BY <2>2, <3>2
  <2>7. ASSUME NEW j \in 1..Len(r[k]), c[k - 1] + j >= 1
        PROVE  t[c[k - 1] + j] = r[k][j]
    <3>1. j \in 1..Len(q[k + 1]) /\ b[k] + j >= 1 /\ b[k] + j \in Int
      <4>1. b[k] \in 1..Len(s)
        BY <2>4
      <4>2. j \in 1..Len(q[k + 1])
        BY <2>2, <2>7
      <4>3. Len(q[k + 1]) \in Nat
        BY <2>3
      <4>4. j \in Int /\ j >= 1
        BY <4>2, <4>3
      <4>5. b[k] \in Int /\ b[k] >= 1
        BY <1>0, <4>1
      <4> QED BY <4>2, <4>4, <4>5
    <3>2. b[k] + j \in 1..Len(s) /\ s[b[k] + j] = q[k + 1][j]
      BY <2>3, <3>1
    <3>3. c[k - 1] + j \in 1..Len(t) /\ (c[k - 1] + j) + 1 = b[k] + j
      <4>1. /\ c[k - 1] \in Int /\ b[k] \in Int /\ j \in Nat
            /\ b[k] + j \in 1..Len(t) + 1 /\ c[k - 1] = b[k] - 1
        BY <1>0, <2>2, <2>4, <2>7, <3>1, <3>2
      <4> QED BY <2>7, <4>1, ShiftedPlace
    <3>4. t[c[k - 1] + j] = s[(c[k - 1] + j) + 1]
      BY <3>3
    <3> QED BY <2>2, <3>2, <3>3, <3>4
  <2>8. t[c[k]] = Newline
    BY <2>3, <2>6
  <2> QED BY <2>5, <2>6, <2>7, <2>8
<1>9. Cuts(t, m - 1, c, r)
  BY <1>2, <1>6, <1>7, <1>8, CutsIntro
<1> QED BY <1>1, <1>3, <1>4, <1>5, <1>9 DEF c, r

\* The host begins another line.
\* f with e after its last place m.
Longer(f, lo, m, e) == [k \in lo..m + 1 |-> IF k = m + 1 THEN e ELSE f[k]]

LEMMA CutsNewLine ==
  ASSUME NEW s, NEW t, NEW l \in Lines, Len(s) \in Nat,
         Len(t) = Len(s) + Len(l) + 1, \A i \in 1..Len(s) : t[i] = s[i],
         \A j \in 1..Len(l) : t[Len(s) + j] = l[j], t[Len(t)] = Newline,
         NEW m, NEW b, NEW q, Cuts(s, m, b, q),
         NEW c, NEW r, c = Longer(b, 0, m, Len(t)), r = Longer(q, 1, m, l)
  PROVE  Cuts(t, m + 1, c, r)
<1>0. Len(l) \in Nat
  BY LineFacts
<1>1. /\ m \in Nat /\ b \in [0..m -> Int] /\ q \in [1..m -> Lines]
      /\ b[0] \in Int /\ b[0] <= 0 /\ b[m] = Len(s)
  BY CutsFacts
<1>2. Len(t) \in Int /\ m + 1 \in Nat /\ 0 \in 0..m /\ m \in 0..m
      /\ m + 1 \in 0..m + 1 /\ m + 1 \in 1..m + 1 /\ (m + 1) - 1 = m
  BY <1>0, <1>1
<1>3. /\ \A k \in 0..m + 1 : k = m + 1 \/ k \in 0..m
      /\ \A k \in 1..m + 1 : k = m + 1 \/ k \in 1..m
      /\ \A k \in 0..m : k \in 0..m + 1 /\ k # m + 1
      /\ \A k \in 1..m : k \in 1..m + 1 /\ k # m + 1
  BY <1>1
<1>4. c \in [0..m + 1 -> Int]
  BY <1>1, <1>2, <1>3 DEF Longer
<1>5. r \in [1..m + 1 -> Lines]
  BY <1>1, <1>3 DEF Longer
<1>6. c[m + 1] = Len(t) /\ (\A k \in 0..m : c[k] = b[k])
      /\ r[m + 1] = l /\ (\A k \in 1..m : r[k] = q[k])
  BY <1>2, <1>3 DEF Longer
<1>7. ASSUME NEW k \in 1..m
      PROVE  /\ c[k] \in 1..Len(t) /\ t[c[k]] = Newline
             /\ c[k] = c[k - 1] + Len(r[k]) + 1
             /\ \A j \in 1..Len(r[k]) :
                  c[k - 1] + j >= 1 => t[c[k - 1] + j] = r[k][j]
  <2>1. /\ k - 1 \in 0..m /\ k \in 0..m /\ b[k] \in 1..Len(s)
        /\ s[b[k]] = Newline
        /\ b[k] = b[k - 1] + Len(q[k]) + 1
        /\ \A j \in 1..Len(q[k]) : b[k - 1] + j >= 1 =>
             b[k - 1] + j \in 1..Len(s) /\ s[b[k - 1] + j] = q[k][j]
    BY LineEndFacts
  <2>2. c[k] = b[k] /\ c[k - 1] = b[k - 1] /\ r[k] = q[k]
    BY <1>6, <2>1
  <2>3. b[k] \in 1..Len(t) /\ t[b[k]] = Newline
    BY <1>0, <2>1
  <2>4. c[k] \in 1..Len(t) /\ t[c[k]] = Newline
    BY <2>2, <2>3, Zenon
  <2>5. c[k] = c[k - 1] + Len(r[k]) + 1
    BY <2>1, <2>2, Zenon
  <2>6. ASSUME NEW j \in 1..Len(r[k]), c[k - 1] + j >= 1
        PROVE  t[c[k - 1] + j] = r[k][j]
    <3>1. j \in 1..Len(q[k]) /\ b[k - 1] + j >= 1
      BY <2>2, <2>6, Zenon
    <3>2. b[k - 1] + j \in 1..Len(s) /\ s[b[k - 1] + j] = q[k][j]
      BY <2>1, <3>1, Zenon
    <3>3. t[b[k - 1] + j] = q[k][j]
      BY <3>2, Zenon
    <3> QED BY <2>2, <3>3, Zenon
  <2> QED BY <2>4, <2>5, <2>6
<1>8. /\ c[m + 1] \in 1..Len(t) /\ t[c[m + 1]] = Newline
      /\ c[m + 1] = c[(m + 1) - 1] + Len(r[m + 1]) + 1
      /\ \A j \in 1..Len(r[m + 1]) :
           c[(m + 1) - 1] + j >= 1 => t[c[(m + 1) - 1] + j] = r[m + 1][j]
  <2>1. c[(m + 1) - 1] = Len(s)
    BY <1>1, <1>2, <1>6
  <2>2. Len(t) \in 1..Len(t)
    BY <1>0
  <2> QED BY <1>6, <2>1, <2>2
<1>9. \A k \in 1..m + 1 :
        /\ c[k] \in 1..Len(t) /\ t[c[k]] = Newline
        /\ c[k] = c[k - 1] + Len(r[k]) + 1
        /\ \A j \in 1..Len(r[k]) :
             c[k - 1] + j >= 1 => t[c[k - 1] + j] = r[k][j]
  BY <1>3, <1>7, <1>8
<1>10. c[0] <= 0
  BY <1>1, <1>2, <1>6
<1> QED BY <1>2, <1>4, <1>5, <1>6, <1>9, <1>10, CutsIntro

\* What is ahead of the panel as its pieces move from buffer to buffer.
LEMMA HeadTaken ==
  ASSUME NEW S, NEW a \in Seq(S), NEW z \in Seq(S), a # <<>>
  PROVE  /\ Len(Tail(a) \o z) \in Nat /\ Len(a \o z) = Len(Tail(a) \o z) + 1
         /\ (a \o z)[1] = Head(a)
         /\ \A i \in 1..Len(Tail(a) \o z) : (Tail(a) \o z)[i] = (a \o z)[i + 1]
<1>1. /\ Len(a) \in Nat \ {0} /\ Len(z) \in Nat /\ Tail(a) \in Seq(S)
      /\ Len(Tail(a)) = Len(a) - 1 /\ Head(a) = a[1]
      /\ \A i \in 1..Len(Tail(a)) : Tail(a)[i] = a[i + 1]
  BY HeadTailProperties, EmptySeq, LenProperties
<1>2. /\ Len(a \o z) = Len(a) + Len(z)
      /\ \A i \in 1..Len(a) + Len(z) :
           (a \o z)[i] = IF i <= Len(a) THEN a[i] ELSE z[i - Len(a)]
  BY ConcatProperties
<1>3. /\ Len(Tail(a) \o z) = Len(Tail(a)) + Len(z)
      /\ \A i \in 1..Len(Tail(a)) + Len(z) :
           (Tail(a) \o z)[i] = IF i <= Len(Tail(a)) THEN Tail(a)[i]
                               ELSE z[i - Len(Tail(a))]
  BY <1>1, ConcatProperties
<1>4. ASSUME NEW i \in 1..Len(Tail(a)) + Len(z)
      PROVE  (Tail(a) \o z)[i] = (a \o z)[i + 1]
  <2>1. i + 1 \in 1..Len(a) + Len(z)
    BY <1>1
  <2>2. CASE i <= Len(Tail(a))
    <3>1. i \in 1..Len(Tail(a)) /\ i + 1 <= Len(a)
      BY <1>1, <2>2
    <3> QED BY <1>1, <1>2, <1>3, <2>1, <2>2, <3>1
  <2>3. CASE ~(i <= Len(Tail(a)))
    <3>1. ~(i + 1 <= Len(a)) /\ (i + 1) - Len(a) = i - Len(Tail(a))
      BY <1>1, <2>3
    <3> QED BY <1>2, <1>3, <2>1, <2>3, <3>1
  <2> QED BY <2>2, <2>3
<1>5. (a \o z)[1] = a[1]
  <2>1. 1 \in 1..Len(a) + Len(z) /\ 1 <= Len(a)
    BY <1>1
  <2> QED BY <1>2, <2>1
<1>6. Len(Tail(a) \o z) \in Nat /\ Len(a \o z) = Len(Tail(a) \o z) + 1
  BY <1>1, <1>2, <1>3
<1> QED BY <1>1, <1>3, <1>4, <1>5, <1>6

LEMMA ReadMoves ==
  ASSUME NEW S, NEW x \in Seq(S), NEW y \in Seq(S), NEW n \in 0..Len(x)
  PROVE  SubSeq(x, 1, n) \o (SubSeq(x, n + 1, Len(x)) \o y) = <<>> \o (x \o y)
<1>1. Len(x) \in Nat
  BY LenProperties
<1>2. 1 \in 1..Len(x) + 1 /\ n \in 1 - 1..Len(x) /\ Len(x) \in n..Len(x)
  BY <1>1
<1>3. SubSeq(x, 1, n) \o SubSeq(x, n + 1, Len(x)) = SubSeq(x, 1, Len(x))
  BY <1>2, ConcatAdjacentSubSeq
<1>4. SubSeq(x, 1, Len(x)) = x
  BY SubSeqFull
<1>5. SubSeq(x, 1, n) \in Seq(S) /\ SubSeq(x, n + 1, Len(x)) \in Seq(S)
  <2>1. \A i \in 1..Len(x) : x[i] \in S
    BY ElementOfSeq
  <2>2. \A i \in 1..n : x[i] \in S
    BY <1>1, <2>1
  <2>3. \A i \in n + 1..Len(x) : x[i] \in S
    BY <1>1, <2>1
  <2>4. n \in Int /\ 1 \in Int /\ n + 1 \in Int /\ Len(x) \in Int
    BY <1>1
  <2> QED BY <2>2, <2>3, <2>4, SubSeqProperties
<1>6. SubSeq(x, 1, n) \o (SubSeq(x, n + 1, Len(x)) \o y) = x \o y
  <2>1. ASSUME NEW p \in Seq(S), NEW r \in Seq(S), p \o r = x
        PROVE  p \o (r \o y) = x \o y
    <3>1. (p \o r) \o y = p \o (r \o y)
      BY ConcatAssociative
    <3> QED BY <2>1, <3>1
  <2> QED BY <1>3, <1>4, <1>5, <2>1
<1>7. x \o y \in Seq(S)
  BY ConcatProperties
<1> QED BY <1>6, <1>7, ConcatEmptySeq

LEMMA SendMoves ==
  ASSUME NEW S, NEW x \in Seq(S), NEW y \in Seq(S), y # <<>>
  PROVE  Append(x, Head(y)) \o Tail(y) = x \o y
<1> DEFINE u == Append(x, Head(y)) \o Tail(y)
           w == x \o y
<1>1. /\ Len(x) \in Nat /\ Len(y) \in Nat \ {0} /\ Head(y) \in S
      /\ Tail(y) \in Seq(S) /\ Len(Tail(y)) = Len(y) - 1 /\ Head(y) = y[1]
      /\ \A i \in 1..Len(Tail(y)) : Tail(y)[i] = y[i + 1]
  BY HeadTailProperties, EmptySeq, LenProperties
<1>2. /\ Append(x, Head(y)) \in Seq(S) /\ Len(Append(x, Head(y))) = Len(x) + 1
      /\ \A i \in 1..Len(x) : Append(x, Head(y))[i] = x[i]
      /\ Append(x, Head(y))[Len(x) + 1] = Head(y)
  BY <1>1
<1>3. /\ w \in Seq(S) /\ Len(w) = Len(x) + Len(y)
      /\ \A i \in 1..Len(x) + Len(y) :
           w[i] = IF i <= Len(x) THEN x[i] ELSE y[i - Len(x)]
  BY ConcatProperties
<1>4. /\ u \in Seq(S) /\ Len(u) = Len(x) + 1 + Len(Tail(y))
      /\ \A i \in 1..Len(x) + 1 + Len(Tail(y)) :
           u[i] = IF i <= Len(x) + 1 THEN Append(x, Head(y))[i]
                                     ELSE Tail(y)[i - (Len(x) + 1)]
  BY <1>1, <1>2, ConcatProperties
<1> HIDE DEF u, w
<1>5. Len(u) = Len(w)
  BY <1>1, <1>3, <1>4
<1>6. ASSUME NEW i \in 1..Len(u) PROVE u[i] = w[i]
  <2>0. i \in 1..Len(x) + Len(y) /\ i \in 1..Len(x) + 1 + Len(Tail(y))
    BY <1>1, <1>4
  <2>1. CASE i <= Len(x)
    <3>1. i \in 1..Len(x) /\ i <= Len(x) + 1
      BY <1>1, <2>1
    <3> QED BY <1>2, <1>3, <1>4, <2>0, <2>1, <3>1
  <2>2. CASE i = Len(x) + 1
    <3>1. i <= Len(x) + 1 /\ ~(i <= Len(x)) /\ i - Len(x) = 1
      BY <1>1, <2>2
    <3> QED BY <1>1, <1>2, <1>3, <1>4, <2>0, <2>2, <3>1
  <2>3. CASE ~(i <= Len(x) + 1)
    <3>1. /\ ~(i <= Len(x)) /\ i - (Len(x) + 1) \in 1..Len(Tail(y))
          /\ (i - (Len(x) + 1)) + 1 = i - Len(x)
      BY <1>1, <2>0, <2>3
    <3>2. u[i] = Tail(y)[i - (Len(x) + 1)] /\ w[i] = y[i - Len(x)]
      BY <1>3, <1>4, <2>0, <2>3, <3>1
    <3>3. Tail(y)[i - (Len(x) + 1)] = y[(i - (Len(x) + 1)) + 1]
      BY <1>1, <3>1
    <3> QED BY <3>1, <3>2, <3>3
  <2> QED BY <1>1, <2>0, <2>1, <2>2, <2>3
<1>7. u = w
  BY <1>3, <1>4, <1>5, <1>6, SeqEqual
<1> QED BY <1>7 DEF u, w

LEMMA LineMoves ==
  ASSUME NEW S, NEW a \in Seq(S), NEW x \in Seq(S), NEW l \in Seq(S), NEW e \in S,
         NEW s, NEW t, s = a \o (x \o <<>>), t = a \o (x \o Append(l, e))
  PROVE  /\ Len(s) \in Nat /\ Len(t) = Len(s) + Len(l) + 1
         /\ \A i \in 1..Len(s) : t[i] = s[i]
         /\ \A j \in 1..Len(l) : t[Len(s) + j] = l[j]
         /\ t[Len(t)] = e
<1>1. x \o <<>> = x /\ a \o x \in Seq(S) /\ Append(l, e) \in Seq(S)
  BY ConcatEmptySeq, ConcatProperties
<1>2. s = a \o x /\ t = s \o Append(l, e)
  <2>1. \A z \in Seq(S) : (a \o x) \o z = a \o (x \o z)
    BY ConcatAssociative
  <2> QED BY <1>1, <2>1
<1>3. s \in Seq(S) /\ Len(s) \in Nat /\ Len(l) \in Nat
  BY <1>1, <1>2, LenProperties
<1>4. /\ Len(Append(l, e)) = Len(l) + 1 /\ Append(l, e)[Len(l) + 1] = e
      /\ \A j \in 1..Len(l) : Append(l, e)[j] = l[j]
  OBVIOUS
<1>5. /\ Len(t) = Len(s) + Len(Append(l, e))
      /\ \A i \in 1..Len(s) + Len(Append(l, e)) :
           t[i] = IF i <= Len(s) THEN s[i] ELSE Append(l, e)[i - Len(s)]
  <2>1. \A u, v \in Seq(S) :
          /\ Len(u \o v) = Len(u) + Len(v)
          /\ \A i \in 1..Len(u) + Len(v) :
               (u \o v)[i] = IF i <= Len(u) THEN u[i] ELSE v[i - Len(u)]
    BY ConcatProperties
  <2>2. /\ Len(s \o Append(l, e)) = Len(s) + Len(Append(l, e))
        /\ \A i \in 1..Len(s) + Len(Append(l, e)) :
             (s \o Append(l, e))[i] =
               IF i <= Len(s) THEN s[i] ELSE Append(l, e)[i - Len(s)]
    BY <1>1, <1>3, <2>1, Zenon
  <2> QED BY <1>2, <2>2, Zenon
<1>6. Len(t) = Len(s) + Len(l) + 1
  BY <1>3, <1>4, <1>5
<1>7. \A i \in 1..Len(s) : t[i] = s[i]
  <2>1. \A i \in 1..Len(s) : i \in 1..Len(s) + Len(Append(l, e)) /\ i <= Len(s)
    BY <1>3, <1>4
  <2> QED BY <1>5, <2>1
<1>8. ASSUME NEW j \in 1..Len(l) + 1 PROVE t[Len(s) + j] = Append(l, e)[j]
  <2>1. /\ Len(s) + j \in 1..Len(s) + Len(Append(l, e)) /\ ~(Len(s) + j <= Len(s))
        /\ (Len(s) + j) - Len(s) = j
    BY <1>3, <1>4
  <2> QED BY <1>5, <2>1
<1>9. t[Len(t)] = e
  <2>1. Len(l) + 1 \in 1..Len(l) + 1 /\ Len(t) = Len(s) + (Len(l) + 1)
    BY <1>3, <1>6
  <2> QED BY <1>4, <1>8, <2>1
<1>10. \A j \in 1..Len(l) : t[Len(s) + j] = l[j]
  <2>1. \A j \in 1..Len(l) : j \in 1..Len(l) + 1
    BY <1>3
  <2> QED BY <1>4, <1>8, <2>1
<1> QED BY <1>3, <1>6, <1>7, <1>9, <1>10

LEMMA AheadLength == Streams => Ahead \in Seq(Piece) /\ Len(Ahead) \in Nat
  BY ConcatProperties, LenProperties DEF Streams, Ahead

\* What each step makes of the lines under way.
LEMMA PendingSame ==
  ASSUME Pending, Ahead' = Ahead, UNCHANGED <<owed, linebuf, discard>>
  PROVE  Pending'
<1>1. PICK m, b, q : PendingBy(m, b, q)
  BY DEF Pending
<1>2. PendingBy(m, b, q)'
  BY <1>1 DEF PendingBy, Skipped
<1> QED BY <1>2 DEF Pending

LEMMA PendingNone ==
  ASSUME Ahead' = <<>>, owed' = <<>>, linebuf' = <<>>, discard' = FALSE
  PROVE  Pending'
<1> DEFINE b == [k \in 0..0 |-> 0]
           q == [k \in 1..0 |-> 0]
<1>1. b \in [0..0 -> Int] /\ q \in [1..0 -> Lines] /\ b[0] = 0
  OBVIOUS
<1>2. Len(<<>>) = 0
  OBVIOUS
<1>3. Cuts(<<>>, 0, b, q)
  BY <1>1, <1>2 DEF Cuts
<1> HIDE DEF b, q
<1>4. PendingBy(0, b, q)'
  BY <1>1, <1>2, <1>3 DEF PendingBy, Skipped
<1> QED BY <1>4 DEF Pending

LEMMA OwedGrows ==
  ASSUME NEW S, NEW s \in Seq(S), NEW e \in S
  PROVE  /\ Append(s, e) \in Seq(S) /\ Len(Append(s, e)) = Len(s) + 1
         /\ Len(s) \in Nat /\ Append(s, e)[Len(s) + 1] = e
         /\ \A i \in 1..Len(s) : Append(s, e)[i] = s[i]
  OBVIOUS

LEMMA PendingMore ==
  ASSUME Streams, StreamOK, Pending, NEW l \in Lines, BeginLine(l)
  PROVE  Pending'
<1>0. /\ todo = <<>> /\ todo' = Append(l, Newline)
      /\ owed' = Append(owed, Expected(l))
      /\ UNCHANGED <<rxbuf, rx, air, linebuf, discard>>
  BY DEF BeginLine, loopvars, streamvars
<1>1. PICK m, b, q : PendingBy(m, b, q)
  BY DEF Pending
<1>2. /\ Cuts(Ahead, m, b, q) /\ m = Len(owed) + Skipped
      /\ \A k \in 1..m : k > Skipped => owed[k - Skipped] = Expected(q[k])
      /\ IF discard THEN linebuf = <<>>
         ELSE /\ Len(linebuf) + b[0] = 0
              /\ \A j \in 1..Len(linebuf) : linebuf[j] = q[1][j]
  BY <1>1 DEF PendingBy
<1>3. l \in Seq(Piece) /\ Newline \in Piece
  BY LineFacts, PieceFacts
<1>4. PICK s, t : s = Ahead /\ t = Ahead'
  OBVIOUS
<1>5. /\ Len(s) \in Nat /\ Len(t) = Len(s) + Len(l) + 1
      /\ \A i \in 1..Len(s) : t[i] = s[i]
      /\ \A j \in 1..Len(l) : t[Len(s) + j] = l[j]
      /\ t[Len(t)] = Newline
  <2>1. /\ s = rxbuf \o (rx \o (air \o <<>>))
        /\ t = rxbuf \o (rx \o (air \o Append(l, Newline)))
    BY <1>0, <1>4 DEF Ahead
  <2>2. /\ rxbuf \in Seq(Piece) /\ rx \o air \in Seq(Piece)
        /\ Append(l, Newline) \in Seq(Piece) /\ <<>> \in Seq(Piece)
    <3>1. <<>> \in Seq(Piece) /\ Append(l, Newline) \in Seq(Piece)
      BY <1>3, StreamFacts
    <3>2. rx \o air \in Seq(Piece)
      BY ConcatProperties DEF Streams
    <3> QED BY <3>1, <3>2 DEF Streams
  <2>3. ASSUME NEW z \in Seq(Piece)
        PROVE  rx \o (air \o z) = (rx \o air) \o z
    <3>1. rx \in Seq(Piece) /\ air \in Seq(Piece)
      BY DEF Streams
    <3> QED BY <3>1, ConcatAssociative
  <2>4. PICK x : x = rx \o air
    OBVIOUS
  <2>5. x \in Seq(Piece) /\ rxbuf \in Seq(Piece)
    BY <2>2, <2>4, Zenon
  <2>6. s = rxbuf \o (x \o <<>>) /\ t = rxbuf \o (x \o Append(l, Newline))
    BY <2>1, <2>2, <2>3, <2>4, Zenon
  <2> QED BY <1>3, <2>5, <2>6, LineMoves
<1>5a. PICK c, r :
         c = Longer(b, 0, m, Len(t)) /\ r = Longer(q, 1, m, l)
  OBVIOUS
<1>5b. Cuts(t, m + 1, c, r)
  <2>1. Cuts(s, m, b, q)
    BY <1>2, <1>4
  <2> QED BY <1>5, <1>5a, <2>1, CutsNewLine
<1>6. m \in Nat /\ b[0] \in Int /\ (m = 0 => b[0] = Len(s) /\ b[0] <= 0)
  BY <1>2, <1>4, <1>5, CutsFacts
<1>7. /\ c[0] = b[0] /\ (m # 0 => r[1] = q[1]) /\ r[m + 1] = l
      /\ \A k \in 1..m : r[k] = q[k]
  BY <1>5a, <1>6 DEF Longer
<1>8. owed \in Seq(Answers) /\ Expected(l) \in Answers
  BY DEF StreamOK, Answers
<1>9. /\ Len(owed') = Len(owed) + 1 /\ Len(owed) \in Nat
      /\ owed'[Len(owed) + 1] = Expected(l)
      /\ \A i \in 1..Len(owed) : owed'[i] = owed[i]
  BY <1>0, <1>8, OwedGrows
<1>10. Skipped \in {0, 1} /\ Skipped' = Skipped /\ (discard => Skipped = 1)
       /\ (~discard => Skipped = 0)
  BY <1>0 DEF Skipped
<1>11. ASSUME NEW k \in 1..m + 1, k > Skipped
       PROVE  owed'[k - Skipped] = Expected(r[k])
  <2>1. CASE k = m + 1
    <3>1. k - Skipped = Len(owed) + 1
      BY <1>2, <1>6, <1>9, <1>10, <2>1
    <3> QED BY <1>7, <1>9, <2>1, <3>1
  <2>2. CASE k # m + 1
    <3>1. k \in 1..m /\ k - Skipped \in 1..Len(owed)
      BY <1>2, <1>6, <1>9, <1>10, <1>11, <2>2
    <3> QED BY <1>2, <1>7, <1>9, <1>11, <3>1
  <2> QED BY <2>1, <2>2
<1>12. m + 1 = Len(owed') + Skipped'
  BY <1>2, <1>9, <1>10
<1>13. IF discard' THEN linebuf' = <<>>
       ELSE /\ Len(linebuf') + c[0] = 0
            /\ \A j \in 1..Len(linebuf') : linebuf'[j] = r[1][j]
  <2>1. CASE discard
    BY <1>0, <1>2, <2>1
  <2>2. CASE ~discard /\ m # 0
    BY <1>0, <1>2, <1>7, <2>2
  <2>3. CASE ~discard /\ m = 0
    <3>1. b[0] = 0 /\ Len(linebuf) = 0
      BY <1>2, <1>5, <1>6, <2>3
    <3>2. 1..Len(linebuf) = {}
      BY <3>1
    <3>3. /\ Len(linebuf) + b[0] = 0
          /\ \A j \in 1..Len(linebuf) : linebuf[j] = r[1][j]
      BY <1>2, <2>3, <3>2
    <3> QED BY <1>0, <1>7, <2>3, <3>3
  <2> QED BY <2>1, <2>2, <2>3
<1>14. PendingBy(m + 1, c, r)'
  BY <1>4, <1>5b, <1>10, <1>11, <1>12, <1>13 DEF PendingBy
<1> QED BY <1>14 DEF Pending

\* The answer to a line is the one a host is told to expect.
LEMMA DispatchReplies ==
  ASSUME NEW line, Dispatch(line)
  PROVE  Reply(Answer(line))
<1>1. CASE DispatchRing(line)
  <2>1. Answer(line) = "ring"
    BY <1>1 DEF DispatchRing, Answer
  <2> QED BY <1>1, <2>1 DEF DispatchRing
<1>2. CASE DispatchLamp(line)
  BY <1>2 DEF DispatchLamp
<1>3. CASE DispatchConfig(line)
  BY <1>3 DEF DispatchConfig
<1>4. CASE DispatchHello(line)
  BY <1>4 DEF DispatchHello
<1>5. CASE DispatchOta(line)
  BY <1>5 DEF DispatchOta
<1>6. CASE DispatchPing(line)
  BY <1>6 DEF DispatchPing
<1>7. CASE Refuse(line)
  BY <1>7 DEF Refuse
<1> QED BY <1>1, <1>2, <1>3, <1>4, <1>5, <1>6, <1>7 DEF Dispatch

LEMMA DispatchHost ==
  ASSUME NEW line, Dispatch(line)
  PROVE  host' = host \/ (host' = "ready" /\ Connected)
  BY DEF Dispatch, DispatchRing, DispatchLamp, DispatchConfig, DispatchHello,
         DispatchOta, DispatchPing, Refuse, Greet

\* A due answer is ticked off.
LEMMA DueAnswer ==
  ASSUME NEW S, owed \in Seq(S), owed # <<>>, host = "ready", ~mixed,
         NEW a, owed[1] = a, Reply(a)
  PROVE  /\ ~mixed' /\ owed' \in Seq(S)
         /\ Len(owed') = Len(owed) - 1 /\ Len(owed) \in Nat \ {0}
         /\ \A i \in 1..Len(owed) - 1 : owed'[i] = owed[i + 1]
<1>1. Head(owed) = a
  BY DEF Reply
<1>2. owed' = Tail(owed) /\ ~mixed'
  BY <1>1 DEF Reply
<1> QED BY <1>2, HeadTailProperties, EmptySeq

\* A turn of the loop over rxbuf takes the first piece of what is ahead.
LEMMA TakeMoves ==
  ASSUME Streams, Take, NEW s, NEW t, s = Ahead, t = Ahead'
  PROVE  /\ Len(t) \in Nat /\ Len(s) = Len(t) + 1 /\ s[1] = Head(rxbuf)
         /\ \A i \in 1..Len(t) : t[i] = s[i + 1]
<1>1. /\ rxbuf \in Seq(Piece) /\ rxbuf # <<>>
      /\ rx \o (air \o todo) \in Seq(Piece)
      /\ rxbuf' = Tail(rxbuf) /\ UNCHANGED <<air, rx, todo>>
  BY ConcatProperties DEF Streams, Take, streamvars
<1>2. s = rxbuf \o (rx \o (air \o todo)) /\ t = Tail(rxbuf) \o (rx \o (air \o todo))
  BY <1>1 DEF Ahead
<1>3. ASSUME NEW a \in Seq(Piece), NEW z \in Seq(Piece), a # <<>>,
             s = a \o z, t = Tail(a) \o z
      PROVE  /\ Len(t) \in Nat /\ Len(s) = Len(t) + 1 /\ s[1] = Head(a)
             /\ \A i \in 1..Len(t) : t[i] = s[i + 1]
  <2>1. /\ Len(Tail(a) \o z) \in Nat /\ Len(a \o z) = Len(Tail(a) \o z) + 1
        /\ (a \o z)[1] = Head(a)
        /\ \A i \in 1..Len(Tail(a) \o z) : (Tail(a) \o z)[i] = (a \o z)[i + 1]
    BY <1>3, HeadTaken
  <2> QED BY <1>3, <2>1, Zenon
<1> QED BY <1>1, <1>2, <1>3, Zenon

LEMMA TakeInLine ==
  ASSUME Streams, Take, Head(rxbuf) # Newline,
         NEW m, NEW b, NEW q, Cuts(Ahead, m, b, q)
  PROVE  /\ m \in Nat \ {0} /\ q[1] \in Lines /\ b[0] \in Int /\ b[0] <= 0
         /\ Len(q[1]) >= 1 - b[0] /\ Head(rxbuf) = q[1][1 - b[0]]
         /\ Cuts(Ahead', m, Sooner(b, m), q)
<1>1. PICK s, t : s = Ahead /\ t = Ahead'
  OBVIOUS
<1>2. /\ Len(t) \in Nat /\ Len(s) = Len(t) + 1 /\ s[1] = Head(rxbuf)
      /\ \A i \in 1..Len(t) : t[i] = s[i + 1]
  BY <1>1, TakeMoves
<1>3. Cuts(s, m, b, q)
  BY <1>1
<1>4. /\ m \in Nat \ {0} /\ q[1] \in Lines /\ b[0] \in Int /\ b[0] <= 0
      /\ Len(q[1]) >= 1 - b[0] /\ s[1] = q[1][1 - b[0]]
      /\ Cuts(t, m, Sooner(b, m), q)
  BY <1>2, <1>3, CutsInLine
<1> QED BY <1>1, <1>2, <1>4

LEMMA TakeLineEnd ==
  ASSUME Streams, Take, Head(rxbuf) = Newline,
         NEW m, NEW b, NEW q, Cuts(Ahead, m, b, q)
  PROVE  /\ m \in Nat \ {0} /\ q[1] \in Lines /\ b[0] \in Int
         /\ Len(q[1]) = -b[0] /\ b[1] = 1
         /\ Cuts(Ahead', m - 1, SoonerRest(b, m), Rest(q, m))
<1>1. PICK s, t : s = Ahead /\ t = Ahead'
  OBVIOUS
<1>2. /\ Len(t) \in Nat /\ Len(s) = Len(t) + 1 /\ s[1] = Head(rxbuf)
      /\ \A i \in 1..Len(t) : t[i] = s[i + 1]
  BY <1>1, TakeMoves
<1>3. Cuts(s, m, b, q)
  BY <1>1
<1>4. /\ m \in Nat \ {0} /\ q[1] \in Lines /\ b[0] \in Int
      /\ Len(q[1]) = -b[0] /\ b[1] = 1
      /\ Cuts(t, m - 1, SoonerRest(b, m), Rest(q, m))
  BY <1>2, <1>3, CutsLineEnd
<1> QED BY <1>1, <1>4

\* The answers still due once the first one has been given.
LEMMA AnswersAfterFirst ==
  ASSUME NEW m \in Nat \ {0}, NEW q, NEW S, NEW o \in Seq(S), NEW p,
         m = Len(o), \A k \in 1..m : o[k] = Expected(q[k]),
         \A i \in 1..Len(o) - 1 : p[i] = o[i + 1]
  PROVE  /\ \A k \in 1..m : k > 1 => p[k - 1] = Expected(q[k])
         /\ \A k \in 1..m - 1 : p[k] = Expected(q[k + 1])
<1>1. ASSUME NEW i \in 1..m - 1 PROVE p[i] = Expected(q[i + 1])
  <2>1. i + 1 \in 1..m /\ i \in 1..Len(o) - 1
    OBVIOUS
  <2> QED BY <2>1
<1>2. ASSUME NEW k \in 1..m, k > 1 PROVE p[k - 1] = Expected(q[k])
  <2>1. k - 1 \in 1..m - 1 /\ (k - 1) + 1 = k
    BY <1>2
  <2> QED BY <1>1, <2>1
<1> QED BY <1>1, <1>2

LEMMA OwedFacts == StreamOK => Len(owed) \in Nat /\ Len(owed) + 0 = Len(owed)
  BY DEF StreamOK

LEMMA PlacesFacts == \A m \in Nat : \A k \in 1..m : k > 0 /\ k - 0 = k
  OBVIOUS

LEMMA NothingKept == Len(<<>>) + 0 = 0 /\ \A f : \A j \in 1..Len(<<>>) : <<>>[j] = f[j]
<1>1. Len(<<>>) = 0 /\ 0 + 0 = 0
  OBVIOUS
<1>2. 1..Len(<<>>) = {}
  BY <1>1
<1> QED BY <1>1, <1>2

\* One turn of the loop over rxbuf gives the answer that is due, if any.
Given == host' = "ready" /\ ~mixed' /\ Pending'

LEMMA KeepGives ==
  ASSUME Streams, StreamOK, Take, Keep, host = "ready", ~mixed, Pending
  PROVE  Given
<1>0. /\ Head(rxbuf) # Newline /\ ~discard /\ ~discard'
      /\ linebuf' = Append(linebuf, Head(rxbuf))
      /\ host' = host /\ owed' = owed /\ mixed' = mixed
  BY DEF Keep, Quiet
<1>1. PICK m, b, q : PendingBy(m, b, q)
  BY DEF Pending
<1>2. /\ Cuts(Ahead, m, b, q) /\ m = Len(owed)
      /\ \A k \in 1..m : k > 0 => owed[k - 0] = Expected(q[k])
      /\ Len(linebuf) + b[0] = 0
      /\ \A j \in 1..Len(linebuf) : linebuf[j] = q[1][j]
  BY <1>0, <1>1, OwedFacts DEF PendingBy, Skipped
<1>3. /\ m \in Nat \ {0} /\ b[0] \in Int /\ b[0] <= 0
      /\ Head(rxbuf) = q[1][1 - b[0]] /\ Cuts(Ahead', m, Sooner(b, m), q)
  BY <1>0, <1>2, TakeInLine
<1>4. Sooner(b, m)[0] = b[0] - 1
  BY <1>3 DEF Sooner
<1>5. /\ Len(linebuf) \in Nat /\ Len(linebuf') = Len(linebuf) + 1
      /\ linebuf'[Len(linebuf) + 1] = Head(rxbuf)
      /\ \A j \in 1..Len(linebuf) : linebuf'[j] = linebuf[j]
  <2>1. rxbuf \in Seq(Piece) /\ rxbuf # <<>> /\ linebuf \in Seq(Piece)
    BY DEF Streams, Take
  <2>2. Head(rxbuf) \in Piece
    BY <2>1, StreamFacts
  <2> QED BY <1>0, <2>1, <2>2, OwedGrows
<1>6. /\ Len(linebuf') + (b[0] - 1) = 0
      /\ \A j \in 1..Len(linebuf') : linebuf'[j] = q[1][j]
  <2>1. Len(linebuf') + (b[0] - 1) = 0 /\ Len(linebuf) + 1 = 1 - b[0]
    BY <1>2, <1>3, <1>5
  <2>2. ASSUME NEW j \in 1..Len(linebuf') PROVE linebuf'[j] = q[1][j]
    <3>1. j \in 1..Len(linebuf) \/ j = Len(linebuf) + 1
      BY <1>5
    <3> QED BY <1>2, <1>3, <1>5, <2>1, <3>1
  <2> QED BY <2>1, <2>2
<1>7. PendingBy(m, Sooner(b, m), q)'
  <2>1. m = Len(owed) + 0
    BY <1>2, OwedFacts
  <2> QED BY <1>0, <1>2, <1>3, <1>4, <1>6, <2>1 DEF PendingBy, Skipped
<1> QED BY <1>0, <1>7 DEF Given, Pending

LEMMA SkipGives ==
  ASSUME Streams, StreamOK, Take, Skip, host = "ready", ~mixed, Pending
  PROVE  Given
<1>0. /\ Head(rxbuf) # Newline /\ discard /\ discard' = discard
      /\ linebuf' = linebuf
      /\ host' = host /\ owed' = owed /\ mixed' = mixed
  BY DEF Skip, Quiet
<1>1. PICK m, b, q : PendingBy(m, b, q)
  BY DEF Pending
<1>2. Cuts(Ahead', m, Sooner(b, m), q)
  BY <1>0, <1>1, TakeInLine DEF PendingBy
<1>3. PendingBy(m, Sooner(b, m), q)'
  BY <1>0, <1>1, <1>2 DEF PendingBy, Skipped
<1> QED BY <1>0, <1>3 DEF Given, Pending

LEMMA OverflowGives ==
  ASSUME Streams, StreamOK, Take, Overflow, host = "ready", ~mixed, Pending
  PROVE  Given
<1>0. /\ Head(rxbuf) # Newline /\ ~discard /\ discard' = TRUE
      /\ linebuf' = <<>> /\ Len(linebuf) = LineMax
      /\ host' = host /\ Reply("line too long")
  BY DEF Overflow
<1>1. PICK m, b, q : PendingBy(m, b, q)
  BY DEF Pending
<1>2. /\ Cuts(Ahead, m, b, q) /\ m = Len(owed)
      /\ \A k \in 1..m : owed[k] = Expected(q[k])
      /\ Len(linebuf) + b[0] = 0
  BY <1>0, <1>1, OwedFacts, PlacesFacts DEF PendingBy, Skipped
<1>3. /\ m \in Nat \ {0} /\ b[0] \in Int /\ b[0] <= 0 /\ q[1] \in Lines
      /\ Len(q[1]) >= 1 - b[0] /\ Cuts(Ahead', m, Sooner(b, m), q)
  BY <1>0, <1>2, TakeInLine
<1>4. Expected(q[1]) = "line too long"
  <2>1. LineMax \in Nat /\ Len(q[1]) \in Nat
    BY <1>3, LineFacts, PanelAssumption DEF PanelAssumption
  <2>2. LineMax + b[0] = 0
    BY <1>0, <1>2
  <2>3. Len(q[1]) > LineMax
    BY <1>3, <2>1, <2>2
  <2> QED BY <2>3 DEF Expected
<1>5. owed \in Seq(Answers) /\ owed # <<>> /\ owed[1] = "line too long"
  <2>1. owed \in Seq(Answers) /\ Len(owed) # 0
    BY <1>2, <1>3 DEF StreamOK
  <2>2. 1 \in 1..m
    BY <1>3
  <2>3. owed # <<>>
    BY <2>1
  <2>4. owed[1] = Expected(q[1])
    BY <1>2, <2>2
  <2> QED BY <1>4, <2>1, <2>3, <2>4, Zenon
<1>6. /\ ~mixed' /\ owed' \in Seq(Answers)
      /\ Len(owed') = Len(owed) - 1 /\ Len(owed) \in Nat \ {0}
      /\ \A i \in 1..Len(owed) - 1 : owed'[i] = owed[i + 1]
  BY <1>0, <1>5, DueAnswer
<1>7. \A k \in 1..m : k > 1 => owed'[k - 1] = Expected(q[k])
  <2>1. PICK o, p : o = owed /\ p = owed'
    OBVIOUS
  <2>2. /\ o \in Seq(Answers) /\ m = Len(o)
        /\ \A k \in 1..m : o[k] = Expected(q[k])
        /\ \A i \in 1..Len(o) - 1 : p[i] = o[i + 1]
    BY <1>2, <1>5, <1>6, <2>1, Zenon
  <2>3. \A k \in 1..m : k > 1 => p[k - 1] = Expected(q[k])
    BY <1>3, <2>2, AnswersAfterFirst
  <2> QED BY <2>1, <2>3, Zenon
<1>8. m = Len(owed') + 1
  BY <1>2, <1>6
<1>9. PendingBy(m, Sooner(b, m), q)'
  BY <1>0, <1>3, <1>7, <1>8 DEF PendingBy, Skipped
<1> QED BY <1>0, <1>6, <1>9 DEF Given, Pending

LEMMA SkippedEndGives ==
  ASSUME Streams, StreamOK, Take, EndOfLine, discard, host = "ready", ~mixed,
         Pending
  PROVE  Given
<1>0. /\ Head(rxbuf) = Newline /\ ~discard'
      /\ linebuf' = <<>>
      /\ host' = host /\ owed' = owed /\ mixed' = mixed
  BY DEF EndOfLine, Quiet
<1>1. PICK m, b, q : PendingBy(m, b, q)
  BY DEF Pending
<1>2. /\ Cuts(Ahead, m, b, q) /\ m = Len(owed) + 1
      /\ \A k \in 1..m : k > 1 => owed[k - 1] = Expected(q[k])
  BY <1>1 DEF PendingBy, Skipped
<1>3. /\ m \in Nat \ {0} /\ b[1] = 1
      /\ Cuts(Ahead', m - 1, SoonerRest(b, m), Rest(q, m))
  BY <1>0, <1>2, TakeLineEnd
<1>4. SoonerRest(b, m)[0] = 0
  <2>1. 0 \in 0..m - 1 /\ 0 + 1 = 1
    BY <1>3
  <2> QED BY <1>3, <2>1 DEF SoonerRest
<1>5. \A k \in 1..m - 1 : owed[k] = Expected(Rest(q, m)[k])
  <2>1. ASSUME NEW k \in 1..m - 1 PROVE owed[k] = Expected(q[k + 1])
    <3>1. k + 1 \in 1..m /\ k + 1 > 1 /\ (k + 1) - 1 = k
      BY <1>3
    <3> QED BY <1>2, <3>1
  <2> QED BY <2>1 DEF Rest
<1>6. m - 1 = Len(owed) + 0
  BY <1>2, OwedFacts
<1>7. PendingBy(m - 1, SoonerRest(b, m), Rest(q, m))'
  <2>1. \A k \in 1..m - 1 : owed[k - 0] = Expected(Rest(q, m)[k])
    BY <1>5
  <2>2. Len(<<>>) + 0 = 0 /\ \A j \in 1..Len(<<>>) : <<>>[j] = Rest(q, m)[1][j]
    BY NothingKept
  <2> QED BY <1>0, <1>3, <1>4, <1>6, <2>1, <2>2 DEF PendingBy, Skipped
<1> QED BY <1>0, <1>7 DEF Given, Pending

LEMMA EndOfLineGives ==
  ASSUME Streams, StreamOK, Len(linebuf) <= LineMax, Take, EndOfLine, ~discard,
         host = "ready", ~mixed, Pending
  PROVE  Given
<1>0. Head(rxbuf) = Newline /\ ~discard' /\ linebuf' = <<>>
  BY DEF EndOfLine
<1>1. PICK m, b, q : PendingBy(m, b, q)
  BY DEF Pending
<1>2. /\ Cuts(Ahead, m, b, q) /\ m = Len(owed)
      /\ \A k \in 1..m : owed[k] = Expected(q[k])
      /\ Len(linebuf) + b[0] = 0
      /\ \A j \in 1..Len(linebuf) : linebuf[j] = q[1][j]
  BY <1>1, OwedFacts, PlacesFacts DEF PendingBy, Skipped
<1>3. /\ m \in Nat \ {0} /\ q[1] \in Lines /\ b[0] \in Int
      /\ Len(q[1]) = -b[0] /\ b[1] = 1
      /\ Cuts(Ahead', m - 1, SoonerRest(b, m), Rest(q, m))
  BY <1>0, <1>2, TakeLineEnd
<1>4. linebuf = q[1]
  <2>1. linebuf \in Seq(Piece) /\ q[1] \in Seq(Piece) /\ Len(linebuf) = Len(q[1])
    BY <1>2, <1>3, LineFacts DEF Streams
  <2> QED BY <1>2, <2>1, SeqEqual
<1>5. /\ linebuf # <<>> /\ Dispatch(linebuf)
      /\ Expected(q[1]) = Answer(linebuf)
  <2>1. q[1] # <<>> /\ Len(q[1]) \in Nat
    BY <1>3, LineFacts, LinesAssumption DEF LinesAssumption
  <2>2. ~(Len(q[1]) > LineMax)
    BY <1>4, <2>1, PanelAssumption DEF PanelAssumption
  <2> QED BY <1>4, <2>1, <2>2 DEF EndOfLine, Expected
<1>6. Reply(Answer(linebuf)) /\ host' = "ready"
  BY <1>5, DispatchReplies, DispatchHost
<1>7. owed \in Seq(Answers) /\ owed # <<>> /\ owed[1] = Answer(linebuf)
  <2>1. owed \in Seq(Answers) /\ Len(owed) # 0
    BY <1>2, <1>3 DEF StreamOK
  <2>2. 1 \in 1..m
    BY <1>3
  <2>3. owed # <<>>
    BY <2>1
  <2>4. owed[1] = Expected(q[1])
    BY <1>2, <2>2
  <2> QED BY <1>5, <2>1, <2>3, <2>4, Zenon
<1>8. /\ ~mixed' /\ owed' \in Seq(Answers)
      /\ Len(owed') = Len(owed) - 1 /\ Len(owed) \in Nat \ {0}
      /\ \A i \in 1..Len(owed) - 1 : owed'[i] = owed[i + 1]
  BY <1>6, <1>7, DueAnswer
<1>9. \A k \in 1..m - 1 : owed'[k] = Expected(Rest(q, m)[k])
  <2>1. PICK o, p : o = owed /\ p = owed'
    OBVIOUS
  <2>2. /\ o \in Seq(Answers) /\ m = Len(o)
        /\ \A k \in 1..m : o[k] = Expected(q[k])
        /\ \A i \in 1..Len(o) - 1 : p[i] = o[i + 1]
    BY <1>2, <1>7, <1>8, <2>1, Zenon
  <2>3. \A k \in 1..m - 1 : p[k] = Expected(q[k + 1])
    BY <1>3, <2>2, AnswersAfterFirst
  <2>4. \A k \in 1..m - 1 : p[k] = Expected(Rest(q, m)[k])
    BY <2>3 DEF Rest
  <2> QED BY <2>1, <2>4, Zenon
<1>10. SoonerRest(b, m)[0] = 0
  <2>1. 0 \in 0..m - 1 /\ 0 + 1 = 1
    BY <1>3
  <2> QED BY <1>3, <2>1 DEF SoonerRest
<1>11. m - 1 = Len(owed') + 0
  BY <1>2, <1>3, <1>8
<1>12. PendingBy(m - 1, SoonerRest(b, m), Rest(q, m))'
  <2>1. \A k \in 1..m - 1 : owed'[k - 0] = Expected(Rest(q, m)[k])
    BY <1>9
  <2>2. Len(<<>>) + 0 = 0 /\ \A j \in 1..Len(<<>>) : <<>>[j] = Rest(q, m)[1][j]
    BY NothingKept
  <2> QED BY <1>0, <1>3, <1>10, <1>11, <2>1, <2>2 DEF PendingBy, Skipped
<1> QED BY <1>6, <1>8, <1>12 DEF Given, Pending

LEMMA TakeGives ==
  ASSUME Streams, StreamOK, Len(linebuf) <= LineMax, Take, host = "ready",
         ~mixed, Pending
  PROVE  Given
<1>1. CASE EndOfLine /\ discard
  BY <1>1, SkippedEndGives
<1>2. CASE EndOfLine /\ ~discard
  BY <1>2, EndOfLineGives
<1>3. CASE Skip
  BY <1>3, SkipGives
<1>4. CASE Keep
  BY <1>4, KeepGives
<1>5. CASE Overflow
  BY <1>5, OverflowGives
<1> QED BY <1>1, <1>2, <1>3, <1>4, <1>5 DEF Take

-----------------------------------------------------------------------------
(* The steps *)

LEMMA ReplyOwes ==
  ASSUME NEW S, owed \in Seq(S), NEW a, Reply(a)
  PROVE  /\ owed' \in Seq(S)
         /\ host \in {"down", "fresh"} => owed' = owed /\ mixed' = mixed
<1>1. owed # <<>> => Tail(owed) \in Seq(S)
  BY HeadTailProperties
<1> QED BY <1>1 DEF Reply

LEMMA TakeOwes ==
  ASSUME owed \in Seq(Answers), Take
  PROVE  /\ owed' \in Seq(Answers)
         /\ host' \in {"down", "fresh"} =>
              host' = host /\ owed' = owed /\ mixed' = mixed
<1>1. CASE Dispatch(linebuf)
  <2>1. Reply(Answer(linebuf)) /\ (host' = host \/ host' = "ready")
    BY <1>1, DispatchReplies, DispatchHost
  <2> QED BY <2>1, ReplyOwes
<1>2. CASE Quiet
  BY <1>2 DEF Quiet
<1>3. CASE Keep
  BY <1>3 DEF Keep, Quiet
<1>4. CASE Overflow
  <2>1. Reply("line too long") /\ host' = host
    BY <1>4 DEF Overflow
  <2> QED BY <2>1, ReplyOwes
<1> QED BY <1>1, <1>2, <1>3, <1>4, TakeCases

LEMMA StreamOKStep ==
  ASSUME TypeOK, StreamOK, [Next]_vars
  PROVE  StreamOK'
<1>0. /\ owed \in Seq(Answers)
      /\ pc \in {"top", "buttons", "read"} => rxbuf = <<>>
      /\ host \in {"down", "fresh"} => todo = <<>> /\ owed = <<>> /\ ~mixed
  BY DEF StreamOK
<1>1. CASE Poll
  <2>1. /\ pc = "top" /\ UNCHANGED <<rxbuf, todo, owed, mixed>>
        /\ host' = host \/ host' = "ready"
    BY <1>1 DEF Poll, Greet
  <2> QED BY <1>0, <2>1 DEF StreamOK
<1>2. CASE Buttons
  BY <1>0, <1>2 DEF Buttons, loopvars, hostvars, history, StreamOK
<1>3. CASE Read
  BY <1>0, <1>3 DEF Read, hostvars, history, StreamOK
<1>4. CASE Take
  <2>1. pc = "line" /\ UNCHANGED todo
    BY <1>4 DEF Take
  <2>2. pc' \in {"line", "rebooting"}
    BY <1>4, <2>1, TakeCases, DispatchTypes DEF Quiet, Keep, Overflow
  <2> QED BY <1>0, <1>4, <2>1, <2>2, TakeOwes DEF StreamOK
<1>5. CASE Refresh
  BY <1>0, <1>5 DEF Refresh, loopvars, hostvars, history, StreamOK
<1>6. CASE Connect
  <2>1. host = "down" /\ UNCHANGED <<pc, rxbuf, todo, owed, mixed>>
    BY <1>6 DEF Connect, Connected, loopvars, history
  <2> QED BY <1>0, <2>1 DEF StreamOK
<1>7. CASE Disconnect
  <2>1. todo' = <<>> /\ owed' = <<>> /\ ~mixed' /\ UNCHANGED <<pc, rxbuf>>
    BY <1>7 DEF Disconnect, loopvars
  <2> QED BY <1>0, <2>1, EmptySeq DEF StreamOK
<1>8. CASE Ask
  <2>1. host' = "asked" /\ owed' = <<"hello">> /\ UNCHANGED <<pc, rxbuf>>
    BY <1>8 DEF Ask, loopvars
  <2>2. <<"hello">> \in Seq(Answers)
    BY DEF Answers
  <2> QED BY <1>0, <2>1, <2>2 DEF StreamOK
<1>9. CASE SendPiece
  <2>1. todo # <<>> /\ UNCHANGED <<pc, rxbuf, host, owed, mixed>>
    BY <1>9 DEF SendPiece, loopvars, history
  <2> QED BY <1>0, <2>1 DEF StreamOK
<1>10. ASSUME NEW l \in Lines, BeginLine(l) PROVE StreamOK'
  <2>1. /\ host = "ready" /\ host' = host /\ UNCHANGED <<pc, rxbuf>>
        /\ owed' = Append(owed, Expected(l))
    BY <1>10 DEF BeginLine, loopvars
  <2>2. Expected(l) \in Answers
    BY DEF Answers
  <2>3. owed' \in Seq(Answers)
    BY <1>0, <2>1, <2>2, OwedGrows
  <2> QED BY <1>0, <2>1, <2>3 DEF StreamOK
<1>11. CASE Restart
  <2>1. rxbuf' = <<>> /\ todo' = <<>> /\ owed' = <<>> /\ ~mixed'
    BY <1>11 DEF Restart
  <2> QED BY <2>1, EmptySeq DEF StreamOK
<1>12. CASE UNCHANGED vars
  BY <1>0, <1>12 DEF vars, loopvars, hostvars, history, StreamOK
<1>13. CASE Arrive
  BY <1>0, <1>13 DEF Arrive, loopvars, hostvars, history, StreamOK
<1> QED BY <1>1, <1>2, <1>3, <1>4, <1>5, <1>6, <1>7, <1>8, <1>9, <1>10, <1>11,
           <1>12, <1>13 DEF Next, Pass, Host

LEMMA CleanOKStep ==
  ASSUME Streams, TypeOK, StreamOK, CleanOK, [Next]_vars
  PROVE  CleanOK'
<1> SUFFICES ASSUME clean'
             PROVE  /\ TcpsWorks /\ peer_was_connected' /\ host' = "ready"
                    /\ ~mixed' /\ Pending'
  BY DEF CleanOK
<1>0. ASSUME clean
      PROVE  /\ TcpsWorks /\ peer_was_connected /\ host = "ready"
             /\ ~mixed /\ Pending
  BY <1>0 DEF CleanOK
\* Nothing that concerns the stream changes.
<1>a. ASSUME UNCHANGED <<peer_was_connected, linebuf, discard, rxbuf, streamvars,
                         host, todo, clean, owed, mixed>>
      PROVE  CleanOK'
  <2>1. clean
    BY <1>a
  <2>2. Ahead' = Ahead
    BY <1>a DEF Ahead, streamvars
  <2>3. Pending'
    BY <1>0, <1>a, <2>1, <2>2, PendingSame
  <2> QED BY <1>0, <1>a, <2>1, <2>3 DEF CleanOK
<1>1. CASE Poll
  <2>0. rxbuf = <<>> /\ UNCHANGED <<rxbuf, air, todo, owed, mixed>>
    BY <1>1 DEF Poll, StreamOK
  <2>1. CASE Connected /\ TcpsWorks /\ ~peer_was_connected
    <3>1. /\ rx' = <<>> /\ linebuf' = <<>> /\ discard' = FALSE
          /\ host = "fresh" /\ air = <<>>
          /\ host' = "ready" /\ peer_was_connected'
      BY <1>1, <2>1 DEF Poll, Flush, Greet, DropHalfLine
    <3>2. todo = <<>> /\ owed = <<>> /\ ~mixed
      BY <3>1 DEF StreamOK
    <3>3. Ahead' = <<>>
      <4>1. Ahead' = <<>> \o (<<>> \o (<<>> \o <<>>))
        BY <2>0, <3>1, <3>2 DEF Ahead
      <4>2. <<>> \o <<>> = <<>>
        BY StreamFacts, ConcatEmptySeq
      <4> QED BY <4>1, <4>2
    <3>4. Pending'
      BY <2>0, <3>1, <3>2, <3>3, PendingNone
    <3> QED BY <2>0, <2>1, <3>1, <3>2, <3>4
  <2>2. CASE ~(Connected /\ TcpsWorks /\ ~peer_was_connected)
    <3>1. UNCHANGED <<rx, host, linebuf, discard, clean>>
      BY <1>1, <2>2 DEF Poll
    <3>2. clean
      BY <3>1
    <3>3. Connected /\ TcpsWorks
      BY <1>0, <3>2 DEF Connected
    <3>4. peer_was_connected'
      BY <1>1, <3>3 DEF Poll
    <3>5. Ahead' = Ahead
      BY <2>0, <3>1 DEF Ahead
    <3>6. Pending'
      BY <1>0, <2>0, <3>1, <3>2, <3>5, PendingSame
    <3> QED BY <1>0, <2>0, <3>1, <3>2, <3>4, <3>6
  <2> QED BY <2>1, <2>2
<1>2. CASE Buttons
  BY <1>2, <1>a DEF Buttons, loopvars, hostvars, history, CleanOK
<1>3. CASE Read
  <2>1. UNCHANGED <<peer_was_connected, linebuf, discard, air, host, todo, clean,
                    owed, mixed>>
    BY <1>3 DEF Read, hostvars, history
  <2>2. clean
    BY <2>1
  <2>3. Ahead' = Ahead
    <3> DEFINE n == IF Len(rx) < RxMax THEN Len(rx) ELSE RxMax
    <3>1. n \in 0..Len(rx) /\ rx \in Seq(Piece) /\ air \o todo \in Seq(Piece)
      BY PanelAssumption, ConcatProperties DEF PanelAssumption, Streams
    <3>2. rxbuf' = SubSeq(rx, 1, n) /\ rx' = SubSeq(rx, n + 1, Len(rx))
          /\ rxbuf = <<>>
      BY <1>3 DEF Read, StreamOK
    <3> HIDE DEF n
    <3>3. SubSeq(rx, 1, n) \o (SubSeq(rx, n + 1, Len(rx)) \o (air \o todo))
            = <<>> \o (rx \o (air \o todo))
      BY <3>1, ReadMoves
    <3> QED BY <2>1, <3>2, <3>3 DEF Ahead
  <2>4. Pending'
    BY <1>0, <2>1, <2>2, <2>3, PendingSame
  <2> QED BY <1>0, <2>1, <2>2, <2>4
<1>4. CASE Take
  <2>1. UNCHANGED <<peer_was_connected, clean>>
    BY <1>4 DEF Take
  <2>2. clean
    BY <2>1
  <2>3. Given
    BY <1>0, <1>4, <2>2, TakeGives DEF TypeOK
  <2> QED BY <1>0, <2>1, <2>2, <2>3 DEF Given
<1>5. CASE Refresh
  BY <1>5, <1>a DEF Refresh, loopvars, hostvars, history, CleanOK
<1>6. CASE Connect
  <2>1. ~Connected /\ UNCHANGED clean
    BY <1>6 DEF Connect, history
  <2> QED BY <1>0, <2>1 DEF Connected
<1>7. CASE Disconnect \/ Restart
  BY <1>7 DEF Disconnect, Restart
<1>8. CASE Ask
  <2>1. host = "fresh" /\ clean' = clean
    BY <1>8 DEF Ask
  <2> QED BY <1>0, <2>1
<1>9. CASE SendPiece
  <2>1. /\ todo # <<>> /\ todo' = Tail(todo) /\ air' = Append(air, Head(todo))
        /\ UNCHANGED <<peer_was_connected, linebuf, discard, rxbuf, rx, host,
                       clean, owed, mixed>>
    BY <1>9 DEF SendPiece, loopvars, history
  <2>2. clean
    BY <2>1
  <2>3. Ahead' = Ahead
    <3>1. Append(air, Head(todo)) \o Tail(todo) = air \o todo
      BY <2>1, SendMoves DEF Streams
    <3> QED BY <2>1, <3>1 DEF Ahead
  <2>4. Pending'
    BY <1>0, <2>1, <2>2, <2>3, PendingSame
  <2> QED BY <1>0, <2>1, <2>2, <2>4
<1>10. ASSUME NEW l \in Lines, BeginLine(l) PROVE CleanOK'
  <2>1. UNCHANGED <<peer_was_connected, host, clean, mixed>>
    BY <1>10 DEF BeginLine, loopvars
  <2>2. clean
    BY <2>1
  <2>3. Pending'
    BY <1>0, <1>10, <2>2, PendingMore
  <2> QED BY <1>0, <2>1, <2>2, <2>3 DEF CleanOK
<1>11. CASE UNCHANGED vars
  BY <1>11, <1>a DEF vars, loopvars, hostvars, history, CleanOK
<1>12. CASE Arrive
  <2>1. /\ air # <<>> /\ air' = Tail(air) /\ rx' = Append(rx, Head(air))
        /\ UNCHANGED <<peer_was_connected, linebuf, discard, rxbuf, host, todo,
                       clean, owed, mixed>>
    BY <1>12 DEF Arrive, loopvars, hostvars, history
  <2>2. clean
    BY <2>1
  <2>3. Ahead' = Ahead
    <3>1. /\ rx \in Seq(Piece) /\ air \in Seq(Piece) /\ todo \in Seq(Piece)
          /\ Append(rx, Head(air)) \in Seq(Piece) /\ Tail(air) \in Seq(Piece)
      BY <2>1, StreamFacts DEF Streams
    <3>2. Append(rx, Head(air)) \o Tail(air) = rx \o air
      BY <2>1, <3>1, SendMoves
    <3>0. \A a, b, c \in Seq(Piece) : (a \o b) \o c = a \o (b \o c)
      BY ConcatAssociative
    <3>3. Append(rx, Head(air)) \o (Tail(air) \o todo)
            = (Append(rx, Head(air)) \o Tail(air)) \o todo
      BY <3>0, <3>1, Zenon
    <3>4. rx \o (air \o todo) = (rx \o air) \o todo
      BY <3>0, <3>1, Zenon
    <3>5. Append(rx, Head(air)) \o (Tail(air) \o todo) = rx \o (air \o todo)
      BY <3>2, <3>3, <3>4, Zenon
    <3> QED BY <2>1, <3>5 DEF Ahead
  <2>4. Pending'
    BY <1>0, <2>1, <2>2, <2>3, PendingSame
  <2> QED BY <1>0, <2>1, <2>2, <2>4
<1> QED BY <1>1, <1>2, <1>3, <1>4, <1>5, <1>6, <1>7, <1>8, <1>9, <1>10, <1>11,
           <1>12
        DEF Next, Pass, Host, CleanOK

\* A host whose connect edge was seen, with nothing of an earlier connection still
\* on its way to the ring, gets exactly the answers to its own lines, in their
\* order (the flush and the line reset of main.c:237-240).
THEOREM AnswersAlwaysMatch == Spec => []AnswersMatch
<1>1. Init => Streams /\ TypeOK /\ StreamOK /\ CleanOK
  <2> SUFFICES ASSUME Init PROVE StreamOK /\ CleanOK
    BY StreamsInit, InitTypes
  <2>1. rxbuf = <<>> /\ todo = <<>> /\ owed = <<>> /\ ~mixed /\ ~clean
    BY DEF Init
  <2> QED BY <2>1, EmptySeq DEF StreamOK, CleanOK
<1>2. Streams /\ TypeOK /\ StreamOK /\ CleanOK /\ [Next]_vars
        => (Streams /\ TypeOK /\ StreamOK /\ CleanOK)'
  BY StreamsStep, TypeOKStep, StreamOKStep, CleanOKStep
<1>3. CleanOK => AnswersMatch
  BY DEF CleanOK, AnswersMatch
<1> QED BY <1>1, <1>2, <1>3, PTL DEF Spec
=============================================================================
