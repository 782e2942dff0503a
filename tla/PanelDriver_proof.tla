-------------------------- MODULE PanelDriver_proof --------------------------
(***************************************************************************)
(* Proofs about the ROS 2 driver and its panel, for every number of rings, *)
(* every set of values and any number of commands, faults and flips.       *)
(***************************************************************************)
EXTENDS PanelDriver, SequenceTheorems, TLAPS

-----------------------------------------------------------------------------
(* Types *)

Told == [k : {"hello", "btn"}, pressed : BOOLEAN]
Sent == Line \cup {HalfLine}

\* What the reader has read from the cache and not yet sent is a command.
HoldsCommand == reader = "send" => ix \in Target /\ held # None

LEMMA LineFacts ==
  /\ Line \subseteq Sent /\ HalfLine \in Sent /\ HalfLine \notin Line
  /\ \A l \in Sent : l # HalfLine => l \in Line
  /\ HelloRequest \in Line /\ None \notin Value /\ HelloRequest.k # "cmd"
  /\ \A t \in Target, v \in Value :
       /\ Command(t, v) \in Line /\ Command(t, v) # None
       /\ Command(t, v).k = "cmd" /\ Command(t, v).t = t
       /\ Command(t, v).v = v
  /\ \A l \in Line : l.k = "cmd" => l.t \in Target /\ l.v \in Value
  BY DriverAssumption DEF HelloRequest, Command, Line, HalfLine, Sent

LEMMA ToldFacts ==
  \A p \in BOOLEAN : /\ Hello(p) \in Told /\ Event(p) \in Told
                     /\ Hello(p).pressed = p /\ Event(p).pressed = p
                     /\ Hello(p).k = "hello" /\ Event(p).k = "btn"
  BY DEF Hello, Event, Told

LEMMA SeqFacts ==
  ASSUME NEW S, NEW s \in Seq(S)
  PROVE  /\ <<>> \in Seq(S)
         /\ \A e \in S : Append(s, e) \in Seq(S)
         /\ \A n \in 0..Len(s) : SubSeq(s, 1, n) \in Seq(S)
         /\ \A n \in 0..Len(s) : SubSeq(s, n + 1, Len(s)) \in Seq(S)
         /\ s # <<>> => Head(s) \in S /\ Tail(s) \in Seq(S)
<1>1. ASSUME NEW n \in 0..Len(s) PROVE SubSeq(s, 1, n) \in Seq(S)
  OBVIOUS
<1>2. s # <<>> => Head(s) \in S /\ Tail(s) \in Seq(S)
  OBVIOUS
<1>3. ASSUME NEW n \in 0..Len(s) PROVE SubSeq(s, n + 1, Len(s)) \in Seq(S)
  OBVIOUS
<1> QED BY <1>1, <1>2, <1>3

LEMMA SeqTail2 ==
  ASSUME NEW S, NEW s \in Seq(S), Len(s) > 1
  PROVE  Tail(Tail(s)) \in Seq(S)
<1>1. s # <<>> /\ Len(s) \in Nat
  OBVIOUS
<1>2. Tail(s) \in Seq(S) /\ Len(Tail(s)) = Len(s) - 1
  BY <1>1
<1>3. Len(Tail(s)) > 0
  BY <1>1, <1>2
<1>4. ASSUME NEW u \in Seq(S), Len(u) > 0 PROVE Tail(u) \in Seq(S)
  BY <1>4
<1> QED BY <1>2, <1>3, <1>4

\* The parts of the type invariant, by who writes them.
CacheOK ==
    /\ cache \in [Target -> Value \cup {None}]
    /\ line \in Line \cup {None} /\ cmds \in 0..MaxCmds
ReaderOK ==
    /\ held \in Value \cup {None} /\ ix \in 1..TARGETS + 1
    /\ reader \in {"connect", "recv", "replay", "send"}
    /\ HoldsCommand
HelloOK == hello_seen \in BOOLEAN /\ hello_requested \in BOOLEAN
WireOK == rx \in Seq(Sent) /\ tx \in Seq(Told)
LinkTypeOK == sock \in BOOLEAN /\ edge \in BOOLEAN /\ link \in {"none", "up", "dead"}
ButtonOK == published \in BOOLEAN \cup {None} /\ pressed \in BOOLEAN
PanelOK ==
    /\ shown \in [Target -> Value \cup {None}]
    /\ tcps \in BOOLEAN /\ cut \in BOOLEAN
    /\ faults \in 0..MaxFaults /\ flips \in 0..MaxFlips
Typed == /\ CacheOK /\ ReaderOK /\ HelloOK /\ WireOK
         /\ LinkTypeOK /\ ButtonOK /\ PanelOK

LEMMA CacheStep == Typed /\ [Next]_vars => CacheOK'
<1> SUFFICES ASSUME Typed, [Next]_vars PROVE CacheOK'
  OBVIOUS
<1>1. ASSUME NEW t \in Target, NEW v \in Value, OnCommand(t, v)
      PROVE  CacheOK'
  BY <1>1, LineFacts, DriverAssumption DEF OnCommand, Typed, CacheOK
<1>2. CASE SendCommand
  BY <1>2 DEF SendCommand, Typed, CacheOK
<1>3. CASE UNCHANGED <<cache, line, cmds>>
  BY <1>3 DEF Typed, CacheOK
<1> QED
  BY <1>1, <1>2, <1>3
  DEF Next, Reader, vars, cached, Connect, RecvHello, RecvEvent, Ask,
      ReadCache, SendHeld, EndReplay, Lost, Greet, Dispatch, DispatchMerged, Flip, Break,
      Restart

LEMMA ReaderStep == Typed /\ [Next]_vars => ReaderOK'
<1> SUFFICES ASSUME Typed, [Next]_vars PROVE ReaderOK'
  OBVIOUS
<1> USE DriverAssumption DEF Typed, ReaderOK, HoldsCommand, AfterHello, Target
<1>1. CASE Connect
  BY <1>1 DEF Connect
<1>2. CASE RecvHello
  BY <1>2 DEF RecvHello
<1>3. CASE ReadCache
  BY <1>3 DEF ReadCache, CacheOK
<1>4. CASE SendHeld
  BY <1>4 DEF SendHeld
<1>5. CASE EndReplay
  BY <1>5 DEF EndReplay
<1>6. CASE Lost
  BY <1>6 DEF Lost
<1>7. CASE UNCHANGED <<reader, ix, held>>
  BY <1>7
<1> QED
  BY <1>1, <1>2, <1>3, <1>4, <1>5, <1>6, <1>7
  DEF Next, Reader, vars, reading, RecvEvent, Ask, OnCommand, SendCommand,
      Greet, Dispatch, DispatchMerged, Flip, Break, Restart

LEMMA ReaderFlagsStep == Typed /\ [Next]_vars => HelloOK'
<1> SUFFICES ASSUME Typed, [Next]_vars PROVE HelloOK'
  OBVIOUS
<1>1. hello_seen' \in {hello_seen, TRUE, FALSE}
  BY DEF Next, Reader, vars, reading, Connect, RecvHello, RecvEvent, Ask,
         ReadCache, SendHeld, EndReplay, Lost, OnCommand, SendCommand, Greet,
         Dispatch, DispatchMerged, Flip, Break, Restart
<1>2. hello_requested' \in {hello_requested, TRUE, FALSE}
  BY DEF Next, Reader, vars, reading, Connect, RecvHello, RecvEvent, Ask,
         ReadCache, SendHeld, EndReplay, Lost, OnCommand, SendCommand, Greet,
         Dispatch, DispatchMerged, Flip, Break, Restart
<1> QED BY <1>1, <1>2 DEF Typed, HelloOK

\* What a step may do to the lines under way to the panel ...
LEMMA RxStep ==
  ASSUME Typed, [Next]_vars
  PROVE  \/ rx' = rx
         \/ \E l \in Line : rx' = Append(rx, l)
         \/ \E n \in 0..Len(rx) : \/ rx' = SubSeq(rx, 1, n)
                                  \/ rx' = Append(SubSeq(rx, 1, n), HalfLine)
                                  \/ rx' = SubSeq(rx, n + 1, Len(rx))
         \/ rx # <<>> /\ rx' = Tail(rx)
         \/ Len(rx) > 1 /\ rx' = Tail(Tail(rx))
         \/ rx' = <<>>
<1>1. CASE SendHeld
  <2>1. ix \in Target /\ held \in Value
    BY <1>1 DEF Typed, ReaderOK, HoldsCommand, SendHeld
  <2> QED BY <1>1, <2>1, LineFacts DEF SendHeld, Send
<1>2. CASE SendCommand
  BY <1>2 DEF SendCommand, Send, Typed, CacheOK
<1>3. CASE Ask
  BY <1>3, LineFacts DEF Ask, Send
<1> QED
  BY <1>1, <1>2, <1>3
  DEF Next, Reader, vars, Connect, RecvHello, RecvEvent, ReadCache, EndReplay,
      Lost, OnCommand, Greet, Dispatch, DispatchMerged, Flip, Break, Restart

\* ... and to those under way to the driver.
LEMMA TxStep ==
  ASSUME Typed, [Next]_vars
  PROVE  \/ tx' = tx
         \/ \E l \in Told : tx' = Append(tx, l)
         \/ tx # <<>> /\ tx' = Tail(tx)
         \/ tx' = <<>>
<1>1. Hello(pressed) \in Told /\ Event(~pressed) \in Told
  BY ToldFacts DEF Typed, ButtonOK
<1>2. CASE Greet \/ Dispatch \/ DispatchMerged \/ Flip
  BY <1>1, <1>2 DEF Greet, Dispatch, DispatchMerged, Obey, Flip, Tell
<1> QED
  BY <1>2
  DEF Next, Reader, vars, Connect, RecvHello, RecvEvent, Ask, ReadCache,
      SendHeld, EndReplay, Lost, OnCommand, SendCommand, Break, Restart

LEMMA WireStep == Typed /\ [Next]_vars => WireOK'
<1> SUFFICES ASSUME Typed, [Next]_vars PROVE WireOK'
  OBVIOUS
<1>0. rx \in Seq(Sent)
  BY DEF Typed, WireOK
<1>1. rx' \in Seq(Sent)
  <2>1. CASE Len(rx) > 1 /\ rx' = Tail(Tail(rx))
    BY <1>0, <2>1, SeqTail2
  <2>2. ASSUME NEW n \in 0..Len(rx), rx' = Append(SubSeq(rx, 1, n), HalfLine)
        PROVE  rx' \in Seq(Sent)
    <3>1. SubSeq(rx, 1, n) \in Seq(Sent)
      BY <1>0, SeqFacts
    <3>2. HalfLine \in Sent
      BY LineFacts
    <3> HIDE DEF Sent
    <3> QED BY <2>2, <3>1, <3>2, SeqFacts
  <2>3. ASSUME NEW l \in Line, rx' = Append(rx, l) PROVE rx' \in Seq(Sent)
    BY <1>0, <2>3, LineFacts, SeqFacts
  <2>4. ASSUME NEW n \in 0..Len(rx),
               rx' = SubSeq(rx, 1, n) \/ rx' = SubSeq(rx, n + 1, Len(rx))
        PROVE  rx' \in Seq(Sent)
    BY <1>0, <2>4, SeqFacts
  <2>5. CASE rx # <<>> /\ rx' = Tail(rx)
    BY <1>0, <2>5, SeqFacts
  <2>6. CASE rx' = <<>>
    BY <2>6
  <2>7. CASE rx' = rx
    BY <1>0, <2>7
  <2> QED BY <2>1, <2>2, <2>3, <2>4, <2>5, <2>6, <2>7, RxStep
<1>2. tx' \in Seq(Told)
  BY TxStep, SeqFacts DEF Typed, WireOK
<1> QED BY <1>1, <1>2 DEF WireOK

LEMMA LinkTypeStep == Typed /\ [Next]_vars => LinkTypeOK'
<1> SUFFICES ASSUME Typed, [Next]_vars PROVE LinkTypeOK'
  OBVIOUS
<1>1. sock' \in {sock, TRUE, FALSE}
  BY DEF Next, Reader, vars, Connect, RecvHello, RecvEvent, Ask, ReadCache,
         SendHeld, EndReplay, Lost, OnCommand, SendCommand, Greet, Dispatch, DispatchMerged,
         Flip, Break, Restart
<1>2. edge' \in {edge, tcps, FALSE}
  BY DEF Next, Reader, vars, panel, Connect, RecvHello, RecvEvent, Ask,
         ReadCache, SendHeld, EndReplay, Lost, OnCommand, SendCommand, Greet,
         Dispatch, DispatchMerged, Flip, Break, Restart
<1>3. link' \in {link, "none", "up", "dead"}
  BY DEF Next, Reader, vars, Connect, RecvHello, RecvEvent, Ask, ReadCache,
         SendHeld, EndReplay, Lost, OnCommand, SendCommand, Greet, Dispatch, DispatchMerged,
         Flip, Break, Restart
<1> QED BY <1>1, <1>2, <1>3 DEF Typed, LinkTypeOK, PanelOK

LEMMA ButtonStep == Typed /\ [Next]_vars => ButtonOK'
<1> SUFFICES ASSUME Typed, [Next]_vars PROVE ButtonOK'
  OBVIOUS
<1>1. tx # <<>> => Head(tx).pressed \in BOOLEAN
  <2>1. tx # <<>> => Head(tx) \in Told
    BY SeqFacts DEF Typed, WireOK
  <2> QED BY <2>1 DEF Told
<1>2. published' = published \/ (tx # <<>> /\ published' = Head(tx).pressed)
  BY DEF Next, Reader, vars, reading, Connect, RecvHello, RecvEvent, Ask,
         ReadCache, SendHeld, EndReplay, Lost, OnCommand, SendCommand, Greet,
         Dispatch, DispatchMerged, Flip, Break, Restart
<1>3. pressed' \in {pressed, ~pressed, TRUE, FALSE}
  BY DEF Next, Reader, vars, panel, Connect, RecvHello, RecvEvent, Ask,
         ReadCache, SendHeld, EndReplay, Lost, OnCommand, SendCommand, Greet,
         Dispatch, DispatchMerged, Flip, Break, Restart
<1>4. pressed' \in BOOLEAN
  BY <1>3 DEF Typed, ButtonOK
<1>5. published' \in BOOLEAN \cup {None}
  BY <1>1, <1>2 DEF Typed, ButtonOK
<1> QED BY <1>4, <1>5 DEF ButtonOK

LEMMA PanelStep == Typed /\ [Next]_vars => PanelOK'
<1> SUFFICES ASSUME Typed, [Next]_vars PROVE PanelOK'
  OBVIOUS
<1> USE DriverAssumption DEF Typed, PanelOK
<1>0. ASSUME NEW l \in Line, Obey(l)
      PROVE  shown' \in [Target -> Value \cup {None}]
  BY <1>0, LineFacts DEF Obey
<1>1. CASE Dispatch
  <2>1. Head(rx) \in Line
    BY <1>1, LineFacts, SeqFacts DEF Dispatch, WireOK
  <2> QED BY <1>0, <1>1, <2>1 DEF Dispatch
<1>1a. CASE DispatchMerged
  BY <1>0, <1>1a DEF DispatchMerged
<1>2. CASE Flip
  BY <1>2 DEF Flip
<1>3. CASE Break
  <2>1. cut' \in BOOLEAN
    BY <1>3 DEF Break
  <2>2. UNCHANGED <<shown, tcps, flips>> /\ faults' \in 0..MaxFaults
    BY <1>3 DEF Break
  <2> QED BY <2>1, <2>2
<1>4. CASE Restart
  <2>1. cut' \in BOOLEAN
    BY <1>4 DEF Restart
  <2>2. shown' = Dark /\ UNCHANGED <<tcps, flips>> /\ faults' \in 0..MaxFaults
    BY <1>4 DEF Restart
  <2> QED BY <2>1, <2>2 DEF Dark
<1>5. CASE UNCHANGED <<shown, tcps, cut, faults, flips>>
  BY <1>5
<1> QED
  BY <1>1, <1>1a, <1>2, <1>3, <1>4, <1>5
  DEF Next, Reader, vars, panel, Connect, RecvHello, RecvEvent, Ask, ReadCache,
      SendHeld, EndReplay, Lost, OnCommand, SendCommand, Greet

LEMMA InitTyped == Init => Typed
<1> SUFFICES ASSUME Init PROVE Typed
  OBVIOUS
<1> USE DriverAssumption DEF Init
<1>1. CacheOK /\ PanelOK
  <2>1. cut \in BOOLEAN /\ tcps \in BOOLEAN
    OBVIOUS
  <2>2. /\ Dark \in [Target -> Value \cup {None}] /\ cache = Dark /\ shown = Dark
        /\ cmds \in 0..MaxCmds /\ faults \in 0..MaxFaults /\ flips \in 0..MaxFlips
    BY DEF Dark
  <2>3. line \in Line \cup {None}
    OBVIOUS
  <2> QED BY <2>1, <2>2, <2>3 DEF CacheOK, PanelOK
<1>2. ReaderOK
  BY DEF ReaderOK, HoldsCommand
<1>3. HelloOK
  BY DEF HelloOK
<1>4. WireOK
  BY DEF WireOK
<1>5. LinkTypeOK
  BY DEF LinkTypeOK
<1>6. ButtonOK
  BY DEF ButtonOK
<1> QED BY <1>1, <1>2, <1>3, <1>4, <1>5, <1>6 DEF Typed

LEMMA WellTyped == Spec => []Typed
<1>1. Typed /\ [Next]_vars => Typed'
  BY CacheStep, ReaderStep, ReaderFlagsStep, WireStep, LinkTypeStep, ButtonStep,
     PanelStep DEF Typed
<1> QED BY <1>1, InitTyped, PTL DEF Spec

\* The driver, the lines under way and the panel are well typed: the reader
\* never sends what is not a command, and the panel is sent nothing else.
THEOREM TypeCorrect == Spec => []TypeOK
<1>1. Typed => TypeOK
  BY DEF Typed, CacheOK, ReaderOK, HelloOK, WireOK, LinkTypeOK, ButtonOK,
         PanelOK, TypeOK, Told, Sent
<1> QED BY <1>1, WellTyped, PTL

-----------------------------------------------------------------------------
(* The panel's button reaches the subscribers. *)

\* The reader holds a connection exactly while there is one, perhaps a dead
\* one; a panel can see an edge, and have told anything, on a live one only.
LinkOK ==
    /\ link = "none" <=> reader = "connect"
    /\ sock <=> reader # "connect"
    /\ edge => link = "up"
    /\ link # "up" => tx = <<>>

\* On a live link the last line told carries the state of the button; once it
\* has been heard, a hello among them, so does the topic.
TellsButton ==
    link = "up" =>
        /\ tx # <<>> => tx[Len(tx)].pressed = pressed
        /\ tx = <<>> /\ hello_seen => published = pressed

LEMMA LinkStep == Typed /\ LinkOK /\ [Next]_vars => LinkOK'
<1> SUFFICES ASSUME Typed, LinkOK, [Next]_vars PROVE LinkOK'
  OBVIOUS
<1> USE DEF LinkOK, LinkTypeOK, Typed
<1>1. CASE Connect
  BY <1>1 DEF Connect
<1>2. CASE RecvHello
  BY <1>2 DEF RecvHello, panel, AfterHello
<1>3. CASE RecvEvent
  BY <1>3 DEF RecvEvent, panel
<1>4. CASE Reader
  BY <1>1, <1>2, <1>3, <1>4
  DEF Reader, Ask, ReadCache, SendHeld, EndReplay, Lost, panel
<1>5. CASE Greet \/ Dispatch \/ DispatchMerged \/ Flip
  BY <1>5 DEF Greet, Dispatch, DispatchMerged, Obey, Flip, Tell, reading, panel
<1>6. CASE Break \/ Restart
  BY <1>6 DEF Break, Restart, reading, panel
<1>7. CASE UNCHANGED <<reader, sock, edge, link, tx>>
  BY <1>7
<1> QED
  BY <1>4, <1>5, <1>6, <1>7
  DEF Next, vars, reading, panel, OnCommand, SendCommand

\* What is told last on a live link carries the button's state.
LEMMA ToldLast ==
  ASSUME NEW s \in Seq(Told), NEW l \in Told
  PROVE  /\ Append(s, l) # <<>>
         /\ Append(s, l)[Len(Append(s, l))] = l
  OBVIOUS

LEMMA ToldNext ==
  ASSUME NEW s \in Seq(Told), s # <<>>
  PROVE  /\ Tail(s) # <<>> => Tail(s)[Len(Tail(s))] = s[Len(s)]
         /\ Tail(s) = <<>> => Head(s) = s[Len(s)]
  OBVIOUS

LEMMA ButtonToldStep ==
  Typed /\ LinkOK /\ TellsButton /\ [Next]_vars => TellsButton'
<1> SUFFICES ASSUME Typed, LinkOK, TellsButton, [Next]_vars, link' = "up"
             PROVE  /\ tx' # <<>> => tx'[Len(tx')].pressed = pressed'
                    /\ tx' = <<>> /\ hello_seen' => published' = pressed'
  BY DEF TellsButton
<1>0. tx \in Seq(Told) /\ pressed \in BOOLEAN
  BY DEF Typed, WireOK, ButtonOK
<1>1. CASE Connect
  BY <1>1 DEF Connect, LinkOK
<1>2. CASE RecvHello \/ RecvEvent
  <2>1. /\ tx # <<>> /\ tx' = Tail(tx) /\ published' = Head(tx).pressed
        /\ pressed' = pressed /\ link = "up"
    BY <1>2 DEF RecvHello, RecvEvent, panel
  <2>2. tx[Len(tx)].pressed = pressed
    BY <2>1 DEF TellsButton
  <2> QED BY <1>0, <2>1, <2>2, ToldNext
<1>3. CASE tx' = Append(tx, Hello(pressed)) /\ pressed' = pressed
  BY <1>0, <1>3, ToldLast, ToldFacts
<1>4. CASE Flip
  <2>1. /\ tx' = Append(tx, Event(~pressed)) /\ pressed' = ~pressed
    BY <1>4 DEF Flip, Tell
  <2>2. Event(~pressed) \in Told /\ Event(~pressed).pressed = ~pressed
    BY <1>0, ToldFacts
  <2> QED BY <1>0, <2>1, <2>2, ToldLast
<1>5. CASE UNCHANGED <<tx, hello_seen, published, pressed, link>>
  BY <1>5 DEF TellsButton
<1>6. CASE Greet \/ Dispatch \/ DispatchMerged
  BY <1>3, <1>5, <1>6 DEF Greet, Dispatch, DispatchMerged, Obey, Tell, reading
<1>7. CASE Break \/ Restart \/ Lost
  BY <1>7 DEF Break, Restart, Lost
<1> QED
  BY <1>1, <1>2, <1>4, <1>5, <1>6, <1>7
  DEF Next, Reader, vars, reading, panel, Ask, ReadCache, SendHeld, EndReplay,
      OnCommand, SendCommand

LEMMA ButtonTold == Spec => [](Typed /\ LinkOK /\ TellsButton)
<1>1. Init => LinkOK /\ TellsButton
  BY DEF Init, LinkOK, TellsButton
<1> QED BY <1>1, WellTyped, LinkStep, ButtonToldStep, PTL DEF Spec

\* Once greeted and with nothing under way, the topic holds the panel's button
\* state: no order of hellos, flips, broken links and restarts leaves it stale.
THEOREM ButtonPublished == Spec => []SettledPublishes
<1>1. TellsButton => SettledPublishes
  BY DEF TellsButton, SettledPublishes, Settled
<1> QED BY <1>1, ButtonTold, PTL

-----------------------------------------------------------------------------
(* The last command reaches the ring. *)

IsFor(l, t) == l.k = "cmd" /\ l.t = t

\* The last line under way for a target is its last command, or none is and the
\* target shows that command.
Lands(t) ==
    \/ \E i \in 1..Len(rx) :
          /\ rx[i] = Command(t, cache[t])
          /\ \A j \in i + 1..Len(rx) : ~IsFor(rx[j], t)
    \/ /\ shown[t] = cache[t]
       /\ \A j \in 1..Len(rx) : ~IsFor(rx[j], t)

\* The reader has still to read the target's command from the cache, or to send
\* what it read.
ReplayAhead(t) ==
    \/ ~hello_seen \/ edge
    \/ \E i \in 1..Len(tx) : tx[i].k = "hello"
    \/ reader \in {"replay", "send"} /\ ix <= t

\* What the two threads are about to send is what the cache holds.
SendsCache ==
    /\ reader = "send" => ix \in Target /\ held = cache[ix] /\ held # None
    /\ line # None =>
         \E t \in Target : cache[t] # None /\ line = Command(t, cache[t])

CommandsLand ==
    link = "up" =>
        \A t \in Target : cache[t] # None =>
            Lands(t) \/ ReplayAhead(t) \/ (line # None /\ line.t = t)

LEMMA SendsCacheStep ==
  ASSUME ~Overlap, Typed, SendsCache, [Next]_vars
  PROVE  SendsCache'
<1> USE DriverAssumption DEF SendsCache
<1>1. ASSUME NEW t \in Target, NEW v \in Value, OnCommand(t, v)
      PROVE  SendsCache'
  <2>1. cache'[t] = v /\ \A u \in Target \ {t} : cache'[u] = cache[u]
    BY <1>1 DEF OnCommand, Typed, CacheOK
  <2>2. reader' = "send" => ix' \in Target /\ held' = cache'[ix'] /\ held' # None
    BY <1>1, <2>1 DEF OnCommand, reading
  <2>3. cache'[t] # None /\ line' = Command(t, cache'[t])
    BY <1>1, <2>1 DEF OnCommand
  <2> QED BY <2>2, <2>3
<1>2. CASE SendCommand
  BY <1>2 DEF SendCommand, reading
<1>3. CASE ReadCache
  BY <1>3 DEF ReadCache, cached
<1>4. CASE Connect \/ RecvHello \/ SendHeld \/ EndReplay \/ Lost
  BY <1>4 DEF Connect, RecvHello, SendHeld, EndReplay, Lost, cached, AfterHello
<1>5. CASE UNCHANGED <<cache, line, reader, ix, held>>
  BY <1>5
<1> QED
  BY <1>1, <1>2, <1>3, <1>4, <1>5
  DEF Next, Reader, vars, cached, reading, RecvEvent, Ask, Greet, Dispatch, DispatchMerged,
      Flip, Break, Restart

\* A line that is no command for t, or is its last command, may follow.
LEMMA LandsAppend ==
  ASSUME NEW t \in Target, NEW l \in Line, rx \in Seq(Sent),
         rx' = Append(rx, l), cache'[t] = cache[t], shown'[t] = shown[t],
         (Lands(t) /\ ~IsFor(l, t)) \/ l = Command(t, cache[t])
  PROVE  Lands(t)'
<1>1. /\ Len(rx') = Len(rx) + 1 /\ Len(rx) \in Nat /\ rx'[Len(rx) + 1] = l
      /\ \A i \in 1..Len(rx) : rx'[i] = rx[i]
  OBVIOUS
<1>2. CASE l = Command(t, cache[t])
  BY <1>1, <1>2 DEF Lands
<1>3. CASE Lands(t) /\ ~IsFor(l, t)
  <2>1. \A j \in 1..Len(rx') : j \in 1..Len(rx) \/ j = Len(rx) + 1
    BY <1>1
  <2>2. \A i \in 1..Len(rx) : \A j \in i + 1..Len(rx') :
          j \in i + 1..Len(rx) \/ j = Len(rx) + 1
    BY <1>1
  <2>3. \A j \in 1..Len(rx) : IsFor(rx[j], t) <=> IsFor(rx'[j], t)
    BY <1>1
  <2>4. CASE \E i \in 1..Len(rx) :
               /\ rx[i] = Command(t, cache[t])
               /\ \A j \in i + 1..Len(rx) : ~IsFor(rx[j], t)
    <3>1. PICK i \in 1..Len(rx) :
               /\ rx[i] = Command(t, cache[t])
               /\ \A j \in i + 1..Len(rx) : ~IsFor(rx[j], t)
      BY <2>4
    <3>2. i \in 1..Len(rx') /\ rx'[i] = Command(t, cache'[t])
      BY <1>1, <3>1
    <3>3. \A j \in i + 1..Len(rx') : ~IsFor(rx'[j], t)
      <4> TAKE j \in i + 1..Len(rx')
      <4>1. CASE j = Len(rx) + 1
        BY <1>1, <1>3, <4>1
      <4>2. CASE j \in i + 1..Len(rx)
        <5>1. j \in 1..Len(rx)
          BY <4>2, <1>1
        <5> QED BY <1>1, <3>1, <4>2, <5>1
      <4> QED BY <2>2, <4>1, <4>2
    <3> QED BY <3>2, <3>3 DEF Lands
  <2>5. CASE shown[t] = cache[t] /\ \A j \in 1..Len(rx) : ~IsFor(rx[j], t)
    <3>1. \A j \in 1..Len(rx') : ~IsFor(rx'[j], t)
      BY <1>1, <1>3, <2>1, <2>5
    <3> QED BY <2>5, <3>1 DEF Lands
  <2> QED BY <1>3, <2>4, <2>5 DEF Lands
<1> QED BY <1>2, <1>3

\* Taking in the oldest line brings the rest closer.
LEMMA LandsTail ==
  ASSUME NEW t \in Target, rx \in Seq(Sent), rx # <<>>,
         rx' = Tail(rx), cache'[t] = cache[t], Lands(t),
         IsFor(Head(rx), t) => shown'[t] = Head(rx).v,
         ~IsFor(Head(rx), t) => shown'[t] = shown[t],
         Command(t, cache[t]).v = cache[t]
  PROVE  Lands(t)'
<1>1. /\ Len(rx') = Len(rx) - 1 /\ Len(rx) \in Nat \ {0} /\ Head(rx) = rx[1]
      /\ \A i \in 1..Len(rx') : rx'[i] = rx[i + 1] /\ i + 1 \in 1..Len(rx)
  OBVIOUS
<1>2. ASSUME \A j \in 2..Len(rx) : ~IsFor(rx[j], t)
      PROVE  \A j \in 1..Len(rx') : ~IsFor(rx'[j], t)
  <2> TAKE j \in 1..Len(rx')
  <2>1. j + 1 \in 2..Len(rx) /\ rx'[j] = rx[j + 1]
    BY <1>1
  <2> QED BY <1>2, <2>1
<1>3. CASE \E i \in 1..Len(rx) :
             /\ rx[i] = Command(t, cache[t])
             /\ \A j \in i + 1..Len(rx) : ~IsFor(rx[j], t)
  <2>1. PICK i \in 1..Len(rx) :
             /\ rx[i] = Command(t, cache[t])
             /\ \A j \in i + 1..Len(rx) : ~IsFor(rx[j], t)
    BY <1>3
  <2>2. CASE i = 1
    <3>1. shown'[t] = cache'[t]
      BY <1>1, <2>1, <2>2 DEF Command, IsFor
    <3>2. \A j \in 1..Len(rx') : ~IsFor(rx'[j], t)
      BY <1>2, <2>1, <2>2
    <3> QED BY <3>1, <3>2 DEF Lands
  <2>3. CASE i # 1
    <3>1. i - 1 \in 1..Len(rx') /\ rx'[i - 1] = Command(t, cache'[t])
      BY <1>1, <2>1, <2>3
    <3>2. \A j \in (i - 1) + 1..Len(rx') : ~IsFor(rx'[j], t)
      <4> TAKE j \in (i - 1) + 1..Len(rx')
      <4>1. j \in 1..Len(rx') /\ j + 1 \in i + 1..Len(rx)
        BY <1>1, <2>3
      <4>2. rx'[j] = rx[j + 1]
        BY <1>1, <4>1
      <4> QED BY <2>1, <4>1, <4>2
    <3> QED BY <3>1, <3>2 DEF Lands
  <2> QED BY <2>2, <2>3
<1>4. CASE shown[t] = cache[t] /\ \A j \in 1..Len(rx) : ~IsFor(rx[j], t)
  <2>1. ~IsFor(Head(rx), t)
    BY <1>1, <1>4
  <2>2. \A j \in 1..Len(rx') : ~IsFor(rx'[j], t)
    BY <1>1, <1>2, <1>4
  <2> QED BY <1>4, <2>1, <2>2 DEF Lands
<1> QED BY <1>3, <1>4 DEF Lands

LEMMA LandsKept ==
  ASSUME NEW t \in Target, rx' = rx, cache'[t] = cache[t],
         shown'[t] = shown[t], Lands(t)
  PROVE  Lands(t)'
  BY DEF Lands


\* A command is awaited where neither thread has still to send it.
Awaits(t) == Lands(t) \/ ReplayAhead(t) \/ (line # None /\ line.t = t)

\* Told lines that stay under way keep a hello among them.
LEMMA HelloAhead ==
  ASSUME NEW s \in Seq(Told), NEW l \in Told, NEW i \in 1..Len(s),
         s[i].k = "hello"
  PROVE  /\ \E j \in 1..Len(Append(s, l)) : Append(s, l)[j].k = "hello"
         /\ Head(s).k # "hello" =>
              \E j \in 1..Len(Tail(s)) : Tail(s)[j].k = "hello"
<1>1. i \in 1..Len(Append(s, l)) /\ Append(s, l)[i] = s[i]
  OBVIOUS
<1>2. ASSUME Head(s).k # "hello"
      PROVE  i - 1 \in 1..Len(Tail(s)) /\ Tail(s)[i - 1] = s[i]
  <2>1. i # 1
    BY <1>2
  <2> QED BY <2>1
<1> QED BY <1>1, <1>2

\* On a live link a half-line is the oldest line and nobody has been greeted
\* behind it: only the line it swallows or the edge takes it away.
HalfOK ==
    link = "up" => \A i \in 1..Len(rx) : rx[i] = HalfLine =>
        i = 1 /\ ~hello_seen /\ \A j \in 1..Len(tx) : tx[j].k # "hello"

LEMMA HalfStep ==
  ASSUME Typed, LinkOK, HalfOK, [Next]_vars
  PROVE  HalfOK'
<1> SUFFICES ASSUME link' = "up", NEW i \in 1..Len(rx'), rx'[i] = HalfLine
             PROVE  i = 1 /\ ~hello_seen' /\ \A j \in 1..Len(tx') : tx'[j].k # "hello"
  BY DEF HalfOK
<1>0. rx \in Seq(Sent) /\ tx \in Seq(Told)
  BY DEF Typed, WireOK
<1>1. CASE Connect
  <2>1. tx' = <<>> /\ ~hello_seen' /\ rx' \in {<<>>, <<HalfLine>>}
    BY <1>1 DEF Connect, LinkOK
  <2> QED BY <2>1
<1>2. CASE link = "up" /\ UNCHANGED <<rx, tx, hello_seen>>
  BY <1>2 DEF HalfOK
<1>3. CASE RecvHello
  <2>1. link = "up" /\ rx' = rx /\ tx # <<>> /\ tx[1].k = "hello" /\ 1 \in 1..Len(tx)
    BY <1>0, <1>3 DEF RecvHello
  <2> QED BY <2>1 DEF HalfOK
<1>4. CASE RecvEvent
  <2>1. link = "up" /\ UNCHANGED <<rx, hello_seen>> /\ tx # <<>> /\ tx' = Tail(tx)
    BY <1>4 DEF RecvEvent
  <2>2. \A j \in 1..Len(tx') : j + 1 \in 1..Len(tx) /\ tx'[j] = tx[j + 1]
    BY <1>0, <2>1
  <2> QED BY <2>1, <2>2 DEF HalfOK
<1>5. ASSUME NEW l \in Line, link = "up", rx' = Append(rx, l),
             UNCHANGED <<tx, hello_seen>>
      PROVE  i = 1 /\ ~hello_seen' /\ \A j \in 1..Len(tx') : tx'[j].k # "hello"
  <2>1. l # HalfLine
    BY <1>5, LineFacts
  <2>2. i \in 1..Len(rx) /\ rx[i] = HalfLine
    BY <1>0, <1>5, <2>1
  <2> QED BY <1>5, <2>2 DEF HalfOK
<1>6. CASE Ask
  BY <1>2, <1>5, <1>6, LineFacts DEF Ask, Send
<1>7. CASE SendHeld
  <2>1. Command(ix, held) \in Line
    BY <1>7, LineFacts DEF SendHeld, Typed, ReaderOK, HoldsCommand
  <2> QED BY <1>2, <1>5, <1>7, <2>1 DEF SendHeld, Send
<1>8. CASE SendCommand
  <2>1. line \in Line
    BY <1>8 DEF SendCommand, Typed, CacheOK
  <2> QED BY <1>2, <1>5, <1>8, <2>1 DEF SendCommand, Send, reading
\* What is left of the lines under way once the oldest is gone has no half-line.
<1>9. ASSUME link = "up", NEW n \in 1..Len(rx), rx' = SubSeq(rx, n + 1, Len(rx))
      PROVE  FALSE
  <2>1. i + n \in 1..Len(rx) /\ rx'[i] = rx[i + n] /\ i + n # 1
    BY <1>0, <1>9
  <2> QED BY <1>9, <2>1 DEF HalfOK
<1>10. CASE Greet
  <2>1. PICK n \in 0..Len(rx) : n >= Halves /\ rx' = SubSeq(rx, n + 1, Len(rx))
    BY <1>10 DEF Greet
  <2>2. link = "up"
    BY <1>10 DEF Greet
  <2>3. n = 0
    BY <1>9, <2>1, <2>2
  <2>4. rx' = rx
    BY <1>0, <2>1, <2>3
  <2>5. i = 1 /\ Head(rx) = HalfLine /\ rx # <<>>
    BY <1>0, <2>2, <2>4 DEF HalfOK
  <2> QED BY <2>1, <2>3, <2>5 DEF Halves
<1>11. CASE Dispatch
  <2>1. rx # <<>> /\ rx' = SubSeq(rx, 1 + 1, Len(rx)) /\ 1 \in 1..Len(rx)
    BY <1>0, <1>11 DEF Dispatch
  <2> QED BY <1>9, <1>11, <2>1 DEF Dispatch
<1>12. CASE DispatchMerged
  <2>1. rx' = SubSeq(rx, 2 + 1, Len(rx)) /\ 2 \in 1..Len(rx)
    BY <1>0, <1>12 DEF DispatchMerged
  <2> QED BY <1>9, <1>12, <2>1 DEF DispatchMerged
<1>13. CASE Flip
  <2>1. /\ link = "up" /\ tx' = Append(tx, Event(~pressed))
        /\ UNCHANGED <<rx, hello_seen>>
    BY <1>13 DEF Flip, Tell, reading
  <2>2. Event(~pressed) \in Told /\ Event(~pressed).k # "hello"
    BY ToldFacts DEF Typed, ButtonOK
  <2>3. \A j \in 1..Len(tx') : tx'[j].k = "hello" => j \in 1..Len(tx) /\ tx'[j] = tx[j]
    BY <1>0, <2>1, <2>2
  <2> QED BY <2>1, <2>3 DEF HalfOK
<1>14. CASE Lost \/ Break \/ Restart
  BY <1>14 DEF Lost, Break, Restart
<1> QED
  BY <1>1, <1>2, <1>3, <1>4, <1>6, <1>7, <1>8, <1>10, <1>11, <1>12, <1>13, <1>14
  DEF Next, Reader, vars, reading, ReadCache, EndReplay, OnCommand

LEMMA LandStep ==
  ASSUME ~Overlap, Typed, LinkOK, SendsCache, HalfOK, CommandsLand, [Next]_vars
  PROVE  CommandsLand'
<1> SUFFICES ASSUME link' = "up", NEW t \in Target, cache'[t] # None
             PROVE  Awaits(t)'
  BY DEF CommandsLand, Awaits
<1> DEFINE Kept == cache'[t] = cache[t] /\ shown'[t] = shown[t]
<1>0. rx \in Seq(Sent) /\ tx \in Seq(Told)
  BY DEF Typed, WireOK
<1>1. link = "up" /\ cache[t] # None => Awaits(t)
  BY DEF CommandsLand, Awaits
<1>2. CASE Connect
  BY <1>2 DEF Connect, Awaits, ReplayAhead
<1>3. CASE RecvHello
  BY <1>3 DEF RecvHello, Awaits, ReplayAhead, AfterHello, Target
<1>4. CASE RecvEvent
  <2>1. link = "up" /\ Kept /\ UNCHANGED <<rx, line, hello_seen, edge, reader, ix>>
    BY <1>4 DEF RecvEvent, cached, panel
  <2>2. Lands(t) => Lands(t)'
    BY <2>1 DEF Lands
  <2>3. ReplayAhead(t) => ReplayAhead(t)'
    BY <1>0, <1>4, <2>1, HelloAhead, ToldFacts DEF ReplayAhead, RecvEvent
  <2> QED BY <1>1, <2>1, <2>2, <2>3 DEF Awaits
<1>5. CASE Ask
  <2>1. /\ link = "up" /\ Kept /\ rx' = Append(rx, HelloRequest)
        /\ UNCHANGED <<tx, line, hello_seen, edge, reader, ix>>
    BY <1>5 DEF Ask, Send, cached, panel, LinkOK
  <2>2. HelloRequest \in Line /\ ~IsFor(HelloRequest, t)
    BY LineFacts DEF IsFor
  <2>3. Lands(t) => Lands(t)'
    BY <1>0, <2>1, <2>2, LandsAppend
  <2>4. ReplayAhead(t) => ReplayAhead(t)'
    BY <2>1 DEF ReplayAhead
  <2> QED BY <1>1, <2>1, <2>3, <2>4 DEF Awaits
<1>6. CASE ReadCache
  <2>1. /\ link = "up" /\ Kept
        /\ UNCHANGED <<rx, tx, line, hello_seen, edge>>
    BY <1>6 DEF ReadCache, cached, panel
  <2>2. Lands(t) => Lands(t)'
    BY <2>1 DEF Lands
  <2>3. ReplayAhead(t) => ReplayAhead(t)'
    <3>1. ix \in Int /\ t \in Int
      BY DriverAssumption DEF Target, Typed, ReaderOK
    <3>2. ix <= t => reader' \in {"replay", "send"} /\ ix' <= t
      BY <1>6, <2>1, <3>1 DEF ReadCache
    <3> QED BY <1>6, <2>1, <3>2 DEF ReplayAhead, ReadCache
  <2> QED BY <1>1, <2>1, <2>2, <2>3 DEF Awaits
<1>7. CASE SendHeld
  <2>1. /\ link = "up" /\ Kept /\ rx' = Append(rx, Command(ix, held))
        /\ UNCHANGED <<tx, line, hello_seen, edge>>
        /\ ix \in Target /\ held = cache[ix] /\ held \in Value
    BY <1>7 DEF SendHeld, Send, cached, panel, LinkOK, SendsCache, Typed, ReaderOK
  <2>2. Command(ix, held) \in Line /\ Command(ix, held).t = ix
    BY <2>1, LineFacts
  <2>3. CASE t = ix
    BY <1>0, <2>1, <2>2, <2>3, LandsAppend DEF Awaits
  <2>4. CASE t # ix
    <3>1. ~IsFor(Command(ix, held), t)
      BY <2>2, <2>4 DEF IsFor
    <3>2. Lands(t) => Lands(t)'
      BY <1>0, <2>1, <2>2, <3>1, LandsAppend
    <3>3. ix <= t => ix' <= t /\ reader' = "replay"
      BY <1>7, <2>1, <2>4, DriverAssumption DEF SendHeld, Target
    <3>4. ReplayAhead(t) => ReplayAhead(t)'
      BY <2>1, <3>3 DEF ReplayAhead
    <3> QED BY <1>1, <2>1, <3>2, <3>4 DEF Awaits
  <2> QED BY <2>3, <2>4
<1>8. CASE EndReplay
  <2>1. /\ link = "up" /\ Kept
        /\ UNCHANGED <<rx, tx, line, hello_seen, edge>>
    BY <1>8 DEF EndReplay, cached, panel
  <2>2. Lands(t) => Lands(t)'
    BY <2>1 DEF Lands
  <2>3. ~(ix <= t)
    BY <1>8, DriverAssumption DEF EndReplay, Target, Typed, ReaderOK
  <2>4. ReplayAhead(t) => ReplayAhead(t)'
    BY <2>1, <2>3 DEF ReplayAhead
  <2> QED BY <1>1, <2>1, <2>2, <2>4 DEF Awaits
<1>9. ASSUME NEW u \in Target, NEW v \in Value, OnCommand(u, v)
      PROVE  Awaits(t)'
  <2>1. /\ link = "up" /\ shown' = shown
        /\ UNCHANGED <<rx, tx, hello_seen, edge, reader, ix>>
        /\ line = None /\ line' = Command(u, v)
        /\ cache' = [cache EXCEPT ![u] = v]
    BY <1>9 DEF OnCommand, reading, panel
  <2>2. CASE t = u
    BY <2>1, <2>2, LineFacts DEF Awaits
  <2>3. CASE t # u
    <3>1. cache'[t] = cache[t]
      BY <2>1, <2>3 DEF Typed, CacheOK
    <3>2. Lands(t) => Lands(t)'
      BY <2>1, <3>1 DEF Lands
    <3>3. ReplayAhead(t) => ReplayAhead(t)'
      BY <2>1 DEF ReplayAhead
    <3> QED BY <1>1, <2>1, <3>1, <3>2, <3>3 DEF Awaits
  <2> QED BY <2>2, <2>3
<1>10. CASE SendCommand
  <2>1. /\ link = "up" /\ Kept /\ UNCHANGED <<tx, hello_seen, edge, reader, ix>>
        /\ line # None /\ reader # "connect"
    BY <1>10 DEF SendCommand, reading, panel, LinkOK
  <2>2. rx' = Append(rx, line) /\ line \in Line
    BY <1>10, <2>1 DEF SendCommand, Send, LinkOK, Typed, CacheOK
  <2>3. PICK u \in Target : cache[u] # None /\ line = Command(u, cache[u])
    BY <2>1 DEF SendsCache
  <2>4. cache[u] \in Value
    BY <2>3 DEF Typed, CacheOK
  <2>5. line.t = u
    BY <2>3, <2>4, LineFacts
  <2>6. CASE t = u
    BY <1>0, <2>1, <2>2, <2>3, <2>6, LandsAppend DEF Awaits
  <2>7. CASE t # u
    <3>1. ~IsFor(line, t)
      BY <2>5, <2>7 DEF IsFor
    <3>2. Lands(t) => Lands(t)'
      BY <1>0, <2>1, <2>2, <3>1, LandsAppend
    <3>3. ReplayAhead(t) => ReplayAhead(t)'
      BY <2>1 DEF ReplayAhead
    <3> QED BY <1>1, <2>1, <2>5, <2>7, <3>2, <3>3 DEF Awaits
  <2> QED BY <2>6, <2>7
<1>11. CASE Greet
  <2>1. tx' = Append(tx, Hello(pressed)) /\ Hello(pressed) \in Told
    BY <1>11, ToldFacts DEF Greet, Tell, Typed, ButtonOK
  <2>2. Len(tx') \in 1..Len(tx') /\ tx'[Len(tx')] = Hello(pressed)
    BY <1>0, <2>1, ToldLast
  <2>3. tx'[Len(tx')].k = "hello"
    BY <2>2, ToldFacts DEF Typed, ButtonOK
  <2> QED BY <2>2, <2>3 DEF Awaits, ReplayAhead
<1>12. CASE Dispatch
  <2>1. /\ link = "up" /\ cache' = cache /\ rx # <<>> /\ rx' = Tail(rx)
        /\ UNCHANGED <<line, hello_seen, edge, reader, ix>>
    BY <1>12 DEF Dispatch, cached, reading
  <2>2. Head(rx) \in Line /\ cache[t] \in Value
    BY <1>0, <1>12, <2>1, SeqFacts, LineFacts DEF Dispatch, Typed, CacheOK
  <2>3. /\ IsFor(Head(rx), t) => shown'[t] = Head(rx).v
        /\ ~IsFor(Head(rx), t) => shown'[t] = shown[t]
    BY <1>12, <2>2, LineFacts DEF Dispatch, Obey, IsFor, Typed, PanelOK
  <2>4. Lands(t) => Lands(t)'
    BY <1>0, <2>1, <2>2, <2>3, LandsTail, LineFacts
  <2>5. tx' = tx \/ (tx' = Append(tx, Hello(pressed)) /\ Hello(pressed) \in Told)
    BY <1>12, ToldFacts DEF Dispatch, Obey, Tell, Typed, ButtonOK
  <2>6. ReplayAhead(t) => ReplayAhead(t)'
    BY <1>0, <2>1, <2>5, HelloAhead DEF ReplayAhead
  <2> QED BY <1>1, <2>1, <2>4, <2>6 DEF Awaits
<1>12a. CASE DispatchMerged
  <2>1. link = "up" /\ hello_seen' = hello_seen /\ 1 \in 1..Len(rx) /\ rx[1] = HalfLine
    BY <1>0, <1>12a DEF DispatchMerged, reading
  <2> QED BY <2>1 DEF HalfOK, Awaits, ReplayAhead
<1>13. CASE Flip
  <2>1. /\ link = "up" /\ Kept /\ UNCHANGED <<rx, line, hello_seen, edge, reader, ix>>
    BY <1>13 DEF Flip, cached, reading
  <2>2. tx' = Append(tx, Event(~pressed)) /\ Event(~pressed) \in Told
    BY <1>13, <2>1, ToldFacts DEF Flip, Tell, Typed, ButtonOK
  <2>3. Lands(t) => Lands(t)'
    BY <2>1 DEF Lands
  <2>4. ReplayAhead(t) => ReplayAhead(t)'
    BY <1>0, <2>1, <2>2, HelloAhead DEF ReplayAhead
  <2> QED BY <1>1, <2>1, <2>3, <2>4 DEF Awaits
<1>14. CASE Lost \/ Break \/ Restart
  BY <1>14 DEF Lost, Break, Restart
<1>15. CASE UNCHANGED vars
  <2>1. /\ link = "up" /\ Kept
        /\ UNCHANGED <<rx, tx, line, hello_seen, edge, reader, ix>>
    BY <1>15 DEF vars, cached, reading, panel
  <2> QED BY <1>1, <2>1 DEF Awaits, Lands, ReplayAhead
<1> QED
  BY <1>2, <1>3, <1>4, <1>5, <1>6, <1>7, <1>8, <1>9, <1>10, <1>11, <1>12,
     <1>12a, <1>13, <1>14, <1>15
  DEF Next, Reader

\* On a greeted live link, with nothing under way, every target shows its last
\* command, in whatever order the callbacks, the reader's replay, the greeting,
\* broken links and restarts came - as long as no callback replaces a command
\* that the reader has read and not yet sent.
THEOREM CommandsShown == ~Overlap => (Spec => []SettledShows)
<1> SUFFICES ASSUME ~Overlap PROVE Spec => []SettledShows
  OBVIOUS
<1>1. Init => SendsCache /\ HalfOK /\ CommandsLand
  BY DEF Init, SendsCache, HalfOK, CommandsLand
<1>2. Typed /\ SendsCache /\ [Next]_vars => SendsCache'
  BY SendsCacheStep
<1>3. /\ Typed /\ LinkOK /\ SendsCache /\ HalfOK /\ CommandsLand
      /\ [Next]_vars
      => HalfOK' /\ CommandsLand'
  BY HalfStep, LandStep
<1>4. SendsCache /\ CommandsLand /\ Typed => SettledShows
  <2> SUFFICES ASSUME Typed, CommandsLand, Settled, NEW t \in Target, cache[t] # None
               PROVE  shown[t] = cache[t]
    BY DEF SettledShows
  <2>1. Lands(t) \/ ReplayAhead(t)
    BY DEF CommandsLand, Settled
  <2>2. Len(rx) = 0 /\ Len(tx) = 0
    BY DEF Settled
  <2>3. ~ReplayAhead(t)
    BY <2>2 DEF ReplayAhead, Settled
  <2> QED BY <2>1, <2>2, <2>3 DEF Lands
<1> QED BY <1>1, <1>2, <1>3, <1>4, ButtonTold, PTL DEF Spec

=============================================================================
