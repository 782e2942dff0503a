--------------------------- MODULE Keepalive_proof ---------------------------
(***************************************************************************)
(* Theorems about the driver's clock, for all periods that leave the room  *)
(* Patience and EdgeIsQuick ask for.                                       *)
(*                                                                         *)
(* While pings and answers get through, quiet is bounded by a ladder: each *)
(* ping that is lost adds at most one keepalive period and one recv.       *)
(***************************************************************************)
EXTENDS Keepalive, TLAPS

\* What one more lost ping may cost.
Rung == KeepalivePeriod + Poll

\* Edge and age tell the same time, so no request is made before the edge is over.
EdgeOK ==
    link = "up" =>
        /\ edge # Never => edge + age = EdgeDelay
        /\ hello_requested => edge = Never

\* The hello will come by itself, is on its way, or will be asked for at the next
\* look at the clock; unless that was done, and in vain.
GreetOK ==
    link = "up" /\ ~hello_seen =>
        /\ hello_requested \/ age - pass < Grace
        /\ sees => edge # Never \/ helloDue # Never
        /\ hello_requested => helloDue # Never \/ (~sees /\ missed)
        /\ helloDue # Never => age + helloDue <= Grace + Poll + MaxDelay

\* How long the link may have been quiet: with an answer on its way, after `lost'
\* pings without one, or before any ping.
LadderOK ==
    link = "up" =>
        /\ due # Never => quiet + due <= (lost + 1) * Rung + MaxDelay
        /\ due = Never /\ lost = 0 =>
               /\ sincePing >= quiet
               /\ quiet - pass < KeepalivePeriod
        /\ due = Never /\ lost # 0 =>
               /\ sincePing <= quiet
               /\ sincePing - pass < KeepalivePeriod
               /\ quiet <= lost * Rung + sincePing

Inv == TypeOK /\ NoticedInTime /\ EdgeOK /\ GreetOK /\ LadderOK

-----------------------------------------------------------------------------
(* Arithmetic of the ladder *)

LEMMA RungPositive == Rung \in Nat /\ Rung > 0
BY KeepaliveAssumption DEF Rung

LEMMA Climb ==
    ASSUME NEW l \in 0..MaxLost
    PROVE  /\ l * Rung \in Nat /\ (l + 1) * Rung \in Nat
           /\ (l + 1) * Rung = l * Rung + Rung
           /\ (l + 1) * Rung <= (MaxLost + 1) * Rung
BY KeepaliveAssumption, RungPositive

LEMMA CountdownFacts ==
    ASSUME NEW limit \in Nat, NEW t \in Countdown(limit)
    PROVE  /\ t # Never => t \in 0..limit
           /\ t # 0 => Sooner(t) \in Countdown(limit)
           /\ Sooner(Never) = Never
           /\ t # Never => Sooner(t) = t - 1 /\ Sooner(t) # Never
BY KeepaliveAssumption DEF Countdown, Sooner

LEMMA CountdownEnds ==
    ASSUME NEW limit \in Nat
    PROVE  Never \in Countdown(limit) /\ limit \in Countdown(limit) /\ limit # Never
BY KeepaliveAssumption DEF Countdown

LEMMA Limits ==
    /\ Long \in Nat /\ Old \in Nat
    /\ \A d \in {MaxDelay, EdgeDelay} :
           Never \in Countdown(d) /\ d \in Countdown(d) /\ d # Never
BY KeepaliveAssumption, CountdownEnds DEF Long, Old

LEMMA LaterFacts ==
    ASSUME NEW limit \in Nat, NEW t \in 0..limit
    PROVE  /\ Later(t, limit) \in 0..limit
           /\ t <= Later(t, limit) /\ Later(t, limit) <= t + 1
           /\ t < limit => Later(t, limit) = t + 1
           /\ \A q \in 0..limit : t >= q - 1 => Later(t, limit) >= q
BY DEF Later

\* The ladder leaves room: no living link has been quiet for too long.
LEMMA LadderShort ==
    ASSUME TypeOK, LadderOK, link = "up", pass = Poll
    PROVE  quiet < LivenessTimeout
<1> USE KeepaliveAssumption
<1>1. lost \in 0..MaxLost /\ quiet \in Nat /\ sincePing \in Nat
  BY DEF TypeOK, Long
<1>2. /\ lost * Rung \in Nat /\ (lost + 1) * Rung \in Nat
      /\ (lost + 1) * Rung = lost * Rung + Rung
      /\ (lost + 1) * Rung <= (MaxLost + 1) * Rung
  BY <1>1, Climb
<1>3. (MaxLost + 1) * Rung + MaxDelay < LivenessTimeout
  BY Patience DEF Rung
<1>4. (MaxLost + 1) * Rung \in Nat
  BY RungPositive
<1>5. quiet <= (lost + 1) * Rung + MaxDelay
  <2>1. CASE due # Never
    <3>1. due \in 0..MaxDelay
      BY <2>1, CountdownFacts DEF TypeOK
    <3> QED
      BY <1>1, <1>2, <2>1, <3>1 DEF LadderOK
  <2>2. CASE due = Never /\ lost = 0
    BY <1>1, <1>2, <2>2 DEF LadderOK, Rung
  <2>3. CASE due = Never /\ lost # 0
    <3>1. sincePing < Rung
      BY <1>1, <2>3 DEF LadderOK, Rung
    <3> QED
      BY <1>1, <1>2, <2>3, <3>1, RungPositive DEF LadderOK
  <2> QED
    BY <2>1, <2>2, <2>3
<1> QED
  BY <1>1, <1>2, <1>3, <1>4, <1>5

-----------------------------------------------------------------------------
(* Initially, and step by step *)

LEMMA InitInv == Init => Inv
<1> SUFFICES ASSUME Init PROVE Inv
  OBVIOUS
<1>1. TypeOK
  <2>1. link \in {"none", "up", "dead"} /\ hello_seen \in BOOLEAN
        /\ hello_requested \in BOOLEAN /\ sees \in BOOLEAN /\ missed \in BOOLEAN
    BY DEF Init
  <2>2. /\ rest \in 0..ReconnectPeriod /\ quiet \in 0..Long
        /\ sincePing \in 0..Long /\ age \in 0..Old /\ pass \in 0..Poll
        /\ lost \in 0..MaxLost
    BY KeepaliveAssumption, Limits DEF Init
  <2>3. due \in Countdown(MaxDelay) /\ helloDue \in Countdown(MaxDelay)
        /\ edge \in Countdown(EdgeDelay)
    BY Limits DEF Init
  <2> QED
    BY <2>1, <2>2, <2>3 DEF TypeOK
<1>2. NoticedInTime /\ EdgeOK /\ GreetOK /\ LadderOK
  BY DEF Init, NoticedInTime, EdgeOK, GreetOK, LadderOK
<1> QED
  BY <1>1, <1>2 DEF Inv

LEMMA ConnectKeeps == Inv /\ Connect => Inv'
<1> SUFFICES ASSUME Inv, Connect PROVE Inv'
  OBVIOUS
<1>1. TypeOK'
  <2>1. link' \in {"none", "up", "dead"} /\ hello_seen' \in BOOLEAN
        /\ hello_requested' \in BOOLEAN /\ sees' \in BOOLEAN /\ missed' \in BOOLEAN
    BY DEF Connect
  <2>2. /\ rest' \in 0..ReconnectPeriod /\ quiet' \in 0..Long
        /\ sincePing' \in 0..Long /\ age' \in 0..Old /\ pass' \in 0..Poll
        /\ lost' \in 0..MaxLost
    BY KeepaliveAssumption, Limits DEF Inv, TypeOK, Connect
  <2>3. due' \in Countdown(MaxDelay) /\ helloDue' \in Countdown(MaxDelay)
        /\ edge' \in Countdown(EdgeDelay)
    BY Limits DEF Connect
  <2> QED
    BY <2>1, <2>2, <2>3 DEF TypeOK
<1>2. NoticedInTime'
  BY KeepaliveAssumption DEF Connect, NoticedInTime
<1>3. EdgeOK'
  <2>1. age' = 0 /\ (edge' # Never => edge' = EdgeDelay) /\ ~hello_requested'
    BY DEF Connect
  <2>2. EdgeDelay + 0 = EdgeDelay
    BY KeepaliveAssumption
  <2> QED
    BY <2>1, <2>2, Zenon DEF EdgeOK
<1>4. GreetOK'
  BY KeepaliveAssumption, EdgeIsQuick DEF Connect, GreetOK
<1>5. LadderOK'
  BY KeepaliveAssumption DEF Connect, LadderOK, Long
<1> QED
  BY <1>1, <1>2, <1>3, <1>4, <1>5 DEF Inv

\* What Asked does to the hello, at a moment when age - pass < Grace held.
LEMMA AskedKeeps ==
    ASSUME TypeOK, EdgeOK, GreetOK, Asked(hello_seen), pass' = 0,
           UNCHANGED <<link, age, hello_seen, edge, sees>>
    PROVE  /\ hello_requested' \in BOOLEAN /\ helloDue' \in Countdown(MaxDelay)
           /\ missed' \in BOOLEAN /\ EdgeOK' /\ GreetOK'
<1> USE KeepaliveAssumption
<1>1. /\ age \in Nat /\ pass \in 0..Poll /\ helloDue \in Countdown(MaxDelay)
      /\ hello_seen \in BOOLEAN /\ hello_requested \in BOOLEAN
      /\ edge \in Countdown(EdgeDelay) /\ missed \in BOOLEAN
  BY DEF TypeOK, Old
<1>2. MaxDelay \in Countdown(MaxDelay) /\ MaxDelay # Never
  BY Limits
<1>3. edge # Never => edge \in 0..EdgeDelay
  BY <1>1, CountdownFacts
<1>4. /\ hello_requested' \in BOOLEAN /\ helloDue' \in Countdown(MaxDelay)
      /\ missed' \in BOOLEAN
  BY <1>1, <1>2 DEF Asked
<1>5. EdgeOK'
  BY <1>1, <1>3, EdgeIsQuick DEF EdgeOK, Asked, MustAsk
<1>6. GreetOK'
  <2>1. CASE ~MustAsk(hello_seen)
    BY <1>1, <2>1 DEF GreetOK, Asked, MustAsk
  <2>2. CASE MustAsk(hello_seen)
    \* Where the panel sees the connection it has done so by now.
    <3>1. link = "up" => edge = Never
      BY <1>1, <1>3, <2>2, EdgeIsQuick DEF EdgeOK, MustAsk
    <3>2. link = "up" /\ sees => helloDue # Never
      BY <2>2, <3>1 DEF GreetOK, MustAsk
    <3> QED
      BY <1>1, <1>2, <2>2, <3>1, <3>2 DEF GreetOK, Asked, MustAsk
  <2> QED
    BY <2>1, <2>2
<1> QED
  BY <1>4, <1>5, <1>6

LEMMA LookAtClockKeeps == Inv /\ LookAtClock => Inv'
<1> SUFFICES ASSUME Inv, LookAtClock PROVE Inv'
  OBVIOUS
<1> USE KeepaliveAssumption
<1>1. /\ lost \in 0..MaxLost /\ quiet \in Nat /\ sincePing \in 0..Long
      /\ due \in Countdown(MaxDelay) /\ Long \in Nat
  BY DEF Inv, TypeOK, Long
<1>2. /\ lost * Rung \in Nat /\ (lost + 1) * Rung \in Nat
      /\ (lost + 1) * Rung = lost * Rung + Rung
  BY <1>1, Climb
<1>3. MaxDelay \in Countdown(MaxDelay) /\ MaxDelay # Never
  BY Limits
<1>4. due # Never => due \in 0..MaxDelay
  BY <1>1, CountdownFacts
<1>5. hello_requested' \in BOOLEAN /\ helloDue' \in Countdown(MaxDelay)
      /\ missed' \in BOOLEAN /\ EdgeOK' /\ GreetOK'
  BY AskedKeeps DEF Inv, LookAtClock
<1>6. TypeOK'
  BY <1>1, <1>3, <1>5 DEF Inv, TypeOK, LookAtClock, Pinged
<1>7. NoticedInTime'
  BY <1>1 DEF LookAtClock, NoticedInTime, Silence
<1>8. LadderOK'
  <2>1. CASE ~MustPing
    BY <1>1, <1>2, <2>1 DEF Inv, LadderOK, LookAtClock, Pinged, MustPing
  <2>2. CASE MustPing /\ due' # Never /\ due = Never
    <3>1. link' = "up" => due' = MaxDelay /\ lost' = lost
      BY <2>2 DEF LookAtClock, Pinged
    <3>2. link = "up" => quiet <= (lost + 1) * Rung
      BY <1>1, <1>2, <2>2, RungPositive DEF Inv, LadderOK, LookAtClock, Rung
    <3> QED
      BY <1>1, <1>2, <2>2, <3>1, <3>2 DEF LookAtClock, LadderOK
  <2>3. CASE MustPing /\ due' # Never /\ due # Never
    <3>1. link' = "up" => due' = due /\ lost' \in {lost, lost + 1} /\ lost' \in 0..MaxLost
      BY <1>1, <2>3 DEF LookAtClock, Pinged
    <3>2. link' = "up" => (lost + 1) * Rung <= (lost' + 1) * Rung /\ (lost' + 1) * Rung \in Nat
      <4>1. CASE lost' = lost
        BY <1>2, <4>1
      <4>2. CASE lost' = lost + 1 /\ lost' \in 0..MaxLost
        <5>1. (lost' + 1) * Rung = lost' * Rung + Rung /\ (lost' + 1) * Rung \in Nat
          BY <4>2, Climb
        <5> QED
          BY <1>2, <4>2, <5>1, RungPositive
      <4> QED
        BY <3>1, <4>1, <4>2
    <3> QED
      BY <1>1, <1>2, <1>4, <2>3, <3>1, <3>2 DEF Inv, LookAtClock, LadderOK
  <2>4. CASE MustPing /\ due' = Never
    <3>1. link' = "up" => due = Never /\ lost' = lost + 1 /\ sincePing' = 0 /\ quiet' = quiet
      BY <1>3, <2>4 DEF LookAtClock, Pinged
    <3>2. link = "up" /\ due = Never => quiet <= (lost + 1) * Rung
      BY <1>1, <1>2, RungPositive DEF Inv, LadderOK, LookAtClock, Rung
    <3>3. link' = "up" => quiet <= lost' * Rung + 0
      BY <1>1, <1>2, <3>1, <3>2 DEF LookAtClock
    <3> QED
      BY <1>1, <2>4, <3>1, <3>3 DEF LookAtClock, LadderOK
  <2> QED
    BY <2>1, <2>2, <2>3, <2>4
<1> QED
  BY <1>5, <1>6, <1>7, <1>8 DEF Inv

LEMMA ReceiveKeeps == Inv /\ (Receive \/ ReceiveHello) => Inv'
<1> SUFFICES ASSUME Inv, Receive \/ ReceiveHello PROVE Inv'
  OBVIOUS
<1> USE KeepaliveAssumption
<1>1. Never \in Countdown(MaxDelay) /\ MaxDelay \in Countdown(MaxDelay)
  BY Limits
<1>2. CASE Receive
  <2>1. hello_requested' \in BOOLEAN /\ helloDue' \in Countdown(MaxDelay)
        /\ missed' \in BOOLEAN /\ EdgeOK' /\ GreetOK'
    BY <1>2, AskedKeeps DEF Inv, Receive
  <2>2. TypeOK'
    BY <1>1, <1>2, <2>1, Limits DEF Inv, TypeOK, Receive
  <2>3. NoticedInTime' /\ LadderOK'
    BY <1>2 DEF Inv, TypeOK, Receive, NoticedInTime, LadderOK
  <2> QED
    BY <2>1, <2>2, <2>3 DEF Inv
<1>3. CASE ReceiveHello
  <2>1. TypeOK'
    BY <1>1, <1>3, Limits DEF Inv, TypeOK, ReceiveHello, asking
  <2>2. EdgeOK' /\ GreetOK'
    BY <1>3 DEF Inv, ReceiveHello, EdgeOK, GreetOK, asking
  <2>3. NoticedInTime' /\ LadderOK'
    BY <1>3 DEF Inv, TypeOK, ReceiveHello, NoticedInTime, LadderOK
  <2> QED
    BY <2>1, <2>2, <2>3 DEF Inv
<1> QED
  BY <1>2, <1>3

LEMMA SeeEdgeKeeps == Inv /\ SeeEdge => Inv'
<1> SUFFICES ASSUME Inv, SeeEdge PROVE Inv'
  OBVIOUS
<1> USE KeepaliveAssumption
<1>1. edge \in 0..EdgeDelay /\ age \in Nat
  BY CountdownFacts DEF Inv, SeeEdge, TypeOK, Old
<1>2. MaxDelay \in Countdown(MaxDelay) /\ Never \in Countdown(EdgeDelay)
      /\ MaxDelay # Never
  BY Limits
<1>3. TypeOK'
  BY <1>2 DEF Inv, TypeOK, SeeEdge, clock, asking
<1>4. NoticedInTime' /\ LadderOK' /\ EdgeOK'
  BY DEF Inv, SeeEdge, clock, asking, NoticedInTime, LadderOK, EdgeOK
<1>5. GreetOK'
  BY <1>1, <1>2, EdgeIsQuick DEF Inv, SeeEdge, clock, asking, GreetOK, EdgeOK
<1> QED
  BY <1>3, <1>4, <1>5 DEF Inv

\* The link breaks, is given up, or rests: there is nothing to keep but the types.
LEMMA DownKeeps == Inv /\ (GiveUp \/ Closed \/ Break \/ Sleep) => Inv'
<1> SUFFICES ASSUME Inv, GiveUp \/ Closed \/ Break \/ Sleep PROVE Inv'
  OBVIOUS
<1> USE KeepaliveAssumption
<1>1. link' # "up"
  BY DEF GiveUp, Closed, Break, Sleep
<1>2. EdgeOK' /\ GreetOK' /\ LadderOK'
  BY <1>1 DEF EdgeOK, GreetOK, LadderOK
<1>3. NoticedInTime'
  BY DEF Inv, NoticedInTime, GiveUp, Closed, Break, Sleep, clock, asking
<1>4. Never \in Countdown(MaxDelay) /\ Never \in Countdown(EdgeDelay)
  BY Limits
<1>5. TypeOK'
  BY <1>4 DEF Inv, TypeOK, GiveUp, Closed, Break, Sleep, clock, answers, asking
<1> QED
  BY <1>2, <1>3, <1>5 DEF Inv

LEMMA TickKeeps == Inv /\ Tick => Inv'
<1> SUFFICES ASSUME Inv, Tick PROVE Inv'
  OBVIOUS
<1> USE KeepaliveAssumption
<1>1. /\ quiet \in Nat /\ pass \in 0..Poll - 1 /\ sincePing \in 0..Long
      /\ age \in 0..Old /\ lost \in 0..MaxLost /\ Long \in Nat /\ Old \in Nat
      /\ link \in {"up", "dead"}
  BY Limits DEF Inv, Tick, TypeOK
<1>2. /\ due \in Countdown(MaxDelay) /\ helloDue \in Countdown(MaxDelay)
      /\ edge \in Countdown(EdgeDelay) /\ due # 0 /\ helloDue # 0 /\ edge # 0
  BY DEF Inv, Tick, TypeOK
<1>3. /\ quiet' = quiet + 1 /\ pass' = pass + 1
      /\ sincePing' = Later(sincePing, Long) /\ age' = Later(age, Old)
      /\ due' = Sooner(due) /\ helloDue' = Sooner(helloDue) /\ edge' = Sooner(edge)
  BY DEF Tick
<1>4. UNCHANGED <<link, rest, hello_seen, hello_requested, lost, sees, missed>>
  BY DEF Tick, asking
<1>5. quiet + 1 \in 0..Long /\ (quiet + 1) - (pass + 1) < LivenessTimeout
  <2>1. quiet - pass < LivenessTimeout
    BY <1>1 DEF Inv, NoticedInTime
  <2> QED
    BY <1>1, <2>1 DEF Long
<1>6. NoticedInTime'
  <2>1. quiet' - pass' < LivenessTimeout
    BY <1>3, <1>5
  <2> QED
    BY <2>1 DEF NoticedInTime
<1>7. /\ sincePing' \in 0..Long /\ age' \in 0..Old
      /\ sincePing <= sincePing' /\ sincePing' <= sincePing + 1
      /\ age' <= age + 1 /\ (age < Old => age' = age + 1)
      /\ \A q \in 0..Long : sincePing >= q - 1 => sincePing' >= q
  BY <1>1, <1>3, LaterFacts
<1>8. /\ due' \in Countdown(MaxDelay) /\ helloDue' \in Countdown(MaxDelay)
      /\ edge' \in Countdown(EdgeDelay)
  BY <1>2, <1>3, CountdownFacts
<1>9. /\ due = Never => due' = Never
      /\ due # Never => due \in 0..MaxDelay /\ due' = due - 1 /\ due' # Never
      /\ helloDue = Never => helloDue' = Never
      /\ helloDue # Never =>
             helloDue \in 0..MaxDelay /\ helloDue' = helloDue - 1 /\ helloDue' # Never
      /\ edge = Never => edge' = Never
      /\ edge # Never => edge \in 0..EdgeDelay /\ edge' = edge - 1 /\ edge' # Never
  BY <1>2, <1>3, CountdownFacts
<1>10. TypeOK'
  <2>1. link' \in {"none", "up", "dead"} /\ hello_seen' \in BOOLEAN
        /\ hello_requested' \in BOOLEAN /\ rest' \in 0..ReconnectPeriod
        /\ lost' \in 0..MaxLost /\ sees' \in BOOLEAN /\ missed' \in BOOLEAN
    BY <1>4 DEF Inv, TypeOK
  <2>2. quiet' \in 0..Long /\ pass' \in 0..Poll
    BY <1>1, <1>3, <1>5
  <2> QED
    BY <1>7, <1>8, <2>1, <2>2 DEF TypeOK
<1>11. EdgeOK'
  <2>1. link = "up" /\ edge # Never => edge + age = EdgeDelay
    BY DEF Inv, EdgeOK
  <2>2. link = "up" /\ edge # Never => edge' + age' = EdgeDelay
    BY <1>1, <1>7, <1>9, <2>1, EdgeIsQuick DEF Old
  <2> QED
    BY <1>4, <1>9, <2>2 DEF Inv, EdgeOK
<1>12. GreetOK'
  <2>1. link = "up" /\ ~hello_seen => hello_requested \/ age' - pass' < Grace
    BY <1>1, <1>3, <1>7 DEF Inv, GreetOK
  <2>2. link = "up" /\ ~hello_seen /\ helloDue # Never =>
            age' + helloDue' <= Grace + Poll + MaxDelay
    BY <1>1, <1>7, <1>9 DEF Inv, GreetOK
  <2> QED
    BY <1>4, <1>9, <2>1, <2>2 DEF Inv, GreetOK
<1>13. LadderOK'
  <2>1. lost * Rung \in Nat /\ (lost + 1) * Rung \in Nat
    BY <1>1, Climb
  <2>2. link = "up" /\ due # Never => quiet' + due' <= (lost + 1) * Rung + MaxDelay
    BY <1>1, <1>3, <1>9, <2>1 DEF Inv, LadderOK
  <2>3. link = "up" /\ due = Never /\ lost = 0 =>
            sincePing' >= quiet' /\ quiet' - pass' < KeepalivePeriod
    BY <1>1, <1>3, <1>5, <1>7 DEF Inv, LadderOK
  <2>4. link = "up" /\ due = Never /\ lost # 0 =>
            /\ sincePing' <= quiet' /\ sincePing' - pass' < KeepalivePeriod
            /\ quiet' <= lost * Rung + sincePing'
    <3> SUFFICES ASSUME link = "up", due = Never, lost # 0
                 PROVE  /\ sincePing' <= quiet' /\ sincePing' - pass' < KeepalivePeriod
                        /\ quiet' <= lost * Rung + sincePing'
      OBVIOUS
    <3>1. /\ sincePing <= quiet /\ sincePing - pass < KeepalivePeriod
          /\ quiet <= lost * Rung + sincePing
      BY DEF Inv, LadderOK
    <3>2. CASE sincePing < Long
      <4>1. sincePing' = sincePing + 1
        BY <1>1, <1>3, <3>2, LaterFacts
      <4> QED
        BY <1>1, <1>3, <2>1, <3>1, <4>1
    <3>3. CASE sincePing = Long
      \* Out of the question: the link has never been quiet for that long.
      BY <1>1, <1>5, <3>1, <3>3
    <3> QED
      BY <1>1, <3>2, <3>3
  <2> QED
    BY <1>4, <1>9, <2>2, <2>3, <2>4 DEF LadderOK
<1> QED
  BY <1>6, <1>10, <1>11, <1>12, <1>13 DEF Inv

LEMMA NextKeeps == Inv /\ [Next]_vars => Inv'
<1> SUFFICES ASSUME Inv, [Next]_vars PROVE Inv'
  OBVIOUS
<1>1. CASE UNCHANGED vars
  BY <1>1 DEF Inv, vars, clock, answers, asking, TypeOK, NoticedInTime, EdgeOK, GreetOK,
              LadderOK
<1>2. CASE Next
  BY <1>2, ConnectKeeps, LookAtClockKeeps, ReceiveKeeps, SeeEdgeKeeps, DownKeeps,
     TickKeeps DEF Next, Reader
<1> QED
  BY <1>1, <1>2

LEMMA InvHolds == Spec => []Inv
BY InitInv, NextKeeps, PTL DEF Spec
-----------------------------------------------------------------------------
\* The reader loop is well typed; no silence outgrows the clock's range.
THEOREM TypeCorrect == Spec => []TypeOK
<1>1. Inv => TypeOK
  BY DEF Inv
<1> QED
  BY <1>1, InvHolds, PTL

\* Whatever the periods, a link over which nothing comes is given up in time.
THEOREM DeadLinkNoticed == Spec => []NoticedInTime
<1>1. Inv => NoticedInTime
  BY DEF Inv
<1> QED
  BY <1>1, InvHolds, PTL

\* With an edge quicker than the grace period no request is cut by the flush.
THEOREM RequestIsWhole == Spec => []RequestNotFlushed
<1>1. Inv => RequestNotFlushed
  BY DEF Inv, EdgeOK, RequestNotFlushed
<1> QED
  BY <1>1, InvHolds, PTL

\* The hello comes within the grace period, one recv and one answer, whatever is
\* lost; except from a panel that has to be asked, when the one request was lost.
THEOREM HelloInTime == Spec => []GreetedInTime
<1>1. Inv => GreetedInTime
  <2> SUFFICES ASSUME Inv, link = "up", ~hello_seen
               PROVE  age <= Grace + Poll + MaxDelay \/ (~sees /\ missed)
    BY DEF GreetedInTime
  <2>1. age \in Nat /\ pass \in 0..Poll /\ helloDue \in Countdown(MaxDelay)
    BY Limits DEF Inv, TypeOK
  <2>2. CASE helloDue # Never
    <3>1. helloDue \in 0..MaxDelay
      BY <2>1, <2>2, KeepaliveAssumption, CountdownFacts
    <3> QED
      BY <2>1, <2>2, <3>1, KeepaliveAssumption DEF Inv, GreetOK
  <2>3. CASE helloDue = Never
    BY <2>1, <2>3, KeepaliveAssumption DEF Inv, GreetOK
  <2> QED
    BY <2>2, <2>3
<1> QED
  BY <1>1, InvHolds, PTL

\* With Patience no living link is given up.
LEMMA OnlyDeadGivenUp == Inv /\ GiveUp => link = "dead"
<1> SUFFICES ASSUME Inv, GiveUp, link = "up" PROVE FALSE
  BY DEF Inv, TypeOK, GiveUp
<1>1. quiet < LivenessTimeout
  BY LadderShort DEF Inv, GiveUp
<1>2. quiet >= LivenessTimeout /\ quiet \in Nat
  BY Limits DEF Inv, TypeOK, GiveUp, Silence
<1> QED
  BY <1>1, <1>2, KeepaliveAssumption

LEMMA StepsOfLink ==
    ASSUME Inv, [Next]_vars
    PROVE  [Watch!Next]_link
<1>1. CASE Connect
  BY <1>1 DEF Connect, Watch!Next, Watch!Connect
<1>2. CASE GiveUp
  BY <1>2, OnlyDeadGivenUp DEF GiveUp, Watch!Next, Watch!Notice
<1>3. CASE Closed
  BY <1>3 DEF Closed, Watch!Next, Watch!Notice
<1>4. CASE Break
  BY <1>4 DEF Break, Watch!Next, Watch!Break
<1>5. CASE LookAtClock \/ Receive \/ ReceiveHello \/ SeeEdge \/ Tick \/ Sleep
           \/ UNCHANGED vars
  BY <1>5 DEF LookAtClock, Receive, ReceiveHello, SeeEdge, Tick, Sleep, vars
<1> QED
  BY <1>1, <1>2, <1>3, <1>4, <1>5 DEF Next, Reader

\* For every choice of periods with Patience, a panel that is merely slow, or that
\* misses MaxLost pings in a row, keeps its connection.
THEOREM LivingLinksKept == Spec => LivingKept
<1>1. Inv /\ [Next]_vars => [link = "up" => link' # "none"]_vars
  BY StepsOfLink DEF Watch!Next, Watch!Connect, Watch!Break, Watch!Notice
<1> QED
  BY <1>1, InvHolds, PTL DEF Spec, LivingKept

\* Every step of the driver's clock is one of the link PanelDriver assumes.
THEOREM RefinesLinkWatch == Spec => Watch!Spec
<1>1. Init => Watch!Init
  BY DEF Init, Watch!Init
<1>2. Inv /\ [Next]_vars => [Watch!Next]_link
  BY StepsOfLink
<1> QED
  BY <1>1, <1>2, InvHolds, PTL DEF Spec, Watch!Spec
=============================================================================
