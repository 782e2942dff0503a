---------------------------- MODULE Startup_proof ----------------------------
(***************************************************************************)
(* Theorems about the way from reset to the loop, for any number and size  *)
(* of rings, any colours, any number of faults and resets.                 *)
(***************************************************************************)
EXTENDS Startup, FiniteSetTheorems, SequenceTheorems, TLAPS

(* Pairs *)

LEMMA MaxOfPair ==
    ASSUME NEW a \in Int, NEW b \in Int
    PROVE  /\ Max({a, b}) \in Int
           /\ Max({a, b}) = IF a >= b THEN a ELSE b
BY DEF Max

LEMMA MinOfPair ==
    ASSUME NEW a \in Int, NEW b \in Int
    PROVE  Min({a, b}) = IF a <= b THEN a ELSE b
BY DEF Min

-----------------------------------------------------------------------------
(* The rings *)

Word24 == {-1} \cup 0..Word(255, 255, 255)

Chain == [shows : Word24, left : -LatchGap..PixelTime * Queued]
Colour == [r : Byte, g : Byte, b : Byte, brightness : Byte]

\* The types in the form the proofs use them.
RingsTyped ==
    /\ st \in [Ring -> Colour] /\ dirty \in [Ring -> BOOLEAN]
    /\ wire \in [Ring -> Chain] /\ turn \in 1..RINGS + 1

\* In time for its turn, each chain has been silent for as long as a frame needs
\* together with the sleep before it.
QuietAhead ==
    stage \in {"rings", "loop"} =>
        \A j \in Ring : j >= turn => wire[j].left <= FrameSleep - LatchGap

\* The word latched last is the one the colour has now.
WordShown == \A i \in Ring : ~dirty[i] => wire[i].shows = PixelWord(st[i])

RingsInv == RingsTyped /\ WordShown /\ QuietAhead

LEMMA ScaleIsByte ==
    ASSUME NEW c \in Byte, NEW b \in Byte
    PROVE  Scale(c, b) \in Byte
BY DEF Scale, Byte

LEMMA BytesMakeWord ==
    ASSUME NEW x \in Byte, NEW y \in Byte, NEW z \in Byte
    PROVE  Word(x, y, z) \in Word24
<1>1. /\ x \in Int /\ 0 <= x /\ x <= 255
      /\ y \in Int /\ 0 <= y /\ y <= 255
      /\ z \in Int /\ 0 <= z /\ z <= 255
  BY DEF Byte
<1>2. /\ Word(x, y, z) \in Int /\ Word(255, 255, 255) \in Int
      /\ 0 <= Word(x, y, z) /\ Word(x, y, z) <= Word(255, 255, 255)
  BY <1>1, SMT DEF Word
<1> QED
  BY <1>2, SMT DEF Word24

LEMMA PixelIsWord ==
    ASSUME NEW s \in [r : Byte, g : Byte, b : Byte, brightness : Byte]
    PROVE  PixelWord(s) \in Word24
<1>1. /\ Scale(s.r, s.brightness) \in Byte
      /\ Scale(s.g, s.brightness) \in Byte
      /\ Scale(s.b, s.brightness) \in Byte
  BY ScaleIsByte
<1> QED
  BY <1>1, BytesMakeWord DEF PixelWord

\* rings_scale rounds to the nearest ...
LEMMA ScaleIsNear ==
    ASSUME NEW c \in Byte, NEW b \in Byte
    PROVE  Near(Scale(c, b), c, b)
<1> DEFINE p == c * b
<1>1. p \in Nat
  BY DEF Byte
<1> HIDE DEF p
<1>2. 255 * ((p + 127) \div 255) - p \in -127..127
  BY <1>1
<1> QED
  BY <1>2 DEF Near, Scale, p

\* ... and the bytes of a word come apart again.
LEMMA WordComesApart ==
    ASSUME NEW x \in Byte, NEW y \in Byte, NEW z \in Byte
    PROVE  /\ Word(x, y, z) \div 65536 = x
           /\ (Word(x, y, z) \div 256) % 256 = y
           /\ Word(x, y, z) % 256 = z
<1>1. /\ x \in Int /\ 0 <= x /\ x <= 255
      /\ y \in Int /\ 0 <= y /\ y <= 255
      /\ z \in Int /\ 0 <= z /\ z <= 255
  BY DEF Byte
<1>2. (x * 65536 + y * 256 + z) \div 65536 = x
  BY <1>1, SMT
<1>3. (x * 65536 + y * 256 + z) \div 256 = x * 256 + y
  BY <1>1, SMT
<1>4. (x * 256 + y) % 256 = y /\ (x * 65536 + y * 256 + z) % 256 = z
  BY <1>1, SMT
<1> QED
  BY <1>2, <1>3, <1>4 DEF Word

LEMMA PixelLooks ==
    ASSUME NEW s \in Colour
    PROVE  Looks(PixelWord(s), s)
<1> DEFINE r == Scale(s.r, s.brightness)
           g == Scale(s.g, s.brightness)
           b == Scale(s.b, s.brightness)
<1>1. r \in Byte /\ g \in Byte /\ b \in Byte
  BY ScaleIsByte DEF Colour
<1>2. /\ Near(r, s.r, s.brightness) /\ Near(g, s.g, s.brightness)
      /\ Near(b, s.b, s.brightness)
  BY ScaleIsNear DEF Colour
<1>3. PixelWord(s) = IF Grb THEN Word(g, r, b) ELSE Word(r, g, b)
  BY DEF PixelWord
<1> HIDE DEF r, g, b
<1> DEFINE first == PixelWord(s) \div 65536
           second == (PixelWord(s) \div 256) % 256
           third == PixelWord(s) % 256
<1>4. /\ third = b
      /\ (IF Grb THEN second ELSE first) = r
      /\ (IF Grb THEN first ELSE second) = g
  <2>1. CASE Grb
    <3>1. /\ Word(g, r, b) \div 65536 = g /\ (Word(g, r, b) \div 256) % 256 = r
          /\ Word(g, r, b) % 256 = b
      BY <1>1, WordComesApart
    <3>2. PixelWord(s) = Word(g, r, b)
      BY <1>3, <2>1
    <3>3. first = g /\ second = r /\ third = b
      BY <3>1, <3>2
    <3> QED BY <2>1, <3>3
  <2>2. CASE ~Grb
    <3>1. /\ Word(r, g, b) \div 65536 = r /\ (Word(r, g, b) \div 256) % 256 = g
          /\ Word(r, g, b) % 256 = b
      BY <1>1, WordComesApart
    <3>2. PixelWord(s) = Word(r, g, b)
      BY <1>3, <2>2
    <3>3. first = r /\ second = g /\ third = b
      BY <3>1, <3>2
    <3> QED BY <2>2, <3>3
  <2> QED BY <2>1, <2>2
<1> HIDE DEF first, second, third
<1>5. Near(IF Grb THEN second ELSE first, s.r, s.brightness)
  BY <1>2, <1>4, Zenon
<1>6. Near(IF Grb THEN first ELSE second, s.g, s.brightness)
  BY <1>2, <1>4, Zenon
<1>7. Near(third, s.b, s.brightness)
  BY <1>2, <1>4, Zenon
<1> QED
  BY <1>5, <1>6, <1>7 DEF Looks, first, second, third

LEMMA WaitKeeps ==
    ASSUME NEW c \in [shows : Word24, left : -LatchGap..PixelTime * Queued],
           NEW t \in Nat
    PROVE  /\ Wait(c, t) \in [shows : Word24, left : -LatchGap..PixelTime * Queued]
           /\ Wait(c, t).shows = c.shows
           /\ Wait(c, t).left <= c.left
           /\ c.left - t <= -LatchGap => Wait(c, t).left = -LatchGap
<1>1. c.left \in -280..270 /\ c.left - t \in Int /\ -LatchGap \in Int
  BY DEF LatchGap, PixelTime, Queued
<1>2. Max({c.left - t, -LatchGap}) =
          IF c.left - t >= -LatchGap THEN c.left - t ELSE -LatchGap
  BY <1>1, MaxOfPair
<1>3. /\ Max({c.left - t, -LatchGap}) \in -LatchGap..PixelTime * Queued
      /\ Max({c.left - t, -LatchGap}) <= c.left
      /\ c.left - t <= -LatchGap => Max({c.left - t, -LatchGap}) = -LatchGap
  <2>1. -LatchGap = -280 /\ PixelTime * Queued = 270 /\ t >= 0
    BY DEF LatchGap, PixelTime, Queued
  <2>2. CASE c.left - t >= -280
    BY <1>1, <1>2, <2>1, <2>2
  <2>3. CASE c.left - t < -280
    BY <1>1, <1>2, <2>1, <2>3
  <2> QED
    BY <1>1, <2>2, <2>3
<1> QED
  BY <1>1, <1>3 DEF Wait

\* A frame that comes in time is latched.
LEMMA PushLatches ==
    ASSUME NEW c \in [shows : Word24, left : -LatchGap..PixelTime * Queued],
           NEW w \in Word24, NEW n \in Nat \ {0},
           c.left <= FrameSleep - LatchGap
    PROVE  /\ Push(c, w, n) \in [shows : Word24, left : -LatchGap..PixelTime * Queued]
           /\ Push(c, w, n).shows = w
<1>1. Wait(c, FrameSleep).left = -LatchGap
  <2>1. c.left \in -280..270 /\ FrameSleep \in Nat
    BY DEF LatchGap, PixelTime, Queued, FrameSleep
  <2>2. c.left - FrameSleep <= -LatchGap
    BY <2>1 DEF LatchGap, FrameSleep
  <2> QED
    BY <2>1, <2>2, WaitKeeps
<1>2. Min({n, Queued}) = IF n <= Queued THEN n ELSE Queued
  BY MinOfPair DEF Queued
<1> QED
  BY <1>1, <1>2 DEF Push, LatchGap, PixelTime, Queued

LEMMA PushTakesTime ==
    ASSUME NEW n \in Nat
    PROVE  PushTime(n) \in Nat
<1>1. Max({n - Queued, 0}) = IF n - Queued >= 0 THEN n - Queued ELSE 0
  BY MaxOfPair DEF Queued
<1> QED
  BY <1>1 DEF PushTime, FrameSleep, PixelTime, Queued

LEMMA UpdatedOK ==
    ASSUME NEW s \in [r : Byte, g : Byte, b : Byte, brightness : Byte],
           NEW c \in RingCmds, Valid(c)
    PROVE  Updated(s, c) \in [r : Byte, g : Byte, b : Byte, brightness : Byte]
<1>1. c \in [r : Int, g : Int, b : Int, brightness : Int]
  BY RingsAssumption
<1>2. \A f \in {"r", "g", "b", "brightness"} : c[f] \in Byte \cup {Keep} /\ s[f] \in Byte
  BY <1>1 DEF Valid
<1>3. Updated(s, c) = [r |-> Updated(s, c)["r"], g |-> Updated(s, c)["g"],
                       b |-> Updated(s, c)["b"],
                       brightness |-> Updated(s, c)["brightness"]]
  BY DEF Updated
<1>4. \A f \in {"r", "g", "b", "brightness"} : Updated(s, c)[f] \in Byte
  BY <1>2 DEF Updated
<1> QED
  BY <1>3, <1>4

LEMMA DarkIsColour == Dark \in Colour
BY DEF Dark, Colour, Byte

LEMMA IdleIsChain == \A w \in Word24 : Idle(w) \in Chain /\ Idle(w).shows = w
                                       /\ Idle(w).left <= FrameSleep - LatchGap
<1>1. -LatchGap \in -LatchGap..PixelTime * Queued /\ -LatchGap <= FrameSleep - LatchGap
  BY DEF LatchGap, PixelTime, Queued, FrameSleep
<1> QED
  BY <1>1 DEF Idle, Chain

LEMMA RingsInitInv == Init => RingsInv
<1> SUFFICES ASSUME Init PROVE RingsInv
  OBVIOUS
<1>1. RingsInit(PowerOnGarbage)
  BY Zenon DEF Init
<1>2. PowerOnGarbage \in Word24
  BY DEF PowerOnGarbage, Word24
<1>3. RingsTyped
  BY <1>1, <1>2, DarkIsColour, IdleIsChain, RingsAssumption DEF RingsInit, RingsTyped
<1>4. WordShown
  BY <1>1 DEF RingsInit, WordShown
<1>5. QuietAhead
  BY <1>1, <1>2, IdleIsChain DEF RingsInit, QuietAhead
<1> QED
  BY <1>3, <1>4, <1>5 DEF RingsInv

\* Chains wait, colours and marks stay.
LEMMA WaitingKeeps ==
    ASSUME RingsInv, NEW t \in Nat, UNCHANGED <<st, dirty>>,
           wire' = [i \in Ring |-> Wait(wire[i], t)], turn' \in 1..RINGS + 1
    PROVE  /\ RingsTyped' /\ WordShown'
           /\ t >= TickSleep =>
                  \A i \in Ring : wire'[i].left <= FrameSleep - LatchGap
<1>1. RingsTyped
  BY DEF RingsInv
<1>2. \A i \in Ring : wire[i] \in Chain
  BY <1>1 DEF RingsTyped
<1>3. \A i \in Ring : /\ Wait(wire[i], t) \in Chain
                      /\ Wait(wire[i], t).shows = wire[i].shows
                      /\ wire[i].left - t <= -LatchGap => Wait(wire[i], t).left = -LatchGap
  BY <1>2, WaitKeeps DEF Chain
<1>4. RingsTyped'
  BY <1>1, <1>3 DEF RingsTyped
<1>5. WordShown'
  BY <1>3 DEF RingsInv, WordShown
<1>6. ASSUME t >= TickSleep, NEW i \in Ring
      PROVE  Wait(wire[i], t).left <= FrameSleep - LatchGap
  <2>1. wire[i].left \in -280..270
    BY <1>2 DEF Chain, LatchGap, PixelTime, Queued
  <2>2. wire[i].left - t <= -LatchGap
    BY <1>6, <2>1 DEF LatchGap, TickSleep
  <2>3. -LatchGap <= FrameSleep - LatchGap
    BY DEF LatchGap, FrameSleep
  <2> QED
    BY <1>3, <2>2, <2>3
<1> QED
  BY <1>4, <1>5, <1>6

\* What is at most a bound passes it on to what is smaller.
LEMMA AtMostPassesOn ==
    ASSUME NEW a \in -280..270, NEW b \in -280..270, NEW c, c = 20, a <= c, b <= a
    PROVE  b <= c
OBVIOUS

LEMMA FlushKeeps ==
    ASSUME RingsInv, Flush, stage \in {"rings", "loop"}, stage' = stage
    PROVE  RingsInv'
<1>1. RingsTyped
  BY DEF RingsInv
<1>2. turn \in Ring /\ turn' = turn + 1 /\ UNCHANGED st /\ turn' \in 1..RINGS + 1
  BY <1>1, RingsAssumption DEF Flush, Ring, RingsTyped
<1>3. \A j \in Ring : j >= turn' => j # turn /\ j >= turn
  BY <1>2, RingsAssumption DEF Ring
<1>4. \A j \in Ring : j >= turn => wire[j].left <= FrameSleep - LatchGap
  BY DEF RingsInv, QuietAhead
<1>5. CASE dirty[turn] /\ Renderable(turn)
  <2> DEFINE n == NumLeds[turn]
             w == PixelWord(st[turn])
             t == PushTime(n)
  <2>1. n \in Nat \ {0} /\ n \in Nat
    BY <1>2, RingsAssumption
  <2>2. w \in Word24
    BY <1>1, <1>2, PixelIsWord DEF RingsTyped, Colour
  <2>3. t \in Nat
    BY <2>1, PushTakesTime
  <2>4. /\ wire' = [i \in Ring |-> IF i = turn THEN Push(wire[i], w, n)
                                   ELSE Wait(wire[i], t)]
        /\ dirty' = [dirty EXCEPT ![turn] = FALSE]
    BY <1>5 DEF Flush
  <2> HIDE DEF n, w, t
  <2>5. Push(wire[turn], w, n) \in Chain /\ Push(wire[turn], w, n).shows = w
    BY <1>1, <1>2, <1>4, <2>1, <2>2, PushLatches DEF RingsTyped, Chain
  <2>6. \A i \in Ring : /\ Wait(wire[i], t) \in Chain
                        /\ Wait(wire[i], t).shows = wire[i].shows
                        /\ Wait(wire[i], t).left <= wire[i].left
    BY <1>1, <2>3, WaitKeeps DEF RingsTyped, Chain
  <2>7. RingsTyped'
    BY <1>1, <1>2, <2>4, <2>5, <2>6 DEF RingsTyped
  <2>8. WordShown'
    BY <1>1, <1>2, <2>4, <2>5, <2>6 DEF RingsInv, WordShown, RingsTyped, w
  <2>9. QuietAhead'
    <3> SUFFICES ASSUME NEW j \in Ring, j >= turn'
                 PROVE  wire'[j].left <= FrameSleep - LatchGap
      BY DEF QuietAhead
    <3>1. j # turn /\ wire[j].left <= FrameSleep - LatchGap
      BY <1>3, <1>4
    <3>2. wire'[j] = Wait(wire[j], t) /\ Wait(wire[j], t).left <= wire[j].left
      BY <2>4, <2>6, <3>1
    <3>3. wire[j].left \in -280..270 /\ Wait(wire[j], t).left \in -280..270
      BY <1>1, <2>6 DEF RingsTyped, Chain, LatchGap, PixelTime, Queued
    <3>4. FrameSleep - LatchGap = 20
      BY DEF FrameSleep, LatchGap
    <3>5. wire[j].left <= FrameSleep - LatchGap
      BY <3>1
    <3>6. Wait(wire[j], t).left <= FrameSleep - LatchGap
      BY <3>2, <3>3, <3>4, <3>5, AtMostPassesOn
    <3> QED
      BY <3>2, <3>6
  <2> QED
    BY <2>7, <2>8, <2>9 DEF RingsInv
<1>6. CASE ~(dirty[turn] /\ Renderable(turn))
  <2>1. UNCHANGED <<wire, dirty>>
    BY <1>6 DEF Flush
  <2>2. RingsTyped' /\ WordShown'
    BY <1>1, <1>2, <2>1 DEF RingsInv, RingsTyped, WordShown
  <2>3. QuietAhead'
    BY <1>3, <1>4, <2>1 DEF QuietAhead
  <2> QED
    BY <2>2, <2>3 DEF RingsInv
<1> QED
  BY <1>5, <1>6

LEMMA SetKeeps ==
    ASSUME RingsInv, NEW i \in Ring, NEW c \in RingCmds, Set(i, c), stage' = stage
    PROVE  RingsInv'
<1> DEFINE now == IF Valid(c) THEN Updated(st[i], c) ELSE st[i]
<1>1. RingsTyped
  BY DEF RingsInv
<1>2. now \in Colour
  BY <1>1, UpdatedOK DEF RingsTyped, Colour
<1>3. /\ st' = [st EXCEPT ![i] = now]
      /\ dirty' = [dirty EXCEPT ![i] = @ \/ now # st[i]]
      /\ UNCHANGED <<wire, turn>>
  BY DEF Set
<1> HIDE DEF now
<1>4. RingsTyped'
  BY <1>1, <1>2, <1>3 DEF RingsTyped
<1>5. WordShown'
  BY <1>1, <1>3 DEF RingsInv, WordShown, RingsTyped
<1>6. QuietAhead'
  BY <1>3 DEF RingsInv, QuietAhead
<1> QED
  BY <1>4, <1>5, <1>6 DEF RingsInv

LEMMA RestartKeeps == RingsInv /\ RingsRestart => RingsInv'
<1> SUFFICES ASSUME RingsInv, RingsRestart PROVE RingsInv'
  OBVIOUS
<1>1. RingsTyped
  BY DEF RingsInv
<1>2. \A i \in Ring : wire[i].shows \in Word24
  BY <1>1 DEF RingsTyped, Chain
<1>3. RingsTyped'
  BY <1>2, DarkIsColour, IdleIsChain, RingsAssumption DEF RingsRestart, RingsTyped
<1>4. WordShown'
  BY DEF RingsRestart, WordShown
<1>5. QuietAhead'
  BY <1>2, IdleIsChain DEF RingsRestart, QuietAhead
<1> QED
  BY <1>3, <1>4, <1>5 DEF RingsInv

LEMMA RingsNext == RingsInv /\ [Next]_vars => RingsInv'
<1> SUFFICES ASSUME RingsInv, [Next]_vars PROVE RingsInv'
  OBVIOUS
<1>1. RingsTyped
  BY DEF RingsInv
<1>2. CASE UNCHANGED <<ringVars, stage>>
  <2>1. UNCHANGED <<st, dirty, wire, turn, stage>>
    BY <1>2 DEF ringVars
  <2> QED
    BY <2>1 DEF RingsInv, RingsTyped, WordShown, QuietAhead
<1>3. CASE BootFlush
  BY <1>3, FlushKeeps DEF BootFlush
<1>4. CASE StartNet
  <2>1. stage' = "net" /\ turn' = 1 /\ UNCHANGED <<st, dirty, wire>>
    BY <1>4 DEF StartNet
  <2>2. RingsTyped'
    BY <1>1, <2>1, RingsAssumption DEF RingsTyped
  <2>3. WordShown' /\ QuietAhead'
    BY <2>1 DEF RingsInv, WordShown, QuietAhead
  <2> QED
    BY <2>2, <2>3 DEF RingsInv
<1>5. CASE NetStep \/ NetWire \/ LoopLed
  BY <1>2, <1>5 DEF NetStep, NetWire, LoopLed
<1>6. CASE EnterLoop
  <2>1. /\ wire' = [i \in Ring |-> Wait(wire[i], 1000 * TickSleep)]
        /\ UNCHANGED <<st, dirty, turn>>
    BY <1>6 DEF EnterLoop
  <2>2. 1000 * TickSleep \in Nat /\ 1000 * TickSleep >= TickSleep
    BY DEF TickSleep
  <2>3. turn' \in 1..RINGS + 1
    BY <1>1, <2>1 DEF RingsTyped
  <2>4. /\ RingsTyped' /\ WordShown'
        /\ \A i \in Ring : wire'[i].left <= FrameSleep - LatchGap
    BY <2>1, <2>2, <2>3, WaitingKeeps
  <2> QED
    BY <2>4 DEF RingsInv, QuietAhead
<1>7. CASE LoopRings
  <2>1. CASE \E i \in Ring, c \in RingCmds : Set(i, c)
    BY <1>7, <2>1, SetKeeps DEF LoopRings
  <2>2. CASE Flush
    BY <1>7, <2>2, FlushKeeps DEF LoopRings
  <2>3. CASE NextPass
    <3>1. /\ wire' = [i \in Ring |-> Wait(wire[i], TickSleep)]
          /\ UNCHANGED <<st, dirty>> /\ turn' = 1
      BY <2>3 DEF NextPass
    <3>2. TickSleep \in Nat /\ TickSleep >= TickSleep /\ 1 \in 1..RINGS + 1
      BY RingsAssumption DEF TickSleep
    <3>3. /\ RingsTyped' /\ WordShown'
          /\ \A i \in Ring : wire'[i].left <= FrameSleep - LatchGap
      BY <3>1, <3>2, WaitingKeeps
    <3> QED
      BY <3>3 DEF RingsInv, QuietAhead
  <2> QED
    BY <1>7, <2>1, <2>2, <2>3 DEF LoopRings
<1>8. CASE Reset
  <2>1. CASE RingsRestart
    BY <2>1, RestartKeeps
  <2>2. CASE stage' = "recovery" /\ UNCHANGED ringVars
    <3>1. UNCHANGED <<st, dirty, wire, turn>>
      BY <2>2 DEF ringVars
    <3> QED
      BY <2>2, <3>1 DEF RingsInv, RingsTyped, WordShown, QuietAhead
  <2> QED
    BY <1>8, <2>1, <2>2 DEF Reset
<1> QED
  BY <1>2, <1>3, <1>4, <1>5, <1>6, <1>7, <1>8 DEF Next, vars

\* Commands, refused ones included, and frames leave the rings well typed.
THEOREM RingsTypeCorrect == Spec => []RingTypeOK
<1>1. ASSUME RingsInv PROVE RingTypeOK
  <2>1. \A i \in Ring : /\ wire[i].shows \in Word24
                        /\ wire[i].left \in -LatchGap..PixelTime * Queued
    BY <1>1 DEF RingsInv, RingsTyped, Chain
  <2> QED
    BY <1>1, <2>1 DEF RingsInv, RingsTyped, RingTypeOK, Colour, Word24
<1> QED
  BY <1>1, RingsInitInv, RingsNext, PTL DEF Spec

\* A ring shows its commanded colour, scaled to its brightness and rounded, unless
\* its frame is pending, whatever the number of rings and of their LEDs and
\* whatever the colours: no frame runs into the one before.
THEOREM RingsAlwaysShown == Spec => []RingsShown
<1>1. RingsInv => RingsShown
  BY PixelLooks DEF RingsInv, RingsTyped, WordShown, RingsShown
<1> QED
  BY <1>1, RingsInitInv, RingsNext, PTL DEF Spec

-----------------------------------------------------------------------------
(* The script *)

LEMMA ScriptWithDhcp ==
    ASSUME dhcp
    PROVE  /\ Len(Script) = 12
           /\ Script[1] = "enter" /\ Script[2] = "MODE"
           /\ Script[3] = "DHCP" /\ Script[4] = "PORT" /\ Script[5] = "BAUD"
           /\ Script[6] = "SAVE" /\ Script[7] = "EXEC" /\ Script[8] = "exit"
           /\ Script[9] = "enter" /\ Script[10] = "READ_MAC"
           /\ Script[11] = "READ_IP" /\ Script[12] = "exit"
BY DEF Script

LEMMA ScriptWithStatic ==
    ASSUME ~dhcp
    PROVE  /\ Len(Script) = 15
           /\ Script[1] = "enter" /\ Script[2] = "MODE"
           /\ Script[3] = "DHCP" /\ Script[4] = "PORT"
           /\ Script[5] = "IP" /\ Script[6] = "SUBNET" /\ Script[7] = "GATEWAY"
           /\ Script[8] = "BAUD" /\ Script[9] = "SAVE" /\ Script[10] = "EXEC"
           /\ Script[11] = "exit" /\ Script[12] = "enter"
           /\ Script[13] = "READ_MAC" /\ Script[14] = "READ_IP"
           /\ Script[15] = "exit"
BY DEF Script

Save == IF dhcp THEN 6 ELSE 9
Exec == Save + 1

LEMMA ScriptFacts ==
    /\ Len(Script) \in {12, 15}
    /\ 2 < Save /\ Save \in Nat /\ Exec = Save + 1 /\ Exec < Len(Script)
    /\ \A i \in 1..Len(Script) :
           /\ Script[i] = "MODE" <=> i = 2
           /\ Script[i] = "SAVE" <=> i = Save
           /\ Script[i] = "EXEC" <=> i = Exec
    /\ Script[1] = "enter"
    /\ \A s \in Settings : \E i \in 2..Save - 1 : Script[i] = s
    /\ {"SAVE", "EXEC"} \cap Settings = {}
<1>1. CASE dhcp
  <2>1. Save = 6 /\ Exec = 7 /\ Len(Script) = 12
    BY <1>1, ScriptWithDhcp DEF Save, Exec
  <2>2. \A i \in 1..12 :
           i = 1 \/ i = 2 \/ i = 3 \/ i = 4 \/ i = 5 \/ i = 6
           \/ i = 7 \/ i = 8 \/ i = 9 \/ i = 10 \/ i = 11 \/ i = 12
    OBVIOUS
  <2>3. Settings = {"MODE", "DHCP", "PORT", "BAUD"}
    BY <1>1 DEF Settings
  <2>4. \A i \in 1..12 : /\ Script[i] = "MODE" <=> i = 2
                         /\ Script[i] = "SAVE" <=> i = 6
                         /\ Script[i] = "EXEC" <=> i = 7
    BY <1>1, <2>2, ScriptWithDhcp
  <2>5. \A s \in Settings : \E i \in 2..5 : Script[i] = s
    BY <1>1, <2>3, ScriptWithDhcp
  <2> QED
    BY <1>1, <2>1, <2>3, <2>4, <2>5, ScriptWithDhcp
<1>2. CASE ~dhcp
  <2>1. Save = 9 /\ Exec = 10 /\ Len(Script) = 15
    BY <1>2, ScriptWithStatic DEF Save, Exec
  <2>2. \A i \in 1..15 :
           i = 1 \/ i = 2 \/ i = 3 \/ i = 4 \/ i = 5 \/ i = 6 \/ i = 7 \/ i = 8
           \/ i = 9 \/ i = 10 \/ i = 11 \/ i = 12 \/ i = 13 \/ i = 14 \/ i = 15
    OBVIOUS
  <2>3. Settings = {"MODE", "DHCP", "PORT", "BAUD", "IP", "SUBNET", "GATEWAY"}
    BY <1>2 DEF Settings, Static
  <2>4. \A i \in 1..15 : /\ Script[i] = "MODE" <=> i = 2
                         /\ Script[i] = "SAVE" <=> i = 9
                         /\ Script[i] = "EXEC" <=> i = 10
    BY <1>2, <2>2, ScriptWithStatic
  <2>5. \A s \in Settings : \E i \in 2..8 : Script[i] = s
    BY <1>2, <2>3, ScriptWithStatic
  <2> QED
    BY <1>2, <2>1, <2>3, <2>4, <2>5, ScriptWithStatic
<1> QED
  BY <1>1, <1>2

-----------------------------------------------------------------------------
(* What the chip is told *)

NetTyped ==
    /\ wired \in BOOLEAN /\ waiting \in BOOLEAN /\ faulty \in BOOLEAN
    /\ good \in BOOLEAN
    /\ staged \subseteq Settings /\ stored \subseteq Settings
    /\ active \subseteq Settings
    /\ at \in 1..Len(Script) + 2
    /\ waiting => IsCommand

\* Once right, the three places a setting can be agree for good.
ChipKept == good => staged = Settings /\ stored = Settings /\ active = Settings

\* The commands net_init has sent so far.
Sent(i) == i < at \/ (i = at /\ waiting)

\* Where nothing went wrong, the chip has done what it was told.
Obeyed ==
    wired /\ ~faulty =>
        \A i \in 1..Len(Script) :
            Sent(i) => /\ Script[i] \in Settings => Script[i] \in staged
                       /\ i = Save => stored = Settings
                       /\ i = Exec => active = Settings

ChipInv == NetTyped /\ ChipKept /\ Obeyed

LEMMA SameScript ==
    ASSUME dhcp' = dhcp
    PROVE  Settings' = Settings /\ Script' = Script /\ Save' = Save /\ Exec' = Exec
BY DEF Settings, Script, Save, Exec

\* All settings were sent: the chip has staged them all.
LEMMA StagedAll ==
    ASSUME NetTyped, Obeyed, wired, ~faulty, at >= Save
    PROVE  staged = Settings
<1>1. ASSUME NEW s \in Settings PROVE s \in staged
  <2>1. PICK i \in 2..Save - 1 : Script[i] = s
    BY <1>1, ScriptFacts
  <2>2. i \in 1..Len(Script) /\ i < at
    BY <2>1, ScriptFacts DEF NetTyped
  <2> QED
    BY <1>1, <2>1, <2>2 DEF Obeyed, Sent
<1> QED
  BY <1>1 DEF NetTyped

\* A command reaches a chip that was right, or one that hears everything.
LEMMA TakenKeeps ==
    ASSUME NetTyped, ChipKept, Obeyed, IsCommand, Taken
    PROVE  /\ staged' \subseteq Settings /\ stored' \subseteq Settings
           /\ active' \subseteq Settings /\ UNCHANGED <<wired, dhcp>>
           /\ good => staged' = Settings /\ stored' = Settings /\ active' = Settings
           /\ wired /\ ~faulty =>
                  /\ staged \subseteq staged'
                  /\ Step \in Settings => Step \in staged'
                  /\ stored = Settings => stored' = Settings
                  /\ at = Save => stored' = Settings
                  /\ active = Settings => active' = Settings
                  /\ at = Exec => active' = Settings
<1>1. at \in 1..Len(Script) /\ Step = Script[at]
  BY ScriptFacts DEF NetTyped, IsCommand, Finished, Step
<1>2. /\ Step = "SAVE" <=> at = Save
      /\ Step = "EXEC" <=> at = Exec
      /\ Step \in Settings => Step # "SAVE" /\ Step # "EXEC"
  BY <1>1, ScriptFacts
<1>3. UNCHANGED <<wired, dhcp>>
  BY DEF Taken
<1>4. CASE Step = "SAVE"
  <2>1. stored' = staged /\ staged' = staged /\ active' = active
    BY <1>2, <1>4 DEF Taken
  <2>2. wired /\ ~faulty => staged = Settings
    BY <1>1, <1>2, <1>4, StagedAll DEF NetTyped
  <2>3. at # Exec
    BY <1>2, <1>4
  <2> QED
    BY <1>2, <1>3, <1>4, <2>1, <2>2, <2>3 DEF NetTyped, ChipKept
<1>5. CASE Step = "EXEC"
  <2>1. stored' = stored /\ staged' = active' /\ active' \in {staged, stored}
    BY <1>5 DEF Taken
  <2>2. wired /\ ~faulty => staged = Settings /\ stored = Settings
    <3>1. at = Exec /\ at >= Save /\ Save < at /\ Save \in 1..Len(Script)
      BY <1>2, <1>5, ScriptFacts
    <3> QED
      BY <3>1, StagedAll DEF Obeyed, Sent
  <2>3. at # Save
    BY <1>2, <1>5
  <2> QED
    BY <1>2, <1>3, <1>5, <2>1, <2>2, <2>3 DEF NetTyped, ChipKept
<1>6. CASE Step # "SAVE" /\ Step # "EXEC"
  <2>1. /\ stored' = stored /\ active' = active
        /\ staged' = IF Step \in Settings THEN staged \cup {Step} ELSE staged
    BY <1>6 DEF Taken
  <2>2. at # Save /\ at # Exec
    BY <1>2, <1>6
  <2> QED
    BY <1>3, <2>1, <2>2 DEF NetTyped, ChipKept
<1> QED
  BY <1>4, <1>5, <1>6

\* Where in the script net_init can be.
LEMMA Positions ==
    /\ 1 \in 1..Len(Script) + 2
    /\ \A n \in 1..Len(Script) + 1 : n + 1 \in 1..Len(Script) + 2
    /\ \A n \in 1..Len(Script) + 2 :
           n <= Len(Script) => /\ n \in 1..Len(Script)
                               /\ n \in 1..Len(Script) + 1
    /\ Len(Script) + 1 \in 1..Len(Script) + 1
BY ScriptFacts

LEMMA ChipInit == Init => ChipInv
<1> SUFFICES ASSUME Init PROVE ChipInv
  OBVIOUS
<1>1. at = 1 /\ waiting = FALSE /\ good = FALSE /\ faulty = FALSE
  BY DEF Init
<1>2. NetTyped
  <2>1. staged \subseteq Settings /\ stored \subseteq Settings /\ active \subseteq Settings
    BY DEF Init
  <2>2. wired \in BOOLEAN
    BY DEF Init
  <2> QED
    BY <1>1, <2>1, <2>2, Positions DEF NetTyped
<1>3. Obeyed
  <2>1. \A i \in Nat : i >= 1 => ~(i < at)
    BY <1>1
  <2>2. \A i \in 1..Len(Script) : ~Sent(i)
    BY <1>1, <2>1 DEF Sent
  <2> QED
    BY <2>2 DEF Obeyed
<1> QED
  BY <1>1, <1>2, <1>3 DEF ChipInv, ChipKept

\* The chip is left alone, and nothing is awaited any more.
LEMMA MovedOn ==
    ASSUME ChipInv, UNCHANGED chip, at <= Len(Script), at' = at + 1,
           waiting' = FALSE, waiting \/ ~IsCommand,
           good' = good, faulty' = faulty \/ faulty' = TRUE
    PROVE  ChipInv'
<1>1. UNCHANGED <<wired, dhcp, staged, stored, active>>
  BY DEF chip
<1>2. Settings' = Settings /\ Script' = Script /\ Save' = Save /\ Exec' = Exec
  BY <1>1, SameScript
<1>3. at \in 1..Len(Script) /\ at' \in 1..Len(Script) + 2
  BY Positions DEF ChipInv, NetTyped
<1>4. NetTyped'
  <2>1. faulty' \in BOOLEAN
    BY DEF ChipInv, NetTyped
  <2> QED
    BY <1>1, <1>2, <1>3, <2>1 DEF ChipInv, NetTyped
<1>5. ChipKept'
  BY <1>1, <1>2 DEF ChipInv, ChipKept
<1>6. ASSUME wired', ~faulty', NEW i \in 1..Len(Script), Sent(i)'
      PROVE  /\ Script[i] \in Settings => Script[i] \in staged
             /\ i = Save => stored = Settings
             /\ i = Exec => active = Settings
  <2>1. i < at \/ i = at
    BY <1>3, <1>6 DEF Sent
  <2>2. CASE Sent(i)
    BY <1>1, <1>6, <2>2 DEF ChipInv, Obeyed
  <2>3. CASE ~Sent(i)
    <3>1. i = at /\ ~IsCommand
      BY <2>1, <2>3 DEF Sent
    <3>2. Script[i] \in {"enter", "exit"}
      BY <1>3, <3>1 DEF IsCommand, Finished, Step
    <3>3. Script[i] \notin Settings /\ i # Save /\ i # Exec
      BY <3>2, ScriptFacts DEF Settings, Static
    <3> QED
      BY <3>3
  <2> QED
    BY <2>2, <2>3
<1>7. Obeyed'
  BY <1>1, <1>2, <1>6 DEF Obeyed
<1> QED
  BY <1>4, <1>5, <1>7 DEF ChipInv

\* A command goes out and finds the chip, or does not.
LEMMA SentOut ==
    ASSUME ChipInv, IsCommand, ~waiting, waiting' = TRUE, at' = at, good' = good,
           \/ wired /\ Taken /\ (faulty' = faulty \/ faulty' = TRUE)
           \/ /\ UNCHANGED <<wired, dhcp, staged, stored, active>>
              /\ faulty' = TRUE \/ (~wired /\ faulty' = faulty)
    PROVE  ChipInv'
<1>1. NetTyped /\ ChipKept /\ Obeyed
  BY DEF ChipInv
<1>2. UNCHANGED <<wired, dhcp>>
  BY <1>1, TakenKeeps
<1>3. Settings' = Settings /\ Script' = Script /\ Save' = Save /\ Exec' = Exec
  BY <1>2, SameScript
<1>4. at \in 1..Len(Script) /\ Step = Script[at] /\ IsCommand'
  BY <1>1, <1>3, ScriptFacts DEF NetTyped, IsCommand, Finished, Step
<1>5. CASE wired /\ Taken /\ (faulty' = faulty \/ faulty' = TRUE)
  <2>1. /\ staged' \subseteq Settings /\ stored' \subseteq Settings
        /\ active' \subseteq Settings
        /\ good => staged' = Settings /\ stored' = Settings /\ active' = Settings
        /\ wired /\ ~faulty =>
               /\ staged \subseteq staged'
               /\ Step \in Settings => Step \in staged'
               /\ stored = Settings => stored' = Settings
               /\ at = Save => stored' = Settings
               /\ active = Settings => active' = Settings
               /\ at = Exec => active' = Settings
    BY <1>1, <1>5, TakenKeeps
  <2>2. NetTyped'
    BY <1>1, <1>2, <1>3, <1>4, <1>5, <2>1 DEF NetTyped
  <2>3. ChipKept'
    BY <1>3, <2>1 DEF ChipKept
  <2>4. ASSUME wired', ~faulty', NEW i \in 1..Len(Script), Sent(i)'
        PROVE  /\ Script[i] \in Settings => Script[i] \in staged'
               /\ i = Save => stored' = Settings
               /\ i = Exec => active' = Settings
    <3>1. wired /\ ~faulty
      BY <1>2, <1>5, <2>4
    <3>2. i < at \/ i = at
      BY <2>4 DEF Sent
    <3>3. CASE i < at
      BY <1>1, <2>1, <3>1, <3>3 DEF Obeyed, Sent
    <3>4. CASE i = at
      BY <1>4, <2>1, <3>1, <3>4
    <3> QED
      BY <3>2, <3>3, <3>4
  <2>5. Obeyed'
    BY <1>2, <1>3, <2>4 DEF Obeyed
  <2> QED
    BY <2>2, <2>3, <2>5 DEF ChipInv
<1>6. CASE /\ UNCHANGED <<wired, dhcp, staged, stored, active>>
           /\ faulty' = TRUE \/ (~wired /\ faulty' = faulty)
  <2>1. UNCHANGED <<staged, stored, active>>
    BY <1>6
  <2>2. NetTyped'
    BY <1>1, <1>2, <1>3, <1>4, <1>6, <2>1 DEF NetTyped
  <2>3. ChipKept'
    BY <1>1, <1>3, <2>1 DEF ChipKept
  <2>4. Obeyed'
    BY <1>2, <1>6 DEF Obeyed
  <2> QED
    BY <2>2, <2>3, <2>4 DEF ChipInv
<1> QED
  BY <1>5, <1>6

\* Bytes move, the chip hears nothing.
LEMMA ChipIdle ==
    ASSUME ChipInv,
           UNCHANGED <<wired, dhcp, staged, stored, active, at, waiting, faulty, good>>
    PROVE  ChipInv'
<1>1. Settings' = Settings /\ Script' = Script /\ Save' = Save /\ Exec' = Exec
  BY SameScript
<1>2. IsCommand' = IsCommand
  BY <1>1 DEF IsCommand, Finished, Step
<1>3. NetTyped'
  BY <1>1, <1>2 DEF ChipInv, NetTyped
<1>4. ChipKept'
  BY <1>1 DEF ChipInv, ChipKept
<1>5. \A i : Sent(i)' = Sent(i)
  BY DEF Sent
<1>6. Obeyed'
  BY <1>1, <1>5 DEF ChipInv, Obeyed
<1> QED
  BY <1>3, <1>4, <1>6 DEF ChipInv

LEMMA NetStartKeeps == ASSUME ChipInv, NetStart PROVE ChipInv'
<1>1. UNCHANGED <<wired, dhcp, stored, good>> /\ active' = stored /\ staged' = stored
      /\ at' = 1 /\ waiting' = FALSE /\ faulty' = FALSE
  BY DEF NetStart
<1>2. Settings' = Settings /\ Script' = Script /\ Save' = Save /\ Exec' = Exec
  BY <1>1, SameScript
<1>3. NetTyped'
  BY <1>1, <1>2, Positions DEF ChipInv, NetTyped
<1>4. ChipKept'
  BY <1>1, <1>2 DEF ChipInv, ChipKept
<1>5. Obeyed'
  BY <1>1 DEF Obeyed, Sent
<1> QED
  BY <1>3, <1>4, <1>5 DEF ChipInv

\* net_init is through: where nothing went wrong, everything is in place.
LEMMA AllInPlace ==
    ASSUME ChipInv, wired, ~faulty, at > Len(Script)
    PROVE  staged = Settings /\ stored = Settings /\ active = Settings
<1>1. at >= Save /\ Save \in 1..Len(Script) /\ Exec \in 1..Len(Script)
      /\ Save < at /\ Exec < at
  BY ScriptFacts DEF ChipInv, NetTyped
<1>2. staged = Settings
  BY <1>1, StagedAll DEF ChipInv
<1> QED
  BY <1>1, <1>2 DEF ChipInv, Obeyed, Sent

LEMMA ToDataModeKeeps == ASSUME ChipInv, ToDataMode PROVE ChipInv'
<1>1. UNCHANGED <<wired, dhcp, staged, stored, active, waiting, faulty>>
      /\ at = Len(Script) + 1 /\ at' = at + 1
      /\ good' = (good \/ (wired /\ ~faulty))
  BY DEF ToDataMode, chip
<1>2. Settings' = Settings /\ Script' = Script /\ Save' = Save /\ Exec' = Exec
  BY <1>1, SameScript
<1>3. at > Len(Script) /\ at' \in 1..Len(Script) + 2
  BY <1>1, ScriptFacts, Positions
<1>4. ~waiting
  BY <1>3 DEF ChipInv, NetTyped, IsCommand, Finished
<1>5. good' \in BOOLEAN
  BY <1>1 DEF ChipInv, NetTyped
<1>6. NetTyped'
  BY <1>1, <1>2, <1>3, <1>4, <1>5 DEF ChipInv, NetTyped
<1>7. ChipKept'
  BY <1>1, <1>2, <1>3, AllInPlace DEF ChipInv, ChipKept
<1>8. ASSUME wired', ~faulty' PROVE staged = Settings /\ stored = Settings /\ active = Settings
  BY <1>1, <1>3, <1>8, AllInPlace
<1>9. Obeyed'
  BY <1>1, <1>2, <1>8 DEF Obeyed
<1> QED
  BY <1>6, <1>7, <1>9 DEF ChipInv

LEMMA ChipNext == ChipInv /\ [Next]_vars => ChipInv'
<1> SUFFICES ASSUME ChipInv, [Next]_vars PROVE ChipInv'
  OBVIOUS
<1>1. CASE UNCHANGED netVars
  BY <1>1, ChipIdle DEF netVars, chip, history
<1>2. CASE StartNet
  BY <1>2, NetStartKeeps DEF StartNet
<1>3. CASE NetStep
  <2>1. CASE Enter
    <3>1. at <= Len(Script) /\ ~IsCommand /\ ~waiting
      BY <2>1, ScriptFacts DEF Enter, ChipInv, NetTyped, IsCommand, Finished
    <3> QED
      BY <2>1, <3>1, MovedOn DEF Enter, history, ChipInv, NetTyped
  <2>2. CASE Exit
    <3>1. at <= Len(Script) /\ ~IsCommand /\ ~waiting
      BY <2>2, ScriptFacts DEF Exit, ChipInv, NetTyped, IsCommand, Finished
    <3> QED
      BY <2>2, <3>1, MovedOn DEF Exit, history, ChipInv, NetTyped
  <2>3. CASE Send
    BY <2>3, SentOut DEF Send
  <2>4. CASE SendInVain
    BY <2>4, SentOut DEF SendInVain, history, chip
  <2>5. CASE SendLossy
    <3>1. at' = at /\ good' = good /\ faulty' = TRUE
      BY <2>5 DEF SendLossy
    <3>2. IsCommand /\ ~waiting /\ waiting' = TRUE
      BY <2>5 DEF SendLossy
    <3>3. \/ UNCHANGED <<wired, dhcp, staged, stored, active>>
          \/ wired /\ Taken
      BY <2>5 DEF SendLossy, chip
    <3>4. CASE UNCHANGED <<wired, dhcp, staged, stored, active>>
      BY <3>1, <3>2, <3>4, SentOut
    <3>5. CASE wired /\ Taken
      BY <3>1, <3>2, <3>5, SentOut
    <3> QED
      BY <3>3, <3>4, <3>5
  <2>6. ASSUME waiting, NEW bytes, Answered(bytes), UNCHANGED <<chip, good>>,
               faulty' = faulty \/ faulty' = TRUE
        PROVE  ChipInv'
    <3>1. at <= Len(Script)
      BY <2>6, ScriptFacts DEF ChipInv, NetTyped, IsCommand, Finished
    <3> QED
      BY <2>6, <3>1, MovedOn DEF Answered
  <2>7. CASE Receive
    BY <2>6, <2>7 DEF Receive, history
  <2>8. CASE TimeOut
    BY <2>6, <2>8 DEF TimeOut, history
  <2>9. CASE TimeOutEarly
    BY <2>6, <2>9 DEF TimeOutEarly
  <2>10. CASE ToDataMode
    BY <2>10, ToDataModeKeeps
  <2> QED
    BY <1>3, <2>1, <2>2, <2>3, <2>4, <2>5, <2>7, <2>8, <2>9, <2>10
       DEF NetStep, NetInit
<1>4. CASE NetWire
  BY <1>4, ChipIdle DEF NetWire, Arrive, Garbage, chip, history
<1>5. CASE Reset
  BY <1>5, ChipIdle DEF Reset, Attach, netVars, chip, history
<1> QED
  BY <1>1, <1>2, <1>3, <1>4, <1>5
     DEF Next, vars, BootFlush, EnterLoop, LoopLed, LoopRings

\* Once configured, always configured: no lost command, late answer or reset takes
\* the chip from its settings, for any number of each.
THEOREM ChipStaysConfigured == Spec => []StaysConfigured
<1>1. ChipInv => StaysConfigured
  BY DEF ChipInv, ChipKept, StaysConfigured
<1> QED
  BY <1>1, ChipInit, ChipNext, PTL DEF Spec

-----------------------------------------------------------------------------
(* What the chip answers *)

\* While MODE is asked, the FIFO holds its acknowledgement or nothing: enter_config
\* flushed it, and with CFG low no garbage gets in.
ModeAnswer ==
    stage = "net" /\ at = 2 =>
        /\ cfg
        /\ ~waiting => air = <<>>
        /\ waiting => \/ rx = <<>> /\ air = <<>> /\ (~wired \/ faulty)
                      \/ wired /\ acked /\ rx = <<>> /\ air = <<ACK>>
                      \/ wired /\ acked /\ rx = <<ACK>> /\ air = <<>>

Responds ==
    /\ responding => wired /\ acked
    /\ at > 2 /\ wired /\ ~faulty => responding

Confirms ==
    /\ confirmed => responding /\ stage = "loop"
    /\ stage = "loop" => at = Len(Script) + 2 /\ (responding => confirmed)

AnswerInv == ModeAnswer /\ Responds /\ Confirms

LEMMA AnswerInit == Init => AnswerInv
<1> SUFFICES ASSUME Init PROVE AnswerInv
  OBVIOUS
<1>1. at = 1 /\ stage = "rings" /\ responding = FALSE /\ confirmed = FALSE
  BY DEF Init
<1>2. ~(at > 2)
  BY <1>1
<1> QED
  BY <1>1, <1>2 DEF AnswerInv, ModeAnswer, Responds, Confirms

LEMMA OneByte ==
    /\ IsAck(SubSeq(<<ACK>>, 1, 1)) /\ ~IsAck(<<>>)
    /\ Len(<<>>) < 1 /\ ~(Len(<<>>) >= 1) /\ Len(<<ACK>>) >= 1 /\ ~(Len(<<ACK>>) < 1)
    /\ <<>> \o <<ACK>> = <<ACK>> /\ Append(<<>>, ACK) = <<ACK>>
    /\ Head(<<ACK>>) = ACK /\ Tail(<<ACK>>) = <<>> /\ <<>> # <<ACK>>
<1>1. /\ Len(<<>>) < 1 /\ ~(Len(<<>>) >= 1)
      /\ Len(<<ACK>>) >= 1 /\ ~(Len(<<ACK>>) < 1)
  OBVIOUS
<1>2. <<>> \o <<ACK>> = <<ACK>> /\ Append(<<>>, ACK) = <<ACK>>
  BY DEF ACK
<1>3. Head(<<ACK>>) = ACK /\ Tail(<<ACK>>) = <<>> /\ <<>> # <<ACK>>
  BY DEF ACK
<1>4. SubSeq(<<ACK>>, 1, 1) = <<ACK>>
  <2>1. <<ACK>> \in Seq({ACK}) /\ Len(<<ACK>>) = 1
    OBVIOUS
  <2> QED
    BY <2>1, SubSeqFull
<1> QED
  BY <1>1, <1>2, <1>3, <1>4 DEF IsAck

\* MODE is the second step, answered with one byte.
LEMMA ModeStep ==
    ASSUME at \in 1..Len(Script) + 2, IsCommand
    PROVE  /\ at >= 2 /\ at <= Len(Script)
           /\ Step = "MODE" <=> at = 2
           /\ at = 2 => Expected = 1 /\ Reply = <<ACK>> /\ Step # "EXEC"
<1>1. at \in 1..Len(Script)
  BY ScriptFacts DEF IsCommand, Finished
<1>2. at # 1
  BY ScriptFacts DEF IsCommand, Step
<1>3. Step = "MODE" <=> at = 2
  BY <1>1, ScriptFacts DEF Step
<1>4. at = 2 => Expected = 1 /\ Reply = <<ACK>> /\ Step # "EXEC"
  BY <1>3 DEF Expected, Reply
<1> QED
  BY <1>1, <1>2, <1>3, <1>4

\* A step of net_init past MODE disturbs nothing as long as it leaves the status be.
LEMMA ElsewhereKeeps ==
    ASSUME ChipInv, AnswerInv, stage = "net", stage' = "net", confirmed' = confirmed,
           UNCHANGED <<wired, dhcp, responding>>, acked => acked',
           faulty' = faulty \/ faulty' = TRUE, at' # 2, at' > 2 => at > 2
    PROVE  AnswerInv'
<1>1. ModeAnswer'
  BY DEF ModeAnswer
<1>2. Responds'
  BY DEF AnswerInv, Responds
<1>3. Confirms'
  BY DEF AnswerInv, Confirms
<1> QED
  BY <1>1, <1>2, <1>3 DEF AnswerInv

\* Nothing of it is touched.
LEMMA AnswerIdle ==
    ASSUME AnswerInv, UNCHANGED <<netVars, stage, confirmed>>
    PROVE  AnswerInv'
<1>1. Script' = Script
  BY SameScript DEF netVars, chip
<1> QED
  BY <1>1 DEF AnswerInv, ModeAnswer, Responds, Confirms,
              netVars, chip, uart, status, history

LEMMA SendAnswered ==
    ASSUME ChipInv, AnswerInv, stage = "net", stage' = "net", confirmed' = confirmed,
           Send \/ SendInVain \/ SendLossy
    PROVE  AnswerInv'
<1>1. /\ IsCommand /\ ~waiting /\ waiting' = TRUE /\ rx' = <<>>
      /\ UNCHANGED <<at, cfg, responding>>
  BY DEF Send, SendInVain, SendLossy, FlushedRx, status
<1>2. /\ UNCHANGED <<wired, dhcp>> /\ (faulty' = faulty \/ faulty' = TRUE)
      /\ acked => acked'
  <2>1. CASE Send
    BY <2>1 DEF Send, Taken
  <2>2. CASE SendInVain
    BY <2>2 DEF SendInVain, chip, history
  <2>3. CASE SendLossy
    <3>1. faulty' = TRUE /\ (UNCHANGED <<chip, acked>> \/ Taken)
      BY <2>3 DEF SendLossy
    <3>2. CASE UNCHANGED <<chip, acked>>
      BY <3>1, <3>2 DEF chip
    <3>3. CASE Taken
      BY <3>1, <3>3 DEF Taken
    <3> QED
      BY <3>1, <3>2, <3>3
  <2> QED
    BY <2>1, <2>2, <2>3
<1>3. /\ at >= 2
      /\ Step = "MODE" <=> at = 2
      /\ at = 2 => Expected = 1 /\ Reply = <<ACK>> /\ Step # "EXEC"
  BY <1>1, ModeStep DEF ChipInv, NetTyped
<1>4. CASE at > 2
  <2>1. at' # 2 /\ (at' > 2 => at > 2)
    BY <1>1, <1>4
  <2> QED
    BY <1>1, <1>2, <2>1, ElsewhereKeeps
<1>5. CASE at = 2
  <2>1. cfg /\ air = <<>> /\ cfg' = cfg
    BY <1>1, <1>5 DEF AnswerInv, ModeAnswer
  <2>2. \/ air' = <<>> /\ (~wired' \/ faulty')
        \/ air' = <<ACK>> /\ wired' /\ acked'
    <3>1. CASE Send
      <4>1. air' = air \o Reply /\ wired /\ acked'
        BY <1>3, <1>5, <3>1 DEF Send, Taken
      <4> QED
        BY <1>2, <1>3, <1>5, <2>1, <4>1, OneByte
    <3>2. CASE SendInVain
      BY <1>2, <2>1, <3>2 DEF SendInVain
    <3>3. CASE SendLossy
      BY <2>1, <3>3 DEF SendLossy
    <3> QED
      BY <3>1, <3>2, <3>3
  <2>3. ModeAnswer'
    BY <1>1, <2>1, <2>2 DEF ModeAnswer
  <2>4. ~(at > 2) /\ ~(at > 2)'
    BY <1>1, <1>5
  <2>5. Responds'
    BY <1>1, <1>2, <2>4 DEF AnswerInv, Responds
  <2>6. Confirms'
    BY DEF AnswerInv, Confirms
  <2> QED
    BY <2>3, <2>5, <2>6 DEF AnswerInv
<1> QED
  BY <1>3, <1>4, <1>5 DEF ChipInv, NetTyped

LEMMA ResultTaken ==
    ASSUME ChipInv, AnswerInv, stage = "net", stage' = "net", confirmed' = confirmed,
           Receive \/ TimeOut \/ TimeOutEarly
    PROVE  AnswerInv'
<1>1. /\ waiting /\ at' = at + 1 /\ UNCHANGED <<wired, dhcp, acked>>
      /\ faulty' = faulty \/ faulty' = TRUE
  BY DEF Receive, TimeOut, TimeOutEarly, Answered, chip, history
<1>2. IsCommand /\ at \in 1..Len(Script) + 2
  BY <1>1 DEF ChipInv, NetTyped
<1>3. /\ at >= 2
      /\ Step = "MODE" <=> at = 2
      /\ at = 2 => Expected = 1
  BY <1>2, ModeStep
<1>4. at' # 2 /\ at \in Nat
  BY <1>1, <1>2, <1>3, ScriptFacts
<1>5. CASE at > 2
  <2>1. responding' = responding
    BY <1>3, <1>4, <1>5 DEF Receive, TimeOut, TimeOutEarly, Answered
  <2> QED
    BY <1>1, <1>4, <1>5, <2>1, ElsewhereKeeps
<1>6. CASE at = 2
  <2>1. \/ rx = <<>> /\ air = <<>> /\ (~wired \/ faulty)
        \/ wired /\ acked /\ rx = <<>> /\ air = <<ACK>>
        \/ wired /\ acked /\ rx = <<ACK>> /\ air = <<>>
    BY <1>1, <1>6 DEF AnswerInv, ModeAnswer
  <2>2. CASE Receive
    <3>1. Len(rx) >= 1 /\ responding' = IsAck(SubSeq(rx, 1, 1))
      BY <1>3, <1>6, <2>2 DEF Receive, Answered
    <3>2. rx = <<ACK>> /\ wired /\ acked
      BY <2>1, <3>1, OneByte
    <3>3. responding' = TRUE
      BY <3>1, <3>2, OneByte DEF IsAck
    <3>4. Responds'
      BY <1>1, <3>2, <3>3 DEF Responds
    <3>5. ModeAnswer'
      BY <1>4 DEF ModeAnswer
    <3>6. Confirms'
      BY DEF AnswerInv, Confirms
    <3> QED
      BY <3>4, <3>5, <3>6 DEF AnswerInv
  <2>3. CASE TimeOut \/ TimeOutEarly
    <3>1. Len(rx) < 1 /\ responding' = IsAck(rx)
      BY <1>3, <1>6, <2>3 DEF TimeOut, TimeOutEarly, Answered
    <3>2. rx = <<>>
      BY <2>1, <3>1, OneByte
    <3>3. ~responding'
      BY <3>1, <3>2, OneByte
    <3>4. ~wired' \/ faulty'
      <4>1. CASE TimeOut
        <5>1. air = <<>> /\ faulty' = faulty
          BY <4>1 DEF TimeOut, history
        <5>2. air # <<ACK>>
          BY <5>1, OneByte
        <5> QED
          BY <1>1, <2>1, <3>2, <5>1, <5>2, OneByte
      <4>2. CASE TimeOutEarly
        BY <4>2 DEF TimeOutEarly
      <4> QED
        BY <2>3, <4>1, <4>2
    <3>5. Responds'
      BY <3>3, <3>4 DEF Responds
    <3>6. ModeAnswer'
      BY <1>4 DEF ModeAnswer
    <3>7. Confirms'
      BY DEF AnswerInv, Confirms
    <3> QED
      BY <3>5, <3>6, <3>7 DEF AnswerInv
  <2> QED
    BY <2>2, <2>3
<1> QED
  BY <1>3, <1>4, <1>5, <1>6

LEMMA AnswerNext == ChipInv /\ AnswerInv /\ [Next]_vars => AnswerInv'
<1> SUFFICES ASSUME ChipInv, AnswerInv, [Next]_vars PROVE AnswerInv'
  OBVIOUS
<1>1. CASE UNCHANGED <<netVars, stage, confirmed>>
  BY <1>1, AnswerIdle
<1>2. CASE StartNet
  <2>1. /\ stage = "rings" /\ stage' = "net" /\ at' = 1 /\ responding' = FALSE
        /\ confirmed' = confirmed
    BY <1>2 DEF StartNet, NetStart
  <2>2. ~confirmed'
    BY <2>1 DEF AnswerInv, Confirms
  <2>3. at' # 2 /\ ~(at > 2)'
    BY <2>1
  <2> QED
    BY <2>1, <2>2, <2>3 DEF AnswerInv, ModeAnswer, Responds, Confirms
<1>3. CASE NetStep
  <2>1. stage = "net" /\ stage' = "net" /\ confirmed' = confirmed
    BY <1>3 DEF NetStep
  <2>2. at \in 1..Len(Script) + 2 /\ (waiting => IsCommand) /\ waiting \in BOOLEAN
    BY DEF ChipInv, NetTyped
  <2>3. CASE Enter
    <3>1. /\ Step = "enter" /\ ~Finished /\ at' = at + 1
          /\ UNCHANGED <<wired, dhcp, responding, acked, faulty, waiting, air>>
          /\ air = <<>> /\ cfg' = TRUE
      BY <2>3 DEF Enter, chip, status, history
    <3>2. ~waiting /\ at \in 1..Len(Script)
      BY <2>2, <3>1, Positions DEF IsCommand, Finished
    <3>3. at # 2
      BY <3>1, <3>2, ScriptFacts DEF Step
    <3>4. CASE at = 1
      <4>1. at' = 2 /\ ~(at > 2)'
        BY <3>1, <3>4
      <4> QED
        BY <2>1, <3>1, <3>2, <4>1 DEF AnswerInv, ModeAnswer, Responds, Confirms
    <3>5. CASE at > 2
      <4>1. at' # 2
        BY <3>1, <3>5, <3>2
      <4> QED
        BY <2>1, <3>1, <3>5, <4>1, ElsewhereKeeps
    <3> QED
      BY <3>2, <3>3, <3>4, <3>5, ScriptFacts
  <2>4. CASE Exit
    <3>1. /\ Step = "exit" /\ ~Finished /\ at' = at + 1
          /\ UNCHANGED <<wired, dhcp, responding, acked, faulty>>
      BY <2>4 DEF Exit, chip, status, history
    <3>2. at \in 1..Len(Script)
      BY <2>2, <3>1, Positions DEF Finished
    <3>3. at # 1 /\ at # 2
      BY <3>1, <3>2, ScriptFacts DEF Step
    <3>4. at > 2 /\ at' # 2
      BY <3>1, <3>2, <3>3, ScriptFacts
    <3> QED
      BY <2>1, <3>1, <3>4, ElsewhereKeeps
  <2>5. CASE Send \/ SendInVain \/ SendLossy
    BY <2>1, <2>5, SendAnswered
  <2>6. CASE Receive \/ TimeOut \/ TimeOutEarly
    BY <2>1, <2>6, ResultTaken
  <2>7. CASE ToDataMode
    <3>1. /\ at = Len(Script) + 1 /\ at' = at + 1
          /\ UNCHANGED <<wired, dhcp, responding, acked, faulty>>
      BY <2>7 DEF ToDataMode, chip, status
    <3>2. at > 2 /\ at' # 2
      BY <3>1, ScriptFacts
    <3> QED
      BY <2>1, <3>1, <3>2, ElsewhereKeeps
  <2> QED
    BY <1>3, <2>3, <2>4, <2>5, <2>6, <2>7 DEF NetStep, NetInit
<1>4. CASE NetWire
  <2>1. /\ stage = "net" /\ stage' = "net" /\ confirmed' = confirmed
        /\ UNCHANGED <<wired, dhcp, responding, acked, faulty, waiting, at, cfg>>
    BY <1>4 DEF NetWire, Arrive, Garbage, chip, status, history
  <2>2. CASE at # 2
    BY <2>1, <2>2, ElsewhereKeeps
  <2>3. CASE at = 2
    <3>1. cfg /\ waiting \in BOOLEAN /\ (~waiting => air = <<>>)
      BY <2>1, <2>3 DEF AnswerInv, ModeAnswer, ChipInv, NetTyped
    <3>2. air # <<>> /\ air' = Tail(air) /\ rx' = Append(rx, Head(air))
      BY <1>4, <3>1 DEF NetWire, Arrive, Garbage
    <3>3. waiting /\ wired /\ acked /\ rx = <<>> /\ air = <<ACK>>
      BY <2>1, <2>3, <3>1, <3>2 DEF AnswerInv, ModeAnswer
    <3>4. air' = <<>> /\ rx' = <<ACK>>
      BY <3>2, <3>3, OneByte
    <3>5. ModeAnswer'
      BY <2>1, <2>3, <3>1, <3>3, <3>4 DEF ModeAnswer
    <3>6. Responds'
      BY <2>1 DEF AnswerInv, Responds
    <3>7. Confirms'
      BY <2>1 DEF AnswerInv, Confirms
    <3> QED
      BY <3>5, <3>6, <3>7 DEF AnswerInv
  <2> QED
    BY <2>2, <2>3
<1>5. CASE EnterLoop
  <2>1. /\ stage' = "loop" /\ at = Len(Script) + 2 /\ confirmed' = responding
        /\ UNCHANGED netVars
    BY <1>5 DEF EnterLoop, InDataMode
  <2>2. UNCHANGED <<wired, dhcp, at, acked, faulty, responding>>
    BY <2>1 DEF netVars, chip, status, history
  <2>3. Script' = Script
    BY <2>2, SameScript
  <2>4. ModeAnswer'
    BY <2>1 DEF ModeAnswer
  <2>5. Responds'
    BY <2>2 DEF AnswerInv, Responds
  <2>6. Confirms'
    BY <2>1, <2>2, <2>3 DEF Confirms
  <2> QED
    BY <2>4, <2>5, <2>6 DEF AnswerInv
<1>6. CASE Reset
  <2>1. stage' \in {"rings", "recovery"} /\ confirmed' = FALSE
    BY <1>6 DEF Reset
  <2>2. UNCHANGED <<wired, at, acked, faulty, responding>>
    BY <1>6 DEF Reset, Attach, netVars, chip, status, history
  <2> QED
    BY <2>1, <2>2 DEF AnswerInv, ModeAnswer, Responds, Confirms
<1> QED
  BY <1>1, <1>2, <1>3, <1>4, <1>5, <1>6
     DEF Next, vars, BootFlush, LoopLed, LoopRings

LEMMA NetInvHolds == Spec => [](ChipInv /\ AnswerInv)
<1>1. Init => ChipInv /\ AnswerInv
  BY ChipInit, AnswerInit
<1>2. ChipInv /\ AnswerInv /\ [Next]_vars => (ChipInv /\ AnswerInv)'
  BY ChipNext, AnswerNext
<1> QED
  BY <1>1, <1>2, PTL DEF Spec

\* No late answer, garbage byte or answer to an earlier start confirms an image: the
\* chip took MODE in this start.
THEOREM ConfirmationIsEarned == Spec => []ConfirmedIsAnswered
<1>1. AnswerInv => ConfirmedIsAnswered
  BY DEF AnswerInv, Responds, Confirms, ConfirmedIsAnswered
<1> QED
  BY <1>1, NetInvHolds, PTL

\* A start in which nothing goes wrong always ends with the whole configuration in
\* force and the image confirmed.
THEOREM CleanStartConfirms == Spec => []CleanStartWorks
<1>1. ASSUME ChipInv, AnswerInv PROVE CleanStartWorks
  <2> SUFFICES ASSUME stage = "loop", wired, ~faulty
               PROVE  active = Settings /\ confirmed
    BY DEF CleanStartWorks
  <2>1. at = Len(Script) + 2
    BY <1>1 DEF AnswerInv, Confirms
  <2>2. at > Len(Script) /\ at > 2
    BY <2>1, ScriptFacts
  <2>3. confirmed
    BY <1>1, <2>2 DEF AnswerInv, Responds, Confirms
  <2> QED
    BY <1>1, <2>2, <2>3, AllInPlace
<1> QED
  BY <1>1, NetInvHolds, PTL

-----------------------------------------------------------------------------
(* What the status LED tells *)

Octet == 0..255

LEMMA DigitsFacts ==
  ASSUME NEW o \in Octet
  PROVE  /\ DigitsOf(o) \in Seq(0..9) /\ Len(DigitsOf(o)) \in 1..3
         /\ Value(DigitsOf(o)) = o
<1>1. /\ o \div 100 \in 0..2 /\ (o \div 10) % 10 \in 0..9 /\ o % 10 \in 0..9
      /\ o = 100 * (o \div 100) + 10 * ((o \div 10) % 10) + (o % 10)
  BY DEF Octet
<1>2. o < 100 => o \div 10 \in 0..9 /\ o = 10 * (o \div 10) + (o % 10)
  BY DEF Octet
<1>3. CASE o >= 100
  <2>1. DigitsOf(o) = <<o \div 100, (o \div 10) % 10, o % 10>>
    BY <1>3 DEF DigitsOf
  <2>2. Len(DigitsOf(o)) = 3 /\ DigitsOf(o) \in Seq(0..9)
    BY <1>1, <2>1
  <2>3. Value(DigitsOf(o)) = 100 * (o \div 100) + 10 * ((o \div 10) % 10) + (o % 10)
    BY <2>1, <2>2 DEF Value
  <2> QED BY <1>1, <2>2, <2>3
<1>4. CASE o < 100 /\ o >= 10
  <2>1. DigitsOf(o) = <<o \div 10, o % 10>>
    BY <1>4 DEF DigitsOf, Octet
  <2>2. Len(DigitsOf(o)) = 2 /\ DigitsOf(o) \in Seq(0..9)
    BY <1>1, <1>2, <1>4, <2>1
  <2>3. Value(DigitsOf(o)) = 10 * (o \div 10) + (o % 10)
    BY <2>1, <2>2 DEF Value
  <2> QED BY <1>2, <1>4, <2>2, <2>3
<1>5. CASE o < 10
  <2>1. DigitsOf(o) = <<o>> /\ o \in 0..9
    BY <1>5 DEF DigitsOf, Octet
  <2>2. Len(DigitsOf(o)) = 1 /\ DigitsOf(o) \in Seq(0..9)
    BY <2>1
  <2>3. Value(DigitsOf(o)) = o
    BY <2>1, <2>2 DEF Value
  <2> QED BY <2>2, <2>3
<1> QED BY <1>3, <1>4, <1>5 DEF Octet

\* The reader has got the digits before this one, and this one's pulses so far.
Got(n) ==
    /\ number \in Seq(0..9) /\ Len(number) = n
    /\ \A j \in 1..n : number[j] = digits[j]

Pulsing ==
    /\ phase \in {"pulse_on", "pulse_off"}
    /\ di \in 1..Len(digits) /\ Got(di - 1) /\ dark = 0
    /\ count = pulses_done /\ pulses_done < TargetOfDigit(digits[di])
    /\ phase = "pulse_on" => next = FirstPulse(digits[di])
    /\ phase = "pulse_off" => next = PulseOff /\ digits[di] # 0
Paused ==
    /\ phase = "digit_gap" /\ next = DigitGap
    /\ di \in 1..Len(digits) /\ Got(di - 1) /\ dark = 0
    /\ count = digits[di]
Resting ==
    /\ phase = "repeat_gap" /\ next = RepeatGap
    /\ di = Len(digits) + 1 /\ Got(Len(digits) - 1) /\ dark \in Nat
    /\ count = digits[Len(digits)]

LedOK ==
    /\ digits \in Seq(0..9) /\ Len(digits) \in 1..3
    /\ pulses_done \in 0..9
    /\ reading \in {Unread, digits}
    /\ Pulsing \/ Paused \/ Resting

LEMMA FirstAndLast ==
  \A n \in 1..3 : 1 \in 1..n /\ n \in 1..n /\ n + 1 \in 1..n + 1 /\ 1 - 1 = 0
  OBVIOUS

\* The timings the reader goes by tell pulses and pauses apart, however late.
LEMMA Timings ==
  ASSUME NEW d \in Lateness
  PROVE  /\ d \in Nat
         /\ ~(PulseOn + d >= LongPulse) /\ ZeroOn + d >= LongPulse
         /\ PulseOff + d < NewDigit
         /\ ~(DigitGap + d < NewDigit) /\ DigitGap + d < NewNumber
         /\ \A t \in Nat : /\ ~(t + RepeatGap + d < NewDigit)
                           /\ ~(t + RepeatGap + d < NewNumber)
<1>1. d \in Nat /\ PulseOn + d < LongPulse /\ PulseOff + d < NewDigit
      /\ DigitGap + d < NewNumber
  BY LatenessAssumption DEF LatenessAssumption
<1> QED BY <1>1 DEF PulseOn, LongPulse, ZeroOn, PulseOff, NewDigit, DigitGap,
                    NewNumber, RepeatGap

LEMMA DigitAt ==
  ASSUME LedOK, NEW i \in 1..Len(digits)
  PROVE  /\ digits[i] \in 0..9 /\ TargetOfDigit(digits[i]) \in 1..9
         /\ digits[i] # 0 => TargetOfDigit(digits[i]) = digits[i]
                             /\ FirstPulse(digits[i]) = PulseOn
         /\ digits[i] = 0 => TargetOfDigit(digits[i]) = 1
                             /\ FirstPulse(digits[i]) = ZeroOn
<1>1. digits[i] \in 0..9
  BY DEF LedOK
<1> QED BY <1>1 DEF TargetOfDigit, FirstPulse

LEMMA EndPulseKeeps ==
  ASSUME LedOK, NEW late \in Lateness, EndPulse(late)
  PROVE  LedOK'
<1>1. Pulsing /\ phase = "pulse_on"
  BY DEF LedOK, EndPulse, Paused, Resting
<1>2. /\ pulses_done' = pulses_done + 1 /\ dark' = 0
      /\ UNCHANGED <<digits, di, number, reading>>
      /\ count' = IF next + late >= LongPulse THEN 0 ELSE count + 1
  BY DEF EndPulse, SeesPulse
<1>3. /\ di \in 1..Len(digits) /\ digits[di] \in 0..9
      /\ TargetOfDigit(digits[di]) \in 1..9
      /\ digits[di] # 0 => TargetOfDigit(digits[di]) = digits[di]
                           /\ FirstPulse(digits[di]) = PulseOn
      /\ digits[di] = 0 => TargetOfDigit(digits[di]) = 1
                           /\ FirstPulse(digits[di]) = ZeroOn
  BY <1>1, DigitAt DEF Pulsing
<1>4. next = FirstPulse(digits[di]) /\ count = pulses_done
      /\ pulses_done < TargetOfDigit(digits[di]) /\ pulses_done \in 0..9
  BY <1>1 DEF Pulsing, LedOK
<1>5. count' = IF digits[di] = 0 THEN 0 ELSE pulses_done + 1
  BY <1>2, <1>3, <1>4, Timings
<1>6. pulses_done' \in 0..9
  BY <1>2, <1>3, <1>4
<1>7. Got(di - 1)'
  BY <1>1, <1>2 DEF Pulsing, Got
<1>8. CASE LastPulse
  <2>1. phase' = "digit_gap" /\ next' = DigitGap
    BY <1>8 DEF EndPulse
  <2>2. count' = digits[di]
    BY <1>3, <1>4, <1>5, <1>8 DEF LastPulse
  <2>3. Paused'
    BY <1>2, <1>3, <1>7, <2>1, <2>2 DEF Paused
  <2> QED BY <1>2, <1>6, <2>3 DEF LedOK
<1>9. CASE ~LastPulse
  <2>1. phase' = "pulse_off" /\ next' = PulseOff
    BY <1>9 DEF EndPulse
  <2>2. /\ pulses_done + 1 < TargetOfDigit(digits[di])
        /\ digits[di] # 0 /\ count' = pulses_done + 1
    BY <1>3, <1>4, <1>5, <1>9 DEF LastPulse
  <2>3. Pulsing'
    BY <1>2, <1>3, <1>7, <2>1, <2>2 DEF Pulsing
  <2> QED BY <1>2, <1>6, <2>3 DEF LedOK
<1> QED BY <1>8, <1>9

LEMMA NextPulseKeeps ==
  ASSUME LedOK, NEW late \in Lateness, NextPulse(late)
  PROVE  LedOK'
<1>1. Pulsing /\ phase = "pulse_off"
  BY DEF LedOK, NextPulse, Paused, Resting
<1>2. /\ di \in 1..Len(digits) /\ digits[di] # 0 /\ next = PulseOff
      /\ FirstPulse(digits[di]) = PulseOn
  BY <1>1, DigitAt DEF Pulsing
<1>3. next + late < NewDigit
  BY <1>2, Timings
<1>4. /\ phase' = "pulse_on" /\ next' = PulseOn /\ dark' = 0
      /\ UNCHANGED <<digits, di, pulses_done, count, number, reading>>
  BY <1>3 DEF NextPulse, SeesPause
<1>5. Pulsing'
  BY <1>1, <1>2, <1>4 DEF Pulsing, Got
<1> QED BY <1>4, <1>5 DEF LedOK

\* The digit just counted joins the ones before it.
LEMMA DigitTold ==
  ASSUME LedOK, NEW n \in 1..Len(digits), Got(n - 1), count = digits[n],
         NEW s, s = Append(number, count)
  PROVE  /\ s \in Seq(0..9) /\ Len(s) = n
         /\ \A j \in 1..n : s[j] = digits[j]
<1>1. number \in Seq(0..9) /\ Len(number) = n - 1 /\ count \in 0..9
  BY DigitAt DEF Got
<1>2. s \in Seq(0..9) /\ Len(s) = n /\ s[n] = count
      /\ \A j \in 1..n - 1 : s[j] = number[j]
  <2>1. \A u \in Seq(0..9), e \in 0..9 :
          /\ Append(u, e) \in Seq(0..9) /\ Len(Append(u, e)) = Len(u) + 1
          /\ Append(u, e)[Len(u) + 1] = e
          /\ \A j \in 1..Len(u) : Append(u, e)[j] = u[j]
    OBVIOUS
  <2>2. n = Len(number) + 1
    BY <1>1 DEF LedOK
  <2> QED BY <1>1, <2>1, <2>2
<1>3. ASSUME NEW j \in 1..n PROVE s[j] = digits[j]
  <2>1. j = n \/ j \in 1..n - 1
    BY <1>3 DEF LedOK
  <2> QED BY <1>2, <2>1 DEF Got
<1> QED BY <1>2, <1>3

LEMMA NextDigitKeeps ==
  ASSUME LedOK, NEW late \in Lateness, NextDigit(late)
  PROVE  LedOK'
<1>1. Paused
  BY DEF LedOK, NextDigit, Pulsing, Resting
<1>2. /\ di \in 1..Len(digits) /\ next = DigitGap /\ dark = 0
      /\ Got(di - 1) /\ count = digits[di] /\ Len(digits) \in 1..3
      /\ digits \in Seq(0..9) /\ late \in Nat
  BY <1>1, Timings DEF Paused, LedOK
<1>3. CASE di + 1 > Len(digits)
  <2>1. /\ di' = di + 1 /\ phase' = "repeat_gap" /\ next' = RepeatGap
        /\ dark' = dark + (next + late)
        /\ UNCHANGED <<digits, pulses_done, count, number, reading>>
    BY <1>3 DEF NextDigit, StaysDark
  <2>2. di = Len(digits) /\ dark' \in Nat
    BY <1>2, <1>3, <2>1 DEF DigitGap
  <2>3. Resting'
    BY <1>2, <2>1, <2>2 DEF Resting, Got
  <2> QED BY <2>1, <2>3 DEF LedOK
<1>4. CASE ~(di + 1 > Len(digits))
  <2>1. ~(next + late < NewDigit) /\ next + late < NewNumber
    BY <1>2, Timings
  <2>2. /\ di' = di + 1 /\ pulses_done' = 0 /\ phase' = "pulse_on"
        /\ next' = FirstPulse(digits[di + 1])
        /\ dark' = 0 /\ count' = 0 /\ number' = Append(number, count)
        /\ UNCHANGED <<digits, reading>>
    BY <1>4, <2>1 DEF NextDigit, BeginDigit, SeesPause
  <2>3. di + 1 \in 1..Len(digits) /\ (di + 1) - 1 = di
    BY <1>2, <1>4
  <2>4. Got(di - 1)'
    <3>1. /\ number' \in Seq(0..9) /\ Len(number') = di
          /\ \A j \in 1..di : number'[j] = digits[j]
      BY <1>2, <2>2, DigitTold
    <3> QED BY <2>2, <2>3, <3>1 DEF Got
  <2>5. 0 < TargetOfDigit(digits[di + 1])
    BY <2>3, DigitAt
  <2>6. Pulsing'
    BY <2>2, <2>3, <2>4, <2>5 DEF Pulsing
  <2> QED BY <2>2, <2>6 DEF LedOK
<1> QED BY <1>3, <1>4

LEMMA RepeatKeeps ==
  ASSUME LedOK, NEW late \in Lateness, Repeat(late)
  PROVE  LedOK'
<1>1. Resting
  BY DEF LedOK, Repeat, Pulsing, Paused
<1>2. /\ next = RepeatGap /\ dark \in Nat /\ Got(Len(digits) - 1)
      /\ count = digits[Len(digits)] /\ Len(digits) \in 1..3
      /\ digits \in Seq(0..9)
  BY <1>1 DEF Resting, LedOK
<1>3. ~(dark + next + late < NewDigit) /\ ~(dark + next + late < NewNumber)
  BY <1>2, Timings
<1>4. /\ di' = 1 /\ pulses_done' = 0 /\ phase' = "pulse_on"
      /\ next' = FirstPulse(digits[1]) /\ UNCHANGED digits
      /\ dark' = 0 /\ count' = 0 /\ number' = <<>>
      /\ reading' = Append(number, count)
  BY <1>3 DEF Repeat, BeginDigit, SeesPause
<1>5. reading' = digits
  <2>1. Len(digits) \in 1..Len(digits)
    BY <1>2, FirstAndLast, Zenon
  <2>2. /\ reading' \in Seq(0..9) /\ Len(reading') = Len(digits)
        /\ \A j \in 1..Len(digits) : reading'[j] = digits[j]
    BY <1>2, <1>4, <2>1, DigitTold
  <2> QED BY <1>2, <2>2, SeqEqual
<1>6. Pulsing'
  <2>1. 1 \in 1..Len(digits) /\ 1 - 1 = 0
    BY <1>2, FirstAndLast, Zenon
  <2>2. 0 < TargetOfDigit(digits[1])
    BY <2>1, DigitAt
  <2>3. <<>> \in Seq(0..9) /\ Len(<<>>) = 0 /\ 1..0 = {}
    OBVIOUS
  <2>4. Got(0)'
    BY <1>4, <2>3 DEF Got
  <2> QED BY <1>4, <2>1, <2>2, <2>4 DEF Pulsing
<1> QED BY <1>4, <1>5, <1>6 DEF LedOK

LEMMA LedTaskKeeps == ASSUME LedOK, LedTask PROVE LedOK'
  BY EndPulseKeeps, NextPulseKeeps, NextDigitKeeps, RepeatKeeps DEF LedTask

LEMMA LedShowOK ==
  ASSUME NEW o \in Octet, LedShow(o)
  PROVE  LedOK'
<1>1. /\ digits' = DigitsOf(o) /\ digits' \in Seq(0..9) /\ Len(digits') \in 1..3
  BY DigitsFacts DEF LedShow
<1>2. /\ di' = 1 /\ pulses_done' = 0 /\ phase' = "pulse_on"
      /\ next' = FirstPulse(digits'[1])
      /\ dark' = 0 /\ count' = 0 /\ number' = <<>> /\ reading' = Unread
  BY <1>1 DEF LedShow
<1>3. 1 \in 1..Len(digits') /\ 1 - 1 = 0
  BY <1>1, FirstAndLast, Zenon
<1>4. 0 < TargetOfDigit(digits'[1])
  <2>1. digits'[1] \in 0..9
    BY <1>1, <1>3
  <2> QED BY <2>1 DEF TargetOfDigit
<1>5. <<>> \in Seq(0..9) /\ Len(<<>>) = 0 /\ 1..0 = {}
  OBVIOUS
<1>6. Got(0)'
  BY <1>2, <1>5 DEF Got
<1>7. Pulsing'
  BY <1>2, <1>3, <1>4, <1>6 DEF Pulsing
<1> QED BY <1>1, <1>2, <1>7 DEF LedOK

-----------------------------------------------------------------------------
(* The address the chip gives *)

ReadIp == Len(Script) - 1

LEMMA ScriptEnd ==
    /\ ReadIp \in 3..Len(Script) /\ Exec < ReadIp /\ Len(Script) = ReadIp + 1
    /\ Script[ReadIp + 1] = "exit" /\ Script[1] = "enter"
    /\ \A i \in 1..Len(Script) : Script[i] = "READ_IP" <=> i = ReadIp
    /\ \A i \in 1..Len(Script) - 1 : Script[i] = "exit" => Script[i + 1] = "enter"
<1>1. CASE dhcp
  <2>1. Len(Script) = 12 /\ ReadIp = 11 /\ Exec = 7
    BY <1>1, ScriptWithDhcp DEF ReadIp, Exec, Save
  <2>2. \A i \in 1..12 :
           i = 1 \/ i = 2 \/ i = 3 \/ i = 4 \/ i = 5 \/ i = 6
           \/ i = 7 \/ i = 8 \/ i = 9 \/ i = 10 \/ i = 11 \/ i = 12
    OBVIOUS
  <2>3. \A i \in 1..12 : Script[i] = "READ_IP" <=> i = 11
    BY <1>1, <2>2, ScriptWithDhcp
  <2>4. \A i \in 1..11 : i \in 1..12 /\ (Script[i] = "exit" => i = 8)
    BY <1>1, <2>2, ScriptWithDhcp
  <2>5. Script[8 + 1] = "enter" /\ Script[11 + 1] = "exit"
    BY <1>1, ScriptWithDhcp
  <2> QED BY <1>1, <2>1, <2>3, <2>4, <2>5, ScriptWithDhcp
<1>2. CASE ~dhcp
  <2>1. Len(Script) = 15 /\ ReadIp = 14 /\ Exec = 10
    BY <1>2, ScriptWithStatic DEF ReadIp, Exec, Save
  <2>2. \A i \in 1..15 :
           i = 1 \/ i = 2 \/ i = 3 \/ i = 4 \/ i = 5 \/ i = 6 \/ i = 7 \/ i = 8
           \/ i = 9 \/ i = 10 \/ i = 11 \/ i = 12 \/ i = 13 \/ i = 14 \/ i = 15
    OBVIOUS
  <2>3. \A i \in 1..15 : Script[i] = "READ_IP" <=> i = 14
    BY <1>2, <2>2, ScriptWithStatic
  <2>4. \A i \in 1..14 : i \in 1..15 /\ (Script[i] = "exit" => i = 11)
    BY <1>2, <2>2, ScriptWithStatic
  <2>5. Script[11 + 1] = "enter" /\ Script[14 + 1] = "exit"
    BY <1>2, ScriptWithStatic
  <2> QED BY <1>2, <2>1, <2>3, <2>4, <2>5, ScriptWithStatic
<1> QED BY <1>1, <1>2

\* The bytes under way, in the FIFO and on the wire.
Stream == rx \o air

\* The UART carries bytes; how many pile up depends on how often an answer was
\* given up on.
BytesOK ==
    /\ rx \in Seq(Octet) /\ air \in Seq(Octet) /\ addr \in Octets
    /\ faults \in 0..MaxFaults
    /\ IF waiting THEN Len(rx) + Len(air) <= 2 * faults + Expected
       ELSE Len(air) <= 2 * faults /\ Len(rx) + Len(air) <= 2 * faults + 1
    /\ mac \in Seq(Octet) /\ Len(mac) = 2
    /\ ip \in Seq(Octet) /\ Len(ip) = 2

\* While no answer is late, what comes is the answer to the command awaited, and
\* CFG keeps the bytes of a client away.
InStep ==
    stage = "net" =>
      /\ ~Finished /\ Step # "enter" => cfg
      /\ ~slow =>
           /\ ~waiting => air = <<>>
           /\ waiting => \/ rx = <<>> /\ air = <<>>
                            /\ (~wired \/ faulty \/ Step = "EXEC")
                         \/ wired /\ Stream = Reply

\* Once the chip was asked for its address.
AddressRead ==
    (stage \in {"net", "loop"} /\ ~slow /\ at > ReadIp) =>
        ip[2] \in IF wired /\ ~faulty THEN {addr} ELSE {addr, 0}

ReadInv == BytesOK /\ InStep /\ AddressRead

LEMMA ReplyFacts ==
  ASSUME addr \in Octets
  PROVE  /\ Reply \in Seq(Octet) /\ Len(Reply) = Expected /\ Expected \in 1..2
         /\ (Step = "READ_MAC" \/ Step = "READ_IP") <=> Expected = 2
         /\ Step = "READ_IP" => Reply = <<Network, addr>>
<1>1. addr \in Octet /\ Network \in Octet /\ ACK \in Octet /\ Mac \in Seq(Octet)
      /\ Len(Mac) = 2
  BY NetAssumption DEF NetAssumption, Octet, Network, ACK, Mac
<1>2. <<Network, addr>> \in Seq(Octet) /\ Len(<<Network, addr>>) = 2
      /\ <<ACK>> \in Seq(Octet) /\ Len(<<ACK>>) = 1
  BY <1>1
<1>3. CASE Step = "READ_MAC"
  BY <1>1, <1>3 DEF Reply, Expected
<1>4. CASE Step = "READ_IP"
  BY <1>2, <1>4 DEF Reply, Expected
<1>5. CASE Step \notin {"READ_MAC", "READ_IP"}
  BY <1>2, <1>5 DEF Reply, Expected
<1> QED BY <1>3, <1>4, <1>5

LEMMA PaddedFacts ==
  ASSUME NEW b \in Seq(Octet), Len(b) <= 2
  PROVE  /\ Padded(b) \in Seq(Octet) /\ Len(Padded(b)) = 2
         /\ Len(b) = 2 => Padded(b)[2] = b[2]
         /\ Len(b) # 2 => Padded(b)[2] = 0
<1>0. Len(b) \in 0..2
  <2>1. Len(b) \in Nat
    BY LenProperties
  <2>2. \A n \in Nat : n <= 2 => n \in 0..2
    OBVIOUS
  <2> QED BY <2>1, <2>2, Zenon
<1> DEFINE z == SubSeq(<<0, 0>>, 1, 2 - Len(b))
<1>1. z \in Seq(Octet) /\ Len(z) = 2 - Len(b)
      /\ \A i \in 1..2 - Len(b) : z[i] = 0
  <2>1. <<0, 0>> \in Seq(Octet) /\ Len(<<0, 0>>) = 2
        /\ <<0, 0>>[1] = 0 /\ <<0, 0>>[2] = 0
    BY DEF Octet
  <2>2. CASE Len(b) = 0
    <3>1. z = SubSeq(<<0, 0>>, 1, 2)
      BY <2>2
    <3>2. SubSeq(<<0, 0>>, 1, 2) = <<0, 0>>
      BY <2>1, SubSeqFull
    <3> QED BY <2>1, <2>2, <3>1, <3>2
  <2>3. CASE Len(b) = 1
    <3>1. z = SubSeq(<<0, 0>>, 1, 1)
      BY <2>3
    <3>2. /\ SubSeq(<<0, 0>>, 1, 1) \in Seq(Octet)
          /\ Len(SubSeq(<<0, 0>>, 1, 1)) = 1 /\ SubSeq(<<0, 0>>, 1, 1)[1] = 0
      <4>1. \A i \in 1..1 : <<0, 0>>[i] \in Octet /\ 1 + i - 1 = i
        BY <2>1
      <4> QED BY <2>1, <4>1, SubSeqProperties
    <3> QED BY <2>3, <3>1, <3>2
  <2>4. CASE Len(b) = 2
    <3>1. z = SubSeq(<<0, 0>>, 1, 0)
      BY <2>4
    <3>2. SubSeq(<<0, 0>>, 1, 0) = <<>>
      OBVIOUS
    <3> QED BY <2>4, <3>1, <3>2
  <2> QED BY <1>0, <2>2, <2>3, <2>4
<1>2. Padded(b) = b \o z
  BY DEF Padded
<1> HIDE DEF z
<1>3. /\ b \o z \in Seq(Octet) /\ Len(b \o z) = Len(b) + Len(z)
      /\ \A i \in 1..Len(b) + Len(z) :
           (b \o z)[i] = IF i <= Len(b) THEN b[i] ELSE z[i - Len(b)]
  BY <1>1, ConcatProperties
<1>4. Len(b \o z) = 2 /\ 2 \in 1..Len(b) + Len(z)
  BY <1>0, <1>1, <1>3
<1>5. Len(b) = 2 => (b \o z)[2] = b[2]
  BY <1>3, <1>4
<1>6. Len(b) = 0 => (b \o z)[2] = 0
  <2>1. Len(b) = 0 => (b \o z)[2] = z[2 - 0] /\ 2 - 0 = 2 /\ 2 \in 1..2 - Len(b)
    BY <1>3, <1>4
  <2> QED BY <1>1, <2>1
<1>7. Len(b) = 1 => (b \o z)[2] = 0
  <2>1. Len(b) = 1 => (b \o z)[2] = z[2 - 1] /\ 2 - 1 = 1 /\ 1 \in 1..2 - Len(b)
    BY <1>3, <1>4
  <2> QED BY <1>1, <2>1
<1> QED BY <1>0, <1>2, <1>3, <1>4, <1>5, <1>6, <1>7

LEMMA ByteMoves ==
  ASSUME NEW S, NEW x \in Seq(S), NEW y \in Seq(S), y # <<>>
  PROVE  /\ Append(x, Head(y)) \in Seq(S) /\ Tail(y) \in Seq(S)
         /\ Len(Append(x, Head(y))) = Len(x) + 1 /\ Len(Tail(y)) = Len(y) - 1
         /\ Append(x, Head(y)) \o Tail(y) = x \o y
<1> DEFINE u == Append(x, Head(y)) \o Tail(y)
           w == x \o y
<1>1. /\ Len(x) \in Nat /\ Len(y) \in Nat \ {0} /\ Head(y) \in S
      /\ Tail(y) \in Seq(S) /\ Len(Tail(y)) = Len(y) - 1 /\ Head(y) = y[1]
      /\ \A i \in 1..Len(Tail(y)) : Tail(y)[i] = y[i + 1]
  BY HeadTailProperties, EmptySeq, LenProperties
<1>2. /\ Append(x, Head(y)) \in Seq(S) /\ Len(Append(x, Head(y))) = Len(x) + 1
      /\ \A i \in 1..Len(x) : Append(x, Head(y))[i] = x[i]
      /\ Append(x, Head(y))[Len(x) + 1] = Head(y)
  BY <1>1
<1>3. /\ w \in Seq(S) /\ Len(w) = Len(x) + Len(y)
      /\ \A i \in 1..Len(x) + Len(y) :
           w[i] = IF i <= Len(x) THEN x[i] ELSE y[i - Len(x)]
  BY ConcatProperties
<1>4. /\ u \in Seq(S) /\ Len(u) = Len(x) + 1 + Len(Tail(y))
      /\ \A i \in 1..Len(x) + 1 + Len(Tail(y)) :
           u[i] = IF i <= Len(x) + 1 THEN Append(x, Head(y))[i]
                                     ELSE Tail(y)[i - (Len(x) + 1)]
  BY <1>1, <1>2, ConcatProperties
<1> HIDE DEF u, w
<1>5. Len(u) = Len(w)
  BY <1>1, <1>3, <1>4
<1>6. ASSUME NEW i \in 1..Len(u) PROVE u[i] = w[i]
  <2>0. i \in 1..Len(x) + Len(y) /\ i \in 1..Len(x) + 1 + Len(Tail(y))
    BY <1>1, <1>4
  <2>1. CASE i <= Len(x)
    <3>1. i \in 1..Len(x) /\ i <= Len(x) + 1
      BY <1>1, <2>1
    <3> QED BY <1>2, <1>3, <1>4, <2>0, <2>1, <3>1
  <2>2. CASE i = Len(x) + 1
    <3>1. i <= Len(x) + 1 /\ ~(i <= Len(x)) /\ i - Len(x) = 1
      BY <1>1, <2>2
    <3> QED BY <1>1, <1>2, <1>3, <1>4, <2>0, <2>2, <3>1
  <2>3. CASE ~(i <= Len(x) + 1)
    <3>1. /\ ~(i <= Len(x)) /\ i - (Len(x) + 1) \in 1..Len(Tail(y))
          /\ (i - (Len(x) + 1)) + 1 = i - Len(x)
      BY <1>1, <2>0, <2>3
    <3>2. u[i] = Tail(y)[i - (Len(x) + 1)] /\ w[i] = y[i - Len(x)]
      BY <1>3, <1>4, <2>0, <2>3, <3>1
    <3>3. Tail(y)[i - (Len(x) + 1)] = y[(i - (Len(x) + 1)) + 1]
      BY <1>1, <3>1
    <3> QED BY <3>1, <3>2, <3>3
  <2> QED BY <1>1, <2>0, <2>1, <2>2, <2>3
<1>7. u = w
  BY <1>3, <1>4, <1>5, <1>6, SeqEqual
<1> QED BY <1>1, <1>2, <1>7 DEF u, w

LEMMA SameStep ==
  ASSUME dhcp' = dhcp
  PROVE  /\ Script' = Script /\ ReadIp' = ReadIp
         /\ at' = at => /\ Step' = Step /\ Finished' = Finished
                        /\ IsCommand' = IsCommand /\ Expected' = Expected
                        /\ addr' = addr \/ Step # "READ_IP" => Reply' = Reply
<1>1. Script' = Script
  BY SameScript
<1> QED BY <1>1 DEF ReadIp, Step, Finished, IsCommand, Expected, Reply

LEMMA BytesFacts ==
  ASSUME BytesOK
  PROVE  /\ rx \in Seq(Octet) /\ air \in Seq(Octet)
         /\ Len(rx) \in Nat /\ Len(air) \in Nat
         /\ faults \in Nat /\ MaxFaults \in Nat /\ faults <= MaxFaults
         /\ <<>> \in Seq(Octet) /\ Len(<<>>) = 0
<1>1. rx \in Seq(Octet) /\ air \in Seq(Octet) /\ faults \in 0..MaxFaults
  BY DEF BytesOK
<1>2. MaxFaults \in Nat
  BY NetAssumption DEF NetAssumption
<1> QED BY <1>1, <1>2, LenProperties, EmptySeq

\* Nothing is awaited and nothing new is under way.
LEMMA BytesKept ==
  ASSUME BytesOK, ~waiting, ~waiting', UNCHANGED <<addr, faults, mac, ip>>,
         rx' = rx \/ rx' = <<>>, air' = air
  PROVE  BytesOK'
<1>1. Len(rx') <= Len(rx) /\ Len(rx') \in Nat
  BY BytesFacts
<1>2. Len(rx') + Len(air') <= 2 * faults + 1
  BY <1>1, BytesFacts DEF BytesOK
<1> QED BY <1>2, BytesFacts DEF BytesOK

LEMMA EnterReads ==
  ASSUME ChipInv, ReadInv, stage = "net", stage' = stage, Enter
  PROVE  ReadInv'
<1>1. /\ Step = "enter" /\ ~Finished /\ air = <<>> /\ cfg' = TRUE /\ rx' = <<>>
      /\ at' = at + 1 /\ air' = air
      /\ UNCHANGED <<wired, dhcp, addr, waiting, mac, ip, faults, slow, faulty>>
  BY DEF Enter, FlushedRx, chip, status, history
<1>2. ~waiting /\ at \in 1..Len(Script)
  BY <1>1, Positions DEF ChipInv, NetTyped, IsCommand, Finished
<1>3. BytesOK'
  BY <1>1, <1>2, BytesKept DEF ReadInv
<1>4. InStep'
  BY <1>1, <1>2 DEF InStep
<1>5. at < ReadIp
  <2>1. at # ReadIp /\ at # ReadIp + 1
    BY <1>1, <1>2, ScriptEnd DEF Step
  <2> QED BY <1>2, <2>1, ScriptEnd
<1>6. ~(at' > ReadIp)
  BY <1>1, <1>2, <1>5, ScriptEnd
<1>7. AddressRead'
  BY <1>1, <1>6, SameStep DEF AddressRead
<1> QED BY <1>3, <1>4, <1>7 DEF ReadInv

\* net_init moves on at a step that asks for nothing, late in the script too.
LEMMA QuietReads ==
  ASSUME ReadInv, stage = "net", stage' = stage, ~waiting, at > ReadIp \/ ~(at' > ReadIp),
         at' \in Nat, ~slow => air = <<>>,
         ~Finished' /\ (Step # "enter")' => cfg', rx' = rx \/ rx' = <<>>,
         UNCHANGED <<wired, dhcp, addr, waiting, air, mac, ip, faults, slow, faulty>>
  PROVE  ReadInv'
<1>1. BytesOK'
  BY BytesKept DEF ReadInv
<1>2. InStep'
  BY DEF InStep
<1>3. AddressRead'
  BY SameStep DEF ReadInv, AddressRead
<1> QED BY <1>1, <1>2, <1>3 DEF ReadInv

LEMMA ExitReads ==
  ASSUME ChipInv, ReadInv, stage = "net", stage' = stage, Exit
  PROVE  ReadInv'
<1>1. /\ Step = "exit" /\ ~Finished /\ at' = at + 1
      /\ UNCHANGED <<wired, dhcp, addr, waiting, air, rx, mac, ip, faults, slow, faulty>>
  BY DEF Exit, chip, status, history
<1>2. ~waiting /\ at \in 1..Len(Script)
  BY <1>1, Positions DEF ChipInv, NetTyped, IsCommand, Finished
<1>3. Finished' \/ Step' = "enter"
  <2>1. CASE at = Len(Script)
    BY <1>1, <2>1, SameStep, ScriptEnd DEF Finished
  <2>2. CASE at # Len(Script)
    <3>1. at \in 1..Len(Script) - 1
      BY <1>2, <2>2, ScriptEnd
    <3> QED BY <1>1, <3>1, SameStep, ScriptEnd DEF Step
  <2> QED BY <2>1, <2>2
<1>4. at > ReadIp \/ ~(at' > ReadIp)
  <2>1. at # ReadIp
    BY <1>1, <1>2, ScriptEnd DEF Step
  <2> QED BY <1>1, <1>2, <2>1, ScriptEnd
<1>5. ~slow => air = <<>>
  BY <1>2 DEF ReadInv, InStep
<1>6. at' \in Nat
  BY <1>1, <1>2
<1> QED BY <1>1, <1>2, <1>3, <1>4, <1>5, <1>6, QuietReads

LEMMA DataModeReads ==
  ASSUME ChipInv, ReadInv, stage = "net", stage' = stage, ToDataMode
  PROVE  ReadInv'
<1>1. /\ at = Len(Script) + 1 /\ at' = at + 1 /\ air = <<>> /\ rx' = <<>>
      /\ UNCHANGED <<wired, dhcp, addr, waiting, air, mac, ip, faults, slow, faulty>>
  BY DEF ToDataMode, FlushedRx, chip, status
<1>2. at > Len(Script) /\ at' > Len(Script) /\ at > ReadIp /\ at' \in Nat
  BY <1>1, ScriptEnd
<1>3. ~waiting
  BY <1>2 DEF ChipInv, NetTyped, IsCommand, Finished
<1>4. Finished'
  BY <1>1, <1>2, SameStep DEF Finished
<1> QED BY <1>1, <1>2, <1>3, <1>4, QuietReads

\* A command goes out before the address is known.
LEMMA CommandFacts ==
  ASSUME ChipInv, ReadInv, stage = "net", IsCommand
  PROVE  /\ at \in 1..Len(Script) /\ at <= ReadIp /\ cfg
         /\ Step = "READ_IP" <=> at = ReadIp
         /\ Expected \in 1..2 /\ Reply \in Seq(Octet) /\ Len(Reply) = Expected
<1>1. at \in 1..Len(Script) /\ Step = Script[at]
  BY Positions DEF ChipInv, NetTyped, IsCommand, Finished, Step
<1>2. at # ReadIp + 1
  BY <1>1, ScriptEnd DEF IsCommand
<1>3. cfg
  BY DEF ReadInv, InStep, IsCommand
<1>4. Step = "READ_IP" <=> at = ReadIp
  BY <1>1, ScriptEnd
<1> QED BY <1>1, <1>2, <1>3, <1>4, ScriptEnd, ReplyFacts DEF ReadInv, BytesOK

LEMMA SendReads ==
  ASSUME ChipInv, ReadInv, stage = "net", stage' = stage,
         Send \/ SendInVain \/ SendLossy
  PROVE  ReadInv'
<1>1. /\ IsCommand /\ ~waiting /\ waiting' = TRUE /\ rx' = <<>>
      /\ UNCHANGED <<at, cfg, mac, ip, slow>>
  BY DEF Send, SendInVain, SendLossy, FlushedRx, status, history
<1>2. /\ at \in 1..Len(Script) /\ at <= ReadIp /\ cfg
      /\ Step = "READ_IP" <=> at = ReadIp
      /\ Expected \in 1..2 /\ Reply \in Seq(Octet) /\ Len(Reply) = Expected
  BY <1>1, CommandFacts
<1>3. /\ UNCHANGED <<wired, dhcp>> /\ addr' \in Octets
      /\ addr' = addr \/ Step = "EXEC"
  <2>1. CASE Taken
    BY <2>1 DEF Taken, ReadInv, BytesOK
  <2>2. CASE UNCHANGED chip
    BY <2>2 DEF chip, ReadInv, BytesOK
  <2> QED BY <2>1, <2>2 DEF Send, SendInVain, SendLossy
<1>4. /\ Script' = Script /\ ReadIp' = ReadIp /\ Step' = Step
      /\ Finished' = Finished /\ Expected' = Expected /\ Reply' = Reply
  BY <1>1, <1>3, SameStep
<1>5. /\ \/ faults' = faults /\ faulty' = faulty
         \/ faults' = faults + 1 /\ faults < MaxFaults /\ faulty' = TRUE
      /\ \/ air' = air /\ (~wired \/ faulty' = TRUE)
         \/ air' = air \o Reply /\ wired
         \/ air' = <<>> /\ Step = "EXEC"
  BY DEF Send, SendInVain, SendLossy, history
<1>6. BytesOK'
  <2>1. /\ faults \in Nat /\ MaxFaults \in Nat /\ faults <= MaxFaults
        /\ air \in Seq(Octet) /\ Len(air) \in Nat
        /\ <<>> \in Seq(Octet) /\ Len(<<>>) = 0
    BY BytesFacts DEF ReadInv
  <2>2. Len(air) <= 2 * faults
    BY <1>1 DEF ReadInv, BytesOK
  <2>3. air \o Reply \in Seq(Octet) /\ Len(air \o Reply) = Len(air) + Expected
    BY <1>2, <2>1, ConcatProperties
  <2>4. faults' \in 0..MaxFaults /\ faults' \in {faults, faults + 1}
    BY <1>5, <2>1
  <2>5. air' \in Seq(Octet) /\ Len(air') <= 2 * faults + Expected
        /\ Len(air') \in Nat
    <3>1. CASE air' = air
      BY <1>2, <2>1, <2>2, <3>1
    <3>2. CASE air' = air \o Reply
      <4>1. Len(air') = Len(air) + Expected /\ air' \in Seq(Octet)
        BY <2>3, <3>2
      <4> QED BY <1>2, <2>1, <2>2, <4>1
    <3>3. CASE air' = <<>>
      BY <1>2, <2>1, <3>3
    <3> QED BY <1>5, <3>1, <3>2, <3>3
  <2>6. Len(rx') + Len(air') <= 2 * faults' + Expected
    BY <1>1, <1>2, <2>1, <2>4, <2>5
  <2> QED BY <1>1, <1>3, <1>4, <2>1, <2>4, <2>5, <2>6 DEF BytesOK, ReadInv
<1>7. InStep'
  <2>1. ASSUME ~slow'
        PROVE  \/ rx' = <<>> /\ air' = <<>>
                  /\ (~wired' \/ faulty' \/ (Step = "EXEC")')
               \/ wired' /\ Stream' = Reply'
    <3>1. air = <<>>
      BY <1>1, <2>1 DEF ReadInv, InStep
    <3>2. <<>> \o Reply = Reply
      BY <1>2, ConcatEmptySeq
    <3> QED BY <1>1, <1>3, <1>4, <1>5, <3>1, <3>2 DEF Stream
  <2> QED BY <1>1, <1>2, <2>1 DEF InStep
<1>8. AddressRead'
  <2>1. ~(at' > ReadIp')
    BY <1>1, <1>2, <1>4, ScriptEnd
  <2> QED BY <2>1 DEF AddressRead
<1> QED BY <1>6, <1>7, <1>8 DEF ReadInv

LEMMA TakenBytes ==
  ASSUME NEW x \in Seq(Octet), NEW e \in 1..2, Len(x) >= e
  PROVE  /\ SubSeq(x, 1, e) \in Seq(Octet) /\ Len(SubSeq(x, 1, e)) = e
         /\ SubSeq(x, e + 1, Len(x)) \in Seq(Octet)
         /\ Len(SubSeq(x, e + 1, Len(x))) = Len(x) - e
         /\ Len(x) = e => SubSeq(x, 1, e) = x
<1>1. Len(x) \in Nat /\ e \in 0..Len(x)
  BY LenProperties
<1>2. SubSeq(x, 1, e) \in Seq(Octet) /\ Len(SubSeq(x, 1, e)) = e
  BY <1>1
<1>3. /\ SubSeq(x, e + 1, Len(x)) \in Seq(Octet)
      /\ Len(SubSeq(x, e + 1, Len(x))) = Len(x) - e
  BY <1>1
<1>4. Len(x) = e => SubSeq(x, 1, e) = x
  BY SubSeqFull
<1> QED BY <1>2, <1>3, <1>4

\* What the answer was taken for.
LEMMA StatusTaken ==
  ASSUME BytesOK, NEW b \in Seq(Octet), Len(b) <= 2, Answered(b)
  PROVE  /\ mac' \in Seq(Octet) /\ Len(mac') = 2
         /\ ip' \in Seq(Octet) /\ Len(ip') = 2
         /\ Step = "READ_IP" => ip' = Padded(b)
<1>1. Padded(b) \in Seq(Octet) /\ Len(Padded(b)) = 2
  BY PaddedFacts
<1>2. mac' \in {mac, Padded(b)} /\ ip' \in {ip, Padded(b)}
  BY DEF Answered
<1> QED BY <1>1, <1>2 DEF BytesOK, Answered

\* An answer is over: what the three ways out have in common.
LEMMA AnswerOver ==
  ASSUME ChipInv, ReadInv, stage = "net", stage' = stage, waiting,
         NEW b \in Seq(Octet), Len(b) <= 2, Answered(b),
         UNCHANGED <<wired, dhcp, addr, cfg, air>>,
         \/ faults' = faults /\ slow' = slow /\ faulty' = faulty
         \/ faults' = faults + 1 /\ faults < MaxFaults /\ slow' = TRUE,
         rx' \in Seq(Octet), Len(air') <= 2 * faults',
         Len(rx') + Len(air') <= 2 * faults' + 1,
         ~slow' => air = <<>>,
         (at = ReadIp /\ ~slow') =>
             Padded(b)[2] \in IF wired /\ ~faulty THEN {addr} ELSE {addr, 0}
  PROVE  ReadInv'
<1>1. IsCommand /\ ~waiting' /\ at' = at + 1
  BY DEF ChipInv, NetTyped, Answered
<1>2. /\ at \in 1..Len(Script) /\ at <= ReadIp /\ cfg
      /\ Step = "READ_IP" <=> at = ReadIp
  BY <1>1, CommandFacts
<1>3. BytesOK'
  <2>1. faults' \in 0..MaxFaults
    BY BytesFacts DEF ReadInv
  <2>2. /\ mac' \in Seq(Octet) /\ Len(mac') = 2
        /\ ip' \in Seq(Octet) /\ Len(ip') = 2
    BY StatusTaken DEF ReadInv
  <2>3. air' \in Seq(Octet) /\ addr' \in Octets
    BY DEF ReadInv, BytesOK
  <2> QED BY <1>1, <2>1, <2>2, <2>3 DEF BytesOK
<1>4. InStep'
  BY <1>1, <1>2 DEF InStep
<1>5. AddressRead'
  <2>1. ReadIp' = ReadIp
    BY SameStep
  <2>2. CASE at = ReadIp
    <3>1. ip' = Padded(b)
      BY <1>2, <2>2, StatusTaken DEF ReadInv
    <3>2. ~slow' => faulty' = faulty
      OBVIOUS
    <3> QED BY <2>2, <3>1, <3>2 DEF AddressRead
  <2>3. CASE at # ReadIp
    <3>1. ~(at' > ReadIp)
      BY <1>1, <1>2, <2>3, ScriptEnd
    <3> QED BY <2>1, <3>1 DEF AddressRead
  <2> QED BY <2>2, <2>3
<1> QED BY <1>3, <1>4, <1>5 DEF ReadInv

\* As long as no answer is late, the whole answer is what the FIFO holds once it is
\* long enough.
LEMMA WholeAnswer ==
  ASSUME ChipInv, ReadInv, stage = "net", waiting, ~slow
  PROVE  /\ Len(rx) >= Expected => air = <<>> /\ rx = Reply
         /\ Len(rx) < Expected /\ air = <<>> =>
                rx = <<>> /\ (~wired \/ faulty \/ Step = "EXEC")
<1>1. IsCommand
  BY DEF ChipInv, NetTyped
<1>2. Expected \in 1..2 /\ Reply \in Seq(Octet) /\ Len(Reply) = Expected
  BY <1>1, CommandFacts
<1>3. /\ rx \in Seq(Octet) /\ air \in Seq(Octet)
      /\ Len(rx) \in Nat /\ Len(air) \in Nat /\ Len(<<>>) = 0
  BY BytesFacts DEF ReadInv
<1>4. CASE rx = <<>> /\ air = <<>> /\ (~wired \/ faulty \/ Step = "EXEC")
  <2>1. ~(Len(rx) >= Expected)
    BY <1>2, <1>3, <1>4
  <2> QED BY <1>4, <2>1
<1>5. CASE Stream = Reply
  <2>1. Len(rx) + Len(air) = Expected
    BY <1>2, <1>3, <1>5, ConcatProperties DEF Stream
  <2>2. ASSUME Len(rx) >= Expected PROVE air = <<>> /\ rx = Reply
    <3>1. Len(air) = 0
      BY <1>2, <1>3, <2>1, <2>2
    <3>2. air = <<>>
      BY <1>3, <3>1, EmptySeq
    <3>3. rx \o <<>> = rx
      BY <1>3, ConcatEmptySeq
    <3> QED BY <1>5, <3>2, <3>3 DEF Stream
  <2>3. ~(Len(rx) < Expected /\ air = <<>>)
    BY <1>2, <1>3, <2>1
  <2> QED BY <2>2, <2>3
<1> QED BY <1>4, <1>5 DEF ReadInv, InStep

LEMMA ReceiveReads ==
  ASSUME ChipInv, ReadInv, stage = "net", stage' = stage, Receive
  PROVE  ReadInv'
<1> DEFINE b == SubSeq(rx, 1, Expected)
<1>1. /\ waiting /\ Len(rx) >= Expected /\ Answered(b)
      /\ rx' = SubSeq(rx, Expected + 1, Len(rx))
      /\ UNCHANGED <<wired, dhcp, addr, cfg, air, faults, slow, faulty>>
  BY DEF Receive, chip, history
<1>2. IsCommand
  BY <1>1 DEF ChipInv, NetTyped
<1>3. /\ Expected \in 1..2
      /\ Step = "READ_IP" <=> at = ReadIp
  BY <1>2, CommandFacts
<1>4. /\ rx \in Seq(Octet) /\ Len(rx) \in Nat /\ Len(air) \in Nat /\ faults \in Nat
  BY BytesFacts DEF ReadInv
<1>5. /\ b \in Seq(Octet) /\ Len(b) = Expected
      /\ rx' \in Seq(Octet) /\ Len(rx') = Len(rx) - Expected
      /\ Len(rx) = Expected => b = rx
  BY <1>1, <1>3, <1>4, TakenBytes
<1> HIDE DEF b
<1>6. Len(air') <= 2 * faults' /\ Len(rx') + Len(air') <= 2 * faults' + 1
  <2>1. Len(rx) + Len(air) <= 2 * faults + Expected
    BY <1>1 DEF ReadInv, BytesOK
  <2> QED BY <1>1, <1>3, <1>4, <1>5, <2>1
<1>7. ~slow' => air = <<>> /\ rx = Reply
  BY <1>1, WholeAnswer
<1>8. ASSUME at = ReadIp, ~slow'
      PROVE  Padded(b)[2] \in IF wired /\ ~faulty THEN {addr} ELSE {addr, 0}
  <2>1. rx = <<Network, addr>> /\ Expected = 2
    BY <1>3, <1>7, <1>8, ReplyFacts DEF ReadInv, BytesOK
  <2>2. Len(b) = 2 /\ Len(b) <= 2 /\ b[2] = addr /\ b \in Seq(Octet)
    BY <1>5, <2>1
  <2>3. Padded(b)[2] = b[2]
    BY <2>2, PaddedFacts
  <2>4. Padded(b)[2] = addr
    BY <2>2, <2>3
  <2> QED BY <2>4
<1>9. Len(b) <= 2
  BY <1>3, <1>5
<1> QED BY <1>1, <1>5, <1>6, <1>7, <1>8, <1>9, AnswerOver

LEMMA TimeOutReads ==
  ASSUME ChipInv, ReadInv, stage = "net", stage' = stage, TimeOut \/ TimeOutEarly
  PROVE  ReadInv'
<1>1. /\ waiting /\ Len(rx) < Expected /\ Answered(rx) /\ rx' = <<>>
      /\ UNCHANGED <<wired, dhcp, addr, cfg, air>>
  BY DEF TimeOut, TimeOutEarly, chip, history
<1>2. \/ /\ TimeOut /\ air = <<>>
         /\ faults' = faults /\ slow' = slow /\ faulty' = faulty
      \/ faults' = faults + 1 /\ faults < MaxFaults /\ slow' = TRUE
  BY DEF TimeOut, TimeOutEarly, history
<1>3. IsCommand
  BY <1>1 DEF ChipInv, NetTyped
<1>4. /\ Expected \in 1..2
      /\ Step = "READ_IP" <=> at = ReadIp
  BY <1>3, CommandFacts
<1>5. /\ rx \in Seq(Octet) /\ Len(rx) \in Nat /\ Len(air) \in Nat /\ faults \in Nat
      /\ <<>> \in Seq(Octet) /\ Len(<<>>) = 0
  BY BytesFacts DEF ReadInv
<1>6. Len(rx) <= 2
  BY <1>1, <1>4, <1>5
<1>7. Len(air') <= 2 * faults' /\ Len(rx') + Len(air') <= 2 * faults' + 1
  <2>1. Len(rx) + Len(air) <= 2 * faults + Expected
    BY <1>1 DEF ReadInv, BytesOK
  <2>2. CASE air = <<>> /\ faults' = faults
    <3>1. Len(air') = 0 /\ Len(rx') = 0
      BY <1>1, <1>5, <2>2
    <3> QED BY <1>5, <2>2, <3>1
  <2>3. CASE faults' = faults + 1
    BY <1>1, <1>4, <1>5, <2>1, <2>3
  <2> QED BY <1>2, <2>2, <2>3
<1>8. ~slow' => air = <<>>
  BY <1>2
<1>9. ASSUME at = ReadIp, ~slow'
      PROVE  Padded(rx)[2] \in IF wired /\ ~faulty THEN {addr} ELSE {addr, 0}
  <2>1. air = <<>> /\ ~slow
    BY <1>2, <1>9
  <2>2. rx = <<>> /\ (~wired \/ faulty)
    BY <1>1, <1>4, <1>9, <2>1, WholeAnswer
  <2>3. Len(rx) # 2 /\ Len(rx) <= 2 /\ rx \in Seq(Octet)
    BY <1>5, <2>2
  <2>4. Padded(rx)[2] = 0
    BY <2>3, PaddedFacts, Zenon
  <2> QED BY <2>2, <2>4
<1>10. rx' \in Seq(Octet)
  BY <1>1, <1>5
<1>11. \/ faults' = faults /\ slow' = slow /\ faulty' = faulty
       \/ faults' = faults + 1 /\ faults < MaxFaults /\ slow' = TRUE
  BY <1>2
<1> QED BY <1>1, <1>5, <1>6, <1>7, <1>8, <1>9, <1>10, <1>11, AnswerOver

LEMMA WireReads ==
  ASSUME ChipInv, ReadInv, stage = "net", stage' = stage, Arrive \/ Garbage
  PROVE  ReadInv'
<1>1. UNCHANGED <<wired, dhcp, addr, cfg, at, waiting, mac, ip, faults, slow, faulty>>
  BY DEF Arrive, Garbage, chip, status, history
<1>2. /\ ReadIp' = ReadIp /\ Step' = Step /\ Finished' = Finished
      /\ Expected' = Expected /\ Reply' = Reply
  BY <1>1, SameStep
<1>3. /\ rx \in Seq(Octet) /\ air \in Seq(Octet)
      /\ Len(rx) \in Nat /\ Len(air) \in Nat /\ faults \in Nat
      /\ <<>> \in Seq(Octet) /\ Len(<<>>) = 0
  BY BytesFacts DEF ReadInv
<1>4. AddressRead'
  BY <1>1, <1>2 DEF ReadInv, AddressRead
<1>5. CASE Arrive
  <2>1. air # <<>> /\ air' = Tail(air) /\ rx' = Append(rx, Head(air))
    BY <1>5 DEF Arrive
  <2>2. /\ rx' \in Seq(Octet) /\ air' \in Seq(Octet)
        /\ Len(rx') = Len(rx) + 1 /\ Len(air') = Len(air) - 1 /\ Stream' = Stream
    BY <1>3, <2>1, ByteMoves DEF Stream
  <2>3. BytesOK'
    <3>1. Len(rx') + Len(air') = Len(rx) + Len(air) /\ Len(air') <= Len(air)
      BY <1>3, <2>2
    <3>2. Len(air) <= 2 * faults => Len(air') <= 2 * faults
      BY <1>3, <2>2
    <3> QED BY <1>1, <1>2, <2>2, <3>1, <3>2 DEF ReadInv, BytesOK
  <2>4. InStep'
    BY <1>1, <1>2, <2>1, <2>2 DEF ReadInv, InStep
  <2> QED BY <1>4, <2>3, <2>4 DEF ReadInv
<1>6. CASE Garbage
  <2>1. ~cfg /\ rx = <<>> /\ rx' = <<ACK>> /\ air' = air
    BY <1>6 DEF Garbage
  <2>2. Finished \/ Step = "enter"
    BY <2>1 DEF ReadInv, InStep
  <2>3. ~waiting
    BY <2>2 DEF ChipInv, NetTyped, IsCommand
  <2>4. rx' \in Seq(Octet) /\ Len(rx') = 1
    BY <2>1 DEF Octet, ACK
  <2>5. Len(air') <= 2 * faults /\ Len(rx') + Len(air') <= 2 * faults + 1
    <3>1. Len(air) <= 2 * faults
      BY <2>3 DEF ReadInv, BytesOK
    <3> QED BY <1>3, <2>1, <2>4, <3>1
  <2>6. BytesOK'
    BY <1>1, <2>1, <2>3, <2>4, <2>5 DEF ReadInv, BytesOK
  <2>7. InStep'
    BY <1>1, <1>2, <2>1, <2>2, <2>3 DEF ReadInv, InStep
  <2> QED BY <1>4, <2>6, <2>7 DEF ReadInv
<1> QED BY <1>5, <1>6

LEMMA ReadInit == Init => ReadInv
<1> SUFFICES ASSUME Init PROVE ReadInv
  OBVIOUS
<1>1. /\ addr \in Octets /\ stage = "rings" /\ waiting = FALSE /\ faults = 0
      /\ rx = <<>> /\ air = <<>> /\ mac = <<0, 0>> /\ ip = <<0, 0>>
  BY DEF Init
<1>2. <<0, 0>> \in Seq(Octet) /\ Len(<<0, 0>>) = 2
      /\ <<>> \in Seq(Octet) /\ Len(<<>>) = 0
  BY DEF Octet
<1>3. faults \in 0..MaxFaults
  BY <1>1, NetAssumption DEF NetAssumption
<1>4. Len(air) <= 2 * faults /\ Len(rx) + Len(air) <= 2 * faults + 1
  BY <1>1, <1>2
<1>5. BytesOK
  BY <1>1, <1>2, <1>3, <1>4 DEF BytesOK
<1> QED BY <1>1, <1>5 DEF ReadInv, InStep, AddressRead

\* Before the reset pulse there is nothing under way.
LEMMA StartReads ==
  ASSUME ReadInv, StartNet
  PROVE  ReadInv'
<1>1. /\ stage' = "net" /\ addr' \in Octets /\ at' = 1 /\ waiting' = FALSE
      /\ rx' = <<>> /\ air' = <<>> /\ mac' = <<0, 0>> /\ ip' = <<0, 0>>
      /\ UNCHANGED <<dhcp, faults>>
  BY DEF StartNet, NetStart
<1>2. <<0, 0>> \in Seq(Octet) /\ Len(<<0, 0>>) = 2
      /\ <<>> \in Seq(Octet) /\ Len(<<>>) = 0
  BY DEF Octet
<1>3. /\ faults \in Nat /\ faults' \in 0..MaxFaults
  BY <1>1, BytesFacts DEF ReadInv, BytesOK
<1>4. Len(air') <= 2 * faults' /\ Len(rx') + Len(air') <= 2 * faults' + 1
  BY <1>1, <1>2, <1>3
<1>5. BytesOK'
  BY <1>1, <1>2, <1>3, <1>4 DEF BytesOK
<1>6. (Step = "enter")' /\ ~(at > ReadIp)'
  BY <1>1, SameStep, ScriptEnd DEF Step
<1>7. InStep'
  BY <1>1, <1>6 DEF InStep
<1>8. AddressRead'
  BY <1>6 DEF AddressRead
<1> QED BY <1>5, <1>7, <1>8 DEF ReadInv

LEMMA ResetReads ==
  ASSUME ReadInv, Reset
  PROVE  ReadInv'
<1>1. /\ stage' \in {"rings", "recovery"}
      /\ UNCHANGED <<dhcp, addr, at, waiting, mac, ip, faults>>
      /\ \/ UNCHANGED <<rx, air>>
         \/ rx' = <<>> /\ air' = <<>>
  BY DEF Reset, Attach, netVars, chip, uart, status, history
<1>2. Expected' = Expected
  BY <1>1, SameStep
<1>3. CASE UNCHANGED <<rx, air>>
  <2>1. BytesOK'
    BY <1>1, <1>2, <1>3 DEF ReadInv, BytesOK
  <2> QED BY <1>1, <2>1 DEF ReadInv, InStep, AddressRead
<1>4. CASE rx' = <<>> /\ air' = <<>>
  <2>1. /\ <<>> \in Seq(Octet) /\ Len(<<>>) = 0 /\ faults \in Nat
        /\ Expected \in 1..2
    BY BytesFacts, ReplyFacts DEF ReadInv, BytesOK
  <2>2. /\ Len(air') <= 2 * faults /\ Len(rx') + Len(air') <= 2 * faults + 1
        /\ Len(rx') + Len(air') <= 2 * faults + Expected
    BY <1>4, <2>1
  <2>3. BytesOK'
    BY <1>1, <1>2, <1>4, <2>1, <2>2 DEF ReadInv, BytesOK
  <2> QED BY <1>1, <2>3 DEF ReadInv, InStep, AddressRead
<1> QED BY <1>1, <1>3, <1>4

LEMMA ReadNext == ChipInv /\ ReadInv /\ [Next]_vars => ReadInv'
<1> SUFFICES ASSUME ChipInv, ReadInv, [Next]_vars PROVE ReadInv'
  OBVIOUS
<1>1. CASE UNCHANGED netVars /\ (UNCHANGED stage \/ EnterLoop)
  <2>1. UNCHANGED <<wired, dhcp, addr, cfg, at, waiting, air, rx, mac, ip, slow,
                    faulty, faults>>
    BY <1>1 DEF netVars, chip, uart, status, history
  <2>2. /\ ReadIp' = ReadIp /\ Step' = Step /\ Finished' = Finished
        /\ Expected' = Expected /\ Reply' = Reply
    BY <2>1, SameStep
  <2>3. BytesOK'
    BY <2>1, <2>2 DEF ReadInv, BytesOK
  <2>4. stage' = stage \/ (stage = "net" /\ stage' = "loop")
    BY <1>1 DEF EnterLoop
  <2>5. InStep'
    BY <2>1, <2>2, <2>4 DEF ReadInv, InStep, Stream
  <2>6. AddressRead'
    BY <2>1, <2>2, <2>4 DEF ReadInv, AddressRead
  <2> QED BY <2>3, <2>5, <2>6 DEF ReadInv
<1>2. CASE StartNet
  BY <1>2, StartReads
<1>3. CASE NetStep
  <2>1. stage = "net" /\ stage' = stage /\ NetInit
    BY <1>3 DEF NetStep
  <2>2. CASE Enter
    BY <2>1, <2>2, EnterReads
  <2>3. CASE Exit
    BY <2>1, <2>3, ExitReads
  <2>4. CASE Send \/ SendInVain \/ SendLossy
    BY <2>1, <2>4, SendReads
  <2>5. CASE Receive
    BY <2>1, <2>5, ReceiveReads
  <2>6. CASE TimeOut \/ TimeOutEarly
    BY <2>1, <2>6, TimeOutReads
  <2>7. CASE ToDataMode
    BY <2>1, <2>7, DataModeReads
  <2> QED BY <2>1, <2>2, <2>3, <2>4, <2>5, <2>6, <2>7 DEF NetInit
<1>4. CASE NetWire
  BY <1>4, WireReads DEF NetWire
<1>5. CASE Reset
  BY <1>5, ResetReads
<1>6. CASE EnterLoop
  BY <1>1, <1>6 DEF EnterLoop
<1> QED
  BY <1>1, <1>2, <1>3, <1>4, <1>5, <1>6
     DEF Next, vars, BootFlush, LoopLed, LoopRings

-----------------------------------------------------------------------------
(* Late answers *)

\* The bytes of the answers to the two questions at the end of the script.
Told == Astray \cup {addr}

\* From the first question on only these are under way, and what is kept of them
\* as the address is one of them, or nothing.
LateInv ==
    /\ stage = "net" /\ at \in {ReadIp - 1, ReadIp} =>
           rx \in Seq(Told) /\ air \in Seq(Told)
    /\ stage \in {"net", "loop"} /\ at > ReadIp => ip[2] \in Told \cup {0}

LEMMA Questions ==
    /\ ReadIp - 1 \in 1..Len(Script) /\ ReadIp - 2 \in 1..Len(Script)
    /\ ReadIp \in 1..Len(Script) /\ 1 \notin {ReadIp - 1, ReadIp}
    /\ Script[ReadIp - 2] = "enter" /\ Script[ReadIp - 1] = "READ_MAC"
    /\ Script[ReadIp] = "READ_IP"
<1>1. CASE dhcp
  <2>1. /\ Len(Script) = 12 /\ Script[9] = "enter" /\ Script[10] = "READ_MAC"
        /\ Script[11] = "READ_IP"
    BY <1>1, ScriptWithDhcp
  <2>2. ReadIp = 11 /\ ReadIp - 1 = 10 /\ ReadIp - 2 = 9
    BY <2>1 DEF ReadIp
  <2> QED BY <2>1, <2>2
<1>2. CASE ~dhcp
  <2>1. /\ Len(Script) = 15 /\ Script[12] = "enter" /\ Script[13] = "READ_MAC"
        /\ Script[14] = "READ_IP"
    BY <1>2, ScriptWithStatic
  <2>2. ReadIp = 14 /\ ReadIp - 1 = 13 /\ ReadIp - 2 = 12
    BY <2>1 DEF ReadIp
  <2> QED BY <2>1, <2>2
<1> QED BY <1>1, <1>2

LEMMA ToldFacts ==
  /\ <<>> \in Seq(Told)
  /\ Step \in {"READ_MAC", "READ_IP"} => Reply \in Seq(Told)
<1>1. Mac[1] \in Told /\ Mac[2] \in Told /\ Network \in Told /\ addr \in Told
  BY DEF Told, Astray
<1>2. 2 \in Told /\ 31 \in Told
  BY <1>1 DEF Mac
<1>3. Mac \in Seq(Told)
  BY <1>2 DEF Mac
<1>4. <<Network, addr>> \in Seq(Told)
  BY <1>1
<1> QED BY <1>3, <1>4 DEF Reply

\* The address stands when it is asked for: only EXEC changes it.
LEMMA LateSend ==
  ASSUME ChipInv, ReadInv, LateInv, stage = "net", stage' = stage,
         Send \/ SendInVain \/ SendLossy
  PROVE  LateInv'
<1>1. /\ IsCommand /\ rx' = <<>> /\ at' = at
      /\ air' \in {air, air \o Reply, <<>>}
  BY DEF Send, SendInVain, SendLossy, FlushedRx, status, history
<1>2. /\ UNCHANGED dhcp /\ (addr' = addr \/ Step = "EXEC")
  <2>1. CASE Taken
    BY <2>1 DEF Taken
  <2>2. CASE UNCHANGED chip
    BY <2>2 DEF chip
  <2> QED BY <2>1, <2>2 DEF Send, SendInVain, SendLossy
<1>3. ReadIp' = ReadIp /\ at \in 1..Len(Script) /\ ~(at > ReadIp)
  BY <1>1, <1>2, CommandFacts, SameStep, ScriptEnd
<1>4. ASSUME at \in {ReadIp - 1, ReadIp}
      PROVE  rx' \in Seq(Told') /\ air' \in Seq(Told')
  <2>1. Step \in {"READ_MAC", "READ_IP"}
    BY <1>4, Questions DEF Step
  <2>2. Told' = Told
    BY <1>2, <2>1 DEF Told, Astray
  <2>3. air \in Seq(Told) /\ Reply \in Seq(Told) /\ <<>> \in Seq(Told)
    BY <1>4, <2>1, ToldFacts DEF LateInv
  <2>4. air \o Reply \in Seq(Told)
    BY <2>3, ConcatProperties
  <2> QED BY <1>1, <2>2, <2>3, <2>4
<1> QED BY <1>1, <1>3, <1>4 DEF LateInv

LEMMA Portions ==
  ASSUME NEW S, NEW x \in Seq(S), NEW e \in 1..2, Len(x) >= e
  PROVE  /\ SubSeq(x, 1, e) \in Seq(S) /\ Len(SubSeq(x, 1, e)) = e
         /\ SubSeq(x, e + 1, Len(x)) \in Seq(S)
<1>1. Len(x) \in Nat /\ e \in 0..Len(x)
  BY LenProperties
<1>2. SubSeq(x, 1, e) \in Seq(S) /\ Len(SubSeq(x, 1, e)) = e
  BY <1>1
<1>3. SubSeq(x, e + 1, Len(x)) \in Seq(S)
  BY <1>1
<1> QED BY <1>2, <1>3

\* An answer, whole, cut or late, is taken for the one awaited.
LEMMA LateAnswer ==
  ASSUME ChipInv, ReadInv, LateInv, stage = "net", stage' = stage, waiting,
         NEW b, b \in Seq(Octet), Len(b) <= 2, Answered(b),
         UNCHANGED <<dhcp, addr, air>>,
         \A S : rx \in Seq(S) => b \in Seq(S) /\ rx' \in Seq(S)
  PROVE  LateInv'
<1>1. IsCommand /\ at' = at + 1
  BY DEF ChipInv, NetTyped, Answered
<1>2. /\ at \in 1..Len(Script) /\ at <= ReadIp /\ ReadIp' = ReadIp
      /\ Step = "READ_IP" <=> at = ReadIp
  BY <1>1, CommandFacts, SameStep
<1>3. Told' = Told
  BY DEF Told, Astray
<1>4. ASSUME at' \in {ReadIp - 1, ReadIp}
      PROVE  rx' \in Seq(Told) /\ air' \in Seq(Told)
  <2>1. at = ReadIp - 1
    <3>1. at = ReadIp - 2 \/ at = ReadIp - 1
      BY <1>1, <1>2, <1>4, ScriptEnd
    <3>2. at # ReadIp - 2
      BY <1>1, Questions DEF IsCommand, Step
    <3> QED BY <3>1, <3>2
  <2>2. rx \in Seq(Told) /\ air \in Seq(Told)
    BY <2>1 DEF LateInv
  <2> QED BY <2>2
<1>5. ASSUME at' > ReadIp
      PROVE  ip'[2] \in Told \cup {0}
  <2>1. at = ReadIp
    BY <1>1, <1>2, <1>5, ScriptEnd
  <2>2. ip' = Padded(b)
    BY <1>2, <2>1, StatusTaken DEF ReadInv
  <2>3. rx \in Seq(Told)
    BY <2>1 DEF LateInv
  <2>4. b \in Seq(Told)
    BY <2>3
  <2>5. CASE Len(b) = 2
    <3>1. Padded(b)[2] = b[2]
      BY <2>5, PaddedFacts
    <3>2. b[2] \in Told
      BY <2>4, <2>5
    <3> QED BY <2>2, <3>1, <3>2
  <2>6. CASE Len(b) # 2
    <3>1. Padded(b)[2] = 0
      BY <2>6, PaddedFacts
    <3> QED BY <2>2, <3>1
  <2> QED BY <2>5, <2>6
<1> QED BY <1>2, <1>3, <1>4, <1>5 DEF LateInv

LEMMA LateReceive ==
  ASSUME ChipInv, ReadInv, LateInv, stage = "net", stage' = stage, Receive
  PROVE  LateInv'
<1> DEFINE b == SubSeq(rx, 1, Expected)
<1>1. /\ waiting /\ Len(rx) >= Expected /\ Answered(b)
      /\ rx' = SubSeq(rx, Expected + 1, Len(rx))
      /\ UNCHANGED <<dhcp, addr, air>>
  BY DEF Receive, chip
<1>2. Expected \in 1..2
  BY <1>1, CommandFacts DEF ChipInv, NetTyped
<1>3. \A S : rx \in Seq(S) => b \in Seq(S) /\ rx' \in Seq(S) /\ Len(b) = Expected
  BY <1>1, <1>2, Portions
<1>4. rx \in Seq(Octet)
  BY BytesFacts DEF ReadInv
<1>5. b \in Seq(Octet) /\ Len(b) <= 2
  BY <1>2, <1>3, <1>4
<1> HIDE DEF b
<1> QED BY <1>1, <1>3, <1>5, LateAnswer

LEMMA LateTimeOut ==
  ASSUME ChipInv, ReadInv, LateInv, stage = "net", stage' = stage,
         TimeOut \/ TimeOutEarly
  PROVE  LateInv'
<1>1. /\ waiting /\ Len(rx) < Expected /\ Answered(rx) /\ rx' = <<>>
      /\ UNCHANGED <<dhcp, addr, air>>
  BY DEF TimeOut, TimeOutEarly, chip
<1>2. Expected \in 1..2
  BY <1>1, CommandFacts DEF ChipInv, NetTyped
<1>3. rx \in Seq(Octet) /\ Len(rx) \in Nat
  BY BytesFacts DEF ReadInv
<1>4. Len(rx) <= 2
  BY <1>1, <1>2, <1>3
<1>5. \A S : rx \in Seq(S) => rx \in Seq(S) /\ rx' \in Seq(S)
  BY <1>1
<1> QED BY <1>1, <1>3, <1>4, <1>5, LateAnswer

\* Steps that take no answer: net_init moves on, or a byte arrives.
LEMMA LateQuiet ==
  ASSUME ChipInv, ReadInv, LateInv, stage = "net", stage' = stage,
         Enter \/ Exit \/ ToDataMode \/ Arrive \/ Garbage
  PROVE  LateInv'
<1>1. UNCHANGED <<dhcp, addr, ip>>
  BY DEF Enter, Exit, ToDataMode, Arrive, Garbage, chip, status
<1>2. ReadIp' = ReadIp /\ Told' = Told
  BY <1>1, SameStep DEF Told, Astray
<1>3. ReadIp \in Nat /\ at \in Nat
  BY ScriptEnd DEF ChipInv, NetTyped
<1>4. CASE Enter
  <2>1. Step = "enter" /\ ~Finished /\ at' = at + 1 /\ rx' = <<>> /\ air' = <<>>
    BY <1>4 DEF Enter, FlushedRx
  <2>2. at # ReadIp /\ at # ReadIp + 1
    BY <2>1, Questions, ScriptEnd DEF Step
  <2>3. ~(at' > ReadIp) \/ at > ReadIp
    BY <1>3, <2>1, <2>2
  <2> QED BY <1>1, <1>2, <2>1, <2>3, ToldFacts DEF LateInv
<1>5. CASE Exit
  <2>1. Step = "exit" /\ ~Finished /\ at' = at + 1
    BY <1>5 DEF Exit
  <2>2. at # ReadIp - 2 /\ at # ReadIp - 1 /\ at # ReadIp
    BY <2>1, Questions DEF Step
  <2>3. at' \notin {ReadIp - 1, ReadIp} /\ (at' > ReadIp => at > ReadIp)
    BY <1>3, <2>1, <2>2
  <2> QED BY <1>1, <1>2, <2>3 DEF LateInv
<1>6. CASE ToDataMode
  <2>1. at' = at + 1 /\ at > ReadIp
    BY <1>6, ScriptEnd DEF ToDataMode
  <2>2. at' \notin {ReadIp - 1, ReadIp}
    BY <1>3, <2>1
  <2> QED BY <1>1, <1>2, <2>1, <2>2 DEF LateInv
<1>7. CASE Arrive
  <2>1. at' = at /\ air # <<>> /\ air' = Tail(air) /\ rx' = Append(rx, Head(air))
    BY <1>7 DEF Arrive
  <2>2. rx \in Seq(Told) /\ air \in Seq(Told) =>
            rx' \in Seq(Told) /\ air' \in Seq(Told)
    BY <2>1, ByteMoves
  <2> QED BY <1>1, <1>2, <2>1, <2>2 DEF LateInv
<1>8. CASE Garbage
  <2>1. at' = at /\ ~cfg
    BY <1>8 DEF Garbage
  <2>2. Finished \/ Step = "enter"
    BY <2>1 DEF ReadInv, InStep
  <2>3. at \notin {ReadIp - 1, ReadIp}
    BY <2>2, Questions DEF Finished, Step
  <2> QED BY <1>1, <1>2, <2>1, <2>3 DEF LateInv
<1> QED BY <1>4, <1>5, <1>6, <1>7, <1>8

\* An answer that was given up on counts as a fault.
LEMMA SlowNext == (slow => faulty) /\ [Next]_vars => (slow => faulty)'
<1> SUFFICES ASSUME slow => faulty, [Next]_vars PROVE (slow => faulty)'
  OBVIOUS
<1>1. CASE UNCHANGED <<slow, faulty>>
  BY <1>1
<1>2. CASE StartNet
  BY <1>2 DEF StartNet, NetStart
<1>3. CASE NetStep
  <2>1. CASE SendLossy \/ TimeOutEarly
    BY <2>1 DEF SendLossy, TimeOutEarly
  <2>2. CASE Enter \/ Exit \/ Send \/ SendInVain \/ Receive \/ TimeOut \/ ToDataMode
    BY <1>1, <2>2
       DEF Enter, Exit, Send, SendInVain, Receive, TimeOut, ToDataMode, history
  <2> QED BY <1>3, <2>1, <2>2 DEF NetStep, NetInit
<1>4. CASE NetWire \/ Reset
  BY <1>1, <1>4 DEF NetWire, Arrive, Garbage, Reset, Attach, netVars, history
<1>5. CASE BootFlush \/ LoopLed \/ LoopRings \/ EnterLoop \/ UNCHANGED vars
  BY <1>1, <1>5 DEF BootFlush, LoopLed, LoopRings, EnterLoop, vars, netVars, history
<1> QED BY <1>2, <1>3, <1>4, <1>5 DEF Next

LEMMA LateNext == ChipInv /\ ReadInv /\ LateInv /\ [Next]_vars => LateInv'
<1> SUFFICES ASSUME ChipInv, ReadInv, LateInv, [Next]_vars PROVE LateInv'
  OBVIOUS
<1>1. CASE UNCHANGED netVars /\ (UNCHANGED stage \/ EnterLoop)
  <2>1. UNCHANGED <<dhcp, addr, at, air, rx, ip>>
    BY <1>1 DEF netVars, chip, uart, status
  <2>2. ReadIp' = ReadIp /\ Told' = Told
    BY <2>1, SameStep DEF Told, Astray
  <2>3. stage' = stage \/ (stage = "net" /\ stage' = "loop")
    BY <1>1 DEF EnterLoop
  <2> QED BY <2>1, <2>2, <2>3 DEF LateInv
<1>2. CASE StartNet
  <2>1. stage' = "net" /\ at' = 1 /\ dhcp' = dhcp
    BY <1>2 DEF StartNet, NetStart
  <2>2. ReadIp' = ReadIp
    BY <2>1, SameStep
  <2>3. at' \notin {ReadIp - 1, ReadIp} /\ ~(at' > ReadIp)
    BY <2>1, Questions, ScriptEnd
  <2> QED BY <2>1, <2>2, <2>3 DEF LateInv
<1>3. CASE NetStep
  <2>1. stage = "net" /\ stage' = stage /\ NetInit
    BY <1>3 DEF NetStep
  <2> QED BY <2>1, LateSend, LateReceive, LateTimeOut, LateQuiet DEF NetInit
<1>4. CASE NetWire
  BY <1>4, LateQuiet DEF NetWire
<1>5. CASE Reset
  <2>1. stage' \in {"rings", "recovery"}
    BY <1>5 DEF Reset
  <2> QED BY <2>1 DEF LateInv
<1>6. CASE EnterLoop
  BY <1>1, <1>6 DEF EnterLoop
<1> QED
  BY <1>1, <1>2, <1>3, <1>4, <1>5, <1>6
     DEF Next, vars, BootFlush, LoopLed, LoopRings

-----------------------------------------------------------------------------
(* The LED and the loop *)

LedInv ==
    /\ stage \in {"rings", "net", "loop", "recovery"}
    /\ IF stage = "loop" THEN LedOK /\ digits = DigitsOf(ip[2]) ELSE LedTypeOK

LEMMA SecondOctet ==
  ASSUME ReadInv
  PROVE  ip[2] \in Octet
<1>1. \A s \in Seq(Octet) : Len(s) = 2 => s[2] \in Octet
  OBVIOUS
<1> QED BY <1>1, Zenon DEF ReadInv, BytesOK

LEMMA LedTyped ==
  ASSUME LedOK
  PROVE  LedTypeOK
<1>1. /\ digits \in Seq(0..9) /\ Len(digits) \in 1..3 /\ pulses_done \in 0..9
      /\ reading \in Seq(0..9) \cup {Unread}
  BY DEF LedOK
<1>2. ASSUME NEW i \in 1..Len(digits) PROVE i \in 1..Len(digits) + 1
  BY <1>1
<1>3. Len(digits) \in 1..Len(digits) /\ Len(digits) + 1 \in 1..Len(digits) + 1
  BY <1>1, FirstAndLast, Zenon
<1>4. CASE Pulsing
  <2>1. /\ di \in 1..Len(digits) /\ di \in 1..Len(digits) + 1
        /\ phase \in {"pulse_on", "pulse_off"}
        /\ number \in Seq(0..9) /\ dark \in Nat /\ count \in 0..9
    BY <1>1, <1>2, <1>4 DEF Pulsing, Got
  <2>2. next \in {PulseOn, PulseOff, ZeroOn}
    BY <1>4, <2>1, DigitAt DEF Pulsing
  <2> QED BY <1>1, <2>1, <2>2 DEF LedTypeOK
<1>5. CASE Paused
  <2>1. di \in 1..Len(digits) + 1 /\ count \in 0..9
    BY <1>2, <1>5, DigitAt DEF Paused
  <2> QED BY <1>1, <1>5, <2>1 DEF LedTypeOK, Paused, Got
<1>6. CASE Resting
  <2>1. di \in 1..Len(digits) + 1 /\ count \in 0..9
    BY <1>3, <1>6, DigitAt DEF Resting
  <2> QED BY <1>1, <1>6, <2>1 DEF LedTypeOK, Resting, Got
<1> QED BY <1>4, <1>5, <1>6 DEF LedOK

LEMMA LedInitInv == Init => LedInv
<1> SUFFICES ASSUME Init PROVE LedInv
  OBVIOUS
<1>1. LedInit /\ stage = "rings"
  BY DEF Init
<1>2. <<0>> \in Seq(0..9) /\ Len(<<0>>) = 1 /\ <<>> \in Seq(0..9)
  OBVIOUS
<1> QED BY <1>1, <1>2 DEF LedInit, LedInv, LedTypeOK

LEMMA LedNext == ReadInv /\ LedInv /\ [Next]_vars => LedInv'
<1> SUFFICES ASSUME ReadInv, LedInv, [Next]_vars PROVE LedInv'
  OBVIOUS
<1>1. ASSUME UNCHANGED <<ledVars, readerVars>>,
             stage' \in {"rings", "net", "recovery"} \/ UNCHANGED <<stage, ip>>
      PROVE  LedInv'
  <2>1. UNCHANGED <<digits, di, pulses_done, phase, next, dark, count, number, reading>>
    BY <1>1 DEF ledVars, readerVars
  <2>2. LedTypeOK => LedTypeOK'
    BY <2>1 DEF LedTypeOK
  <2>3. LedOK => LedOK'
    BY <2>1 DEF LedOK, Pulsing, Paused, Resting, Got
  <2> QED BY <1>1, <2>1, <2>2, <2>3, LedTyped DEF LedInv
<1>2. CASE BootFlush \/ StartNet \/ NetStep \/ NetWire \/ Reset
  <2>1. UNCHANGED <<ledVars, readerVars>>
    BY <1>2 DEF BootFlush, StartNet, NetStep, NetWire, Reset
  <2>2. stage' \in {"rings", "net", "recovery"}
    BY <1>2 DEF BootFlush, StartNet, NetStep, NetWire, Reset
  <2> QED BY <1>1, <2>1, <2>2
<1>3. CASE LoopRings \/ UNCHANGED vars
  BY <1>1, <1>3 DEF LoopRings, vars, netVars, status
<1>4. CASE EnterLoop
  <2>1. stage' = "loop" /\ LedShow(ip[2]) /\ ip' = ip
    BY <1>4 DEF EnterLoop, netVars, status
  <2>2. ip[2] \in Octet
    BY SecondOctet
  <2>3. LedOK' /\ digits' = DigitsOf(ip[2])
    BY <2>1, <2>2, LedShowOK DEF LedShow
  <2> QED BY <2>1, <2>3 DEF LedInv
<1>5. CASE LoopLed
  <2>1. stage = "loop" /\ stage' = stage /\ LedTask /\ ip' = ip
    BY <1>5 DEF LoopLed, netVars, status
  <2>2. LedOK'
    BY <2>1, LedTaskKeeps DEF LedInv
  <2>3. digits' = digits
    BY <2>1 DEF LedTask, EndPulse, NextPulse, NextDigit, Repeat
  <2> QED BY <2>1, <2>2, <2>3 DEF LedInv
<1> QED BY <1>2, <1>3, <1>4, <1>5 DEF Next

LEMMA AddressInvHolds == Spec => [](ChipInv /\ AnswerInv /\ ReadInv /\ LateInv /\ LedInv)
<1>1. Init => LateInv
  BY DEF Init, LateInv
<1>2. Init => ReadInv /\ LateInv /\ LedInv
  BY <1>1, ReadInit, LedInitInv
<1>3. ChipInv /\ ReadInv /\ LateInv /\ LedInv /\ [Next]_vars =>
          (ReadInv /\ LateInv /\ LedInv)'
  BY ReadNext, LateNext, LedNext
<1> QED
  BY <1>2, <1>3, NetInvHolds, PTL DEF Spec

\* The blinks say the address the chip gave when net_init asked it, zeros included,
\* however late the loop serves the LED and for any address; 0 where the chip did not
\* answer (status_led.h:4-9); and where it answered after net_init had stopped
\* waiting, at worst another octet of its answers.
THEOREM LedAlwaysTellsAddress == Spec => []LedTellsAddress
<1>1. ASSUME ChipInv, AnswerInv, ReadInv, LateInv, LedInv, slow => faulty
      PROVE  LedTellsAddress
  <2> SUFFICES ASSUME stage = "loop", reading # Unread
               PROVE  Value(reading) \in
                          IF wired /\ ~faulty THEN {addr}
                          ELSE {addr, 0} \cup (IF slow THEN Astray ELSE {})
    BY DEF LedTellsAddress
  <2>1. at = Len(Script) + 2
    BY <1>1 DEF AnswerInv, Confirms
  <2>2. at > ReadIp
    BY <2>1, ScriptEnd
  <2>3. ~slow => ip[2] \in IF wired /\ ~faulty THEN {addr} ELSE {addr, 0}
    BY <1>1, <2>2 DEF ReadInv, AddressRead
  <2>4. ip[2] \in {addr, 0} \cup Astray
    BY <1>1, <2>2 DEF LateInv, Told
  <2>5. slow => faulty
    BY <1>1
  <2>6. reading = DigitsOf(ip[2])
    BY <1>1 DEF LedInv, LedOK
  <2>7. Value(reading) = ip[2]
    BY <1>1, <2>6, SecondOctet, DigitsFacts
  <2> QED BY <2>3, <2>4, <2>5, <2>7
<1>2. Init => (slow => faulty)
  BY DEF Init
<1> QED
  BY <1>1, <1>2, SlowNext, AddressInvHolds, PTL DEF Spec

\* The types, with the bytes that answers given up on can leave in the FIFO and on
\* the wire: two for each, and those of the answer awaited.
THEOREM TypeCorrect == Spec => []TypeOK
<1>1. ASSUME ChipInv, ReadInv, LedInv, RingTypeOK PROVE TypeOK
  <2>1. Len(rx) \in Nat /\ Len(air) \in Nat /\ faults \in Nat /\ MaxFaults \in Nat
        /\ faults <= MaxFaults
    BY <1>1, BytesFacts DEF ReadInv
  <2>2. Expected \in 1..2
    BY <1>1, ReplyFacts DEF ReadInv, BytesOK
  <2>3. Len(rx) + Len(air) <= 2 * faults + 2
    <3>1. CASE waiting
      <4>1. Len(rx) + Len(air) <= 2 * faults + Expected
        BY <1>1, <3>1 DEF ReadInv, BytesOK
      <4> QED BY <2>1, <2>2, <4>1
    <3>2. CASE ~waiting
      <4>1. Len(rx) + Len(air) <= 2 * faults + 1
        BY <1>1, <3>2 DEF ReadInv, BytesOK
      <4> QED BY <2>1, <4>1
    <3> QED BY <3>1, <3>2
  <2>4. Len(rx) <= 2 * MaxFaults + 2 /\ Len(air) <= 2 * MaxFaults + 2
    BY <2>1, <2>3
  <2>5. LedTypeOK
    BY <1>1, LedTyped DEF LedInv
  <2> QED BY <1>1, <2>4, <2>5 DEF TypeOK, LedInv, ChipInv, NetTyped, ReadInv, BytesOK
<1> QED
  BY <1>1, AddressInvHolds, RingsTypeCorrect, PTL
=============================================================================
