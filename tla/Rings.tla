-------------------------------- MODULE Rings --------------------------------
(***************************************************************************)
(* rings.c and rings_hw.c with rings_flush of main.c: the colour of each   *)
(* ring, its brightness, the words made of them, and when they are pushed. *)
(***************************************************************************)
EXTENDS Integers, Sequences, Ws2812

CONSTANTS
    RINGS,
    NumLeds,      \* LEDs of each ring
    MaxLeds,      \* words the buffer of rings_flush holds
    RingCmds,     \* colour commands: records of r, g, b and brightness
    Grb           \* whether the rings latch green first

Ring == 1..RINGS
Byte == 0..255
Keep == -1

ASSUME RingsAssumption ==
    /\ RINGS \in Nat /\ MaxLeds \in Nat /\ Grb \in BOOLEAN
    /\ NumLeds \in [Ring -> Nat \ {0}]
    /\ RingCmds \subseteq [r : Int, g : Int, b : Int, brightness : Int]

VARIABLES
    st,       \* commanded colour and brightness of each ring
    dirty,
    wire,     \* each ring's chain
    turn      \* the ring rings_flush looks at next; RINGS + 1: none

ringVars == <<st, dirty, wire, turn>>

Dark == [r |-> 0, g |-> 0, b |-> 0, brightness |-> 255]

\* rings_init.  The LEDs keep what they showed, and only rings_flush changes it.
RingsInit(shown) ==
    /\ st = [i \in Ring |-> Dark] /\ dirty = [i \in Ring |-> TRUE]
    /\ turn = 1 /\ wire = [i \in Ring |-> Idle(shown)]
RingsRestart ==
    /\ st' = [i \in Ring |-> Dark] /\ dirty' = [i \in Ring |-> TRUE]
    /\ turn' = 1 /\ wire' = [i \in Ring |-> Idle(wire[i].shows)]

\* rings_scale, rounding to the nearest.
Scale(c, brightness) == (c * brightness + 127) \div 255

\* rings_pixel_word
Word(x, y, z) == x * 65536 + y * 256 + z
PixelWord(s) ==
    LET r == Scale(s.r, s.brightness)
        g == Scale(s.g, s.brightness)
        b == Scale(s.b, s.brightness)
    IN  IF Grb THEN Word(g, r, b) ELSE Word(r, g, b)

\* rings_set: fields are bytes or kept, or nothing changes.
\* Bug: 256 passes.
ValidLoosely(c) == \A f \in DOMAIN c : c[f] \in 0..256 \cup {Keep}
Valid(c) == \A f \in DOMAIN c : c[f] \in Byte \cup {Keep}
Updated(s, c) == [f \in DOMAIN s |-> IF c[f] = Keep THEN s[f] ELSE c[f]]

Set(i, c) ==
    /\ turn = 1
    /\ LET next == IF Valid(c) THEN Updated(st[i], c) ELSE st[i]
       IN  /\ st' = [st EXCEPT ![i] = next]
           /\ dirty' = [dirty EXCEPT ![i] = @ \/ next # st[i]]
    /\ UNCHANGED <<wire, turn>>

\* rings_render refuses a ring longer than the buffer.
Renderable(i) == NumLeds[i] <= MaxLeds

\* One turn of rings_flush: render, push, clear the mark.
Flush ==
    /\ turn \in Ring /\ turn' = turn + 1
    /\ IF dirty[turn] /\ Renderable(turn)
       THEN /\ wire' = [i \in Ring |->
                 IF i = turn THEN Push(wire[i], PixelWord(st[i]), NumLeds[i])
                 ELSE Wait(wire[i], PushTime(NumLeds[turn]))]
            /\ dirty' = [dirty EXCEPT ![turn] = FALSE]
       ELSE UNCHANGED <<wire, dirty>>
    /\ UNCHANGED st

\* The end of a pass of the super-loop.
\* Bug: without the sleep.
NextPassAtOnce ==
    /\ turn = RINGS + 1 /\ turn' = 1
    /\ UNCHANGED <<st, dirty, wire>>
NextPass ==
    /\ turn = RINGS + 1 /\ turn' = 1
    /\ wire' = [i \in Ring |-> Wait(wire[i], TickSleep)]
    /\ UNCHANGED <<st, dirty>>
-----------------------------------------------------------------------------
RingTypeOK ==
    /\ st \in [Ring -> [r : Byte, g : Byte, b : Byte, brightness : Byte]]
    /\ dirty \in [Ring -> BOOLEAN]
    /\ turn \in 1..RINGS + 1
    /\ \A i \in Ring : /\ \/ wire[i].shows = -1
                          \/ wire[i].shows \in 0..Word(255, 255, 255)
                       /\ wire[i].left \in -LatchGap..PixelTime * Queued

\* What a byte of a latched word stands for: the component times the brightness,
\* to the nearest 255th; and a word for a colour, in the order of these LEDs.
Near(x, c, brightness) == 255 * x - c * brightness \in -127..127
Looks(word, s) ==
    LET first == word \div 65536
        second == (word \div 256) % 256
    IN  /\ Near(IF Grb THEN second ELSE first, s.r, s.brightness)
        /\ Near(IF Grb THEN first ELSE second, s.g, s.brightness)
        /\ Near(word % 256, s.b, s.brightness)

\* A ring whose frame is not pending shows the commanded colour, as bright as
\* commanded: no frame is taken for part of the one before, which a chain does
\* within the latch gap while rings_clear_dirty forgets it all the same
\* (rings_hw.c:25-28).
RingsShown ==
    \A i \in Ring : ~dirty[i] => Looks(wire[i].shows, st[i])
=============================================================================
