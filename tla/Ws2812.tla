------------------------------- MODULE Ws2812 -------------------------------
(* A chain of WS2812 LEDs on a PIO state machine, in microseconds.           *)
(*                                                                           *)
(* A frame is n equal words.  A chain takes a frame for its own when the     *)
(* line was silent for the latch gap; otherwise the words run on behind the  *)
(* previous frame and off the chain's end.                                   *)
EXTENDS Integers, FiniteSetsExt

PixelTime == 30        \* 24 bits at 800 kHz
Queued == 9            \* words on their way when the last one is accepted: the
                       \* joined FIFO holds 8, the shift register one
LatchGap == 280
FrameSleep == 300      \* sleep_us before every frame
TickSleep == 2000      \* sleep_ms(2) at the end of a pass

\* shows: the word the LEDs latched; left: until the line falls silent, or
\* negative: silent for so long, not counted beyond the latch gap.
Idle(w) == [shows |-> w, left |-> -LatchGap]

Wait(c, t) == [c EXCEPT !.left = Max({@ - t, -LatchGap})]

\* How long pushing n words keeps the processor: the queue takes the first ones
\* at once, then one more whenever a pixel is out.
PushTime(n) == FrameSleep + PixelTime * Max({n - Queued, 0})

Push(c, w, n) ==
    [shows |-> IF Wait(c, FrameSleep).left <= -LatchGap THEN w ELSE c.shows,
     left  |-> PixelTime * Min({n, Queued})]
=============================================================================
