----------------------------- MODULE PanelLoop -----------------------------
(***************************************************************************)
(* main.c's loop with protocol.c and rings.c: one pass polls the TCPS pin, *)
(* samples the buttons, reads and dispatches commands and refreshes the    *)
(* LED rings, while a host connects, sends lines and disconnects.          *)
(*                                                                         *)
(* A line is a sequence of pieces: the verb, the fields, and anything      *)
(* else.  The parser looks for each key by itself, so pieces of two lines  *)
(* that run together still parse; lengths are counted in pieces.           *)
(***************************************************************************)
EXTENDS Integers, Sequences, FiniteSets

CONSTANTS
    Button,       \* the buttons
    RING_COUNT,   \* LED rings
    Renderable,   \* rings whose LED count fits RING_MAX_LEDS
    Lines,        \* bound: lines a host sends, without their newline
    LineMax,      \* pieces linebuf holds
    RxMax,        \* pieces rxbuf holds
    AirMax,       \* pieces the wire, the CH9120 and the UART's FIFO hold
    TcpsWorks,    \* whether this CH9120 drives its TCPS pin
    Unknown,      \* a host that has not been told the button states
    MaxConns,     \* bound: connections in one behaviour
    MaxLines      \* bound: lines on one connection

Ring == 1..RING_COUNT
Field == {"r", "g", "b", "brightness"}

Verb(c) == [k |-> "cmd", name |-> c]
Value(key, v) == [k |-> key, val |-> v]
Newline == [k |-> "nl"]
Piece == {Newline, Verb("hello")} \cup UNION {{l[i] : i \in DOMAIN l} : l \in Lines}

ASSUME PanelAssumption ==
    /\ RING_COUNT \in Nat /\ Renderable \subseteq Ring
    /\ Lines \subseteq Seq(Piece)
    /\ LineMax \in Nat \ {0} /\ RxMax \in Nat \ {0} /\ AirMax \in Nat \ {0}
    /\ TcpsWorks \in BOOLEAN
    /\ MaxConns \in Nat /\ MaxLines \in Nat
    /\ Unknown \notin [Button -> BOOLEAN]

\* A line has something in it: the panel passes over an empty one in silence.
ASSUME LinesAssumption ==
    \A l \in Lines : l # <<>> /\ \A i \in 1..Len(l) : l[i] # Newline

VARIABLES
    pc,                        \* where the pass is
    peer_was_connected, linebuf, discard, rxbuf,   \* locals of main
    stable,                    \* buttons_pressed
    st, dirty, leds,           \* s_rings, and what the LED chains show
    lamp, debounce_ms,
    air,                       \* pieces on the wire, in the CH9120 or in the
                               \* UART's FIFO
    rx,                        \* the ring: pieces net_read has not returned
    host,                      \* "down", "fresh", "asked" or "ready"
    todo,                      \* pieces of its line the host has still to send
    conns, lines,              \* connections so far, lines on this one
    view,                      \* the button states the host goes by
    polled,                    \* the panel polled TCPS on this connection
    clean,                     \* history: it saw the connect edge, before any
                               \* hello had reached the host and with nothing
                               \* of an earlier connection in air
    owed, mixed                \* history: answers due to the host; whether it
                               \* got another one instead

loopvars == <<peer_was_connected, linebuf, discard, rxbuf>>
ringvars == <<st, dirty, leds>>
settings == <<lamp, debounce_ms>>
hostvars == <<host, todo, conns, lines>>
history == <<polled, clean, owed, mixed>>
streamvars == <<air, rx>>
vars == <<pc, loopvars, stable, ringvars, settings, streamvars, hostvars, view,
          history>>

-----------------------------------------------------------------------------
(* protocol.c: which command a line is, and its answer *)

Places(line, key) == {i \in 1..Len(line) : line[i].k = key}
First(S) == CHOOSE i \in S : \A j \in S : i <= j

\* find_key finds the first occurrence; an absent field is -1.
Get(line, key) ==
    IF Places(line, key) = {} THEN -1 ELSE line[First(Places(line, key))].val
HasCmd(line) == Places(line, "cmd") # {}
Cmd(line) == line[First(Places(line, "cmd"))].name

\* rings_set's check: all fields are in range, or nothing changes.
RingCmdOk(line) ==
    /\ Get(line, "id") \in Ring
    /\ \A f \in Field : Get(line, f) \in -1..255
NextRing(line) ==
    [f \in Field |-> IF Get(line, f) = -1 THEN st[Get(line, "id")][f]
                                          ELSE Get(line, f)]

Answer(line) ==
    CASE ~HasCmd(line) -> "no cmd"
      [] HasCmd(line) /\ Cmd(line) = "ring" ->
            IF RingCmdOk(line) THEN "ring" ELSE "bad ring cmd"
      [] HasCmd(line) /\ Cmd(line) = "lamp" ->
            IF Get(line, "on") \in {0, 1} THEN "lamp" ELSE "bad lamp cmd"
      [] HasCmd(line) /\ Cmd(line) = "config" ->
            IF Get(line, "debounce_ms") \in 1..1000 THEN "config"
            ELSE "bad debounce_ms"
      [] HasCmd(line) /\ Cmd(line) \in {"ping", "hello", "ota"} -> Cmd(line)
      [] OTHER -> "unknown cmd"

\* What a host that sends this line is told to expect.
Expected(line) == IF Len(line) > LineMax THEN "line too long" ELSE Answer(line)

-----------------------------------------------------------------------------
(* Start-up *)

Off == [f \in Field |-> IF f = "brightness" THEN 255 ELSE 0]
AllOff == [i \in Ring |-> Off]
NotRendered == [i \in Ring |-> i \notin Renderable]
FirstFrames == [i \in Ring |-> IF i \in Renderable THEN Off ELSE Unknown]

\* main up to its loop.  The buttons are seeded with any level; rings_init's
\* frame is flushed before the network comes up.
Init ==
    /\ pc = "top"
    /\ peer_was_connected = FALSE /\ linebuf = <<>> /\ discard = FALSE
    /\ rxbuf = <<>>
    /\ stable \in [Button -> BOOLEAN]
    /\ st = AllOff /\ dirty = NotRendered /\ leds = FirstFrames
    /\ lamp = 0 /\ debounce_ms = 30
    /\ air = <<>> /\ rx = <<>>
    /\ host = "down" /\ todo = <<>> /\ conns = 0 /\ lines = 0
    /\ view = Unknown
    /\ polled = FALSE /\ clean = FALSE /\ owed = <<>> /\ mixed = FALSE

\* Power fails, or recovery restarts the app: net_init resets the CH9120, which
\* drops the connection and the bytes it held.
Restart ==
    /\ pc' = "top"
    /\ peer_was_connected' = FALSE /\ linebuf' = <<>> /\ discard' = FALSE
    /\ rxbuf' = <<>>
    /\ stable' \in [Button -> BOOLEAN]
    /\ st' = AllOff /\ dirty' = NotRendered /\ leds' = FirstFrames
    /\ lamp' = 0 /\ debounce_ms' = 30
    /\ air' = <<>> /\ rx' = <<>>
    /\ host' = "down" /\ todo' = <<>> /\ lines' = 0 /\ UNCHANGED conns
    /\ view' = Unknown
    /\ polled' = FALSE /\ clean' = FALSE /\ owed' = <<>> /\ mixed' = FALSE

-----------------------------------------------------------------------------
(* Writing to the host *)

Connected == host # "down"

\* An answer to a host that waits for none, or for another one, is mixed up.
\* A host that has not yet been greeted ignores what it gets.
Reply(a) ==
    IF host \in {"asked", "ready"}
    THEN /\ owed' = IF owed # <<>> /\ Head(owed) = a THEN Tail(owed) ELSE owed
         /\ mixed' = (mixed \/ owed = <<>> \/ Head(owed) # a)
    ELSE UNCHANGED <<owed, mixed>>

\* A hello line tells a connected host the button states.
Greet ==
    /\ host' = IF Connected THEN "ready" ELSE host
    /\ view' = IF Connected THEN stable ELSE view

-----------------------------------------------------------------------------
(* The pass *)

DropHalfLine == linebuf' = <<>> /\ discard' = FALSE

\* Bug: what an earlier host's lines left in the ring is kept.
FlushNothing == UNCHANGED rx
\* net_rx_flush drops what the interrupt has put into the ring, and no more.
Flush == rx' = <<>>

\* Poll TCPS; on a connect edge flush, send hello and start a clean line.
Poll ==
    /\ pc = "top" /\ pc' = "buttons"
    /\ LET peer == Connected /\ TcpsWorks IN
       /\ peer_was_connected' = peer
       /\ polled' = (polled \/ Connected)
       /\ IF peer /\ ~peer_was_connected
          THEN /\ Flush /\ Greet /\ DropHalfLine
               /\ clean' = (host = "fresh" /\ air = <<>>)
          ELSE UNCHANGED <<rx, host, view, linebuf, discard, clean>>
    /\ UNCHANGED <<rxbuf, stable, ringvars, settings, air, todo, conns, lines,
                   owed, mixed>>

\* Bug: an event reaches the wire only when no half-line is waiting.
TellBetweenLines(S) ==
    view' = IF view = Unknown \/ linebuf # <<>> THEN view
            ELSE [i \in Button |-> (view[i] # (i \in S))]
Tell(S) ==
    view' = IF view = Unknown THEN view
            ELSE [i \in Button |-> (view[i] # (i \in S))]

\* buttons_update, as ButtonStream promises it, and one event line per flip.
Buttons ==
    /\ pc = "buttons" /\ pc' = "read"
    /\ \E S \in SUBSET Button :
         /\ stable' = [i \in Button |-> (stable[i] # (i \in S))]
         /\ Tell(S)
    /\ UNCHANGED <<loopvars, ringvars, settings, streamvars, hostvars, history>>

\* Bug: linebuf does not survive the pass (main.c:225 declares it outside the loop).
ReadAfresh ==
    /\ pc = "read" /\ pc' = "line" /\ linebuf' = <<>>
    /\ LET n == IF Len(rx) < RxMax THEN Len(rx) ELSE RxMax IN
       /\ rxbuf' = SubSeq(rx, 1, n)
       /\ rx' = SubSeq(rx, n + 1, Len(rx))
    /\ UNCHANGED <<peer_was_connected, discard, stable, ringvars, settings, air,
                   hostvars, view, history>>
\* net_read
Read ==
    /\ pc = "read" /\ pc' = "line"
    /\ LET n == IF Len(rx) < RxMax THEN Len(rx) ELSE RxMax IN
       /\ rxbuf' = SubSeq(rx, 1, n)
       /\ rx' = SubSeq(rx, n + 1, Len(rx))
    /\ UNCHANGED <<peer_was_connected, linebuf, discard, stable, ringvars,
                   settings, air, hostvars, view, history>>

\* dispatch
DispatchRing(line) ==
    /\ HasCmd(line) /\ Cmd(line) = "ring" /\ RingCmdOk(line)
    /\ LET i == Get(line, "id") IN
       /\ st' = [st EXCEPT ![i] = NextRing(line)]
       /\ dirty' = [dirty EXCEPT ![i] = @ \/ NextRing(line) # st[i]]
    /\ Reply("ring")
    /\ UNCHANGED <<pc, leds, settings, host, view>>

DispatchLamp(line) ==
    /\ HasCmd(line) /\ Answer(line) = "lamp"
    /\ lamp' = Get(line, "on") /\ Reply("lamp")
    /\ UNCHANGED <<pc, ringvars, debounce_ms, host, view>>

DispatchConfig(line) ==
    /\ HasCmd(line) /\ Answer(line) = "config"
    /\ debounce_ms' = Get(line, "debounce_ms") /\ Reply("config")
    /\ UNCHANGED <<pc, ringvars, lamp, host, view>>

DispatchHello(line) ==
    /\ HasCmd(line) /\ Answer(line) = "hello"
    /\ Greet /\ Reply("hello")
    /\ UNCHANGED <<pc, ringvars, settings>>

\* ota_request_update: the loop is left for the bootloader.
DispatchOta(line) ==
    /\ HasCmd(line) /\ Answer(line) = "ota"
    /\ Reply("ota") /\ pc' = "rebooting"
    /\ UNCHANGED <<ringvars, settings, host, view>>

DispatchPing(line) ==
    /\ HasCmd(line) /\ Answer(line) = "ping"
    /\ Reply("ping")
    /\ UNCHANGED <<pc, ringvars, settings, host, view>>

Refuse(line) ==
    /\ Answer(line) \in {"no cmd", "bad ring cmd", "bad lamp cmd",
                         "bad debounce_ms", "unknown cmd"}
    /\ Reply(Answer(line))
    /\ UNCHANGED <<pc, ringvars, settings, host, view>>

Dispatch(line) ==
    \/ DispatchRing(line) \/ DispatchLamp(line) \/ DispatchConfig(line)
    \/ DispatchHello(line) \/ DispatchOta(line) \/ DispatchPing(line)
    \/ Refuse(line)

Quiet == UNCHANGED <<pc, ringvars, settings, host, view, owed, mixed>>

EndOfLine ==
    /\ Head(rxbuf) = Newline
    /\ linebuf' = <<>> /\ discard' = FALSE
    /\ IF discard \/ linebuf = <<>> THEN Quiet ELSE Dispatch(linebuf)

Skip ==
    /\ Head(rxbuf) # Newline /\ discard
    /\ Quiet /\ UNCHANGED <<linebuf, discard>>

Keep ==
    /\ Head(rxbuf) # Newline /\ ~discard /\ Len(linebuf) < LineMax
    /\ linebuf' = Append(linebuf, Head(rxbuf))
    /\ Quiet /\ UNCHANGED discard

\* Bug: the rest of an overlong line is taken for a line.
OverflowForgets ==
    /\ Head(rxbuf) # Newline /\ ~discard /\ Len(linebuf) = LineMax
    /\ linebuf' = <<>> /\ discard' = FALSE
    /\ Reply("line too long")
    /\ UNCHANGED <<pc, ringvars, settings, host, view>>
Overflow ==
    /\ Head(rxbuf) # Newline /\ ~discard /\ Len(linebuf) = LineMax
    /\ linebuf' = <<>> /\ discard' = TRUE
    /\ Reply("line too long")
    /\ UNCHANGED <<pc, ringvars, settings, host, view>>

\* One turn of the loop over rxbuf.
Take ==
    /\ pc = "line" /\ rxbuf # <<>>
    /\ rxbuf' = Tail(rxbuf)
    /\ EndOfLine \/ Skip \/ Keep \/ Overflow
    /\ UNCHANGED <<peer_was_connected, stable, streamvars, todo, conns, lines,
                   polled, clean>>

\* Bug: a frame that could not be rendered is given up.
FlushedAll == dirty' = [i \in Ring |-> FALSE]
Flushed == dirty' = [i \in Ring |-> dirty[i] /\ i \notin Renderable]

\* rings_flush, and the pass is over.
Refresh ==
    /\ pc = "line" /\ rxbuf = <<>> /\ pc' = "top"
    /\ leds' = [i \in Ring |-> IF dirty[i] /\ i \in Renderable THEN st[i] ELSE leds[i]]
    /\ Flushed
    /\ UNCHANGED <<loopvars, stable, st, settings, streamvars, hostvars, view,
                   history>>

Pass == Poll \/ Buttons \/ Read \/ Take \/ Refresh

\* A piece has come over the wire and the interrupt puts it into the ring, at
\* any moment of the pass.  (RxRing is about a ring that is full.)
Arrive ==
    /\ air # <<>>
    /\ air' = Tail(air) /\ rx' = Append(rx, Head(air))
    /\ UNCHANGED <<pc, loopvars, stable, ringvars, settings, hostvars, view,
                   history>>

-----------------------------------------------------------------------------
(* The host, as protocol.h tells it to behave: it sends nothing before a    *)
(* hello but, when none comes, a request for it.                            *)

Connect ==
    /\ ~Connected /\ pc # "rebooting" /\ conns < MaxConns
    /\ conns' = conns + 1 /\ host' = "fresh"
    /\ UNCHANGED <<pc, loopvars, stable, ringvars, settings, streamvars, todo,
                   lines, view, history>>

\* At any time, in the middle of a line too.  What it sent may still arrive.
Disconnect ==
    /\ Connected
    /\ host' = "down" /\ todo' = <<>> /\ view' = Unknown
    /\ lines' = 0 /\ owed' = <<>> /\ mixed' = FALSE
    /\ polled' = FALSE /\ clean' = FALSE
    /\ UNCHANGED <<pc, loopvars, stable, ringvars, settings, streamvars, conns>>

Ask ==
    /\ host = "fresh" /\ polled
    /\ host' = "asked" /\ todo' = <<Verb("hello"), Newline>>
    /\ owed' = <<"hello">>
    /\ UNCHANGED <<pc, loopvars, stable, ringvars, settings, streamvars, conns,
                   lines, view, polled, clean, mixed>>

BeginLine(l) ==
    /\ host = "ready" /\ todo = <<>> /\ lines < MaxLines
    /\ lines' = lines + 1
    /\ todo' = Append(l, Newline)
    /\ owed' = Append(owed, Expected(l))
    /\ UNCHANGED <<pc, loopvars, stable, ringvars, settings, streamvars, host,
                   conns, view, polled, clean, mixed>>

SendPiece ==
    /\ todo # <<>> /\ Len(air) < AirMax
    /\ todo' = Tail(todo)
    /\ air' = Append(air, Head(todo))
    /\ UNCHANGED <<pc, loopvars, stable, ringvars, settings, rx, host, conns,
                   lines, view, history>>

Host == Connect \/ Disconnect \/ Ask \/ SendPiece \/ \E l \in Lines : BeginLine(l)

Next == Pass \/ Arrive \/ Host \/ Restart

Spec == Init /\ [][Next]_vars
\* The super-loop never stops, the watchdog reboot comes, and what the host has
\* begun to send arrives.
FairSpec == /\ Spec
            /\ WF_vars(Pass) /\ WF_vars(Arrive) /\ WF_vars(SendPiece)
            /\ WF_vars(pc = "rebooting" /\ Restart)
-----------------------------------------------------------------------------
TypeOK ==
    /\ pc \in {"top", "buttons", "read", "line", "rebooting"}
    /\ peer_was_connected \in BOOLEAN /\ discard \in BOOLEAN
    /\ Len(linebuf) <= LineMax /\ Len(rxbuf) <= RxMax
    /\ stable \in [Button -> BOOLEAN]
    /\ st \in [Ring -> [Field -> 0..255]]
    /\ dirty \in [Ring -> BOOLEAN]
    /\ leds \in [Ring -> [Field -> 0..255] \cup {Unknown}]
    /\ lamp \in {0, 1} /\ debounce_ms \in 1..1000
    /\ host \in {"down", "fresh", "asked", "ready"}
    /\ conns \in 0..MaxConns /\ lines \in 0..MaxLines
    /\ view \in [Button -> BOOLEAN] \cup {Unknown}
    /\ polled \in BOOLEAN /\ clean \in BOOLEAN /\ mixed \in BOOLEAN

\* A host whose connect edge was seen gets exactly the answers to its own lines,
\* in their order, whatever earlier hosts left half sent, once all that these
\* sent has reached the ring: the flush and the line reset at the edge
\* (main.c:237-240) and the discarding of overlong lines.  (What is on the wire,
\* in the CH9120 or in the UART's FIFO at the edge survives the flush of the ring
\* at net.c:291, and starts the new host's first line; and a host that the answer
\* to an earlier host's hello has greeted before the edge, and that has begun a
\* line by then, loses it to that flush.  clean leaves out both.)
AnswersMatch == clean => ~mixed

\* A request for a hello is never swallowed by the half-line of an earlier
\* connection, which main.c:239 says is dropped: the line it is put into asks for
\* a hello.
HalfLinesDropped ==
    (\E i \in DOMAIN linebuf : linebuf[i] = Verb("hello")) => Cmd(linebuf) = "hello"

\* Once told, a host's idea of the buttons is the panel's: the hello and the
\* events that follow it leave no gap and no overlap.
ViewMatches == view # Unknown => view = stable

\* The rings show the commanded colours unless a refresh is pending, and a
\* refresh that cannot be rendered stays pending.
LedsMatch == \A i \in Ring : ~dirty[i] => leds[i] = st[i]

\* A host whose connect edge was seen, with nothing of an earlier connection
\* still to arrive, gets every answer it is due, unless it leaves or the panel
\* restarts.
AllAnswered ==
    \A n \in 1..MaxLines : clean /\ Len(owed) = n ~> Len(owed) < n \/ ~clean
=============================================================================
