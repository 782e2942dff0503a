---------------------------- MODULE PanelDriver ----------------------------
(***************************************************************************)
(* panel_node.py: the ROS 2 driver's reader thread and the callbacks of    *)
(* its executor, against a panel that behaves as PanelLoop has it.         *)
(*                                                                         *)
(* The link is silently half-open for a while when it breaks; the reader   *)
(* finds out from the silence.  A line that it cuts in the middle waits in *)
(* the panel's linebuf and swallows the next one, unless a connect edge    *)
(* clears the buffer first.                                                *)
(***************************************************************************)
EXTENDS Integers, Sequences

CONSTANTS
    TARGETS,     \* the rings in RING_IDS, then the lamp
    Value,       \* what they can be commanded to show
    None,        \* no command yet; what the panel shows at power-up
    Overlap,     \* whether a callback may replace the command that the reader
                 \* has read from the cache and not yet sent
    MaxCmds,     \* bound: messages on the subscribed topics
    MaxFaults,   \* bound: broken links and restarts of the panel
    MaxFlips     \* bound: flips of the button

Target == 1..TARGETS

Command(t, v) == [k |-> "cmd", t |-> t, v |-> v]
HelloRequest == [k |-> "hello"]
Hello(p) == [k |-> "hello", pressed |-> p]
Event(p) == [k |-> "btn", pressed |-> p]

\* What the driver sends, and the beginning of a line whose end never came.
Line == {HelloRequest} \cup [k : {"cmd"}, t : Target, v : Value]
HalfLine == [k |-> "half"]

ASSUME DriverAssumption ==
    /\ TARGETS \in Nat \ {0} /\ None \notin Value
    /\ \A t \in Target, v \in Value : Command(t, v) # None
    /\ Overlap \in BOOLEAN
    /\ MaxCmds \in Nat /\ MaxFaults \in Nat /\ MaxFlips \in Nat

VARIABLES
    cache,                        \* _ring_cmds and _lamp_cmd
    sock,                         \* whether _sock is set
    reader, ix, held,             \* the reader: where, target, command read
    hello_seen, hello_requested,
    line,                         \* the callback's command, cached and not sent
    published,                    \* the latest Bool on ~/button1/pressed
    link,                         \* "none", "up" or "dead"
    rx, tx,                       \* lines on their way to and from the panel
    tcps,                         \* whether this panel's CH9120 drives TCPS
    edge,                         \* the panel has still to see this connection
    shown, pressed,               \* the panel's rings and lamp, its button
    cut,                          \* history: a link broke within a line, which
                                  \* has reached the panel since it started
    cmds, faults, flips

cached == <<cache, line, cmds>>
reading == <<reader, ix, held, hello_seen, hello_requested, published>>
panel == <<tcps, edge, shown, pressed, flips>>
vars == <<cached, sock, reading, link, rx, tx, panel, cut, faults>>

Dark == [t \in Target |-> None]

Init ==
    /\ cache = Dark /\ line = None /\ cmds = 0
    /\ sock = FALSE
    /\ reader = "connect" /\ ix = 1 /\ held = None
    /\ hello_seen = FALSE /\ hello_requested = FALSE
    /\ published = None
    /\ link = "none" /\ rx = <<>> /\ tx = <<>>
    /\ tcps \in BOOLEAN /\ edge = FALSE
    /\ shown = Dark /\ pressed \in BOOLEAN
    /\ cut = FALSE /\ faults = 0 /\ flips = 0

-----------------------------------------------------------------------------
(* The driver *)

\* _send, under _sock_lock: lines never mix.  Without a connection the cache
\* must do; a half-open link takes the line to nowhere.
Send(l) == rx' = IF sock /\ link = "up" THEN Append(rx, l) ELSE rx

\* create_connection succeeds and the reader publishes the handle.  The reader
\* has slept for reconnect_period, the panel has long read what there was.
Connect ==
    /\ reader = "connect" /\ link = "none" /\ rx \in {<<>>, <<HalfLine>>}
    /\ link' = "up" /\ edge' = tcps /\ sock' = TRUE
    /\ reader' = "recv"
    /\ hello_seen' = FALSE /\ hello_requested' = FALSE
    /\ UNCHANGED <<cached, ix, held, published, rx, tx, tcps, shown, pressed,
                   flips, cut, faults>>

\* Every hello is followed by a replay.  Bug: only the first one is.
ReplayOnce == IF published = None THEN "replay" ELSE "recv"
AfterHello == "replay"

\* _handle_line
\* Bug: the button states of a hello are taken for known.
RecvHelloQuietly ==
    /\ reader = "recv" /\ tx # <<>> /\ Head(tx).k = "hello"
    /\ tx' = Tail(tx)
    /\ hello_seen' = TRUE
    /\ published' = IF published = None THEN Head(tx).pressed ELSE published
    /\ reader' = AfterHello /\ ix' = 1
    /\ UNCHANGED <<cached, sock, held, hello_requested, link, rx, panel,
                   cut, faults>>
RecvHello ==
    /\ reader = "recv" /\ tx # <<>> /\ Head(tx).k = "hello"
    /\ tx' = Tail(tx)
    /\ hello_seen' = TRUE /\ published' = Head(tx).pressed
    /\ reader' = AfterHello /\ ix' = 1
    /\ UNCHANGED <<cached, sock, held, hello_requested, link, rx, panel,
                   cut, faults>>

RecvEvent ==
    /\ reader = "recv" /\ tx # <<>> /\ Head(tx).k = "btn"
    /\ tx' = Tail(tx)
    /\ published' = Head(tx).pressed
    /\ UNCHANGED <<cached, sock, reader, ix, held, hello_seen, hello_requested,
                   link, rx, panel, cut, faults>>

\* No hello a second after the connection, long after any edge: ask once.
\* Bug: every panel is trusted to send it unasked.
NeverAsk == FALSE
MayAsk == ~hello_seen /\ ~hello_requested
Ask ==
    /\ reader = "recv" /\ MayAsk /\ ~edge
    /\ hello_requested' = TRUE /\ Send(HelloRequest)
    /\ UNCHANGED <<cached, sock, reader, ix, held, hello_seen, published, link,
                   tx, panel, cut, faults>>

\* _resync reads one cached command ...
\* Bug: also where there is none.
ReadCacheBlindly ==
    /\ reader = "replay" /\ ix \in Target
    /\ reader' = "send" /\ held' = cache[ix] /\ UNCHANGED ix
    /\ UNCHANGED <<cached, sock, hello_seen, hello_requested, published, link,
                   rx, tx, panel, cut, faults>>
ReadCache ==
    /\ reader = "replay" /\ ix \in Target
    /\ IF cache[ix] = None
       THEN ix' = ix + 1 /\ UNCHANGED <<reader, held>>
       ELSE reader' = "send" /\ held' = cache[ix] /\ UNCHANGED ix
    /\ UNCHANGED <<cached, sock, hello_seen, hello_requested, published, link,
                   rx, tx, panel, cut, faults>>

\* ... and sends it.
SendHeld ==
    /\ reader = "send"
    /\ Send(Command(ix, held))
    /\ reader' = "replay" /\ ix' = ix + 1 /\ held' = None
    /\ UNCHANGED <<cached, sock, hello_seen, hello_requested, published, link,
                   tx, panel, cut, faults>>

EndReplay ==
    /\ reader = "replay" /\ ix > TARGETS
    /\ reader' = "recv"
    /\ UNCHANGED <<cached, sock, ix, held, hello_seen, hello_requested,
                   published, link, rx, tx, panel, cut, faults>>

\* recv fails, or the silence outlasts liveness_timeout; after reconnect_period
\* the loop connects again.
Lost ==
    /\ reader = "recv" /\ link = "dead"
    /\ link' = "none" /\ sock' = FALSE /\ reader' = "connect"
    /\ UNCHANGED <<cached, ix, held, hello_seen, hello_requested, published, rx,
                   tx, panel, cut, faults>>

\* _on_ring, _on_lamp: first the cache ...
OnCommand(t, v) ==
    /\ line = None /\ cmds < MaxCmds
    /\ reader = "send" /\ ix = t => Overlap
    /\ cache' = [cache EXCEPT ![t] = v]
    /\ line' = Command(t, v) /\ cmds' = cmds + 1
    /\ UNCHANGED <<sock, reading, link, rx, tx, panel, cut, faults>>

\* ... then the wire.
SendCommand ==
    /\ line # None
    /\ Send(line) /\ line' = None
    /\ UNCHANGED <<cache, cmds, sock, reading, link, tx, panel, cut, faults>>

Reader == \/ Connect \/ RecvHello \/ RecvEvent \/ Ask
          \/ ReadCache \/ SendHeld \/ EndReplay \/ Lost

-----------------------------------------------------------------------------
(* The panel *)

Tell(l) == tx' = IF link = "up" THEN Append(tx, l) ELSE tx

\* What waits in linebuf for its end.
Halves == IF rx # <<>> /\ Head(rx) = HalfLine THEN 1 ELSE 0

\* The connect edge: the flush takes what has come so far, the half-line goes
\* and the hello is sent.
Greet ==
    /\ edge /\ edge' = FALSE
    /\ \E n \in 0..Len(rx) : n >= Halves /\ rx' = SubSeq(rx, n + 1, Len(rx))
    /\ Tell(Hello(pressed))
    /\ UNCHANGED <<cached, sock, reading, link, tcps, shown, pressed, flips,
                   cut, faults>>

Obey(l) ==
    IF l.k = "cmd"
    THEN shown' = [shown EXCEPT ![l.t] = l.v] /\ UNCHANGED tx
    ELSE Tell(Hello(pressed)) /\ UNCHANGED shown

Dispatch ==
    /\ rx # <<>> /\ Head(rx) # HalfLine
    /\ rx' = Tail(rx) /\ Obey(Head(rx))
    /\ UNCHANGED <<cached, sock, reading, link, tcps, edge, pressed, flips, cut,
                   faults>>

\* A half-line and the line behind it are one line to the panel: find_key takes
\* each key where it first stands, so it is obeyed as the one or the other, with
\* a mixture of their fields, or not at all.
DispatchMerged ==
    /\ Len(rx) > 1 /\ Head(rx) = HalfLine
    /\ rx' = Tail(Tail(rx))
    /\ UNCHANGED <<shown, tx>> \/ \E l \in Line : Obey(l)
    /\ UNCHANGED <<cached, sock, reading, link, tcps, edge, pressed, flips, cut,
                   faults>>

Flip ==
    /\ flips < MaxFlips /\ flips' = flips + 1
    /\ pressed' = ~pressed /\ Tell(Event(~pressed))
    /\ UNCHANGED <<cached, sock, reading, link, rx, tcps, edge, shown, cut,
                   faults>>

-----------------------------------------------------------------------------
(* Faults *)

\* The cable, another client, a failed send: what is on its way to the driver
\* is gone, what is on its way to the panel may have got there in part, the last
\* line of that perhaps without its end.
Break ==
    /\ link = "up" /\ faults < MaxFaults /\ faults' = faults + 1
    /\ link' = "dead" /\ edge' = FALSE /\ tx' = <<>>
    /\ \E n \in 0..Len(rx) :
         \/ rx' = SubSeq(rx, 1, n) /\ UNCHANGED cut
         \/ /\ n < Len(rx) /\ (n > 0 => rx[n] # HalfLine)
            /\ rx' = Append(SubSeq(rx, 1, n), HalfLine) /\ cut' = TRUE
    /\ UNCHANGED <<cached, sock, reading, tcps, shown, pressed, flips>>

Restart ==
    /\ faults < MaxFaults /\ faults' = faults + 1
    /\ link' = (IF link = "none" THEN "none" ELSE "dead")
    /\ edge' = FALSE /\ rx' = <<>> /\ tx' = <<>>
    /\ shown' = Dark /\ pressed' \in BOOLEAN /\ cut' = FALSE
    /\ UNCHANGED <<cached, sock, reading, tcps, flips>>

-----------------------------------------------------------------------------
Next ==
    \/ Reader \/ SendCommand \/ Greet \/ Dispatch \/ DispatchMerged
    \/ \E t \in Target, v \in Value : OnCommand(t, v)
    \/ Flip \/ Break \/ Restart
    \* Nothing is left to happen until somebody publishes or presses.
    \/ UNCHANGED vars

Spec == Init /\ [][Next]_vars
\* Both threads run (a lock is never held across a wait for the other) and the
\* panel's loop does.
FairSpec == /\ Spec
            /\ WF_vars(Reader) /\ WF_vars(SendCommand)
            /\ WF_vars(Greet \/ Dispatch \/ DispatchMerged)
-----------------------------------------------------------------------------
TypeOK ==
    /\ cache \in [Target -> Value \cup {None}]
    /\ shown \in [Target -> Value \cup {None}]
    /\ line \in Line \cup {None} /\ held \in Value \cup {None}
    /\ sock \in BOOLEAN /\ link \in {"none", "up", "dead"}
    /\ reader \in {"connect", "recv", "replay", "send"}
    /\ ix \in 1..TARGETS + 1
    /\ hello_seen \in BOOLEAN /\ hello_requested \in BOOLEAN
    /\ published \in BOOLEAN \cup {None} /\ pressed \in BOOLEAN
    /\ rx \in Seq(Line \cup {HalfLine})
    /\ tx \in Seq([k : {"hello", "btn"}, pressed : BOOLEAN])
    /\ tcps \in BOOLEAN /\ edge \in BOOLEAN /\ cut \in BOOLEAN
    /\ cmds \in 0..MaxCmds /\ faults \in 0..MaxFaults /\ flips \in 0..MaxFlips

\* Greeted on a live link, with everything sent and taken in.
Settled ==
    /\ link = "up" /\ ~edge /\ hello_seen /\ reader = "recv"
    /\ line = None /\ rx = <<>> /\ tx = <<>>

\* A panel that has answered the driver's latest hello and taken in what was
\* sent since shows the last command for each target, whether that was published
\* before the connection, during the greeting or after it (panel_node.py:19-21).
SettledShows ==
    Settled => \A t \in Target : cache[t] # None => shown[t] = cache[t]

\* Subscribers then hold the panel's button state, also after a restart or a
\* flip that nobody could be told (panel_node.py:10).
SettledPublishes == Settled => published = pressed

\* A board that signals no connection keeps a half-line, and the driver asks for
\* a hello once (panel_node.py:184-187): the request may be lost with it, and with
\* the hello every replay, for as long as this connection lives.
Ungreeted == ~tcps /\ cut /\ ~hello_seen

\* Every command is shown in the end, and stays, through broken links, restarts
\* and boards that never signal a connection (panel_node.py:19-21), unless the
\* latest connection stays ungreeted because an earlier one broke within a line.
Converges ==
    \A t \in Target :
        <>[](~Ungreeted /\ cache[t] # None => shown[t] = cache[t])
=============================================================================
