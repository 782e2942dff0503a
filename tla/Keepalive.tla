------------------------------ MODULE Keepalive ------------------------------
(***************************************************************************)
(* The clock of panel_node.py's reader loop: pings, the liveness timeout   *)
(* and the request for a hello, against a panel that may be slow to answer *)
(* and may miss a ping, or the request.                                    *)
(*                                                                         *)
(* Time goes by in ticks.  `quiet', `sincePing' and `age' are the          *)
(* differences the code computes, now - last_rx, now - last_ping and       *)
(* now - t_conn.  What lines say, and what is replayed after a hello, is   *)
(* PanelDriver's subject.                                                  *)
(***************************************************************************)
EXTENDS Integers

CONSTANTS
    Poll,              \* recv's timeout
    KeepalivePeriod, LivenessTimeout, ReconnectPeriod,
    Grace,             \* how long the hello is waited for before it is asked for
    MaxDelay,          \* the panel answers within this, if it answers
    MaxLost,           \* pings in a row that may get lost on a living link
    EdgeDelay,         \* within this the panel sees that it is connected
    Never              \* no such moment

ASSUME KeepaliveAssumption ==
    /\ Poll \in Nat \ {0} /\ KeepalivePeriod \in Nat \ {0}
    /\ LivenessTimeout \in Nat \ {0} /\ ReconnectPeriod \in Nat
    /\ Grace \in Nat /\ MaxDelay \in Nat /\ MaxLost \in Nat /\ EdgeDelay \in Nat
    /\ Never \notin Int

\* What the periods have to leave room for.  The defaults do, for one lost ping
\* and an answer in 0.75 s; the code warns only below two keepalive periods.
ASSUME Patience ==
    LivenessTimeout > (MaxLost + 1) * (KeepalivePeriod + Poll) + MaxDelay
ASSUME EdgeIsQuick == EdgeDelay < Grace

VARIABLES
    link,          \* "none", "up", "dead"
    rest,          \* until the next attempt to connect
    quiet,         \* since anything was received, or the connection made
    sincePing,     \* since the last ping
    age,           \* since the connection was made
    pass,          \* since the loop last looked at the clock
    hello_seen, hello_requested,
    due,           \* until the answer to a ping arrives, or Never
    helloDue,      \* until the hello on its way arrives, or Never
    edge,          \* until the panel sees this connection, or Never
    lost,          \* pings lost since anything was received
    sees,          \* history: whether the panel gets to see this connection
    missed         \* history: the request for a hello was lost

clock == <<rest, quiet, sincePing, age, pass>>
answers == <<due, helloDue, edge, lost>>
asking == <<sees, missed>>
vars == <<link, clock, hello_seen, hello_requested, answers, asking>>

\* The clock is not followed beyond these: nothing depends on it any more.
Long == LivenessTimeout + Poll
Old == Grace + Poll + MaxDelay + 1
Later(t, limit) == IF t < limit THEN t + 1 ELSE limit
Sooner(t) == IF t = Never THEN Never ELSE t - 1

Init ==
    /\ link = "none" /\ rest = 0
    /\ quiet = 0 /\ sincePing = Long /\ age = 0 /\ pass = 0
    /\ hello_seen = FALSE /\ hello_requested = FALSE
    /\ due = Never /\ helloDue = Never /\ edge = Never /\ lost = 0
    /\ sees = FALSE /\ missed = FALSE

-----------------------------------------------------------------------------
(* The reader loop *)

\* create_connection: last_rx = t_conn, last_ping = 0.0.  The panel has the
\* connection's edge to see, unless its CH9120 never shows it.
\* Bug: last_rx and hello_requested survive the connection they belong to.
ConnectStale ==
    /\ link = "none" /\ rest = 0 /\ link' = "up"
    /\ sincePing' = Long /\ age' = 0 /\ pass' = 0 /\ hello_seen' = FALSE
    /\ due' = Never /\ helloDue' = Never /\ lost' = 0
    /\ sees' \in BOOLEAN /\ edge' = (IF sees' THEN EdgeDelay ELSE Never)
    /\ missed' = FALSE
    /\ UNCHANGED <<rest, quiet, hello_requested>>
Connect ==
    /\ link = "none" /\ rest = 0 /\ link' = "up"
    /\ quiet' = 0 /\ sincePing' = Long /\ age' = 0 /\ pass' = 0
    /\ hello_seen' = FALSE /\ hello_requested' = FALSE
    /\ due' = Never /\ helloDue' = Never /\ lost' = 0
    /\ sees' \in BOOLEAN /\ edge' = (IF sees' THEN EdgeDelay ELSE Never)
    /\ missed' = FALSE
    /\ UNCHANGED rest

\* Bug: the request for a hello does not wait.
AskAtOnce(seen) == ~seen /\ ~hello_requested
MustAsk(seen) == ~seen /\ ~hello_requested /\ age >= Grace

\* The panel answers a request that reaches it as a line of its own.  It may not:
\* a ping can be lost, and so can this, or what an earlier connection left of a
\* line swallows it (PanelLoop).  It is not sent again.
Asked(seen) ==
    IF ~MustAsk(seen) THEN UNCHANGED <<hello_requested, helloDue, missed>>
    ELSE /\ hello_requested' = TRUE
         /\ \/ /\ link = "up" /\ UNCHANGED missed
               /\ helloDue' = IF helloDue = Never THEN MaxDelay ELSE helloDue
            \/ missed' = TRUE /\ UNCHANGED helloDue

\* Bug: what is sent counts as well.
QuietSincePing == IF sincePing < quiet THEN sincePing ELSE quiet
Silence == quiet

\* Bug: the ping is repeated only once the liveness timeout is near.
PingOnce == quiet >= KeepalivePeriod /\ sincePing >= LivenessTimeout
MustPing == quiet >= KeepalivePeriod /\ sincePing >= KeepalivePeriod

\* A ping on a living link is answered or, now and then, lost; where the link is
\* dead sendall succeeds all the same.
Pinged ==
    IF ~MustPing THEN UNCHANGED <<sincePing, due, lost>>
    ELSE /\ sincePing' = 0
         /\ \/ /\ link = "up" /\ due' = (IF due = Never THEN MaxDelay ELSE due)
               /\ UNCHANGED lost
            \/ /\ link = "up" /\ lost < MaxLost /\ lost' = lost + 1
               /\ UNCHANGED due
            \/ link = "dead" /\ UNCHANGED <<due, lost>>

\* recv has timed out and the link is not given up.
LookAtClock ==
    /\ link # "none" /\ pass = Poll /\ Silence < LivenessTimeout
    /\ pass' = 0
    /\ Pinged /\ Asked(hello_seen)
    /\ UNCHANGED <<link, rest, quiet, age, hello_seen, edge, sees>>

\* recv has timed out and the link is given up.
GiveUp ==
    /\ link # "none" /\ pass = Poll /\ Silence >= LivenessTimeout
    /\ link' = "none" /\ rest' = ReconnectPeriod
    /\ due' = Never /\ helloDue' = Never /\ edge' = Never
    /\ UNCHANGED <<quiet, sincePing, age, pass, hello_seen, hello_requested, lost, asking>>

\* recv fails, or the panel's side has closed: the same, at once.
Closed ==
    /\ link = "dead" /\ link' = "none" /\ rest' = ReconnectPeriod
    /\ UNCHANGED <<quiet, sincePing, age, pass, hello_seen, hello_requested,
                   answers, asking>>

\* Data: an answer, or an event at any moment.
Receive ==
    /\ link = "up"
    /\ quiet' = 0 /\ pass' = 0 /\ due' = Never /\ lost' = 0
    /\ Asked(hello_seen)
    /\ UNCHANGED <<link, rest, sincePing, age, hello_seen, edge, sees>>

ReceiveHello ==
    /\ link = "up" /\ helloDue # Never
    /\ quiet' = 0 /\ pass' = 0 /\ due' = Never /\ lost' = 0
    /\ hello_seen' = TRUE /\ helloDue' = Never
    /\ UNCHANGED <<link, rest, sincePing, age, hello_requested, edge, asking>>

-----------------------------------------------------------------------------
(* The panel, the link, and time *)

\* The panel sees the edge, empties its receive buffers and sends a hello.
SeeEdge ==
    /\ link = "up" /\ edge # Never /\ edge' = Never
    /\ helloDue' = IF helloDue = Never THEN MaxDelay ELSE helloDue
    /\ UNCHANGED <<link, clock, hello_seen, hello_requested, due, lost, asking>>

\* Displaced by another client, or cut: nothing arrives any more.
Break ==
    /\ link = "up" /\ link' = "dead"
    /\ due' = Never /\ helloDue' = Never /\ edge' = Never
    /\ UNCHANGED <<clock, hello_seen, hello_requested, lost, asking>>

\* recv waits no longer than Poll, and answers and edges come in time.
Tick ==
    /\ link # "none" /\ pass < Poll
    /\ due # 0 /\ helloDue # 0 /\ edge # 0
    /\ quiet' = quiet + 1 /\ pass' = pass + 1
    /\ sincePing' = Later(sincePing, Long) /\ age' = Later(age, Old)
    /\ due' = Sooner(due) /\ helloDue' = Sooner(helloDue) /\ edge' = Sooner(edge)
    /\ UNCHANGED <<link, rest, hello_seen, hello_requested, lost, asking>>

\* time.sleep(self.reconnect_period)
Sleep ==
    /\ link = "none" /\ rest > 0 /\ rest' = rest - 1
    /\ UNCHANGED <<link, quiet, sincePing, age, pass, hello_seen,
                   hello_requested, answers, asking>>

Reader == Connect \/ LookAtClock \/ GiveUp
Next ==
    \/ Reader \/ Closed \/ Receive \/ ReceiveHello
    \/ SeeEdge \/ Break \/ Tick \/ Sleep

Spec == Init /\ [][Next]_vars
\* The thread runs, time passes, and an attempt to connect succeeds in the end.
FairSpec == Spec /\ WF_vars(Reader) /\ WF_vars(Tick) /\ WF_vars(Sleep)
-----------------------------------------------------------------------------
Countdown(limit) == 0..limit \cup {Never}

TypeOK ==
    /\ link \in {"none", "up", "dead"} /\ rest \in 0..ReconnectPeriod
    /\ quiet \in 0..Long /\ sincePing \in 0..Long /\ age \in 0..Old
    /\ pass \in 0..Poll
    /\ hello_seen \in BOOLEAN /\ hello_requested \in BOOLEAN
    /\ due \in Countdown(MaxDelay) /\ helloDue \in Countdown(MaxDelay)
    /\ edge \in Countdown(EdgeDelay) /\ lost \in 0..MaxLost
    /\ sees \in BOOLEAN /\ missed \in BOOLEAN

\* A panel that lives is never disconnected for being slow, or for missing
\* MaxLost pings in a row: only a dead link is given up (panel_node.py:174).
LivingKept == [][link = "up" => link' # "none"]_vars

\* A link over which nothing comes any more is given up LivenessTimeout after the
\* last thing received, give or take one recv, whatever is sent into it meanwhile
\* (panel_node.py:29-36).
NoticedInTime == link # "none" => quiet - pass < LivenessTimeout

\* A request for a hello never runs into the flush of the connection's edge,
\* which would cut it (panel_node.py:24-27).
RequestNotFlushed == link = "up" /\ hello_requested => edge = Never

\* A panel that sees the connection greets by itself, one that does not is asked,
\* and the replay of the desired state starts soon after the connection
\* (panel_node.py:21-24).  Only where the panel has to be asked and the one request
\* was lost does it not start: nothing asks again (panel_node.py:185).
GreetedInTime ==
    link = "up" /\ ~hello_seen =>
        age <= Grace + Poll + MaxDelay \/ (~sees /\ missed)

\* All PanelDriver assumes of the link: it is dropped if and only if it died, and
\* then replaced.
Watch == INSTANCE LinkWatch
ImplementsLinkWatch == Watch!FairSpec
=============================================================================
