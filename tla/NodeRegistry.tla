---------------------------- MODULE NodeRegistry ----------------------------
(***************************************************************************)
(* What the Hub knows of one node (node_service.go, node_outages.go): its  *)
(* row in the nodes table, which its agent's registrations and heartbeats, *)
(* the offline sweeper, an operator and the node's removal all write, and  *)
(* the list of its outages.                                                *)
(*                                                                         *)
(* A registration, a heartbeat and the sweeper read the row and save all   *)
(* of it later; a row deleted meanwhile is inserted again (gorm's Save).   *)
(* With overlap they may all be under way at once, otherwise the Hub does  *)
(* one thing at a time.  No handler takes as long as the clock's unit.     *)
(***************************************************************************)
EXTENDS Integers, Sequences, FiniteSets

CONSTANTS
    Timeout,      \* a node silent for longer is offline (heartbeatTimeout)
    Grace,        \* none is judged so soon after the Hub starts (offlineGrace)
    Window,       \* how close to its last heartbeat a goodbye counts (goingAwayWindow)
    Interval,     \* an agent that reaches the Hub sends a heartbeat this often
    Requests,     \* requests of the node's agent the Hub may be handling
    Overlaps,     \* {FALSE}, {TRUE} or both
    MaxTime,      \* bound: the clock stops here
    MaxRestarts,  \* bound: how often the agent is started again
    MaxStops      \* bound: how often the Hub stops

ASSUME TimingAssumption ==
    /\ {Timeout, Grace, Window, Interval} \subseteq Nat
    /\ Interval <= Timeout /\ Interval < Grace
ASSUME BoundsAssumption == {MaxTime, MaxRestarts, MaxStops} \subseteq Nat
ASSUME OverlapsAssumption == Overlaps \subseteq BOOLEAN

Times == 0 .. MaxTime
Never == -1    \* going_away_at IS NULL, ended_at IS NULL
Incarnations == 0 .. MaxRestarts + 1

VARIABLES
    overlap,   \* whether the handlers overlap in this behaviour
    now,
    present,   \* the node's row exists
    row,       \* the row
    outages,   \* its outages, oldest first
    request,   \* request[r]: the registration or heartbeat being handled
    sweep,     \* what the sweeper is doing
    up,        \* the Hub is running ...
    started,   \* ... and since when
    stops,     \* how often it has stopped
    agent,     \* the node's agent, as far as the Hub can tell
    process,   \* which process of it this is
    contact,   \* when the Hub last heard it
    told       \* what the row was last told by each of its writers

rowVars == <<present, row, outages>>
hubVars == <<up, started, stops>>
agentVars == <<agent, process, contact>>
vars == <<overlap, now, rowVars, request, sweep, hubVars, agentVars, told>>

\* last is last_heartbeat, bye going_away_at, and began agent_started_at: which
\* process registered last, 0 before the first.
Row == [online : BOOLEAN, last : Times, maintenance : BOOLEAN,
        bye : Times \cup {Never}, began : Incarnations]

\* A node Enroll has created, offline until its agent registers.
Enrolled == [online |-> FALSE, last |-> 0, maintenance |-> FALSE, bye |-> Never, began |-> 0]

Outage == [from : Times, to : Times \cup {Never}, planned : BOOLEAN]

NoRequest == [step |-> "none", kind |-> "heartbeat", by |-> 0, row |-> Enrolled]
NotSweeping == [step |-> "none", row |-> Enrolled]

\* Every variable has its type.
TypeOK ==
    /\ overlap \in Overlaps
    /\ now \in Times
    /\ present \in BOOLEAN
    /\ row \in Row
    /\ outages \in Seq(Outage)
    /\ request \in [Requests -> [step : {"none", "close", "save"},
                                 kind : {"register", "heartbeat"},
                                 by : Incarnations, row : Row]]
    /\ sweep \in [step : {"none", "save", "open"}, row : Row]
    /\ up \in BOOLEAN
    /\ started \in Times
    /\ stops \in 0 .. MaxStops
    /\ agent \in {"stopped", "starting", "running", "away", "removed"}
    /\ process \in Incarnations
    /\ contact \in Times
    /\ told \in [maintenance : BOOLEAN, bye : Times \cup {Never}, began : Incarnations]

\* Enrolled (Enroll, Enrollment service), and never heard of so far.
Init ==
    /\ overlap \in Overlaps
    /\ now = 0
    /\ present = TRUE
    /\ row = Enrolled
    /\ outages = << >>
    /\ request = [r \in Requests |-> NoRequest]
    /\ sweep = NotSweeping
    /\ up = TRUE /\ started = 0 /\ stops = 0
    /\ agent = "stopped" /\ process = 0 /\ contact = 0
    /\ told = [maintenance |-> FALSE, bye |-> Never, began |-> 0]

Handling == {r \in Requests : request[r].step # "none"}
Idle == Handling = {} /\ sweep.step = "none"

\* The Hub may begin something.
Calm == up /\ (overlap \/ Idle)

-----------------------------------------------------------------------------
(* Outages *)

IsOpen(o) == o.to = Never

AnyOpen == \E i \in DOMAIN outages : IsOpen(outages[i])

\* Mutant: outages that have ended already are ended again.
ClosedAgain(at) ==
    [i \in DOMAIN outages |->
        [from |-> outages[i].from, to |-> at, planned |-> outages[i].planned]]

\* closeOutage
Closed(at) ==
    [i \in DOMAIN outages |->
        IF IsOpen(outages[i])
        THEN [from |-> outages[i].from, to |-> at, planned |-> outages[i].planned]
        ELSE outages[i]]

\* wentAwayOnPurpose
OnPurpose(r) == r.bye # Never /\ r.bye - r.last < Window /\ r.last - r.bye < Window

\* openOutage: unless one is open already.
Opened(r) ==
    IF AnyOpen THEN outages
    ELSE Append(outages, [from |-> r.last, to |-> Never, planned |-> OnPurpose(r)])

\* uptimePercent: an outage counts from the start of the window on ...
Counts(o, from) == IF o.from < from THEN from ELSE o.from

\* ... to its end, or up to now.
Until(o) == IF IsOpen(o) \/ o.to > now THEN now ELSE o.to

\* The lengths that are left are added up ...
Added(from) ==
    Cardinality({m \in (DOMAIN outages) \X Times :
                    Counts(outages[m[1]], from) <= m[2] /\ m[2] < Until(outages[m[1]])})

\* ... to no more than the window.
Downtime(from) == IF Added(from) > now - from THEN now - from ELSE Added(from)

-----------------------------------------------------------------------------
(* Requests of the agent: Register, Heartbeat, GoingAway *)

\* The handler has found the node by its address.  Ending an outage comes
\* before the row is saved.
Begin(r, kind) ==
    /\ request[r].step = "none"
    /\ present
    /\ request' = [request EXCEPT ![r] =
                       [step |-> IF row.online THEN "save" ELSE "close", kind |-> kind,
                        by |-> process, row |-> row]]
    /\ UNCHANGED <<overlap, now, rowVars, sweep, hubVars, agentVars, told>>

Register(r) == Calm /\ agent = "starting" /\ Begin(r, "register")

\* An agent waits for the answer to one heartbeat before it sends the next.
Heartbeat(r) ==
    /\ Calm /\ agent \in {"running", "away"}
    /\ \A q \in Handling : request[q].by # process
    /\ Begin(r, "heartbeat")

CloseOutage(r) ==
    /\ up /\ request[r].step = "close"
    /\ outages' = Closed(now)
    /\ request' = [request EXCEPT ![r] = [step |-> "save", kind |-> @.kind, by |-> @.by, row |-> @.row]]
    /\ UNCHANGED <<overlap, now, present, row, sweep, hubVars, agentVars, told>>

\* The Hub has heard this process, which now has to send a heartbeat in time.
Hear(by) ==
    IF by = process /\ agent \in {"starting", "running", "away"}
    THEN agent' = "running" /\ contact' = now /\ process' = process
    ELSE UNCHANGED agentVars

\* Mutant: a registration fills in a new row.
RegisterAnew(r) ==
    LET q == request[r] IN
    /\ up /\ q.step = "save" /\ q.kind = "register"
    /\ present' = TRUE
    /\ row' = [online |-> TRUE, last |-> now, maintenance |-> FALSE, bye |-> Never, began |-> q.by]
    /\ told' = [maintenance |-> told.maintenance, bye |-> Never, began |-> q.by]
    /\ Hear(q.by)
    /\ request' = [request EXCEPT ![r] = NoRequest]
    /\ UNCHANGED <<overlap, now, outages, sweep, hubVars>>

\* The goodbye of the process before this one is cleared.
RegisterSave(r) ==
    LET q == request[r] IN
    /\ up /\ q.step = "save" /\ q.kind = "register"
    /\ present' = TRUE
    /\ row' = [online |-> TRUE, last |-> now, maintenance |-> q.row.maintenance,
               bye |-> Never, began |-> q.by]
    /\ told' = [maintenance |-> told.maintenance, bye |-> Never, began |-> q.by]
    /\ Hear(q.by)
    /\ request' = [request EXCEPT ![r] = NoRequest]
    /\ UNCHANGED <<overlap, now, outages, sweep, hubVars>>

HeartbeatSave(r) ==
    LET q == request[r] IN
    /\ up /\ q.step = "save" /\ q.kind = "heartbeat"
    /\ present' = TRUE
    /\ row' = [online |-> TRUE, last |-> now, maintenance |-> q.row.maintenance,
               bye |-> q.row.bye, began |-> q.row.began]
    /\ Hear(q.by)
    /\ request' = [request EXCEPT ![r] = NoRequest]
    /\ UNCHANGED <<overlap, now, outages, sweep, hubVars, told>>

\* Mutant: the time is taken from the agent, whose clock is ahead.
GoingAwayAhead ==
    /\ Calm /\ present /\ agent = "running"
    /\ row' = [row EXCEPT !.bye = now + 1]
    /\ told' = [told EXCEPT !.bye = now + 1]
    /\ agent' = "stopped"
    /\ UNCHANGED <<overlap, now, present, outages, request, sweep, hubVars, process, contact>>

\* The agent says that it stops, and does: one column is updated.
GoingAway ==
    /\ Calm /\ present /\ agent = "running"
    /\ row' = [row EXCEPT !.bye = now]
    /\ told' = [told EXCEPT !.bye = now]
    /\ agent' = "stopped"
    /\ UNCHANGED <<overlap, now, present, outages, request, sweep, hubVars, process, contact>>

-----------------------------------------------------------------------------
(* The operator: SetMaintenance, Remove *)

SetMaintenance(on) ==
    /\ Calm /\ present
    /\ row' = [row EXCEPT !.maintenance = on]
    /\ told' = [told EXCEPT !.maintenance = on]
    /\ UNCHANGED <<overlap, now, present, outages, request, sweep, hubVars, agentVars>>

\* The node's peers go first, so its agent reaches the Hub no more; then all
\* that is recorded of it, and the row.
Remove ==
    /\ Calm /\ present
    /\ agent' = "removed"
    /\ present' = FALSE /\ row' = Enrolled
    /\ outages' = << >>
    /\ UNCHANGED <<overlap, now, request, sweep, hubVars, process, contact, told>>

-----------------------------------------------------------------------------
(* The sweeper: sweepOffline *)

\* closeOutagesOfOnlineNodes: an outage still open ended with the last
\* heartbeat, but not before it began.
SafetyNet ==
    IF present /\ row.online
    THEN [i \in DOMAIN outages |->
            IF IsOpen(outages[i])
            THEN [from |-> outages[i].from, planned |-> outages[i].planned,
                  to |-> IF row.last < outages[i].from THEN outages[i].from ELSE row.last]
            ELSE outages[i]]
    ELSE outages

\* Mutant: no grace after the Hub has started.
SilentAtOnce == row.online /\ now - row.last > Timeout

Silent == row.online /\ now - row.last > Timeout /\ now - started >= Grace

Sweep ==
    /\ Calm /\ sweep.step = "none"
    /\ outages' = SafetyNet
    /\ sweep' = IF present /\ Silent THEN [step |-> "save", row |-> row] ELSE sweep
    /\ UNCHANGED <<overlap, now, present, row, request, hubVars, agentVars, told>>

SweepSave ==
    /\ up /\ sweep.step = "save"
    /\ present' = TRUE
    /\ row' = [sweep.row EXCEPT !.online = FALSE]
    /\ sweep' = [step |-> "open", row |-> sweep.row]
    /\ UNCHANGED <<overlap, now, outages, request, hubVars, agentVars, told>>

SweepOpen ==
    /\ up /\ sweep.step = "open"
    /\ outages' = Opened(sweep.row)
    /\ sweep' = NotSweeping
    /\ UNCHANGED <<overlap, now, present, row, request, hubVars, agentVars, told>>

-----------------------------------------------------------------------------
(* Time, the agent's machine and the Hub's process *)

\* An agent that reaches the Hub is heard every Interval while the Hub is up.
Tick ==
    /\ now < MaxTime /\ Idle
    /\ up /\ agent = "running" => now - contact < Interval \/ now - started < Interval
    /\ now' = now + 1
    /\ UNCHANGED <<overlap, rowVars, request, sweep, hubVars, agentVars, told>>

\* The process ends without a word: killed, or the machine lost its power.
AgentStop ==
    /\ agent \in {"starting", "running", "away"}
    /\ agent' = "stopped"
    /\ UNCHANGED <<overlap, now, rowVars, request, sweep, hubVars, process, contact, told>>

AgentStart ==
    /\ agent = "stopped" /\ process <= MaxRestarts
    /\ agent' = "starting" /\ process' = process + 1
    /\ UNCHANGED <<overlap, now, rowVars, request, sweep, hubVars, contact, told>>

\* The link breaks; the process lives, and may reach the Hub again later.
LinkLost ==
    /\ agent = "running" /\ \A q \in Handling : request[q].by # process
    /\ agent' = "away"
    /\ UNCHANGED <<overlap, now, rowVars, request, sweep, hubVars, process, contact, told>>

HubStop ==
    /\ up /\ stops < MaxStops
    /\ up' = FALSE /\ stops' = stops + 1
    /\ request' = [r \in Requests |-> NoRequest]
    /\ sweep' = NotSweeping
    /\ UNCHANGED <<overlap, now, rowVars, started, agentVars, told>>

\* Mutant: outages of nodes that are offline already are not looked for.
HubStartBare ==
    /\ ~up
    /\ up' = TRUE /\ started' = now
    /\ UNCHANGED <<overlap, now, rowVars, request, sweep, stops, agentVars, told>>

\* StartOfflineSweeper, with openOutagesForOfflineNodes.
HubStart ==
    /\ ~up
    /\ up' = TRUE /\ started' = now
    /\ outages' = IF present /\ ~row.online THEN Opened(row) ELSE outages
    /\ UNCHANGED <<overlap, now, present, row, request, sweep, stops, agentVars, told>>

-----------------------------------------------------------------------------
Next ==
    \/ \E r \in Requests : \/ Register(r)
                           \/ Heartbeat(r)
                           \/ CloseOutage(r)
                           \/ RegisterSave(r)
                           \/ HeartbeatSave(r)
    \/ GoingAway
    \/ \E on \in BOOLEAN : SetMaintenance(on)
    \/ Remove
    \/ Sweep \/ SweepSave \/ SweepOpen
    \/ Tick
    \/ AgentStop \/ AgentStart \/ LinkLost
    \/ HubStop \/ HubStart

Spec == Init /\ [][Next]_vars

-----------------------------------------------------------------------------
(* Properties *)

\* What each writer of the row last wrote is still there: maintenance as the
\* operator set it, a goodbye until the agent is back, the process that last
\* registered, and neither row nor outages once the node was removed.
NothingUndone ==
    /\ agent = "removed" => ~present /\ outages = << >>
    /\ present => /\ row.maintenance = told.maintenance
                  /\ row.bye = told.bye
                  /\ row.began = told.began

\* ... as long as the Hub does one thing at a time.
NothingUndoneInTurn == overlap \/ NothingUndone

\* A node whose agent keeps sending heartbeats is online, also right after
\* the Hub was down for long (offlineGrace): its apps are not moved away.
HeardNodesAreOnline == ~overlap /\ agent = "running" /\ Idle => row.online

\* A node that was online once and is offline has an outage on record, unless
\* the sweeper or the request that brings it back is just at it: whatever
\* overlaps, and wherever the Hub stopped and started again.
OfflineIsOnRecord ==
    up /\ present /\ ~row.online /\ row.began # 0
        => \/ AnyOpen
           \/ sweep.step = "open"
           \/ \E r \in Handling : request[r].step = "save"

\* The moments of an outage at which the node was away.
Away(o) == {t \in Times : o.from <= t /\ (IsOpen(o) \/ t < o.to)}

\* What uptimePercent makes of the outages is exact, over any window up to now:
\* it adds up their lengths, no moment is in two of them, and nothing has to be
\* cut off.  Unless the Hub stops between two writes, that is: an outage it has
\* ended then begins again.
UptimeIsExact ==
    stops = 0 => \A from \in 0 .. now :
        /\ Downtime(from) = Cardinality({t \in from .. now - 1 : \E i \in DOMAIN outages : t \in Away(outages[i])})
        /\ Added(from) = Downtime(from)
=============================================================================
