------------------------------ MODULE Failover ------------------------------
(***************************************************************************)
(* Where one app runs, and who moves it: the health checker with its       *)
(* rollbacks, restarts and failovers (health_service.go, rollback.go,      *)
(* app_outages.go), migrations and their sweeper (migration_service.go),   *)
(* maintenance (maintenance_service.go) and the choice of a node           *)
(* (placement.go).                                                         *)
(*                                                                         *)
(* Deploy 1 is what the app runs at first.  An image is named by the       *)
(* deploy that first brought it.  Removals of old copies, deletions and    *)
(* edits are the subject of Deployments; here a report is one step, and    *)
(* copy is the one container the health checks talk to, that on the home.  *)
(*                                                                         *)
(* The checker, a mover and the migration sweeper read rows and act on     *)
(* them later.  With overlap they do so in two steps, between which others *)
(* act (check, mover and sweep hold what was read), otherwise in one.      *)
(***************************************************************************)
EXTENDS Integers, FiniteSets

CONSTANTS
    Nodes, NoNode,
    FirstHome,      \* where the app runs at first
    Masters,        \* what the Hub's master node may be set to
    FailoverThreshold, MaxUnconfirmedWaits, MaxInPlaceRestarts, RecoveryChecks,
    MaxDeploys,     \* bound: deploys in all, the first one included
    Incidents,      \* what people and bad luck may do ...
    MaxIncidents,   \* ... bound: how often, in all
    MaxIncidentsOverlapping  \* ... and how often with overlap

ASSUME FNodesAssumption == FirstHome \in Nodes /\ NoNode \notin Nodes /\ Masters \subseteq Nodes \cup {NoNode}
ASSUME FBoundsAssumption ==
    {FailoverThreshold, MaxUnconfirmedWaits, MaxInPlaceRestarts, RecoveryChecks, MaxDeploys}
        \subseteq Nat \ {0}
ASSUME FIncidentsAssumption ==
    /\ {MaxIncidents, MaxIncidentsOverlapping} \subseteq Nat
    /\ Incidents \subseteq {"push", "redeploy", "rollback", "move", "maintenance", "node dies",
                            "crash", "blip", "deploy fails", "slow node", "Hub stop"}

None == 0
Deploys == 1 .. MaxDeploys
Images == Deploys
Triggers == {"ci", "manual", "failover", "migration", "rollback"}

VARIABLES
    alive, online, maintenance,  \* nodes that work; that the Hub takes for online; in maintenance
    pinned, master,              \* the app's pin and the Hub's master node
    count,                       \* how many deploys there are
    node, img, trigger, dep,     \* the deployment rows
    job,                         \* their jobs; an "orphan" is running, but its agent forgot it
    mig,                         \* the migration row of a deploy, if it has one
    expired,                     \* deploys whose failed migration is past the cool-down
    current, home, image, state, health,  \* the project's row
    age,                         \* how long ago the app was last deployed
    copy, bad,                   \* the image on the home, and the images that do not answer
    failures, unconfirmed, restarts, recovering, down, loaded,  \* the checker's memory
    outage,                      \* an outage of the app is open in the database
    overlap, check, mover, sweep,  \* what a checker, a mover, the sweeper has read
    incidents

nodeVars == <<alive, online, maintenance, pinned, master>>
deployVars == <<count, node, img, trigger, dep, job>>
migVars == <<mig, expired>>
rowVars == <<home, image, state, age>>
memoryVars == <<failures, unconfirmed, restarts, recovering, down, loaded>>
handVars == <<overlap, check, mover, sweep>>
vars == <<nodeVars, deployVars, migVars, current, rowVars, health, copy, bad, memoryVars, outage,
          handVars, incidents>>

Row == [current : Deploys, home : Nodes, image : Images, state : {"running", "failed"},
        health : {"healthy", "unhealthy", "degraded", "migrating", "unknown"}]
TheRow == [current |-> current, home |-> home, image |-> image, state |-> state, health |-> health]
Round == [row : Row, ok : BOOLEAN, blip : BOOLEAN, grace : BOOLEAN]
Request == [target : Nodes, image : Images]

\* Every variable has its type, and the counters keep to the limits of the code.
FailoverTypeOK ==
    /\ {alive, online, maintenance} \subseteq SUBSET Nodes
    /\ pinned \in BOOLEAN /\ master \in Nodes \cup {NoNode}
    /\ count \in Deploys
    /\ \A d \in 1 .. count :
        /\ node[d] \in Nodes /\ img[d] \in 1 .. d /\ trigger[d] \in Triggers
        /\ dep[d] \in {"pending", "completed", "failed"}
        /\ job[d] \in {"pending", "running", "orphan", "completed", "failed", "cancelled"}
        /\ mig[d] \in {"none", "running", "completed", "failed"}
    /\ expired \subseteq {d \in 1 .. count : mig[d] = "failed"}
    /\ TheRow \in Row /\ {current, image} \subseteq 1 .. count
    /\ age \in {"grace", "recent", "old"}
    /\ copy \in 0 .. count /\ bad \subseteq 1 .. count
    /\ failures \in 0 .. FailoverThreshold - 1
    /\ unconfirmed \in 0 .. MaxUnconfirmedWaits
    /\ restarts \in 0 .. MaxInPlaceRestarts
    /\ recovering \in 0 .. RecoveryChecks - 1
    /\ {down, loaded, outage} \subseteq BOOLEAN
    /\ overlap \in BOOLEAN
    /\ check \subseteq Round /\ mover \subseteq Request /\ sweep \subseteq 1 .. count
    /\ Cardinality(check) + Cardinality(mover) + Cardinality(sweep) <= IF overlap THEN 3 ELSE 0

FailoverInit ==
    /\ alive = Nodes /\ online = Nodes /\ maintenance = {}
    /\ pinned \in BOOLEAN
    /\ master \in Masters
    /\ count = 1
    /\ home = FirstHome
    /\ node = [d \in Deploys |-> FirstHome]
    /\ img = [d \in Deploys |-> 1]
    /\ trigger = [d \in Deploys |-> "ci"]
    /\ dep = [d \in Deploys |-> "completed"]
    /\ job = [d \in Deploys |-> "completed"]
    /\ mig = [d \in Deploys |-> "none"]
    /\ expired = {}
    /\ current = 1 /\ image = 1 /\ state = "running" /\ health = "healthy" /\ age = "old"
    /\ copy = 1 /\ bad = {}
    /\ failures = 0 /\ unconfirmed = 0 /\ restarts = 0 /\ recovering = 0
    /\ down = FALSE /\ loaded = TRUE /\ outage = FALSE
    /\ overlap \in BOOLEAN /\ check = {} /\ mover = {} /\ sweep = {}
    /\ incidents = 0

Incident(i) ==
    /\ i \in Incidents
    /\ incidents < IF overlap THEN MaxIncidentsOverlapping ELSE MaxIncidents
    /\ incidents' = incidents + 1

-----------------------------------------------------------------------------
(* Deploys *)

\* Dispatch: the job, its deployment row, and the project pointing at it.
NewDeploy(n, i, t) ==
    /\ count < MaxDeploys
    /\ count' = count + 1
    /\ node' = [node EXCEPT ![count'] = n]
    /\ img' = [img EXCEPT ![count'] = i]
    /\ trigger' = [trigger EXCEPT ![count'] = t]
    /\ dep' = [dep EXCEPT ![count'] = "pending"]
    /\ job' = [job EXCEPT ![count'] = "pending"]
    /\ current' = count'

\* A deploy recorded as a migration.
NewMove(n, i, t) ==
    /\ NewDeploy(n, i, t)
    /\ mig' = [mig EXCEPT ![count'] = "running"]
    /\ expired' = expired

Available == online \ maintenance
\* Where a deploy of a person or of CI goes.
Chosen == IF home \in Available THEN {home} ELSE Available

Requested == UNCHANGED <<nodeVars, migVars, rowVars, health, copy, memoryVars, outage, handVars>>

\* CI brings a new image, which may turn out not to answer.
Push ==
    /\ Incident("push")
    /\ \E n \in Chosen : NewDeploy(n, count + 1, "ci")
    /\ bad' \in {bad, bad \cup {count'}}
    /\ Requested

\* Redeploy, of the project's image as it is.
Redeploy ==
    /\ Incident("redeploy")
    /\ \E n \in Chosen : NewDeploy(n, image, "manual")
    /\ bad' = bad /\ Requested

Newest(ds) == CHOOSE d \in ds : \A e \in ds : e <= d
CompletedDeploys == {d \in 1 .. count : dep[d] = "completed"}
Underway(d) == dep[d] = "pending"

\* manualRollbackTarget: the newest version that is not the present one; not
\* while a deploy is under way.
Rollback ==
    LET earlier == {d \in CompletedDeploys : img[d] # image} IN
    /\ Incident("rollback")
    /\ earlier # {} /\ \A d \in 1 .. count : ~Underway(d)
    /\ \E n \in Chosen : NewDeploy(n, img[Newest(earlier)], "rollback")
    /\ bad' = bad /\ Requested

\* What the report of deploy d means for the project, and what it left at home.
\* A superseded deploy changes no row; its copy is removed when the newer
\* deploy is for another node.
Report(d, ok) ==
    IF d # current THEN
        /\ UNCHANGED <<rowVars, health>>
        /\ IF node[d] # home THEN copy' = copy
           ELSE IF ok THEN copy' = IF node[current] = home THEN img[d] ELSE None
           ELSE copy' \in {copy, None}
    ELSE IF ok THEN
        /\ home' = node[d] /\ image' = img[d] /\ state' = "running" /\ health' = "unknown"
        /\ age' = "grace" /\ copy' = img[d]
    ELSE
        /\ UNCHANGED <<home, image, age>> /\ state' = "running" /\ health' = "unknown"
        /\ copy' \in IF node[d] = home THEN {copy, None} ELSE {copy}

\* Mutant: a migration that was given up on stays failed.
OutcomeIfRunning(d, ok) ==
    IF mig[d] # "running" THEN mig[d] ELSE IF ok THEN "completed" ELSE "failed"

Outcome(d, ok) ==
    IF mig[d] = "none" THEN "none" ELSE IF ok THEN "completed" ELSE "failed"

\* JobService.Complete, with the migration it settles and completeDeploy.
Complete(d, ok) ==
    /\ job[d] = "running" /\ node[d] \in alive
    /\ IF ok THEN incidents' = incidents ELSE Incident("deploy fails")
    /\ job' = [job EXCEPT ![d] = IF ok THEN "completed" ELSE "failed"]
    /\ dep' = [dep EXCEPT ![d] = IF ok THEN "completed" ELSE "failed"]
    /\ mig' = [mig EXCEPT ![d] = Outcome(d, ok)]
    /\ expired' = expired \ {d}
    /\ Report(d, ok)
    /\ UNCHANGED <<nodeVars, count, node, img, trigger, current, bad, memoryVars, outage, handVars>>

\* failStuckJobs: nobody will ever report this job.  Its migration is not told.
FailStuck(d) ==
    /\ job[d] = "orphan"
    /\ job' = [job EXCEPT ![d] = "failed"]
    /\ dep' = [dep EXCEPT ![d] = "failed"]
    /\ Report(d, FALSE)
    /\ UNCHANGED <<nodeVars, count, node, img, trigger, migVars, current, bad, memoryVars, outage,
                   handVars, incidents>>

\* The node's agent takes the oldest of its jobs, one at a time.
Claim(d) ==
    /\ job[d] = "pending" /\ node[d] \in alive
    /\ \A e \in 1 .. count :
        node[e] = node[d] => job[e] # "running" /\ (job[e] = "pending" => d <= e)
    /\ job' = [job EXCEPT ![d] = "running"]
    /\ UNCHANGED <<nodeVars, count, node, img, trigger, dep, migVars, current, rowVars, health, copy,
                   bad, memoryVars, outage, handVars, incidents>>

-----------------------------------------------------------------------------
(* Nodes and containers *)

World == UNCHANGED <<pinned, master, count, node, img, trigger, dep, migVars, current, rowVars, health,
                     bad, memoryVars, outage, handVars>>

\* What the agent was doing is forgotten; a container is started again with its node.
NodeDies(n) ==
    /\ n \in alive /\ Incident("node dies")
    /\ alive' = alive \ {n}
    /\ job' = [d \in Deploys |-> IF job[d] = "running" /\ node[d] = n THEN "orphan" ELSE job[d]]
    /\ World /\ UNCHANGED <<online, maintenance, copy>>

NodeReturns(n) ==
    /\ n \notin alive
    /\ alive' = alive \cup {n}
    /\ World /\ UNCHANGED <<online, maintenance, copy, job, incidents>>

\* Heartbeats, and the sweeper of silent nodes (NodeRegistry).
Notice(n) ==
    /\ (n \in alive) # (n \in online)
    /\ online' = IF n \in alive THEN online \cup {n} ELSE online \ {n}
    /\ World /\ UNCHANGED <<alive, maintenance, copy, job, incidents>>

\* The app's container stops and stays so.
Crash ==
    /\ copy # None /\ Incident("crash")
    /\ copy' = None
    /\ World /\ UNCHANGED <<alive, online, maintenance, job>>

\* SetMaintenance: turning it on moves the app away, unless it is pinned.
Maintenance(n) ==
    LET others == Available \ {n} IN
    /\ Incident("maintenance")
    /\ \/ /\ n \in maintenance
          /\ maintenance' = maintenance \ {n}
          /\ UNCHANGED <<deployVars, current>>
       \/ /\ maintenance' = maintenance \cup {n}
          /\ IF home # n \/ pinned \/ others = {} THEN UNCHANGED <<deployVars, current>>
             ELSE \E t \in others : NewDeploy(t, image, "migration")
    /\ UNCHANGED <<alive, online, pinned, master, migVars, rowVars, health, copy, bad, memoryVars,
                   outage, handVars>>

-----------------------------------------------------------------------------
(* The health checker *)

Answers == home \in online \cap alive /\ copy # None /\ copy \notin bad

\* Mutant: a restarted Hub does not know of the outages that were open.
KnownForgetting == down

\* The outages open when the Hub started are picked up in its first round.
Known == IF loaded THEN down ELSE outage

\* What a round may read of the app and how it is answered.  The check can also
\* fail while the app is fine.
Seen == {[row |-> TheRow, ok |-> ok, blip |-> ok # Answers, grace |-> age = "grace"] :
            ok \in {Answers, FALSE}}

\* The app and its health are read, and acted on later.
CheckRead ==
    /\ overlap /\ check = {}
    /\ \E c \in Seen : check' = {c}
    /\ UNCHANGED <<nodeVars, deployVars, migVars, current, rowVars, health, copy, bad, memoryVars,
                   outage, overlap, mover, sweep, incidents>>

\* What the checker has in hand.
Rounds == IF overlap THEN check ELSE Seen

Quietly == UNCHANGED <<deployVars, migVars, current, restarts, unconfirmed>>
SameOutage == down' = Known /\ outage' = outage
CloseOutage == down' = FALSE /\ outage' = FALSE

\* It answers.  Only a checker that knows of an outage closes it.
CheckGood(c) ==
    /\ c.row.state = "running" /\ c.ok
    /\ failures' = 0 /\ unconfirmed' = 0
    /\ health' = IF c.row.health = "healthy" THEN health ELSE "healthy"
    /\ IF Known THEN CloseOutage ELSE SameOutage
    /\ UNCHANGED <<deployVars, migVars, current, state, restarts, recovering>>

Failing(c) == c.row.state = "running" /\ ~c.ok

\* Mutant: one check too many is counted.
CountedLate(c) == Failing(c) /\ ~c.grace /\ failures < FailoverThreshold

Counted(c) == Failing(c) /\ ~c.grace /\ failures + 1 < FailoverThreshold

\* It may still be starting, or has not failed often enough.
CheckDegraded(c) ==
    /\ \/ /\ Failing(c) /\ c.grace
          /\ health' = IF c.row.health = "degraded" THEN health ELSE "degraded"
          /\ failures' = failures
       \/ Counted(c) /\ health' = "degraded" /\ failures' = failures + 1
    /\ Quietly /\ UNCHANGED <<state, recovering>> /\ SameOutage

\* Mutant: only migrations nobody has begun count.
MovingPending == \E d \in 1 .. count : mig[d] = "pending"

Moving == \E d \in 1 .. count : mig[d] = "running"
RollbackUnderway(row) == trigger[row.current] = "rollback" /\ Underway(row.current)

\* deploymentBefore, for a push or a redeploy that changed the image lately.
RollbackTargets(row) ==
    LET before == {d \in CompletedDeploys : d < row.current} IN
    IF dep[row.current] = "completed" /\ age # "old" /\ before # {}
          /\ trigger[row.current] \in {"ci", "manual"} /\ img[Newest(before)] # img[row.current]
    THEN {Newest(before)} ELSE {}

RollsBack(row) == RollbackTargets(row) # {} /\ row.home \in online

\* A deploy that is pending is the newest intent.
FailoverImage(row) == IF Underway(row.current) THEN img[row.current] ELSE row.image

Cooling == {node[d] : d \in {d \in 1 .. count : mig[d] = "failed"} \ expired}
FailoverTargets(row) == Available \ ({row.home} \cup Cooling)

TryRollback(row) ==
    /\ RollsBack(row)
    /\ \E d \in RollbackTargets(row) : NewDeploy(row.home, img[d], "rollback")
    /\ health' = "degraded"
    /\ UNCHANGED <<migVars, state, restarts, unconfirmed>> /\ SameOutage

\* openAppOutage: one that is open stays the one.
OutageOpened == outage \/ ~Known

\* announceDown opens an outage once for each time the app is down.
AnnounceDown == down' = TRUE /\ outage' = OutageOpened

FailOver(row) ==
    /\ ~RollsBack(row) /\ ~pinned
    /\ \E n \in FailoverTargets(row) : NewMove(n, FailoverImage(row), "failover")
    /\ AnnounceDown /\ health' = "migrating"
    /\ UNCHANGED <<state, restarts, unconfirmed>>

\* What the node's agent says of the container: its report may be one round old,
\* that of a dead node stays what it was.
ContainerConfirmedDown(row) ==
    IF row.home \in alive /\ copy = None /\ unconfirmed > 0 THEN {TRUE}
    ELSE IF copy # None /\ copy \notin bad THEN {FALSE} ELSE BOOLEAN

\* A node to move to is only sought for an app that is not pinned.
Stays(row) == ~RollsBack(row) /\ (pinned \/ FailoverTargets(row) = {})

\* restartInPlace takes over: it waits for a deploy, or for the agent's word,
\* or starts the container again.
RestartInPlace(row) ==
    /\ Stays(row) /\ row.home \in online
    /\ \/ Underway(row.current) /\ Quietly /\ health' = health
       \/ \E confirmed \in ContainerConfirmedDown(row) :
            /\ ~Underway(row.current)
            /\ \/ /\ ~confirmed /\ unconfirmed < MaxUnconfirmedWaits
                  /\ unconfirmed' = unconfirmed + 1
                  /\ UNCHANGED <<deployVars, current, migVars, restarts, health>>
               \/ /\ confirmed /\ restarts < MaxInPlaceRestarts
                  /\ unconfirmed' = 0 /\ restarts' = restarts + 1
                  /\ NewDeploy(row.home, FailoverImage(row), "failover")
                  /\ health' = "degraded" /\ UNCHANGED migVars
    /\ state' = state /\ SameOutage

\* ... or it does not, and the app is marked failed.
GiveUp(row) ==
    /\ Stays(row)
    /\ \/ row.home \notin online /\ unconfirmed' = unconfirmed
       \/ \E confirmed \in ContainerConfirmedDown(row) :
            /\ row.home \in online /\ ~Underway(row.current)
            /\ IF confirmed THEN restarts = MaxInPlaceRestarts
                            ELSE unconfirmed = MaxUnconfirmedWaits
            /\ unconfirmed' = 0
    /\ AnnounceDown /\ state' = "failed" /\ health' = "unhealthy"
    /\ UNCHANGED <<deployVars, current, migVars, restarts>>

HandleUnhealthyProject(row) ==
    IF Moving \/ RollbackUnderway(row)
    THEN Quietly /\ UNCHANGED <<health, state>> /\ SameOutage
    ELSE TryRollback(row) \/ FailOver(row) \/ RestartInPlace(row) \/ GiveUp(row)

CheckUnhealthy(c) ==
    /\ Failing(c) /\ ~c.grace /\ failures + 1 = FailoverThreshold
    /\ HandleUnhealthyProject(c.row)
    /\ failures' = 0 /\ UNCHANGED recovering

\* recoverFailed: a failed app that answers again and again is put back in service.
CheckRecovered(c) ==
    /\ c.row.state = "failed" /\ c.ok
    /\ IF recovering + 1 < RecoveryChecks
       THEN recovering' = recovering + 1 /\ UNCHANGED <<state, health>> /\ SameOutage
       ELSE recovering' = 0 /\ state' = "running" /\ health' = "healthy" /\ CloseOutage
    /\ Quietly /\ failures' = failures

\* retryFailover: only when its node is down and another can take it.
CheckStillFailed(c) ==
    LET row == c.row IN
    /\ row.state = "failed" /\ ~c.ok
    /\ recovering' = 0 /\ failures' = failures
    /\ IF pinned \/ row.home \in online \/ Moving \/ FailoverTargets(row) = {}
       THEN Quietly /\ UNCHANGED <<state, health>> /\ SameOutage
       ELSE HandleUnhealthyProject(row)

CheckAct ==
    /\ \E c \in Rounds :
        /\ CheckGood(c) \/ CheckDegraded(c) \/ CheckUnhealthy(c) \/ CheckRecovered(c) \/ CheckStillFailed(c)
        /\ IF c.blip THEN Incident("blip") ELSE incidents' = incidents
    /\ loaded' = TRUE /\ check' = {}
    /\ UNCHANGED <<nodeVars, home, image, age, copy, bad, overlap, mover, sweep>>

\* A deploy gets older.  From the end of the grace there is time for the checks
\* that decide whether the release is bad.
Age ==
    /\ \/ age = "grace" /\ age' = "recent"
       \/ age = "recent" /\ (Answers \/ home \notin online) /\ age' = "old"
    /\ UNCHANGED <<nodeVars, deployVars, migVars, current, home, image, state, health, copy, bad,
                   memoryVars, outage, handVars, incidents>>

\* Restarts in place count for half an hour.
RestartForgotten ==
    /\ restarts > 0 /\ restarts' = restarts - 1
    /\ UNCHANGED <<nodeVars, deployVars, migVars, current, rowVars, health, copy, bad, failures,
                   unconfirmed, recovering, down, loaded, outage, handVars, incidents>>

-----------------------------------------------------------------------------
(* Migrations *)

\* Where the enforcer wants the app: on the master node, or while that is away
\* on another one.
Enforced == IF master \in Available THEN {master} ELSE Available

\* startMigration.
StartMigration(n, i) == NewMove(n, i, "migration") /\ health' = "migrating"

\* A mover has found nothing in its way; what it starts follows.
Begin(n, i) ==
    IF overlap
    THEN mover = {} /\ mover' = {[target |-> n, image |-> i]}
         /\ UNCHANGED <<deployVars, migVars, current, health>>
    ELSE StartMigration(n, i) /\ mover' = mover

\* EnforceMasterNode, every minute, and MigrateToNode up to its checks.
EnforceMasterNode ==
    /\ master # NoNode /\ health # "migrating" /\ ~Moving
    /\ \E n \in Enforced \ {home} : Begin(n, image)
    /\ UNCHANGED <<nodeVars, rowVars, copy, bad, memoryVars, outage, overlap, check, sweep, incidents>>

\* MigrateProject: a person asks for a move, perhaps to another image, which is
\* saved even if the move is refused.
MigrateProject(n) ==
    /\ Incident("move")
    /\ image' \in {img[d] : d \in 1 .. count}
    /\ IF n = home \/ Moving THEN UNCHANGED <<mover, deployVars, migVars, current, health>>
                             ELSE Begin(n, image')
    /\ UNCHANGED <<nodeVars, home, state, age, copy, bad, memoryVars, outage, overlap, check, sweep>>

MoveStart ==
    /\ \E m \in mover : StartMigration(m.target, m.image)
    /\ mover' = {}
    /\ UNCHANGED <<nodeVars, rowVars, copy, bad, memoryVars, outage, overlap, check, sweep, incidents>>

\* Mutant: a job nobody has taken is waited for.
StuckIfBegun(d) == job[d] \in {"orphan", "failed", "cancelled"}

\* migrationStuck: given time, a job whose target is silent, that its agent
\* forgot, or that ended untold.
Stuck(d) ==
    \/ job[d] = "pending" /\ node[d] \notin online \cap alive
    \/ job[d] \in {"orphan", "failed", "cancelled"}

\* The rows are saved whole; a job that was not taken is cancelled.
GiveUpMoves(ds) ==
    /\ mig' = [d \in Deploys |-> IF d \in ds THEN "failed" ELSE mig[d]]
    /\ job' = [d \in Deploys |-> IF d \in ds /\ job[d] = "pending" THEN "cancelled" ELSE job[d]]

\* cleanupStuckMigrations finds migrations to give up on, on a live node only if
\* that is very slow.
Sweep(d) ==
    /\ sweep = {} /\ d <= count /\ mig[d] = "running"
    /\ IF Stuck(d) THEN incidents' = incidents
       ELSE job[d] \in {"pending", "running"} /\ Incident("slow node")
    /\ IF overlap THEN sweep' = {d} /\ UNCHANGED <<mig, job>>
                  ELSE GiveUpMoves({d}) /\ sweep' = sweep
    /\ UNCHANGED <<nodeVars, count, node, img, trigger, dep, expired, current, rowVars, health, copy,
                   bad, memoryVars, outage, overlap, check, mover>>

SweepSave ==
    /\ sweep # {} /\ GiveUpMoves(sweep) /\ sweep' = {}
    /\ UNCHANGED <<nodeVars, count, node, img, trigger, dep, expired, current, rowVars, health, copy,
                   bad, memoryVars, outage, overlap, check, mover, incidents>>

\* A node that failed to take the app over may be tried again.
CooledDown(d) ==
    /\ d <= count /\ mig[d] = "failed" /\ d \notin expired
    /\ expired' = expired \cup {d}
    /\ UNCHANGED <<nodeVars, deployVars, mig, current, rowVars, health, copy, bad, memoryVars, outage,
                   handVars, incidents>>

\* What the Hub had in memory or in hand is gone.
HubStop ==
    /\ Incident("Hub stop")
    /\ failures' = 0 /\ unconfirmed' = 0 /\ restarts' = 0 /\ recovering' = 0
    /\ down' = FALSE /\ loaded' = FALSE
    /\ check' = {} /\ mover' = {} /\ sweep' = {}
    /\ UNCHANGED <<overlap, nodeVars, deployVars, migVars, current, rowVars, health, copy, bad, outage>>

-----------------------------------------------------------------------------
FailoverNext ==
    \/ Push \/ Redeploy \/ Rollback
    \/ \E d \in Deploys, ok \in BOOLEAN : Complete(d, ok)
    \/ \E d \in Deploys : FailStuck(d) \/ Claim(d) \/ Sweep(d) \/ CooledDown(d)
    \/ \E n \in Nodes : NodeDies(n) \/ NodeReturns(n) \/ Notice(n) \/ Maintenance(n) \/ MigrateProject(n)
    \/ Crash
    \/ CheckRead \/ CheckAct
    \/ Age \/ RestartForgotten
    \/ EnforceMasterNode \/ MoveStart \/ SweepSave
    \/ HubStop

\* The loops of the Hub, the agents of nodes that work, and time go on.
FailoverFairness ==
    /\ \A d \in Deploys :
        /\ WF_vars(Claim(d)) /\ WF_vars(Complete(d, TRUE)) /\ WF_vars(FailStuck(d))
        /\ WF_vars(CooledDown(d)) /\ WF_vars(Stuck(d) /\ Sweep(d))
    /\ \A n \in Nodes : WF_vars(Notice(n))
    /\ WF_vars(CheckAct) /\ WF_vars(Age) /\ WF_vars(RestartForgotten)

FailoverSpec == FailoverInit /\ [][FailoverNext]_vars
FailoverFairSpec == FailoverSpec /\ FailoverFairness

-----------------------------------------------------------------------------
(* Properties *)

\* An app marked failed has an outage open, and one that runs and answered the
\* last check has none, whatever the Hub forgot at a stop in between.
AvailabilityRecord ==
    /\ state = "failed" => outage
    /\ state = "running" /\ health = "healthy" => ~outage

\* At most one migration of the app is under way, whoever asked for it.
OneMoveAtATime == ~overlap => Cardinality({d \in 1 .. count : mig[d] = "running"}) <= 1

\* A move that came to an end is recorded as it ended, also one that had been
\* given up on: a node that took the app over is not passed over later.
MovesEndAsTheirJobs ==
    ~overlap => \A d \in 1 .. count : job[d] = "completed" /\ mig[d] # "none" => mig[d] = "completed"

\* Nothing the Hub may do would help: there is no deploy left, the image does not
\* answer, or no node that works may have the app.
Hopeless ==
    \/ count = MaxDeploys
    \/ FailoverImage(TheRow) \in bad
    \/ home \notin alive /\ (pinned \/ (alive \ maintenance) \ {home} = {})

\* "Nodes that already failed to take it over recently are skipped; only when no
\* node is left is the project marked failed" (handleUnhealthyProject), and a
\* failed one is moved "once some node can take it" (retryFailover): an app that
\* is down is restarted, rolled back or moved, or its node returns.
ReturnsToService == []<>(Answers \/ Hopeless \/ overlap)

\* What the code leaves to a person: a deploy recorded as pending although its job
\* was cancelled; a rollback that waits on a dead node; a failed app without a
\* container on a node that is up.
LeftToAPerson ==
    \/ Underway(current) /\ job[current] = "cancelled"
    \/ RollbackUnderway(TheRow) /\ home \notin alive
    \/ state = "failed" /\ home \in online

\* With these three exceptions an app that is down does not stay down.
BackInService == []<>(Answers \/ Hopeless \/ LeftToAPerson \/ overlap)

\* "A deploy that is pending or running is the newest intent; use its image."
\* (failoverImage): the checker never starts an older image while a push that CI
\* or a person made is still under way.
NewestIntentKept ==
    [][\A d \in 1 .. count :
        count' = count + 1 /\ trigger'[count'] \in {"failover"}
        /\ trigger[d] \in {"ci", "manual"} /\ Underway(d)
            => img'[count'] >= img[d]]_vars

\* "Pinned keeps the app on its node: failover and maintenance never move it"
\* (models.Project): no deploy that the Hub begins is for another node.
PinnedStays ==
    [][pinned /\ count' = count + 1 /\ trigger'[count'] \in {"failover", "migration"}
        => node'[count'] = home]_vars
=============================================================================
