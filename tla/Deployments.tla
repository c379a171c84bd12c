---------------------------- MODULE Deployments ----------------------------
(***************************************************************************)
(* One app across the nodes: every deploy the Hub dispatches for it        *)
(* (deployer.go), the report that decides it (completeDeploy in            *)
(* job_service.go), the removal of the copies it leaves behind, and the    *)
(* edits and the deletion of the project (project_service.go).             *)
(*                                                                         *)
(* A job is named by its rank in creation order.  All jobs here have the   *)
(* app's scope, so on each node they run one at a time and in the order    *)
(* they were created: what JobQueue promises.  A deploy is also the        *)
(* identity of the image, and of the container, it starts.                 *)
(*                                                                         *)
(* A handler that reads the project's row and writes it later holds what   *)
(* it read in reporting or editing.  Interruptible says which of them may  *)
(* be overtaken by another request in between; with {} the Hub handles one *)
(* request at a time.  The Hub may stop between any two of their steps.    *)
(***************************************************************************)
EXTENDS Integers, FiniteSets

CONSTANTS
    Nodes, NoNode,
    MaxJobs,        \* bound: how many jobs are ever created
    MaxDispatches,  \* bound: how many deploys are dispatched
    Incidents,      \* the mishaps that may happen, at most once each ...
    MaxIncidents,   \* ... bound: and at most this many in all
    Interruptible   \* the handlers other requests may overtake

ASSUME NodesAssumption == NoNode \notin Nodes
ASSUME BoundsAssumption == {MaxJobs, MaxDispatches, MaxIncidents} \subseteq Nat
ASSUME IncidentsAssumption ==
    Incidents \subseteq {"lost claim", "give up", "retry", "agent restart", "Hub stop"}
ASSUME InterruptibleAssumption == Interruptible \subseteq {"report", "edit"}

Jobs == 1 .. MaxJobs
None == 0              \* no deployment, no image, no container
Given == -1            \* the image the project was created with, never deployed
Outcomes == {"completed", "failed"}
Statuses == {"none", "pending", "running", "cancelled"} \cup Outcomes

VARIABLES
    count,         \* how many jobs were created
    kind,          \* kind[j]: a deploy, or a stop that removes the app's copy
    node,          \* node[j]: the node it is for
    status,        \* status[j], "none" until it is created
    lost,          \* running jobs an earlier process of their agent took with it
    byHand,        \* jobs a person created by retrying a failed one
    dep,           \* dep[j]: status of the deployment row whose job is j, or "none"
    present,       \* the project's row exists
    current,       \* project.deployment_id
    home,          \* project.node_id
    image,         \* project.image
    state,         \* project.status
    reporting,     \* the report or give-up being handled
    editing,       \* the update of the project being handled
    removing,      \* nodes a deletion still has to queue a removal for
    executing,     \* jobs the agents are running
    report,        \* report[j]: the outcome its agent still has to get through
    copy,          \* copy[n]: the deploy whose container is on node n
    happened       \* the incidents so far

jobVars == <<count, kind, node, status, lost, byHand>>
projectVars == <<present, current, home, image, state>>
handlerVars == <<reporting, editing, removing>>
agentVars == <<executing, report, copy>>
vars == <<jobVars, dep, projectVars, handlerVars, agentVars, happened>>

Created == 1 .. count
Row == [current : Jobs \cup {None}, home : Nodes \cup {NoNode},
        image : Jobs \cup {None, Given}, state : {"stopped", "deploying", "running", "failed"}]
NoRow == [current |-> None, home |-> NoNode, image |-> None, state |-> "stopped"]
TheRow == [current |-> current, home |-> home, image |-> image, state |-> state]

NotReporting == [job |-> None, read |-> FALSE, row |-> NoRow]
NotEditing == [on |-> FALSE, row |-> NoRow]

Incident(i) ==
    /\ i \in Incidents \ happened
    /\ Cardinality(happened) < MaxIncidents
    /\ happened' = happened \cup {i}

\* Every variable has its type, and whatever a deployment row, an agent, a
\* report or a container names is a job that exists.
TypeOK ==
    /\ count \in 0 .. MaxJobs
    /\ kind \in [Jobs -> {"deploy", "stop"}]
    /\ node \in [Jobs -> Nodes \cup {NoNode}]
    /\ \A j \in Created : node[j] \in Nodes
    /\ status \in [Jobs -> Statuses]
    /\ \A j \in Jobs : status[j] = "none" <=> j \notin Created
    /\ lost \in SUBSET Created
    /\ byHand \in SUBSET Created
    /\ dep \in [Jobs -> {"none", "pending"} \cup Outcomes]
    /\ \A j \in Jobs : dep[j] # "none" => j \in Created /\ kind[j] = "deploy"
    /\ present \in BOOLEAN
    /\ TheRow \in Row
    /\ reporting \in [job : Created \cup {None}, read : BOOLEAN, row : Row]
    /\ editing \in [on : BOOLEAN, row : Row]
    /\ removing \in SUBSET Nodes
    /\ executing \in SUBSET Created
    /\ report \in [Jobs -> Outcomes \cup {"none"}]
    /\ \A j \in Jobs : report[j] # "none" => j \in Created
    /\ copy \in [Nodes -> Created \cup {None}]
    /\ happened \in SUBSET Incidents

\* A project created with a node and no image (its first deploy comes from
\* CI), or with an image and no node yet (CreateProject, findOrCreateProject).
Init ==
    /\ count = 0
    /\ kind = [j \in Jobs |-> "deploy"]
    /\ node = [j \in Jobs |-> NoNode]
    /\ status = [j \in Jobs |-> "none"]
    /\ lost = {} /\ byHand = {}
    /\ dep = [j \in Jobs |-> "none"]
    /\ present = TRUE
    /\ current = None
    /\ \/ home \in Nodes /\ image = None /\ state = "stopped"
       \/ home = NoNode /\ image = Given /\ state = "deploying"
    /\ reporting = NotReporting
    /\ editing = NotEditing
    /\ removing = {}
    /\ executing = {}
    /\ report = [j \in Jobs |-> "none"]
    /\ copy = [n \in Nodes |-> None]
    /\ happened = {}

\* Another handler or background task may start.  (Agents work on while one is
\* being handled, but on nothing a handler reads: they may as well wait.)
Calm ==
    /\ reporting.job = None \/ "report" \in Interruptible
    /\ ~editing.on \/ "edit" \in Interruptible

-----------------------------------------------------------------------------
(* Jobs *)

NewJob(k, n) ==
    /\ count < MaxJobs
    /\ count' = count + 1
    /\ kind' = [kind EXCEPT ![count + 1] = k]
    /\ node' = [node EXCEPT ![count + 1] = n]
    /\ status' = [status EXCEPT ![count + 1] = "pending"]
    /\ lost' = lost

\* Queue the removal of the app's copy on node n, unless n is NoNode.
QueueStop(n) ==
    /\ IF n = NoNode THEN UNCHANGED <<count, kind, node, status, lost>>
                     ELSE NewJob("stop", n)
    /\ byHand' = byHand

\* Deployer.Dispatch: the job, its deployment row, and the project pointing at it.
Deploy(n) ==
    /\ Cardinality({j \in Jobs : dep[j] # "none"}) < MaxDispatches
    /\ NewJob("deploy", n)
    /\ byHand' = byHand
    /\ dep' = [dep EXCEPT ![count + 1] = "pending"]
    /\ current' = count + 1

\* A deploy by CI, by hand, by a rollback or by the health checker.
Dispatch(n) ==
    /\ Calm /\ present
    /\ Deploy(n)
    /\ UNCHANGED <<present, home, image, state, handlerVars, agentVars, happened>>

\* JobService.Retry: a copy of a failed job, with no deployment row.
Retry(j) ==
    /\ Calm
    /\ status[j] = "failed"
    /\ Incident("retry")
    /\ NewJob(kind[j], node[j])
    /\ byHand' = byHand \cup {count + 1}
    /\ UNCHANGED <<dep, projectVars, handlerVars, agentVars>>

Waiting(n) == {j \in Created : node[j] = n /\ status[j] = "pending"}
Busy(n) == \E j \in Created \ lost : node[j] = n /\ status[j] = "running"

\* The node's agent gets the app's oldest job, unless one of them still runs
\* there; the answer may be lost on its way.
Claim(n, delivered) ==
    /\ Calm /\ ~Busy(n)
    /\ \E j \in Waiting(n) :
        /\ \A i \in Waiting(n) : j <= i
        /\ status' = [status EXCEPT ![j] = "running"]
        /\ IF delivered THEN executing' = executing \cup {j} /\ happened' = happened
                        ELSE Incident("lost claim") /\ executing' = executing
    /\ UNCHANGED <<count, kind, node, lost, byHand, dep, projectVars, handlerVars, report, copy>>

-----------------------------------------------------------------------------
(* What the agents do *)

\* What may be on node n after the script of job j ended this way: a deploy
\* that fails leaves the old container (the pull failed), none (the run did),
\* or its own one, that keeps crashing and being restarted.
After(j, outcome) ==
    IF outcome = "completed"
    THEN {IF kind[j] = "deploy" THEN j ELSE None}
    ELSE {copy[node[j]], None} \cup (IF kind[j] = "deploy" THEN {j} ELSE {})

Finish(j, outcome) ==
    /\ Calm /\ j \in executing
    /\ executing' = executing \ {j}
    /\ report' = [report EXCEPT ![j] = outcome]
    /\ \E c \in After(j, outcome) : copy' = [copy EXCEPT ![node[j]] = c]
    /\ UNCHANGED <<jobVars, dep, projectVars, handlerVars, happened>>

On(n) == {j \in Created : node[j] = n}

\* The agent's process, and what it ran, is gone; a new one registers.
AgentRestart(n) ==
    /\ Calm /\ Incident("agent restart")
    /\ \E c \in {copy[n]} \cup UNION {After(j, "failed") : j \in executing \cap On(n)} :
        copy' = [copy EXCEPT ![n] = c]
    /\ executing' = executing \ On(n)
    /\ report' = [j \in Jobs |-> IF j \in On(n) THEN "none" ELSE report[j]]
    /\ lost' = lost \cup {j \in On(n) : status[j] = "running"}
    /\ UNCHANGED <<count, kind, node, status, byHand, dep, projectVars, handlerVars>>

-----------------------------------------------------------------------------
(* Reports: JobService.Complete, and failStuckJobs with the same ending *)

Handle(j) == reporting' = IF kind[j] = "deploy" THEN [NotReporting EXCEPT !.job = j]
                                                ELSE reporting

\* Mutant: the body is not checked, and an empty status is saved.
CompleteUnchecked(j) ==
    /\ Calm /\ reporting.job = None
    /\ status[j] = "running"
    /\ status' = [status EXCEPT ![j] = report[j]]
    /\ Handle(j)
    /\ UNCHANGED <<count, kind, node, lost, byHand, dep, projectVars, editing, removing,
                   agentVars, happened>>

\* The outcome is saved on the job; what it means for the app comes next.
Complete(j) ==
    /\ Calm /\ reporting.job = None
    /\ report[j] # "none" /\ report[j] # status[j]
    /\ status' = [status EXCEPT ![j] = report[j]]
    /\ Handle(j)
    /\ UNCHANGED <<count, kind, node, lost, byHand, dep, projectVars, editing, removing,
                   agentVars, happened>>

\* The agent gets its answer: the first one, or, after the same report was
\* sent again, the one for a duplicate.
Answer(j) ==
    /\ Calm /\ report[j] # "none" /\ report[j] = status[j]
    /\ report' = [report EXCEPT ![j] = "none"]
    /\ UNCHANGED <<jobVars, dep, projectVars, handlerVars, executing, copy, happened>>

\* failStuckJobs: the job has been running for too long.
GiveUp(j) ==
    /\ Calm /\ reporting.job = None
    /\ status[j] = "running"
    /\ Incident("give up")
    /\ status' = [status EXCEPT ![j] = "failed"]
    /\ Handle(j)
    /\ UNCHANGED <<count, kind, node, lost, byHand, dep, projectVars, editing, removing, agentVars>>

\* completeDeploy, first half: the deployment row, then the project is read.
RecordDeployment ==
    LET j == reporting.job IN
    /\ j # None /\ ~reporting.read
    /\ dep' = IF dep[j] = "none" THEN dep ELSE [dep EXCEPT ![j] = status[j]]
    /\ reporting' = IF dep[j] # "none" /\ present
                    THEN [job |-> j, read |-> TRUE, row |-> TheRow]
                    ELSE NotReporting
    /\ UNCHANGED <<jobVars, projectVars, editing, removing, agentVars, happened>>

Succeeded == status[reporting.job] = "completed"
\* Mutant: an older deploy's report counts like the newest one's.
NeverSuperseded == FALSE

Superseded == reporting.row.current \notin {None, reporting.job}

\* Mutant: the copy is removed though the newer deploy is for this node too.
IgnoreAndRemove ==
    /\ reporting.read /\ Superseded
    /\ QueueStop(IF Succeeded THEN node[reporting.job] ELSE NoNode)
    /\ reporting' = NotReporting
    /\ UNCHANGED <<dep, projectVars, editing, removing, agentVars, happened>>

\* Mutant: a superseded deploy leaves its copy behind.
IgnoreAltogether ==
    /\ reporting.read /\ Superseded
    /\ reporting' = NotReporting
    /\ UNCHANGED <<jobVars, dep, projectVars, editing, removing, agentVars, happened>>

\* A newer deploy decides where the app runs.  What this one started is a
\* stray copy, unless the newer one is for the same node (removeStrayCopy).
Ignore ==
    LET here == node[reporting.job] IN
    /\ reporting.read /\ Superseded
    /\ QueueStop(IF Succeeded /\ node[reporting.row.current] # here THEN here ELSE NoNode)
    /\ reporting' = NotReporting
    /\ UNCHANGED <<dep, projectVars, editing, removing, agentVars, happened>>

RecordFailure ==
    /\ reporting.read /\ ~Superseded /\ ~Succeeded
    /\ state' = IF ~present THEN state ELSE IF reporting.row.home = NoNode THEN "failed" ELSE "running"
    /\ reporting' = NotReporting
    /\ UNCHANGED <<jobVars, dep, present, current, home, image, editing, removing, agentVars, happened>>

\* The app now runs here; the copy on the node it ran on before is removed.
RecordSuccess ==
    LET here == node[reporting.job] IN
    /\ reporting.read /\ ~Superseded /\ Succeeded
    /\ IF present
       THEN home' = here /\ image' = reporting.job /\ state' = "running"
       ELSE UNCHANGED <<home, image, state>>
    /\ QueueStop(IF reporting.row.home = here THEN NoNode ELSE reporting.row.home)
    /\ reporting' = NotReporting
    /\ UNCHANGED <<dep, present, current, editing, removing, agentVars, happened>>

-----------------------------------------------------------------------------
(* Editing and deleting the project *)

\* UpdateProject reads the row ...
EditRead ==
    /\ Calm /\ present /\ ~editing.on
    /\ editing' = [on |-> TRUE, row |-> TheRow]
    /\ UNCHANGED <<jobVars, dep, projectVars, reporting, removing, agentVars, happened>>

\* Where an app recorded as in row may be said to live without being moved.
Homes(row) == {row.home} \cup (IF row.home = NoNode \/ row.image = None THEN Nodes ELSE {})

\* ... and saves it whole: a row deleted meanwhile is inserted again (gorm's
\* Save).  An app that runs nowhere yet is given a node; one that has an image
\* is deployed again when it is to move or its configuration changed.
EditSave ==
    LET row == editing.row IN
    /\ editing.on
    /\ present' = TRUE
    /\ home' \in Homes(row) /\ image' = row.image /\ state' = row.state
    /\ \/ current' = row.current /\ UNCHANGED <<jobVars, dep>>
       \/ row.image # None /\ \E n \in Nodes : Deploy(n)
    /\ editing' = NotEditing
    /\ UNCHANGED <<reporting, removing, agentVars, happened>>

\* Mutant: the deploys a node has already started are forgotten.
ActivePendingOnly == {j \in Created : dep[j] # "none" /\ status[j] = "pending"}

\* Deploys that may still put a copy on their node.
Active == {j \in Created : dep[j] # "none" /\ status[j] \in {"pending", "running"}}

\* Deploys that have not started are cancelled, the row goes, and every node
\* that may have a copy is to be told.
DeleteProject ==
    /\ Calm /\ present
    /\ present' = FALSE /\ current' = None /\ home' = NoNode /\ image' = None /\ state' = "stopped"
    /\ removing' = {node[j] : j \in Active} \cup ({home} \ {NoNode})
    /\ status' = [j \in Jobs |-> IF j \in Active /\ status[j] = "pending"
                                 THEN "cancelled" ELSE status[j]]
    /\ UNCHANGED <<count, kind, node, lost, byHand, dep, reporting, editing, agentVars, happened>>

RemoveFrom(n) ==
    /\ n \in removing
    /\ removing' = removing \ {n}
    /\ QueueStop(n)
    /\ UNCHANGED <<dep, projectVars, reporting, editing, agentVars, happened>>

\* The Hub stops and starts again: what it was handling ends where it was.
HubStop ==
    /\ Incident("Hub stop")
    /\ reporting' = NotReporting
    /\ editing' = NotEditing
    /\ removing' = {}
    /\ UNCHANGED <<jobVars, dep, projectVars, agentVars>>

-----------------------------------------------------------------------------
Next ==
    \/ \E n \in Nodes : Dispatch(n)
    \/ \E j \in Jobs : Retry(j)
    \/ \E n \in Nodes, delivered \in BOOLEAN : Claim(n, delivered)
    \/ \E j \in Jobs, outcome \in Outcomes : Finish(j, outcome)
    \/ \E n \in Nodes : AgentRestart(n)
    \/ \E j \in Jobs : Complete(j)
    \/ \E j \in Jobs : Answer(j)
    \/ \E j \in Jobs : GiveUp(j)
    \/ RecordDeployment
    \/ Ignore
    \/ RecordFailure
    \/ RecordSuccess
    \/ EditRead
    \/ EditSave
    \/ DeleteProject
    \/ \E n \in Nodes : RemoveFrom(n)
    \/ HubStop

Spec == Init /\ [][Next]_vars

-----------------------------------------------------------------------------
(* Properties *)

\* The removals the Hub queued by itself that may still be carried out: not
\* yet claimed, or running with the Hub still waiting for their report.
DueRemovals(n) ==
    {j \in Created \ byHand : /\ kind[j] = "stop" /\ node[j] = n
                              /\ \/ status[j] = "pending"
                                 \/ status[j] = "running" /\ j \in executing}

\* Once the newest deploy of the app has started on its node, no removal the
\* Hub queued earlier, nor one it queues later for an older deploy, can take
\* the app down there (completeDeploy, removeStrayCopy).
LatestCopyKept ==
    present /\ current # None /\ status[current] \in {"running", "completed"}
        => DueRemovals(node[current]) = {}

\* Until a newer deploy is up, the copy the project is recorded to run stays:
\* "the project keeps pointing at its current node until the new container
\* runs" (project_service.go), "The copy on %s keeps running." (completeDeploy).
RecordedCopyKept == present /\ image \in Jobs => DueRemovals(home) = {}

\* A deployment waits only while its job may still be reported: its record is
\* decided by the report or by the sweeper, and a second report of the same
\* outcome may be dropped because the first was acted on.
RecordFollowsJob ==
    \A j \in Created :
        present /\ dep[j] = "pending" /\ reporting.job # j
            => status[j] \in {"pending", "running"}

\* The image the project says it runs is never replaced by an older deploy's.
NoReversion == [][present' /\ image' # image => image' > image]_vars

Quiet ==
    /\ reporting = NotReporting /\ editing = NotEditing /\ removing = {}
    /\ executing = {} /\ \A j \in Created : report[j] = "none"
    /\ \A j \in Created : status[j] \in {"completed", "cancelled"}

\* Nothing failed, and nobody gave up on or repeated a job.
Undisturbed == Quiet /\ happened \cap {"retry", "give up", "Hub stop"} = {}

\* However many deploys overtook each other, when all of them have succeeded
\* and the queues are empty the app runs exactly once: the newest deploy, on
\* the node and with the image the project records.
ConvergesWhenAllSucceed ==
    Undisturbed /\ present /\ current # None
        => /\ home = node[current] /\ image = current
           /\ copy = [n \in Nodes |-> IF n = home THEN current ELSE None]

\* Deleting a project leaves no copy of it on any node, wherever its deploys
\* had got to ("every node that may run a copy ... is told to remove it").
DeletedLeavesNothing == Undisturbed /\ ~present => copy = [n \in Nodes |-> None]
=============================================================================
