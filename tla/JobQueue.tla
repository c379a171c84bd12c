------------------------------ MODULE JobQueue ------------------------------
(***************************************************************************)
(* The job queue of one node (internal/services/job_service.go): jobs are  *)
(* created by the API, claimed by the node's agent over HTTP, reported     *)
(* back by it, retried by people and written off by the Hub's sweeper.     *)
(*                                                                         *)
(* A job is named by its rank in creation order, so i < j says that job i  *)
(* has the older created_at.  Each claim request reads the running and the *)
(* pending jobs first and updates one row afterwards, with everything else *)
(* free to happen in between; so does the sweeper, which saves whole rows  *)
(* it read earlier.  Time is abstracted: any job that runs may be found    *)
(* overdue, any interactive job that waits may be found stale.             *)
(***************************************************************************)
EXTENDS Integers, FiniteSets

CONSTANTS
    MaxJobs,       \* bound: how many jobs are ever created
    Scopes,        \* the scopes jobs may have, "app:<id>" and "container:<name>"
    NoScope,       \* the empty scope: the job runs alone
    Kinds,         \* the [type, scope] pairs that are created
    Limit,         \* node.JobLimit()
    ClaimWindow,   \* how many of the oldest pending jobs a claim looks at (100)
    Requests,      \* claim requests the Hub may be handling at once
    MaxRestarts    \* bound: how often the agent restarts

Types == {"work", "interactive", "logs_follow"}

ASSUME BoundsAssumption == MaxJobs \in Nat /\ MaxRestarts \in Nat
ASSUME LimitAssumption == Limit \in Nat \ {0} /\ ClaimWindow \in Nat \ {0}
ASSUME ScopeAssumption == NoScope \notin Scopes
ASSUME KindsAssumption == Kinds \subseteq [type : Types, scope : Scopes \cup {NoScope}]

Jobs == 1 .. MaxJobs
Incarnations == 0 .. MaxRestarts
Never == -1      \* started_at IS NULL
Outcomes == {"completed", "failed"}
Statuses == {"none", "pending", "running", "cancelled"} \cup Outcomes

VARIABLES
    type,          \* type[j]: what kind of job, fixed when it is created
    scope,         \* scope[j]: the scope it works on
    status,        \* status[j], "none" until it is created
    started,       \* started[j]: the agent incarnation it was handed to (started_at)
    count,         \* how many jobs were created
    incarnation,   \* registrations of the agent so far (agent_started_at)
    claim,         \* claim[r]: what claim request r has read and not used yet
    sweep,         \* the rows the sweeper has read and not saved yet
    executing,     \* jobs the agent's process is running
    report         \* report[j]: the outcome the agent still has to get through

jobVars == <<type, scope, status, started, count>>
agentVars == <<incarnation, executing, report>>
vars == <<jobVars, agentVars, claim, sweep>>

Idle == [cands |-> {}, inc |-> 0]

Created == 1 .. count

\* Every variable has its type, and whatever the agent, a claim or the sweeper
\* still holds is a job that exists: none of them brings a row to life.
TypeOK ==
    /\ count \in 0 .. MaxJobs
    /\ type \in [Jobs -> Types]
    /\ scope \in [Jobs -> Scopes \cup {NoScope}]
    /\ status \in [Jobs -> Statuses]
    /\ \A j \in Jobs : status[j] # "none" <=> j \in Created
    /\ started \in [Jobs -> Incarnations \cup {Never}]
    /\ incarnation \in Incarnations
    /\ claim \in [Requests -> [cands : SUBSET Created, inc : Incarnations]]
    /\ sweep \in [as : {"failed", "cancelled"}, left : SUBSET Created]
    /\ executing \in SUBSET Created
    /\ report \in [Jobs -> Outcomes \cup {"none"}]
    /\ \A j \in Jobs : report[j] # "none" => j \in Created

Init ==
    /\ type = [j \in Jobs |-> "work"]
    /\ scope = [j \in Jobs |-> NoScope]
    /\ status = [j \in Jobs |-> "none"]
    /\ started = [j \in Jobs |-> Never]
    /\ count = 0
    /\ incarnation = 0
    /\ claim = [r \in Requests |-> Idle]
    /\ sweep = [as |-> "failed", left |-> {}]
    /\ executing = {}
    /\ report = [j \in Jobs |-> "none"]

-----------------------------------------------------------------------------
(* Creating jobs *)

\* A new pending row of this kind; every caller of db.Create(job).
NewJob(kind) ==
    /\ count < MaxJobs
    /\ count' = count + 1
    /\ type' = [type EXCEPT ![count + 1] = kind.type]
    /\ scope' = [scope EXCEPT ![count + 1] = kind.scope]
    /\ status' = [status EXCEPT ![count + 1] = "pending"]
    /\ UNCHANGED <<started, agentVars, claim, sweep>>

Create == \E kind \in Kinds : NewJob(kind)

\* Only a failed job can be retried; the copy keeps its type and scope.
Retry(j) ==
    /\ status[j] = "failed"
    /\ NewJob([type |-> type[j], scope |-> scope[j]])

-----------------------------------------------------------------------------
(* Claiming: nextJob *)

Streams(j) == type[j] = "logs_follow"

\* The jobs that count as running: not a log stream, and not left behind by
\* an agent process that has registered again since.
Running == {j \in Jobs : /\ status[j] = "running"
                         /\ ~Streams(j)
                         /\ started[j] >= incarnation}

Pending == {j \in Jobs : status[j] = "pending"}

\* The pending jobs a claim looks at: the oldest ClaimWindow of them.
Window == {j \in Pending : Cardinality({i \in Pending : i < j}) < ClaimWindow}

Busy == {scope[j] : j \in Running}

\* Mutant: one job too many, > for >=.
FullLate == NoScope \in Busy \/ Cardinality(Running) > Limit

\* Nothing but log streams may start now.
Full == NoScope \in Busy \/ Cardinality(Running) >= Limit

\* Mutant: a job that cannot start is skipped like any other.
HoldsUpNothing(i, room) == FALSE

\* Job i must start before any younger one: it needs the idle node, or more
\* free memory or load than the node has (room is roomForAnotherJob).
HoldsUpQueue(i, room) ==
    /\ ~Streams(i) /\ ~Full /\ Running # {}
    /\ scope[i] = NoScope \/ (scope[i] \notin Busy /\ ~room)

\* Mutant: the scopes in use are not looked at.
MayStartAnyScope(j, room) ==
    \/ Streams(j)
    \/ /\ ~Full
       /\ Running # {} => scope[j] # NoScope /\ room
       /\ \A i \in Window : i < j => ~HoldsUpQueue(i, room)

\* Mutant: a job without a scope waits for company that never comes.
MayStartScoped(j, room) ==
    \/ Streams(j)
    \/ /\ ~Full /\ scope[j] # NoScope
       /\ Running # {} => scope[j] \notin Busy /\ room

MayStart(j, room) ==
    \/ Streams(j)
    \/ /\ ~Full
       /\ Running # {} => scope[j] # NoScope /\ scope[j] \notin Busy /\ room
       /\ \A i \in Window : i < j => ~HoldsUpQueue(i, room)

Candidates(room) == {j \in Window : MayStart(j, room)}

\* The request reads the node's row, its running jobs and its pending jobs.
ClaimRead(r, room) ==
    /\ claim[r].cands = {}
    /\ Candidates(room) # {}
    /\ claim' = [claim EXCEPT ![r] = [cands |-> Candidates(room), inc |-> incarnation]]
    /\ UNCHANGED <<jobVars, agentVars, sweep>>

\* The candidates nobody else has claimed or cancelled meanwhile: for the
\* others the conditional update affects no row and the loop goes on.
Claimable(r) == {j \in claim[r].cands : status[j] = "pending"}

\* The oldest of them becomes running.  The answer reaches the agent only if
\* the process that asked is still there, and may be lost even then.
ClaimWrite(r, delivered) ==
    \E j \in Claimable(r) :
        /\ \A i \in Claimable(r) : j <= i
        /\ delivered => claim[r].inc = incarnation
        /\ status' = [status EXCEPT ![j] = "running"]
        /\ started' = [started EXCEPT ![j] = claim[r].inc]
        /\ claim' = [claim EXCEPT ![r] = Idle]
        /\ executing' = IF delivered THEN executing \cup {j} ELSE executing
        /\ UNCHANGED <<type, scope, count, incarnation, report, sweep>>

\* Every candidate was taken or cancelled: the agent gets no job.
ClaimNothing(r) ==
    /\ claim[r].cands # {}
    /\ Claimable(r) = {}
    /\ claim' = [claim EXCEPT ![r] = Idle]
    /\ UNCHANGED <<jobVars, agentVars, sweep>>

-----------------------------------------------------------------------------
(* The agent, as far as the Hub can tell, and Complete *)

\* A job ends on the node; the agent has to report it.
Finish(j, outcome) ==
    /\ j \in executing
    /\ executing' = executing \ {j}
    /\ report' = [report EXCEPT ![j] = outcome]
    /\ UNCHANGED <<jobVars, incarnation, claim, sweep>>

\* completed_at is set, and to this very status.
Duplicate(j) == status[j] = report[j]

\* Mutant: the body is not checked, and an empty status is saved.
CompleteUnchecked(j, answered) ==
    /\ status[j] = "running"
    /\ status' = [status EXCEPT ![j] = report[j]]
    /\ report' = IF answered THEN [report EXCEPT ![j] = "none"] ELSE report
    /\ UNCHANGED <<type, scope, started, count, incarnation, executing, claim, sweep>>

\* The Hub takes a report.  When its answer is lost the agent reports again.
Complete(j, answered) ==
    /\ report[j] # "none"
    /\ status' = IF Duplicate(j) THEN status ELSE [status EXCEPT ![j] = report[j]]
    /\ report' = IF answered THEN [report EXCEPT ![j] = "none"] ELSE report
    /\ UNCHANGED <<type, scope, started, count, incarnation, executing, claim, sweep>>

\* The agent's process is gone with what it ran; a new one registers.
Register ==
    /\ incarnation < MaxRestarts
    /\ incarnation' = incarnation + 1
    /\ executing' = {}
    /\ report' = [j \in Jobs |-> "none"]
    /\ UNCHANGED <<jobVars, claim, sweep>>

-----------------------------------------------------------------------------
(* StartStuckJobSweeper: failStuckJobs, then cancelStaleInteractiveJobs *)

FindStuck(some) ==
    /\ sweep.left = {}
    /\ some # {}
    /\ \A j \in some : status[j] = "running"
    /\ sweep' = [as |-> "failed", left |-> some]
    /\ UNCHANGED <<jobVars, agentVars, claim>>

FindStale(some) ==
    /\ sweep.left = {}
    /\ some # {}
    /\ \A j \in some : status[j] = "pending" /\ type[j] \in {"interactive", "logs_follow"}
    /\ sweep' = [as |-> "cancelled", left |-> some]
    /\ UNCHANGED <<jobVars, agentVars, claim>>

\* The whole row is saved as it was read, with the new status: a job claimed
\* or reported since then is overwritten.
SweepSave(j) ==
    /\ j \in sweep.left
    /\ status' = [status EXCEPT ![j] = sweep.as]
    /\ started' = IF sweep.as = "cancelled" THEN [started EXCEPT ![j] = Never] ELSE started
    /\ sweep' = [as |-> sweep.as, left |-> sweep.left \ {j}]
    /\ UNCHANGED <<type, scope, count, agentVars, claim>>

-----------------------------------------------------------------------------
Next ==
    \/ Create
    \/ \E j \in Jobs : Retry(j)
    \/ \E r \in Requests, room \in BOOLEAN : ClaimRead(r, room)
    \/ \E r \in Requests, delivered \in BOOLEAN : ClaimWrite(r, delivered)
    \/ \E r \in Requests : ClaimNothing(r)
    \/ \E j \in Jobs, outcome \in Outcomes : Finish(j, outcome)
    \/ \E j \in Jobs, answered \in BOOLEAN : Complete(j, answered)
    \/ Register
    \/ \E some \in SUBSET Jobs : FindStuck(some)
    \/ \E some \in SUBSET Jobs : FindStale(some)
    \/ \E j \in Jobs : SweepSave(j)

Spec == Init /\ [][Next]_vars

\* The agent keeps polling (a node short of memory or CPU may keep refusing a
\* second job, so only claims that need no room are promised), the Hub finishes
\* the requests it started, and the sweeper runs every minute and finds every
\* overdue job.  Nothing is promised of the agent's reports.
Fairness ==
    /\ \A r \in Requests : /\ WF_vars(ClaimRead(r, FALSE))
                           /\ WF_vars(\E delivered \in BOOLEAN : ClaimWrite(r, delivered))
                           /\ WF_vars(ClaimNothing(r))
    /\ \A j \in Jobs : /\ SF_vars(\E some \in SUBSET Jobs : j \in some /\ FindStuck(some))
                       /\ WF_vars(SweepSave(j))

FairSpec == Spec /\ Fairness

-----------------------------------------------------------------------------
(* Properties *)

\* Two running jobs of the live agent never share a scope, a job without one
\* runs alone, and no more than Limit run (nextJob, job_service.go:118-120).
NoOverlap ==
    /\ \A i, j \in Running : i # j => /\ scope[i] # scope[j]
                                      /\ scope[i] # NoScope
    /\ Cardinality(Running) <= Limit

\* No job but a log stream starts while an older one of its own scope, or an
\* older one that needs the whole node, still waits: the removal of an app's
\* old copy that was queued first can never hit the copy deployed after it.
Starts(j) == status[j] = "pending" /\ status'[j] = "running" /\ ~Streams(j)
NoOvertaking ==
    [][\A i, j \in Jobs : i < j /\ status[i] = "pending" /\ Starts(j)
                          => scope[i] \notin {scope[j], NoScope}]_vars

\* Every waiting job is started or cancelled in the end, whatever the agent
\* fails to report and whichever answers are lost: a scope taken by a job
\* nobody runs, or a queue held up by a job that needs the idle node, is freed.
NoStarvation == \A j \in Jobs : status[j] = "pending" ~> status[j] # "pending"

\* The queue keeps the promise of ScopeLocks: the running jobs hold the locks.
Locking == INSTANCE ScopeLocks
    WITH held <- {[job |-> j, scope |-> scope[j]] : j \in Running}
KeepsLocks == Locking!Spec
=============================================================================
