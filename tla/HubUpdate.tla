----------------------------- MODULE HubUpdate ------------------------------
(***************************************************************************)
(* Updating the Hub from the dashboard: UpdateService looks for releases,  *)
(* lets one update run at a time, lets it wait for the jobs that a restart *)
(* would disturb (JobsInFlight), and hands it to the helper script, whose  *)
(* installer restarts the Hub.  What UpdateService knows is in memory.     *)
(*                                                                         *)
(* Releases are numbered in the order of their versions (newerVersion); 0  *)
(* is no release.                                                          *)
(***************************************************************************)
EXTENDS Integers, FiniteSets

CONSTANTS
    Presses,    \* requests to update
    Tasks,      \* jobs
    Patience,   \* upgradePatience, in looks at the jobs
    MaxRelease, \* bound: releases published
    MaxRestarts \* bound: restarts of the Hub, and of the agent

ASSUME UpdateAssumption == /\ {Patience, MaxRelease} \subseteq Nat \ {0}
                           /\ MaxRestarts \in Nat

VARIABLES
    release,    \* the newest release published
    hub,        \* the running Hub: its version, and latest, announced and upgrading in memory
    looks,      \* releases that checks under way have read from GitHub
    press,      \* of each request to update: how far it has come, and which release it took
    patience,   \* looks at the jobs left to the update that waits
    installer,  \* the release the upgrade unit is installing, 0 when it is not running
    task,       \* each job: in line, running, left behind by an agent that restarted, or none
    reachable,  \* the jobs' node is online
    restarts    \* of the Hub and of the agent so far

updateVars == <<release, hub, looks, press, patience, installer, task, reachable, restarts>>

JustStarted(v) == [version |-> v, latest |-> 0, announced |-> 0, upgrading |-> 0]

UpdateTypeOK ==
    /\ release \in 1 .. MaxRelease
    /\ hub \in [version : 1 .. MaxRelease, latest : 0 .. MaxRelease,
                announced : 0 .. MaxRelease, upgrading : 0 .. MaxRelease]
    /\ looks \subseteq 1 .. MaxRelease
    /\ press \in [Presses -> [step : {"away", "taken", "waiting", "starting"}, target : 0 .. MaxRelease]]
    /\ patience \in 0 .. Patience /\ installer \in 0 .. MaxRelease
    /\ task \in [Tasks -> {"none", "in line", "running", "left behind", "log stream"}]
    /\ reachable \in BOOLEAN /\ restarts \in 0 .. MaxRestarts

-----------------------------------------------------------------------------
(* The jobs, as far as an update looks at them.                              *)

\* JobsInFlight: in line or running on an online node, without the log streams and
\* without those an earlier agent process left running.
InFlight == IF reachable THEN {t \in Tasks : task[t] \in {"in line", "running"}} ELSE {}

TaskComes(t) ==
    /\ task[t] = "none" /\ \E k \in {"in line", "log stream"} : task' = [task EXCEPT ![t] = k]
    /\ UNCHANGED <<release, hub, looks, press, patience, installer, reachable, restarts>>

TaskStarts(t) ==
    /\ task[t] = "in line" /\ reachable /\ task' = [task EXCEPT ![t] = "running"]
    /\ UNCHANGED <<release, hub, looks, press, patience, installer, reachable, restarts>>

TaskEnds(t) ==
    /\ task[t] # "none" /\ task' = [task EXCEPT ![t] = "none"]
    /\ UNCHANGED <<release, hub, looks, press, patience, installer, reachable, restarts>>

\* The node goes, or it is back with a new agent process.
NodeGoes ==
    /\ reachable /\ reachable' = FALSE
    /\ UNCHANGED <<release, hub, looks, press, patience, installer, task, restarts>>

NodeIsBack ==
    /\ ~reachable /\ restarts < MaxRestarts /\ reachable' = TRUE /\ restarts' = restarts + 1
    /\ task' = [t \in Tasks |-> IF task[t] = "running" THEN "left behind" ELSE task[t]]
    /\ UNCHANGED <<release, hub, looks, press, patience, installer>>

-----------------------------------------------------------------------------
(* Looking for releases.                                                     *)

Publish ==
    /\ release < MaxRelease /\ release' = release + 1
    /\ UNCHANGED <<hub, looks, press, patience, installer, task, reachable, restarts>>

\* check: the hourly one and a person's may be under way at once, and the one that
\* read first may write last.
ReadRelease ==
    /\ looks' = looks \cup {release}
    /\ UNCHANGED <<release, hub, press, patience, installer, task, reachable, restarts>>

WriteRelease(r) ==
    /\ r \in looks /\ looks' = looks \ {r}
    /\ hub' = [hub EXCEPT !.latest = r, !.announced = IF r > hub.version THEN r ELSE @]
    /\ UNCHANGED <<release, press, patience, installer, task, reachable, restarts>>

-----------------------------------------------------------------------------
(* Update.                                                                   *)

\* Mutant: a second update may be begun.
MayTakeTwice == hub.latest > hub.version

\* The guard is passed and upgrading is set in one hold of the lock.
MayTake == hub.latest > hub.version /\ hub.upgrading = 0

Take(p) ==
    /\ press[p].step = "away" /\ MayTake
    /\ hub' = [hub EXCEPT !.upgrading = hub.latest]
    /\ press' = [press EXCEPT ![p] = [step |-> "taken", target |-> hub.latest]]
    /\ UNCHANGED <<release, looks, patience, installer, task, reachable, restarts>>

\* Jobs are under way: answer now and wait for them in the background.
WaitForJobs(p) ==
    /\ press[p].step = "taken" /\ InFlight # {}
    /\ press' = [press EXCEPT ![p].step = "waiting"] /\ patience' = Patience
    /\ UNCHANGED <<release, hub, looks, installer, task, reachable, restarts>>

\* None are, or the person said now.
GoAhead(p) ==
    /\ press[p].step = "taken" /\ press' = [press EXCEPT ![p].step = "starting"]
    /\ UNCHANGED <<release, hub, looks, patience, installer, task, reachable, restarts>>

\* Mutant: it waits for as long as there are jobs.
IdleNow == InFlight = {}

\* upgradeWhenIdle looks at the jobs: it starts when there are none or time is up.
IdleOrLate == InFlight = {} \/ patience = 0

LookAtJobs(p) ==
    /\ press[p].step = "waiting"
    /\ \/ IdleOrLate /\ press' = [press EXCEPT ![p].step = "starting"] /\ UNCHANGED patience
       \/ ~IdleOrLate /\ patience' = (IF patience = 0 THEN 0 ELSE patience - 1) /\ UNCHANGED press
    /\ UNCHANGED <<release, hub, looks, installer, task, reachable, restarts>>

\* startUpgrade: the helper starts the upgrade unit unless it is running, and both count
\* as started; or it cannot, and upgrading is taken back.
StartUpgrade(p) ==
    /\ press[p].step = "starting" /\ press' = [press EXCEPT ![p].step = "away"]
    /\ \/ installer' = (IF installer = 0 THEN press[p].target ELSE installer) /\ UNCHANGED hub
       \/ hub' = [hub EXCEPT !.upgrading = 0] /\ UNCHANGED installer
    /\ UNCHANGED <<release, looks, patience, task, reachable, restarts>>

\* The installer gives up before it has restarted the Hub: the Hub does not learn of it.
InstallFails ==
    /\ installer # 0 /\ installer' = 0
    /\ UNCHANGED <<release, hub, looks, press, patience, task, reachable, restarts>>

\* The process is replaced, with everything it kept in memory.
Restarted(v) ==
    /\ hub' = JustStarted(v) /\ looks' = {} /\ patience' = 0
    /\ press' = [p \in Presses |-> [step |-> "away", target |-> 0]]

Installed ==
    /\ installer # 0 /\ Restarted(installer) /\ installer' = 0
    /\ UNCHANGED <<release, task, reachable, restarts>>

HubRestarts ==
    /\ restarts < MaxRestarts /\ restarts' = restarts + 1 /\ Restarted(hub.version)
    /\ UNCHANGED <<release, installer, task, reachable>>

UpdateInit ==
    /\ release = 1 /\ hub = JustStarted(1) /\ looks = {} /\ installer = 0 /\ patience = 0
    /\ press = [p \in Presses |-> [step |-> "away", target |-> 0]]
    /\ task = [t \in Tasks |-> "none"] /\ reachable = TRUE /\ restarts = 0

UpdateNext ==
    \/ \E t \in Tasks : TaskComes(t) \/ TaskStarts(t) \/ TaskEnds(t)
    \/ NodeGoes \/ NodeIsBack
    \/ Publish \/ ReadRelease \/ \E r \in looks : WriteRelease(r)
    \/ \E p \in Presses : Take(p) \/ WaitForJobs(p) \/ GoAhead(p) \/ LookAtJobs(p) \/ StartUpgrade(p)
    \/ InstallFails \/ Installed \/ HubRestarts

UpdateSpec == /\ UpdateInit /\ [][UpdateNext]_updateVars
              /\ WF_updateVars(\E p \in Presses : LookAtJobs(p))

-----------------------------------------------------------------------------

Going(p) == press[p].step # "away"

\* Two people who press Update at once start one update: of the requests that go on past
\* the lock there is one at most, and while it goes on upgrading names what it installs.
OneUpdateAtATime ==
    \A p, q \in Presses : Going(p) /\ Going(q) => p = q /\ hub.upgrading = press[p].target

\* An update that waits for jobs does not wait for good, whatever jobs keep coming or never end.
UpdateGoesAhead == (\E p \in Presses : press[p].step = "waiting") ~> (\A p \in Presses : press[p].step # "waiting")
=============================================================================
