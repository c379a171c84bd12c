# ASDL Hub: specification, model checking and proofs

ASDL Hub runs apps on the machines of its owner. One Go process, the Hub, keeps
all state in PostgreSQL; each machine (a *node*) runs an agent that polls the
Hub over a private network for *jobs* and reports how they ended. CI, people,
and the Hub's own background loops dispatch deploys; the Hub decides where each
app runs, moves it when a node is lost, and cleans up the copies left behind.

This directory specifies that behaviour in TLA+, checks it with TLC on small
instances, and proves the central theorems with TLAPS for all instances. Paths
below are relative to `src/internal` unless they start with `src/`; `[n]`
refers to an entry of the inventory.

## Files

| File | What it is |
|---|---|
| `ScopeLocks.tla` | abstract specification: what a node's job queue promises |
| `JobQueue.tla` | the job queue of one node, and its agent |
| `JobQueueProofs.tla` | theorems about it, with the refinement of `ScopeLocks` |
| `Deployments.tla` | one app across the nodes: deploys, reports, removals, edits, deletion |
| `DeploymentsProofs.tla` | theorems about it |
| `NodeRegistry.tla` | one node as the Hub knows it: heartbeats, maintenance, removal, outages |
| `NodeRegistryProofs.tla` | theorems about it |
| `Failover.tla` | where one app runs and who moves it: health checker, rollbacks, migrations |
| `FailoverProofs.tla` | theorems about it |
| `Routes.tla` | how a request reaches an app: places, ports, public plugins, nginx |
| `RoutesProofs.tla` | theorems about it |
| `Snapshots.tla` | a plugin's data on two nodes and its copies on the Hub |
| `JobLogs.tla` | the live output of one job and its watchers |
| `HubUpdate.tla` | updating the Hub while jobs run |
| `LoginLimiter.tla` | how often a wrong password may be tried |
| `ServicesProofs.tla` | theorems about the four above, and about them and `Routes` together |
| `Accounts.tla` | accounts, second factor, sessions |
| `CliLogins.tla` | signing the command line in, its tokens and their roles |
| `Passkeys.tla` | passkey ceremonies |
| `SignInProofs.tla` | theorems about the three above, and about them and `Enrollment` together |
| `Enrollment.tla` | how a machine becomes a node, and stops being one |
| `EnrollmentProofs.tla` | theorems about it |
| `MCJobQueue.tla`, `MCDeployments.tla`, `MCNodeRegistry.tla`, `MCFailover.tla` | constants for TLC |
| `MCServices.tla`, `MCSignIn.tla` | the parts that share no state, put side by side for TLC |
| `*.cfg` | one configuration per run, described under [Runs](#runs) |
| `PROJECT.json` | components, runs, the source lines of every definition, findings, hazards, theorems |

To repeat a run: `tlc -config JobQueue.cfg MCJobQueue.tla`. To repeat the
proofs: `tlapm JobQueueProofs.tla`.

## Inventory

State is in database rows unless stated otherwise. HTTP handlers run
concurrently, one goroutine per request, and there are almost no transactions:
a handler reads rows, decides, and writes rows later, either single columns
(`Updates`) or the whole row it read (`Save`). Beside the handlers run the loops
started in `src/cmd/hub/main.go:153-245`.

| # | Component | State | Operations | Talks to |
|---|---|---|---|---|
| 1 | Job queue, `services/job_service.go` | jobs: node, type, scope, status, started_at | Create, Claim (`nextJob`), Complete, Retry; loops `failStuckJobs` and `cancelStaleInteractiveJobs` every minute | agents over HTTP; 2 on completion; 7 settles its migration |
| 2 | Deploys, `services/deployer.go`, `deploy_command.go`, `completeDeploy` in 1 | deployments (one per dispatch), project.deployment_id/node_id/image | Dispatch, completeDeploy, removeStrayCopy | 1 queues the script, 11 last snapshot on a move |
| 3 | Projects, `services/project_service.go` | projects | CreateProject, UpdateProject, UpdateProjectStatus, Redeploy, DeleteProject | 2 |
| 4 | CI deploys, `api/handlers/deploy_handler.go` | OIDC deployments, allowed repositories | Deploy, findOrCreateProject, targetNode | 2, 10 |
| 5 | Health checker, `services/health_service.go` | project.status/health_status; in memory: failure counts, restarts, cool-downs | checkAllProjects every 10 s, handleUnhealthyProject, restartInPlace, recoverFailed, retryFailover | 2, 6, 7, 8 |
| 6 | Rollback, `services/rollback.go` | reads deployments | tryRollback, Rollback | 2 |
| 7 | Migrations, `services/migration_service.go` | migrations | MigrateToNode, startMigration, EnforceMasterNode (60 s), cleanupStuckMigrations (15 s) | 1, 2 |
| 8 | Node registry, `services/node_service.go`, outages, uptime, samples | nodes, outages | Register, Heartbeat, sweepOffline (15 s), Remove, GoingAway | 1 reads agent_started_at and load; 5 reads online |
| 9 | Maintenance, `services/maintenance_service.go`, `container_service.go` | node.maintenance | SetMaintenance, moving apps away, container restarts | 2, 7, 1 |
| 10 | Placement, `services/placement.go` | none | choose a node | read by 5, 9 |
| 11 | Plugin snapshots, `services/snapshots.go` | snapshots with a generation | store, Meta (waits up to 90 s), scheduler every 30 s, trim | 1, 2 |
| 12 | Job logs, `services/job_logs.go` | in memory: live text, followers | Append with offsets, Finish, Subscribe | 1 |
| 13 | Sign-in, `services/auth_service.go`, sessions, two-factor, passkeys, CLI login, login limit | users, sessions, codes; in memory: pending logins, counters | | |
| 14 | Enrollment, `services/enrollment_service.go`, `wireguard_service.go` | one-time tokens, peers, addresses | Enroll, Rollback | 8 |
| 15 | Updates of the Hub, `services/update_service.go` | in memory: upgrading | Upgrade waits for jobs in flight | 1 |
| 16 | nginx routes and ports, `services/nginx_service.go`, `placement.go`, `deploy_command.go` | project.domain/route_path/ports, the plugins' ports; nginx's configuration and certificates | UpdateNginxConfig after every change of a row, preferredHostPort | reads 2, 3, 17 |
| 17 | Plugins, `services/plugin_service.go`, `plugins.go` | attachments with their settings, place and port | Attach, Update, Detach | 2, 16 |
| 18 | Notifications, status page, terminal, CLI, dashboard, scripts | | | clients or output |

What is hard, and what makes each component correct:

* **[1]** Two requests of one node interleave; a claim's answer is lost after the
  row says running; a report arrives twice, or after the sweeper gave the job
  up; the agent restarts and forgets; the sweeper saves rows it read earlier.
  Correct means: jobs of one app never overlap or overtake each other, a job
  without a scope runs alone, the limit holds, and nothing waits forever.
* **[2, 3]** Deploys of one app to different nodes overtake each other, and each
  report decides by itself whether its copy is the app, a stray copy, or already
  replaced; edits and a deletion fall in between; the Hub may stop between the
  writes of one handler. Correct means: one copy in the end, the newest, where
  the project says; none after a deletion; no old image put back; no removal
  that hits the copy in use.
* **[4, 6]** Rows created in an order a quick report can overtake; a rollback
  refused, or repeated, because of a record that was never decided.
* **[5, 7, 9]** Several actors move one app; decisions are made on checks that are
  seconds old; migrations are given up while their job still runs. Correct
  means: at most one move in flight, a lost node's app comes up somewhere, a
  rollback is never undone by a failover.
* **[8]** Register, Heartbeat, sweeper and maintenance all write one row they
  read earlier. Correct means: no write of another is undone, an outage opened
  is closed, a removed node stays removed.
* **[11]** Two snapshots take one generation; a move restores older data than the
  old node sends. **[12]** Repeated chunks, followers that miss the end.
  **[13, 14]** Tokens and codes used twice at once, two nodes on one address.
  **[15]** A flag nobody clears.
* **[16, 17]** Each change of a row starts an update of the routes in a goroutine of
  its own; the port a container got is known only from the deploy's log, and
  recorded in another write than its node. Correct means: once all is quiet nginx
  serves what the rows say, and what it sends for a domain reaches the container
  of the app that has it.

`PROJECT.json` lists the hazards one by one at their lines, with the property
that covers each or the reason why none does yet.

## Plan

Done:

1. `ScopeLocks`, `JobQueue`, `JobQueueProofs` [1].
2. `Deployments`, `DeploymentsProofs` [2, 3, and what 4, 6 and 7 dispatch]. It uses
   of the queue only what `JobQueue` proves: jobs of one scope on one node run one
   at a time and in order. The same is used by `Snapshots` and `Routes`.
3. `NodeRegistry`, `NodeRegistryProofs` [8, and the row 9 writes].
4. `Failover` [5, 6, 7, 9, 10], beside `Deployments`: there every deploy may come
   from anywhere, here it is said who begins which one and why, and a report is
   one step.
5. `Snapshots` [11], `JobLogs` [12], `HubUpdate` [15], `Routes` [16, 17].
6. `Accounts`, `CliLogins`, `Passkeys`, `LoginLimiter` [13], `Enrollment` [14].
7. The proofs: `FailoverProofs`, `EnrollmentProofs`, `SignInProofs`, `RoutesProofs`
   and `ServicesProofs`. With them every invariant and every action property of the
   passing runs is a theorem; the four liveness properties stay with TLC.

Next: abstract specifications with a proof that the component implements them, as
`ScopeLocks` for `JobQueue`, for `Failover` (an app is placed on one node, or is on
its way from one to another), `Enrollment` (an address belongs to one node or to
none) and `HubUpdate` (one update at a time). Two hazards have
no property that holds: a stop of the Hub between saving a job and its deployment
(`job_service.go:229`) is an action of `Deployments` and breaks `RecordFollowsJob`, see
[below](#further-behaviours-that-break-a-promise); the writes of `Dispatch`
(`deployer.go:84`) are one step in every module, and taking them apart is left.

Not planned: [18], which is input and output.

## The job queue (`JobQueue`)

**Correspondence.** A job is its rank in creation order (`created_at`, by which
`nextJob` sorts). `status`, `scope` and `type` are the columns; `started` is
`started_at`, measured in agent registrations, because all the code asks of it
is whether it is before the node's `agent_started_at` (`incarnation`).
`executing` and `report` are the agent: what its process runs, and which
outcomes it has not got through yet; a claim's answer, or a report's, may be
lost.

`nextJob` is not one step. It reads the node, the running and the pending jobs,
then makes one conditional update. `ClaimRead(r, room)` is everything up to the
update, and keeps the candidates the loop would try; `ClaimWrite` is the update
of the oldest candidate that is still pending; `ClaimNothing` is the loop running
out. `room` is `roomForAnotherJob`, which reads numbers from the last heartbeat
and may be anything. `Candidates` says in one formula what the loop does with its
flag `queueBlocked`: a job may start unless an older one in the window holds the
queue up. The sweeper reads a set of rows (`FindStuck`, `FindStale`) and saves
them one by one later (`SweepSave`), whole, as it read them. Any running job may
be overdue: the hour is abstracted.

**Properties.** `NoOverlap` and `NoOvertaking` are the promises of
`models/jobs.go:37-40` and `job_service.go:120-122`. `NoOvertaking` matters to
[2]: the removal of an app's old copy must not run after the deploy queued behind
it. `KeepsLocks` says that the running jobs implement the lock table
`ScopeLocks`, in which a lock is taken only when it is compatible with all held
ones, and any may be released together (an agent restart releases all at once).
`NoStarvation` is liveness.

**Serial claims.** The agent of a node has one poller, so `JobQueue.cfg` has one
request. With two (`JobQueueConcurrent.cfg`), `NoOverlap` fails: see
[Findings](#findings). `NoOvertaking` survives concurrent claims, and the
theorem about it does not assume them away.

**Fairness.** Only what the code's scheduling gives: the agent keeps polling and
the Hub finishes the requests it took (weak fairness of the three claim steps,
and only for `room = FALSE`, since a loaded node may refuse a second job for
ever); the sweeper runs every minute and saves what it found (strong fairness of
finding one given job, because it is busy with others in between). Nothing is
assumed of the agent's reports or of delivery.

## Deployments (`Deployments`)

**Correspondence.** One app; `Nodes` are the nodes it may be on. All jobs have
the app's scope, so a node runs them one at a time, oldest first (`Claim`). Jobs
are deploys or removals (`kind`). `dep[j]` is the status of the deployment row
whose job is `j`; `current`, `home`, `image` and `state` are the project's
`deployment_id`, `node_id`, `image` and `status`. A deploy is identified with the
image and the container it starts, so `copy[n]` says which deploy's container is
on node `n`.

`After` is what a script leaves: the deploy script pulls, removes the old
container, starts the new one and looks at it five seconds later
(`deploy_command.go:88-113`), so a failure leaves the old copy, none, or one that
keeps crashing. `Complete` saves the job; `RecordDeployment` is the first half of
`completeDeploy`, which updates the deployment row and reads the project; then
exactly one of `Ignore` (with `removeStrayCopy`), `RecordFailure`,
`RecordSuccess`. `GiveUp` is `failStuckJobs`, which ends in the same handler.
`EditRead`/`EditSave` are `UpdateProject`, including the move or redeploy it ends
with; `DeleteProject` and `RemoveFrom` the deletion and the removals it queues.
`HubStop` drops whatever handlers held.

`Interruptible` says which handlers may be overtaken by others between their
read and their write. With `{}` each handler's writes see no other request
between them, although the Hub may still stop in the middle. `Incidents` are the
mishaps a run allows.

Left out: the steps inside `Dispatch` (three writes in a row); what a person may
write into `status` and `image` by an update; ports, plugins, secrets, snapshots,
notifications, routes; the row of the CI record; database errors.

**Properties.** `LatestCopyKept`: once the newest deploy has started on its node,
no removal that the Hub queued by itself is due there. `NoReversion`: the image
the project records never goes back to an older deploy's. `ConvergesWhenAllSucceed`:
when all is quiet and nothing failed, exactly one copy is left, the newest, where
the project says. `DeletedLeavesNothing`: the same for a deleted project.
`RecordedCopyKept` and `RecordFollowsJob` state two promises of comments and
messages that the code does not keep (see [Findings](#findings)).

## The node registry (`NodeRegistry`)

**Correspondence.** One node. `row` has the columns that more than one writer
cares about: `online`, `last_heartbeat`, `maintenance`, `going_away_at`,
`agent_started_at`; all others are filled in by heartbeats only. `outages` are
its outages in order. A registration or heartbeat reads the row (`Begin`), ends an
open outage if the row says offline (`CloseOutage`) and saves all columns
(`RegisterSave`, `HeartbeatSave`); saving a row that was deleted meanwhile inserts
it again. The sweeper first ends outages of nodes that are online (`Sweep`, with
`closeOutagesOfOnlineNodes`), then saves the row as offline (`SweepSave`) and opens
an outage (`SweepOpen`). `GoingAway` and `SetMaintenance` update columns. `Remove` cuts
the agent off and deletes everything. On its start (`HubStart`) the Hub opens
outages for nodes that are offline.

The clock is discrete. `Tick` waits until what is under way is done, since a
handler takes milliseconds, and while the Hub is up it does not let an agent
that reaches it stay unheard for `Interval`. An agent that is killed, says goodbye
or loses its link (`away`) falls silent; it may start or reach the Hub again.

`overlap` is chosen at the start: with it, requests, operator and sweeper overlap,
otherwise the Hub does one thing at a time, though it may stop in the middle of
it. `told` remembers what each column was last told by the one who owns it.

Left out: what the node reports of its hardware, load and containers, and the
health score computed from it; the registration of an address the Hub does not
know (`Enroll` creates the row first); the apps on the node, which have to be moved
before `Remove`.

**Properties.** `NothingUndone`: no whole-row save undoes what the operator, the
agent's goodbye, a registration or the removal wrote. `HeardNodesAreOnline`: a node
that sends its heartbeats is not taken for lost, also not after a long stop of
the Hub, when every last heartbeat is old. `OfflineIsOnRecord`: silence is always
on record, whatever overlaps and wherever the Hub stopped. `UptimeIsExact`: over
every window, what `uptimePercent` adds up (`Counts`, `Until`, `Added`, `Downtime`
translate it) is the number of moments the node was away, so outages never
overlap and its cut at the length of the window is never needed; unless the Hub
was stopped (see below).

## Failover (`Failover`)

**Correspondence.** One app. Deploys are numbered; `node`, `img`, `trigger`, `dep` are
their deployment rows, `job` their jobs and `mig` the migration row of those that
are moves. `home`, `image`, `state`, `health`, `current` are the project's row, `age`
says whether it was last deployed within `startupGrace`, lately enough for an
automatic rollback, or longer ago. `failures`, `unconfirmed`, `restarts`, `recovering`,
`down` and `loaded` are the maps of `HealthService`, which a stop of the Hub empties,
and `outage` the open row of `app_outages`.

A round of `checkAllProjects` is `CheckAct`: `CheckGood`, `CheckDegraded`,
`CheckUnhealthy` with `handleUnhealthyProject`'s branches in their order (`Moving`,
a rollback under way, `TryRollback`, `Stays`, `FailOver`, `RestartInPlace`,
`GiveUp`), `CheckRecovered` and `CheckStillFailed` for a failed app. With `overlap`
the row and the answers are read in `CheckRead` and acted on later. The same holds
of a move (`Begin`, `MoveStart`) and of the migration sweeper (`Sweep`,
`SweepSave`). What may happen is in `Incidents`: pushes, redeploys, rollbacks and
moves by people, maintenance, nodes that die, crashes, checks that fail for no
reason, deploys that fail, a node so slow that its move is given up, a stop of
the Hub. The ranking of `placement.go` is left open: any node that may be chosen
may be the best.

**Properties.** `AvailabilityRecord`: an app marked failed has an outage on record,
one that answered has none open, also when the Hub forgot in between.
`OneMoveAtATime` and `MovesEndAsTheirJobs` hold while nothing overlaps: a person, the
enforcer and the checker share one guard, and a move that succeeds after it was
given up is recorded as a success, so its node is not shunned. `BackInService` is
liveness: infinitely often the app answers, or no deploy is left (a bound), its
image does not work, no working node may have it, or it is in one of three
situations the code leaves to a person (`LeftToAPerson`): its deployment row stays
pending although the job was cancelled (the sweeper of migrations does not touch
the deployment), a rollback was sent to a node that died, or it is marked failed
and its node is up but has no container of it. `ReturnsToService`, without these
exceptions, is what the comments at `health_service.go:147-149, 263-265, 407-409`
promise; TLC refutes it.

**Fairness.** The health checker ticks every 10 s, agents of working nodes claim
and finish what they are given, sweepers run, cool-downs pass. Nothing is assumed
of people or of nodes coming back.

## Routes (`Routes`)

**Correspondence.** `app[a]` is a project's row as far as routing reads it: `status`,
`node`, the host port of its first mapping with `auto_port`, and its place (domain
and path as typed). `plugin` is the attachment of a public plugin of app 1. `bound`
says whose container has which port on which node. `ship[a]` is the deploy under
way: queued with the ports `Dispatch` chose (`Preferred`, from what the Hub and the
agent's last report say), `ran` with what the script reported, `noted` once
`completeDeploy` has written the node and before it writes the port. The script
(`RunDeploy`) may fail at the pull, for want of a free port, or because the container
exits; it replaces the plugin's container only if something about it changed.

Every handler that changes a row ends in `RoutesChanged`, which starts one more
update in the background. `UpdateNginxConfig` holds a lock: `UpdateBegin` takes it
and reads the apps, `WriteRoutes` reads the plugins and writes the file, `IssueCerts`
asks for missing certificates and writes the same routes again. nginx may reject
the file or fail to reload (`Apply`).

The deploys of one app follow each other here; what happens when they overtake
each other is the subject of `Deployments`.

**Properties.** `RoutesCurrent`: once no update is left and the last got through,
nginx has exactly what the rows say. It rests on the lock being taken before the
rows are read: a mutant that skips an update while one is busy breaks it.
`AppsAreReached` relates nginx to the nodes: an app whose newest deploy succeeded is
reached at its domain on the port its container really has, and its plugin too.
Both are about quiet moments: while a deploy is recorded, traffic may go astray.
`byHand` excludes a status that was set by `UpdateProjectStatus`, which asks for no
update, and `settled` an edit that saved an older row over a deploy's record.

## Plugin snapshots (`Snapshots`)

**Correspondence.** One project with one plugin on two nodes. Data is the number of
the last write in it; `parent` remembers on top of what each write was made. `disk[n]`
is the data folder with the generation noted beside it, `stored` the rows of
`plugin_snapshots`, `queue[n]` the project's jobs on the node, which run one after
the other: a snapshot (`Pack`, `Upload`, `Noted`), a deploy with what the script does
before the plugin starts (`WaitMore`, `AskNewest`, `Matches`, `PutBack`,
`StartPlugin`), a removal. A planned move queues a last snapshot on the old node and
makes the new one wait for it.

**Properties.** `UpToDateIsTrue`: a node whose generation is the newest has in its
data everything the newest copy has. A state is made of another one if every set of
writes that holds it, and with each write what that one was made on top of, holds
the other too (`UpTo`). `NewerDataKept`: a deploy on the project's node never replaces
its data by an older state of it that a node stored, unless the node could not know
(`behind`, `dropped` name these cases); what a person has put back may be older. `DeployNotHeldUp`:
the wait for a last snapshot ends, whatever becomes of the old node; it needs only
that a node goes on with the job it runs. `RestoreComesBack` fails (see
[Findings](#findings)).

## Job logs (`JobLogs`)

Output is counted in lines. `live` is the Hub's `liveLog` (its tail `buf`, `total`,
`over`, subscribers), `agent` what was printed and sent; answers may be lost, so
chunks come again (`Given`, `NewOf`, `LastOf` are `Append`). A watcher reads the job's
row (`Open`), subscribes (`Subscribe`), is shown what is in its channel (`Show`) and
misses what does not fit. The job ends by its report or by a sweep, the log is
forgotten later, the Hub may restart. `LiveViewIsExact`: what a watcher who keeps up was
shown and what still waits for it are pieces of the output in their order, each
beginning where the one before ended and the last one ending where the Hub is; once
the job is over the end is behind them.

## Updates of the Hub (`HubUpdate`)

`hub` is `UpdateService`'s memory, `press[p]` a request to update between its lock
(`Take`), the count of jobs (`WaitForJobs`, `GoAhead`), the looks every few seconds
(`LookAtJobs`) and the helper (`StartUpgrade`). Jobs come, run and end, nodes go and
are back. Two releases may be published while checks are under way, and the check
that read first may write last. `OneUpdateAtATime`: no two requests get past the
lock while an update goes on. `UpdateGoesAhead`: a waiting update goes on in the end
(weak fairness of its own loop), whatever jobs there are.

## Signing in (`Accounts`, `LoginLimiter`, `CliLogins`, `Passkeys`)

**Accounts.** `user`, `session` are rows; `request` holds every request between its
checks and its writes. A tick is the period of a code (30 s). `EveryCodeOnce`: a code
of the app or a recovery code is accepted once under the same settings, however
many requests found it right (conditional updates decide). `OldSignInsEnd`: after a
password change or deletion no older session is left, which depends on the order
of its two writes. `EndedStaysEnded`: no request in flight brings an ended session
back, since it is touched with an update and not saved whole.

**LoginLimiter.** A failure is its age. `Ask` is `Blocked`, the answer comes later.
`GuessesPerWindow`: the limit may be passed only by the requests that were already
being checked. `RetryAfterIsExact`: the wait that is announced is exact, also when
the limit was overrun.

**CliLogins.** `pending` is the Hub's memory; `answer` are people whose request passed
the role check and is not carried out yet; `credential` the tokens and sessions made.
`AnsweredOnce`: one answer per request, one credential at most, and it gets to the
command line that asked.

**Passkeys.** A ceremony is in memory, taken by who finishes it, and its result
written later. `OncePerCeremony`: it leads to one thing at most.

## Enrollment (`Enrollment`)

`enrolling[m]` is how far a machine's request got; `wire` is the interface (keys, and
which key an address leads to), beside the rows `nodeIP` and `peerIP`. Each command
and write is a step that may fail, after which the deferred clean-up runs; `undoing`
are rollbacks and removals. `NodesAreRouted`: a node's address leads to that node.
`PeersAreKnown`: no key stays on the interface that belongs to nothing. Both except
machines whose address another request had in hand at the same time (`crossed`:
nothing locks `AllocateIP`) and keys whose clean-up itself failed (`slipped`).

## Runs

| Run | Expect | Shows |
|---|---|---|
| `JobQueue` | pass | types, overlap, overtaking and the refinement, one claim at a time |
| `JobQueueLive` | pass | no pending job waits forever |
| `Deployments` | pass | three deploys on two nodes, edits, deletion, nothing going wrong |
| `DeploymentsFaults` | pass | two deploys and any one of five mishaps |
| `DeploymentsStray` | violation of `RecordedCopyKept` | a superseded redeploy removes the serving copy |
| `NodeRegistry` | pass | one node with all its writers, with and without overlap, and one stop of the Hub |
| `NodeRegistryRace` | violation of `NothingUndone` | a registration handled while maintenance is turned on |
| `Failover` | pass | one app on two nodes, three more deploys and any two mishaps; with overlap any one |
| `FailoverPinned` | violation of `PinnedStays` | the master node's enforcer moves a pinned app |
| `SignIn` | pass | `Accounts`, `CliLogins`, `Passkeys` and `Enrollment`, two requests of everything at a time |
| `Services` | pass | `Routes`, `LoginLimiter`, `Snapshots`, `JobLogs` and `HubUpdate` |
| `SnapshotsRestore` | violation of `RestoreComesBack` | a snapshot is stored after the copy a person restored |

`MCSignIn` and `MCServices` put modules side by side that share no state: `part`
chooses one in the first state and the others stand still, so that the run
explores the sum of their behaviours and not the product.

`CHECK_DEADLOCK FALSE` throughout: an idle Hub does nothing, and the bounds end
every behaviour.

**Bounds.** `JobQueue`: three jobs, a limit of two, a window of two (the code's
100), three scopes, one restart. Three jobs are enough for one to run, one to
wait and one to overtake; the window of two hides the third job; one restart
leaves running rows of a dead process beside live ones. Job kinds are a restart
of an app's container (interactive, so that it may also be found stale), a job
without a scope, and a log stream: a deploy differs from a restart only in that
it is never stale. Scopes are interchangeable (symmetry); the liveness run uses
no symmetry and two kinds. `Deployments`: two nodes (interchangeable), three
deploys and eight jobs, so three deploys can be on both nodes with the removals
each causes; job numbers suffice for every removal those can queue. The fault
run has two deploys, one of five incidents, and seven jobs. `NodeRegistry`: a unit
of the clock stands for 45 s, so that the timeout (90 s), the grace after a start
and the window of a goodbye (120 s each) and the interval of heartbeats (30 s) are
1, 2, 2 and 1: silence longer than the timeout is two units, and what matters of
the order of these times is kept. Four units are enough for a node to fall
silent, be swept and come back, or for the Hub to stay down longer than the
timeout and the grace after its start to end; two agent processes, two
requests and one stop of the Hub are enough for an old process's request to
meet a new one's, and for a stop between any two writes. The theorems show that
larger values do not matter for what they state.

`Failover`: two nodes, so that one move leaves nothing to fall back on and a second
needs the first node again; thresholds of two failed checks, two good ones, one wait
and one restart (the code's 3, 2, 3 and 2): each counter has a value below, at and
after its limit. Four deploys: the first, a person's, the checker's answer to it and
the answer to that. With overlap one mishap, which still lets checker, mover and
sweeper act on what each other changed. `FailoverPinned` needs none.
`Accounts`: one user, two requests, two sessions, two passwords, three ticks, so that
a code's neighbours, expiry and one change are covered; two switches of two-factor
for codes of an earlier set-up. `CliLogins`: two command lines, two answers, at most
one request pending. `Passkeys`: two owners, one authenticator, three ceremonies, two
finishing at once. `Enrollment`: two machines, two tokens, two addresses (so they can
collide and run out), two undoings, one fault. `Routes`: two apps that may ask for
one domain in both spellings (none and `/`), one plugin, two nodes, two ports the Hub
hands out and two tries of a script, one foreign container, and two requests to the
Hub from a state in which the first app already runs; each request may be a deploy,
an edit, a deletion or a change of plugin, with everything that follows from it.
`Snapshots`: two writes, three jobs, three generations of which two are kept.
`JobLogs`: three lines, a tail and a channel of two, two watchers. `HubUpdate`: two
presses, one job, two releases, one restart. `LoginLimiter`: two addresses, one name,
limits of two and three, two requests at once, a window of three ticks.

Every property of a passing run is also run against a mutated definition
(`PROJECT.json`, "mutants": a dropped guard, `>` for `>=`, a stray copy removed
although the newer deploy is for the same node, ...), which it catches. The
mutated forms stand in the modules, before the definition they replace, and no
specification uses them.

## Proofs

All theorems hold for every value of the constants that satisfies the named
assumptions of the modules. These say that bounds are natural numbers and limits,
windows and lifetimes positive; that `NoScope`, `NoNode` and `NoOwner` are no scope,
node and machine, addresses no account names, and "settings" no command line; that
requests and finishers (`Attempts`, `Finishers`) are finitely many; that there is a
node and a place (`SnapNodes`, `RouteNodes`, `Places`); and, for `HeardNodesStayOnline`,
how an agent's interval compares with the Hub's timeout (`TimingAssumption`). TLC
evaluates each of them in a run.

Every invariant below was checked by TLC as an invariant of a run before it was
proved; "not inductive" means that a state satisfies the property and a step from it
breaks it, though neither is reachable.

### Job queue (`JobQueueProofs`)

* `TypeCorrect`: the types, strengthened by "what the agent, a claim or the
  sweeper holds was created". No further assumption.
* `NobodyOvertaken`: `Spec => NoOvertaking`, also with concurrent claims. The
  invariant `ClaimFair`: with every candidate a claim holds it also holds the
  pending jobs that candidate would overtake. It is needed because the choice is
  made in one step and used in another; since the oldest candidate still pending
  is handed out, and no job becomes pending again, nobody is overtaken.
* `RunningJobsNeverOverlap`, `QueueImplementsLocks`: under `SerialClaims` (any
  two requests are the same one). The invariant `ClaimSafe`: every candidate a
  claim of the live agent holds still fits beside the running jobs, since without
  a second claim jobs only leave the running set in between. The refinement then
  maps `ClaimWrite` to `Acquire` and everything else to `Release` or a stutter.

### Deploys (`DeploymentsProofs`)

* `TypeCorrect`: for all interleavings, with `Known`: what a project, an edit or a
  report refers to has a deployment row.
* `NewestDeploySafe` (`LatestCopyKept`) and `ImageNeverReverts` (`NoReversion`):
  under `Interruptible = {}`, with all incidents. `LatestCopyKept` is not
  inductive. The invariant adds `Fresh` (what a handler read is still so when it
  writes, and the project points at the newest deployment), `Working` (agents
  only run and report what they were given) and `RemovalsFirst` (a removal due on
  the newest deploy's node is older than it and the deploy still waits behind
  it). The last one is where the queue's order is used: `Claim` hands out the
  oldest job, so the deploy starts only after such removals are over.
* `AppRunsOnce` (`ConvergesWhenAllSucceed`) and `NothingLeftBehind`
  (`DeletedLeavesNothing`): under `Interruptible = {}`. They are about quiet moments,
  but nothing about quiet moments is inductive: what makes every stray copy
  disappear is an account of it kept from its start. `CopiesAre` says what runs on a
  node: the last deploy or removal started there, since a node's jobs start in the
  order they were queued (`InOrder`). `Kept`: each deploy's copy is either going to be
  removed or replaced, or it is the recorded one, or its own outcome is still to be
  recorded (`Covered`, `Unsettled`); `Gone` is the same after a deletion. All this
  only as long as no job failed or was given up (`Smooth`), which the two properties
  presuppose too, and `Handed` says how far a job can be when that is so.

### Node registry (`NodeRegistryProofs`)

* `TypeCorrect` and `OfflineRecorded` (`OfflineIsOnRecord`): for all interleavings
  and stops, from `BoundsAssumption`. `OfflineIsOnRecord` is inductive as it stands:
  each step that ends the last open outage leaves a request about to save the
  node as online, and each that leaves it offline is about to open one.
* `NothingIsUndone` (`NothingUndoneInTurn`) and `HeardNodesStayOnline`
  (`HeardNodesAreOnline`), the latter from `TimingAssumption` (an agent's interval is
  at most the timeout and shorter than the grace). Both speak of behaviours
  without overlap, and have one invariant, `InTurn`: beside `NothingUndone`,
  `Fresh` (at most one handler or the sweeper is at work, and the row it holds is
  the row there is) and `Heard` (an agent that reaches the Hub was heard at most
  an interval ago or the Hub has just started, and the row's last heartbeat is
  that contact). `Fresh` is what makes a whole-row save harmless; `Heard` is
  needed because the sweeper decides from the row's age, not from the agent.
* `UptimeExact` (`UptimeIsExact`): with everything overlapping, as long as the Hub was
  not stopped (after a stop it is false, see below). The code adds up what each
  outage covers of the window; that is the time away only if outages do not overlap,
  in whatever order requests and the sweeper write them. The invariant `Ordered`:
  each outage has ended when the next one begins (`Apart`), all lie before now
  (`Bounded`), a node that is online was heard after all of them (`HeardSince`), and
  so was what the sweeper judges (`JudgedSince`), so that the outage it opens begins
  late enough. `OrderedExact` then counts: pairs of an outage and a moment in it
  correspond one to one to the moments the node was away.

### Failover (`FailoverProofs`)

* `TypeCorrect`: the checker's counters stay below what they are compared with, and
  rows in the hands of a round, a mover or the sweeper name deploys that exist.
* `OutagesRecorded` (`AvailabilityRecord`): with everything overlapping and across
  restarts. Not inductive: the checker opens and closes outages by what it remembers.
  `Recorded` adds that, once it has picked up the open outages, it remembers what
  the database holds, and that an app whose row it holds as running was not marked
  failed since.
* `OneMove` (`OneMoveAtATime`) and `MovesEnd` (`MovesEndAsTheirJobs`): the invariant
  `MovesInTurn`, where nobody acts on rows read earlier (`overlap` is false); with
  overlap both are false, which is why the properties say so.

### Routes (`RoutesProofs`)

* `RoutesTypeCorrect`: with the types, that no container is published on two ports of
  one node.
* `NginxServesTheRows` (`RoutesCurrent`): the invariant `UpdateFollows` says for each
  step of an update what it has read: while nothing waits, what it holds is what the
  rows say, and once it has written the routes nginx has them. It rests on every
  handler that changes a row leaving an update waiting before another step can run.
* `AppsReached` (`AppsAreReached`): with `RoutesPlaced`. `EditFollows`: an edit under way
  holds a port that the user chose as it is in the row. `ShipFollows`: a deploy under
  way publishes where the row says it may, and once it got through its container and
  plugin stay there until its report is saved. `SettledHolds`: a settled app is where
  its row says. The one who may take a port away is another app's script, which
  `Published` gives only a free port, or its own.

### Services (`ServicesProofs`)

* `GuessesAreBounded` and `WaitsAreExact` (`LoginLimiter`): failures are kept oldest
  first, and the invariant `LimiterInv` counts the requests being answered: what is
  on record of an address and what may still fail stay below its limit and the
  number of requests together. The check and the record of a failure are apart, so
  the limit alone is not an invariant.
* `OneUpdate`, `UpdateTypeCorrect` (`HubUpdate`): `UpdateInv` relates the Hub's memory
  to the requests: at most one goes on, and while it does `upgrading` holds the
  release it took.
* `ViewsAreExact`, `LogTypeCorrect` (`JobLogs`): `LogInv`. The Hub's tail ends where it
  counts to and the agent sends nothing beyond what it was told, nor anything once the
  job has reported (`Counted`); with it, an event that comes in joins what each watcher
  has. Chunks that come twice, cut tails and full channels are the cases of the proof.
* `SnapshotTypeCorrect`, `NumbersTell` (`UpToDateIsTrue`) and `NewerKept`
  (`NewerDataKept`, an action property): `SnapInv`. Nodes and the Hub compare numbers
  only, so the invariant says what each number stands for. `Tells(n)`: the number
  beside a node's data is at most the newest, the copy of that number is part of its
  data, and so are the numbers in its running job's hands (what it packed, what it was
  told, what it is about to put back). `HomeKnows`: the project's node has a number no
  smaller than any copy that a node stored, or its job is about to get one, or it is
  `behind`. `OneDeploy` puts the queues in order: nothing is removed from the node the
  project moves to. Numbers are given in order and the retention keeps the newest
  (`StoredIs`); after the newest copy was deleted they are given again, hence
  `dropped`.
* `ServicesTypes` and `ServicesSafe`: all of this and `Routes` under the specification
  that the run checks, where each step is one part's and a stutter of the others.

### Signing in and enrolling (`SignInProofs`, `EnrollmentProofs`)

* `CeremoniesOnce` (`OncePerCeremony`): `LedOnce`, that whoever finishes a ceremony has
  taken it out, alone.
* `RequestsAnsweredOnce` (`AnsweredOnce`): `AnsweredFor`, that a login request which may
  still be answered has led to nothing, and that what a command line is handed was
  made for it.
* `CodesSpentOnce` (`EveryCodeOnce`) and `OldSignInsGone` (`OldSignInsEnd`): `AccountsInv`.
  A code that was accepted under the settings in force cannot be accepted again
  (`Spent`): an update of the row that checks the last code again is what makes it
  so, for two requests may both have passed the first check. A session older than the
  password has a change or a delete behind it that still has to end it (`OldEnds`,
  `KeptGoOn`). `NoSessionReturns` (`EndedStaysEnded`) is an action property.
* `EnrollTypeCorrect`, `NodesRouted` (`NodesAreRouted`) and `PeersKnown` (`PeersAreKnown`):
  `EnrollInv`. An address a machine was given is the only one it ever has
  (`OwnRows`, `UndoingOwn`, `WireOwn`); two machines with one address are on record
  (`SharingIsKnown`); and a key on the interface that no fault left there has its
  address and a row, or a request that goes on, until who takes it back takes it off
  the interface first (`KeysLead`, `NodesLead`).
* `SignInTypes` and `SignInSafe`: all four under the specification that the run
  checks.

### What is not proved

The assumptions on concurrency are necessary: `NodeRegistryRace` and the
[further behaviours](#further-behaviours-that-break-a-promise) 1 and 3 are
counterexamples without them.

Every invariant and every action property of the passing runs is a theorem. Only
model-checked are the liveness properties (`NoStarvation`, `BackInService`,
`DeployNotHeldUp`, `UpdateGoesAhead`): fairness and what it enables are out of this
prover's reach.

## Findings

Each is the counterexample of a run, and `PROJECT.json` quotes the line it
contradicts.

1. **The serving copy is removed as a stray one** (`job_service.go:298-301,
   395-404`, `DeploymentsStray`). Redeploy on n1, then move to n2, and the redeploy
   succeeds first: its copy is the one the project is recorded to run, and its
   removal is queued although the move may still fail.
2. **Maintenance is turned off by a heartbeat, and a removed node comes back**
   (`node_service.go:83-104, 134-188`, `NodeRegistryRace`). Both save the whole row
   they read before; what was written in between is gone, and a deleted row is
   inserted again.
3. **A pinned app is moved** (`migration_service.go:225`, `FailoverPinned`). Only
   failover and maintenance look at `Pinned`; the master node's enforcer does not.
4. **A restored snapshot is passed over** (`snapshots.go:570`, `SnapshotsRestore`). A
   snapshot under way is stored after the restored copy, and the redeploy takes
   the newest.

### Further behaviours that break a promise

The modules state these too, or show them when a constant is changed; no
configuration is kept for them.

1. **Concurrent claims** (`job_service.go:128-166`). With two `Requests` in
   `JobQueue.cfg`, `NoOverlap` fails: the update that claims a job checks that this
   job is still pending, not that what was read about running jobs still holds. One
   agent polls sequentially, but a request that its agent gave up on can overlap
   with the next one.
2. **A report is forgotten** (`job_service.go:229, 249`). `RecordFollowsJob` of
   `Deployments` fails with the incident "Hub stop": the job's outcome is saved before what
   follows from it, the repeated report counts as a duplicate, and the deployment
   stays pending, which refuses rollbacks (`rollback.go:139-145`) from then on.
3. **A report overtaken by a dispatch** (`job_service.go:285-298, 344`).
   `LatestCopyKept` fails with `Interruptible = {"report"}`.
4. **One outage counted twice** (`node_service.go:162-188`, `node_outages.go:112-118`).
   `UptimeIsExact` fails without `stops = 0`: a heartbeat ends the outage before it
   saves the node as online, and the Hub's start records it once more.
5. **A deploy that is still under way is undone by a failover**
   (`health_service.go:489-492` says it is "the newest intent"): `NewestIntentKept` of
   `Failover` fails when a later redeploy of the old image is what `deployment_id`
   points at.
6. **An app stays down** where `LeftToAPerson` says so (`ReturnsToService` fails).
7. **Both uses of a code may win** (`twofactor_service.go:267` says only one):
   `OneOfTwoUses` of `Accounts` fails when two-factor is set up anew in between.
8. **Places.** `routeTakenBy` compares paths as typed, so one app may be given a
   domain with no path and another the same domain with `/`; nginx serves the first
   and skips the second, which `FirstThere` in `AppsAreReached` allows for. Check and
   save are apart, so two creations at once may take one place.
   `UpdateProjectStatus` leaves the routes as they were, and an update that nginx
   rejected is not tried again until the next change. A port that is recorded for an
   app that is down may be taken by another; the first app's domain then reaches the
   second until it is deployed again. The notice of a failed deploy says that the copy
   running there was left as it was, though the script removes it before it starts
   the new one.
9. **Enrollment.** Two machines that enroll at once get one address, and the clean-up
   of the one that fails takes the other's route (`crossed`); both may use one
   token; a peer's row that is not written goes unnoticed, and a rollback leaves the
   peer; a removal during an enrollment leaves an orphan.
10. **Updates.** An installer that fails before it restarts the Hub leaves
    `upgrading` set, which refuses every later update until the Hub restarts.
11. **Snapshots.** Writes after the last snapshot of a planned move are lost; when the
    answer to an upload is lost the next redeploy puts older data back; deleting the
    newest copy gives its number again.
12. **Job logs.** A watcher whose channel is full when the job ends, who subscribes
    after it was forgotten, or whose job a sweeper ended, never gets the "done" that
    `job_logs.go:189-191` promises.

## Not modelled

* The steps inside `Dispatch` (job, deployment row and project are written in a row):
  an agent may claim and report before the deployment row exists. One step in every
  module that dispatches.
* Failing database writes, except in `Enrollment`, where the code cleans up after
  them.
* The CI record (`OIDCDeployment`), which is written beside a deploy and read by
  nothing but its own endpoint; token verification and allowed repositories.
* The ranking of nodes and the health score: the models leave the choice open, so
  what they show holds for every ranking.
* Renaming a project (its container keeps the old name); deletion and creation of an
  app under one name; environment, volumes, secrets and their masking.
* Container restarts and logs on request, which are the interactive jobs of
  `JobQueue`.
* Notifications, the status page, load samples, the terminal, the plugin catalog and
  its templates, the dashboard, the command line beyond its login and `logs -f`, and
  the installer: input, output and formatting, with no state the rest depends on.
