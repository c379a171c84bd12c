----------------------------- MODULE Snapshots -----------------------------
(***************************************************************************)
(* Copies of a plugin's data on the Hub (snapshots.go): the jobs a node    *)
(* runs to take one and the part of a deploy that puts the newest back     *)
(* (BuildSnapshotCommand, writeSnapshotCheck, writeSnapshotRestore), the   *)
(* routes they use, the schedule, planned moves (prepareSnapshots) and     *)
(* what a person does with the stored copies (handlers and                 *)
(* cli/snapshots.go).  One project with one plugin.                        *)
(*                                                                         *)
(* The plugin's data is the number of the last write in it, and parent     *)
(* says on top of what a write was made.  The Hub's newest copy and the    *)
(* node's own data are compared by generation numbers only: that is what   *)
(* the code compares.  A project's jobs run one at a time on a node, in    *)
(* the order they were queued (ScopeLocks).  That a snapshot is due is     *)
(* left open, for time is not modelled.                                    *)
(***************************************************************************)
EXTENDS Integers, FiniteSets, FiniteSetsExt, Sequences

CONSTANTS
    SnapNodes,
    Keep,      \* SNAPSHOT_KEEP
    MoveWait,  \* snapshotMoveWaitSeconds, in looks of Meta at the job it waits for
    MaxWrites, MaxJobs, MaxGenerations  \* bounds

ASSUME SnapshotAssumption ==
    /\ {Keep, MoveWait, MaxWrites} \subseteq Nat \ {0}
    /\ {MaxJobs, MaxGenerations} \subseteq Nat
    /\ SnapNodes # {}

VARIABLES
    home,    \* the project's node_id
    online,  \* nodes the Hub sees
    up,      \* nodes on which the app and its plugin run
    disk,    \* on each node, the plugin's data folder and the generation noted beside it
    stored,  \* plugin_snapshots
    queue,   \* of each node, the project's jobs, the first one being run
    made,    \* jobs made so far, which also number them
    parent,  \* history: what each write was made on top of
    behind,  \* history: nodes that stored a copy and do not know it, or that ended
             \* a deploy without the newest
    dropped  \* history: somebody deleted the newest copy

snapshotVars == <<home, online, up, disk, stored, queue, made, parent, behind, dropped>>

Empty == [data |-> 0, gen |-> 0]
Copies == [gen : 1 .. MaxGenerations, data : 0 .. MaxWrites, job : 0 .. MaxJobs, why : {"node", "restore"}]
Job(kind, id) == [kind |-> kind, id |-> id, step |-> "queued", after |-> 0, waited |-> 0,
                  copy |-> Empty, chosen |-> {}]

Queues == {n \in SnapNodes : queue[n] # <<>>}
Running(n) == queue[n][1]
Underway(kind) == {n \in SnapNodes : \E i \in DOMAIN queue[n] : queue[n][i].kind = kind}
WithHead(n, j) == [queue EXCEPT ![n] = <<j>> \o Tail(queue[n])]
Ended(n) == [queue EXCEPT ![n] = Tail(queue[n])]

Top == IF stored = {} THEN 0 ELSE Max({s.gen : s \in stored})

\* A history holds with every write the data that one was made on top of, back to
\* the empty folder.
Histories == {h \in SUBSET (0 .. Len(parent)) : \A w \in h \ {0} : parent[w] \in h}

\* The states the data v came from, v itself among them.
UpTo(v) == {u \in 0 .. Len(parent) : \A h \in Histories : v \in h => u \in h}
Below(v) == UpTo(v) \ {v}

\* Every variable has its type.
SnapshotTypeOK ==
    /\ home \in SnapNodes
    /\ {online, up, behind} \subseteq SUBSET SnapNodes
    /\ disk \in [SnapNodes -> [data : 0 .. MaxWrites, gen : 0 .. MaxGenerations]]
    /\ stored \subseteq Copies /\ Cardinality(stored) <= Keep
    /\ \A n \in SnapNodes, i \in 1 .. MaxJobs : i \in DOMAIN queue[n] =>
         /\ queue[n][i].kind \in {"snapshot", "deploy", "remove"} /\ queue[n][i].id \in 1 .. made
         /\ queue[n][i].step = "queued" \/ i = 1
    /\ \A v \in DOMAIN parent : parent[v] < v

-----------------------------------------------------------------------------

SnapshotInit ==
    /\ home = CHOOSE n \in SnapNodes : TRUE
    /\ online = SnapNodes /\ up = {home}
    /\ disk = [n \in SnapNodes |-> Empty]
    /\ stored = {} /\ queue = [n \in SnapNodes |-> <<>>] /\ made = 0
    /\ parent = <<>>
    /\ behind = {} /\ dropped = FALSE

\* The app writes where it is served: on its node.
WriteData ==
    /\ home \in up \cap online /\ Len(parent) < MaxWrites
    /\ parent' = Append(parent, disk[home].data)
    /\ disk' = [disk EXCEPT ![home].data = Len(parent')]
    /\ UNCHANGED <<home, online, up, stored, queue, made, behind, dropped>>

\* The schedule, or a person: not while a snapshot job waits or runs on the node
\* (the schedule), always (TakeNow; bound: as the schedule).
TakeSnapshot ==
    /\ home \in online /\ Underway("snapshot") = {} /\ made < MaxJobs
    /\ queue' = [queue EXCEPT ![home] = Append(@, Job("snapshot", made + 1))]
    /\ made' = made + 1
    /\ UNCHANGED <<home, online, up, disk, stored, parent, behind, dropped>>

\* A copy is made the newest generation, and those beyond the retention go.
Stored(copies, s) ==
    LET all == copies \cup {[s EXCEPT !.gen = Top + 1]} IN
    {x \in all : Cardinality({y \in all : y.gen > x.gen}) < Keep}

\* The node packs the plugin's data folder, once the plugin has written it out;
\* without folder or plugin the job ends.
Pack(n) ==
    /\ n \in online \cap Queues /\ Running(n).kind = "snapshot" /\ Running(n).step = "queued"
    /\ queue' = IF n \in up THEN WithHead(n, [Running(n) EXCEPT !.step = "packed", !.copy = disk[n]])
                ELSE Ended(n)
    /\ UNCHANGED <<home, online, up, disk, stored, made, parent, behind, dropped>>

\* Only the node the project is on may upload: another one would overwrite newer
\* data.
Hosts(n) == n = home

\* The Hub takes the copy of the node that hosts the project.
Upload(n) ==
    /\ n \in online \cap Queues /\ Running(n).kind = "snapshot" /\ Running(n).step = "packed"
    /\ Top < MaxGenerations
    /\ IF Hosts(n)
       THEN /\ stored' = Stored(stored, [gen |-> 0, data |-> Running(n).copy.data,
                                         job |-> Running(n).id, why |-> "node"])
            /\ queue' = WithHead(n, [Running(n) EXCEPT !.step = "stored", !.copy.gen = Top + 1])
       ELSE queue' = Ended(n) /\ UNCHANGED stored
    /\ UNCHANGED <<home, online, up, disk, made, parent, behind, dropped>>

\* The node learns the generation its copy got and notes it, or the answer (or
\* the upload itself) is lost.
Noted(n, lost) ==
    /\ n \in online \cap Queues /\ Running(n).kind = "snapshot" /\ Running(n).step = "stored"
    /\ IF lost
       THEN behind' = behind \cup {n} /\ UNCHANGED disk
       ELSE /\ disk' = [disk EXCEPT ![n].gen = Running(n).copy.gen]
            /\ behind' = behind \ {n}
    /\ queue' = Ended(n)
    /\ UNCHANGED <<home, online, up, stored, made, parent, dropped>>

UploadLost(n) ==
    /\ n \in Queues /\ Running(n).kind = "snapshot" /\ Running(n).step = "packed"
    /\ queue' = Ended(n)
    /\ UNCHANGED <<home, online, up, disk, stored, made, parent, behind, dropped>>

-----------------------------------------------------------------------------

\* A deploy of the project on n (bound: one at a time).  A planned move, while
\* the old node is up, first asks that one for a last snapshot.
Dispatched(n, moving, chosen) ==
    LET asked == moving /\ n # home /\ home \in online
        deploy == [Job("deploy", made + (IF asked THEN 2 ELSE 1)) EXCEPT
                     !.after = IF asked THEN made + 1 ELSE 0, !.chosen = chosen] IN
    /\ Underway("deploy") = {} /\ n \in online
    /\ deploy.id <= MaxJobs
    /\ made' = deploy.id
    /\ queue' = [q \in SnapNodes |->
                   queue[q] \o (IF asked /\ q = home THEN <<Job("snapshot", made + 1)>> ELSE <<>>)
                            \o (IF q = n THEN <<deploy>> ELSE <<>>)]

\* Where a redeploy goes: the project's node, or else another one.
RedeployTarget == IF home \in online THEN home ELSE CHOOSE n \in online : TRUE

\* A redeploy, a planned move, or a failover from a node that is gone.
Deploy(n, moving) ==
    /\ IF moving THEN n # home ELSE online # {} /\ n = RedeployTarget
    /\ Dispatched(n, moving, {})
    /\ UNCHANGED <<home, online, up, disk, stored, parent, behind, dropped>>

\* A mutant: the new node waits until the old one has answered.
WaitsForGood(j) ==
    /\ \E n \in Queues : \E i \in DOMAIN queue[n] : queue[n][i].id = j.after
    /\ \A s \in stored : s.job # j.after

\* The deploy's question is held up while the last snapshot may still come, and
\* not for longer than MoveWait.
Waits(j) == WaitsForGood(j) /\ j.waited < MoveWait

WaitMore(n) ==
    /\ n \in online \cap Queues /\ Running(n).kind = "deploy" /\ Running(n).step = "queued"
    /\ Waits(Running(n)) /\ Running(n).waited < MoveWait
    /\ queue' = WithHead(n, [Running(n) EXCEPT !.waited = @ + 1])
    /\ UNCHANGED <<home, online, up, disk, stored, made, parent, behind, dropped>>

\* A mutant: a copy of the generation the node has is put back too.
NeedsEqual(n) == Top >= disk[n].gen

\* Whether the Hub holds newer data than the node, by generation.
Needs(n) == Top > disk[n].gen

Newest == CHOOSE s \in stored : s.gen = Top

\* The node asks for the newest generation, and carries on with what it has if
\* the Hub does not answer.
AskNewest(n, answered) ==
    /\ n \in online \cap Queues /\ Running(n).kind = "deploy" /\ Running(n).step = "queued"
    /\ ~Waits(Running(n))
    /\ queue' = WithHead(n, [Running(n) EXCEPT !.step = IF answered THEN "asked" ELSE "deaf",
                     !.copy = IF answered /\ stored # {} /\ Needs(n)
                              THEN [data |-> Newest.data, gen |-> Top] ELSE Empty])
    /\ UNCHANGED <<home, online, up, disk, stored, made, parent, behind, dropped>>

\* The newest copy by then has the checksum of the one the node was told about.
Matches(copy) == stored # {} /\ Newest.data = copy.data

\* A mutant: the generation is noted although the copy could not be put back.
PutBackNoting(n, fetched) ==
    LET copy == Running(n).copy IN
    IF copy = Empty THEN disk[n]
    ELSE [data |-> IF fetched /\ Matches(copy) THEN copy.data ELSE disk[n].data, gen |-> copy.gen]

\* The node's disk once the copy, if one is needed, was fetched and matches; a
\* restore that fails leaves it as it is.
PutBack(n, fetched) ==
    LET copy == Running(n).copy IN
    IF copy # Empty /\ fetched /\ Matches(copy) THEN copy ELSE disk[n]

\* The plugin starts; a restore that fails does not fail the deploy.
StartPlugin(n, fetched) ==
    /\ n \in online \cap Queues /\ Running(n).kind = "deploy" /\ Running(n).step \in {"asked", "deaf"}
    /\ disk' = [disk EXCEPT ![n] = PutBack(n, fetched)]
    /\ behind' = IF disk'[n] # disk[n] THEN behind \ {n} ELSE behind
    /\ up' = up \cup {n}
    /\ queue' = WithHead(n, [Running(n) EXCEPT !.step = "started"])
    /\ UNCHANGED <<home, online, stored, made, parent, dropped>>

\* The deploy reports: the project now lives here, and the node it came from is
\* told to remove its copy, data folder included.  A deploy that fails leaves
\* the project where it was.
DeployEnds(n, succeeded) ==
    LET j == Job("remove", made + 1) IN
    /\ n \in online \cap Queues /\ Running(n).kind = "deploy" /\ Running(n).step = "started"
    /\ IF succeeded /\ n # home
       THEN /\ made < MaxJobs /\ made' = made + 1
            /\ queue' = [Ended(n) EXCEPT ![home] = Append(@, j)]
            /\ home' = n
       ELSE queue' = Ended(n) /\ UNCHANGED <<home, made>>
    /\ behind' = IF disk[n].gen < Top THEN behind \cup {n} ELSE behind
    /\ UNCHANGED <<online, up, disk, stored, parent, dropped>>

RemoveCopy(n) ==
    /\ n \in online \cap Queues /\ Running(n).kind = "remove"
    /\ up' = up \ {n} /\ disk' = [disk EXCEPT ![n] = Empty] /\ behind' = behind \ {n}
    /\ queue' = Ended(n)
    /\ UNCHANGED <<home, online, stored, made, parent, dropped>>

-----------------------------------------------------------------------------

\* A node goes away, with the job it was running, and comes back with its disk.
SnapNodeDies(n) ==
    /\ n \in online
    /\ online' = online \ {n}
    /\ behind' = IF n \in Queues /\ Running(n).step = "stored" THEN behind \cup {n} ELSE behind
    /\ queue' = IF n \in Queues /\ Running(n).step # "queued" THEN Ended(n) ELSE queue
    /\ UNCHANGED <<home, up, disk, stored, made, parent, dropped>>

SnapNodeReturns(n) ==
    /\ n \notin online
    /\ online' = online \cup {n}
    /\ UNCHANGED <<home, up, disk, stored, queue, made, parent, behind, dropped>>

\* A person deletes a copy, or all of them.
DeleteCopies(gone) ==
    /\ gone # {}
    /\ stored' = stored \ gone
    /\ dropped' = (dropped \/ \E s \in gone : s.gen = Top)
    /\ UNCHANGED <<home, online, up, disk, queue, made, parent, behind>>

\* A person asks for an older copy: it becomes the newest generation and the
\* project is redeployed, if there is a node to do it.
RestoreCopy(s) ==
    /\ Top < MaxGenerations
    /\ stored' = Stored(stored, [gen |-> 0, data |-> s.data, job |-> 0, why |-> "restore"])
    /\ IF online # {} THEN Dispatched(RedeployTarget, FALSE, {s.data}) ELSE UNCHANGED <<queue, made>>
    /\ UNCHANGED <<home, online, up, disk, parent, behind, dropped>>

Asks(n) == WaitMore(n) \/ \E b \in BOOLEAN : AskNewest(n, b)

SnapshotNext ==
    \/ WriteData \/ TakeSnapshot
    \/ \E n \in SnapNodes :
         \/ Pack(n) \/ Upload(n) \/ UploadLost(n) \/ Asks(n) \/ RemoveCopy(n)
         \/ SnapNodeDies(n) \/ SnapNodeReturns(n)
         \/ \E b \in BOOLEAN : \/ Noted(n, b) \/ StartPlugin(n, b)
                               \/ DeployEnds(n, b) \/ Deploy(n, b)
    \/ DeleteCopies(stored)
    \/ \E s \in stored : DeleteCopies({s}) \/ RestoreCopy(s)

\* A node that is there goes on with the job it runs.
SnapshotFairness ==
    \A n \in SnapNodes : WF_snapshotVars(Asks(n))

SnapshotSpec == SnapshotInit /\ [][SnapshotNext]_snapshotVars /\ SnapshotFairness

-----------------------------------------------------------------------------

\* A node that counts itself up to date is: its data contains everything that is
\* in the newest copy, or the copy was put back on purpose.  (Once somebody has
\* deleted the newest copy its number is given again, and numbers no longer
\* tell.)
UpToDateIsTrue ==
    \A n \in SnapNodes : stored # {} /\ ~dropped /\ disk[n].gen >= Top =>
        Newest.data \in UpTo(disk[n].data)

\* A deploy on the node the project is on never replaces the node's data by an
\* older state of it that a node stored (a person may have one put back), unless
\* the node does not know of the copy it stored, an earlier deploy went on
\* without the newest copy (it had not come yet or could not be fetched), or a
\* deleted number was given again.
NewerDataKept ==
    [][\A n \in SnapNodes \ behind :
         n = home /\ ~dropped /\ disk'[n] # Empty
         /\ (\E s \in stored : s.gen = disk'[n].gen /\ s.why = "node")
            => disk'[n].data \notin Below(disk[n].data)]_snapshotVars

HeldUp == \E n \in online \cap Queues : Running(n).kind = "deploy" /\ Running(n).step = "queued"

\* A deploy is never held up by the snapshot it waits for, whatever becomes of
\* the node that should take it.
DeployNotHeldUp ==
    HeldUp ~> ~HeldUp

\* The redeploy after a restore brings the plugin up with the copy the person
\* asked for: once the Hub has answered it, it fetches that data or has it.
RestoreComesBack ==
    \A n \in Queues :
        LET j == Running(n)
            comes == IF j.copy = Empty THEN disk[n].data ELSE j.copy.data IN
        j.kind = "deploy" /\ j.step = "asked" /\ ~dropped => j.chosen \subseteq {comes}
=============================================================================
