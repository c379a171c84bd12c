--------------------------- MODULE FailoverProofs ---------------------------
(***************************************************************************)
(* Theorems about Failover for any nodes, thresholds, bounds and mishaps,  *)
(* with and without overlap of what the checker, a mover and the sweeper   *)
(* do.                                                                     *)
(***************************************************************************)
EXTENDS Failover, FiniteSetTheorems, WellFoundedInduction, TLAPS

-----------------------------------------------------------------------------
(* The newest of some deploys: naturals are well ordered, so a set of them   *)
(* with an upper bound has a greatest element.                               *)

LEMMA BoundsAreNaturals ==
    /\ FailoverThreshold \in Nat \ {0} /\ MaxUnconfirmedWaits \in Nat \ {0}
    /\ MaxInPlaceRestarts \in Nat \ {0} /\ RecoveryChecks \in Nat \ {0}
    /\ MaxDeploys \in Nat \ {0}
BY FBoundsAssumption

LEMMA MinimalElement ==
    ASSUME NEW R, IsWellFoundedOn(R, Nat), NEW S, S \subseteq Nat, S # {}
    PROVE  \E x \in S : \A y \in S : ~(<<y, x>> \in R)
BY WFMin, Zenon

LEMMA LeastUnder ==
    ASSUME NEW R, IsWellFoundedOn(R, Nat), \A x, y \in Nat : x < y => <<x, y>> \in R,
           NEW S, S \subseteq Nat, S # {}
    PROVE  \E x \in S : \A y \in S : x <= y
<1>1. PICK x \in S : \A y \in S : ~(<<y, x>> \in R)
  BY MinimalElement, Zenon
<1>2. ASSUME NEW y \in S PROVE x <= y
  <2>1. x \in Nat /\ y \in Nat
    OBVIOUS
  <2>2. ~(<<y, x>> \in R)
    BY <1>1
  <2>3. ~(y < x)
    BY <2>1, <2>2, Zenon
  <2>4. QED
    BY <2>1, <2>3
<1>3. QED
  BY <1>2

LEMMA LeastElement ==
    ASSUME NEW S, S \subseteq Nat, S # {}
    PROVE  \E x \in S : \A y \in S : x <= y
<1>1. IsWellFoundedOn(OpToRel(<, Nat), Nat)
  BY NatLessThanWellFounded
<1>2. \A x, y \in Nat : x < y => <<x, y>> \in OpToRel(<, Nat)
  BY DEF OpToRel
<1>3. QED
  BY <1>1, <1>2, LeastUnder, Zenon

LEMMA NewestIsOne ==
    ASSUME NEW ds, ds # {}, NEW n \in Nat, ds \subseteq 1 .. n
    PROVE  Newest(ds) \in ds /\ \A e \in ds : e <= Newest(ds)
<1> DEFINE gaps == {n - d : d \in ds}
<1>1. gaps \subseteq Nat /\ gaps # {}
  <2>1. ASSUME NEW d \in ds PROVE n - d \in Nat
    <3>1. d \in 1 .. n
      OBVIOUS
    <3>2. QED
      BY <3>1
  <2>2. PICK d \in ds : TRUE
    OBVIOUS
  <2>3. n - d \in gaps
    OBVIOUS
  <2>4. QED
    BY <2>1, <2>3
<1>2. PICK g \in gaps : \A h \in gaps : g <= h
  BY <1>1, LeastElement
<1>3. PICK d \in ds : g = n - d
  OBVIOUS
<1>4. \A e \in ds : n - e \in gaps /\ g <= n - e
  BY <1>2
<1>5. \A e \in ds : e <= d
  BY <1>3, <1>4
<1>6. QED
  BY <1>5 DEF Newest

-----------------------------------------------------------------------------
(* Types, and what the rows and hands refer to.                              *)

Jobs == {"pending", "running", "orphan", "completed", "failed", "cancelled"}
Migrations == {"none", "running", "completed", "failed"}
Outcomes == {"pending", "completed", "failed"}
States == {"running", "failed"}
Healths == {"healthy", "unhealthy", "degraded", "migrating", "unknown"}

NodesTyped ==
    /\ alive \subseteq Nodes /\ online \subseteq Nodes /\ maintenance \subseteq Nodes
    /\ pinned \in BOOLEAN /\ master \in Nodes \cup {NoNode}

\* The rows of deploys: their images are named by deploys up to them, and
\* nothing is recorded of a deploy that has not been made.
DeploysTyped ==
    /\ count \in Deploys
    /\ node \in [Deploys -> Nodes] /\ img \in [Deploys -> Deploys]
    /\ trigger \in [Deploys -> Triggers] /\ dep \in [Deploys -> Outcomes]
    /\ job \in [Deploys -> Jobs]
    /\ \A d \in Deploys : img[d] <= d
    /\ \A d \in Deploys : d > count => dep[d] = "completed" /\ job[d] = "completed"

MovesTyped ==
    /\ mig \in [Deploys -> Migrations]
    /\ \A d \in Deploys : d > count => mig[d] = "none"
    /\ expired \subseteq {d \in 1 .. count : mig[d] = "failed"}

RowTyped ==
    /\ current \in 1 .. count /\ home \in Nodes /\ image \in 1 .. count
    /\ state \in States /\ health \in Healths
    /\ age \in {"grace", "recent", "old"}
    /\ copy \in 0 .. count /\ bad \subseteq 1 .. count

MemoryTyped ==
    /\ failures \in 0 .. FailoverThreshold - 1
    /\ unconfirmed \in 0 .. MaxUnconfirmedWaits
    /\ restarts \in 0 .. MaxInPlaceRestarts
    /\ recovering \in 0 .. RecoveryChecks - 1
    /\ down \in BOOLEAN /\ loaded \in BOOLEAN /\ outage \in BOOLEAN

\* What the checker, a mover and the sweeper hold refers to deploys that exist;
\* each holds one thing at most, and none without overlap.
AtMostOne(S) == \A x, y \in S : x = y
RowKnown(r) == r.current <= count /\ r.image <= count
HandsTyped ==
    /\ overlap \in BOOLEAN
    /\ check \subseteq Round /\ mover \subseteq Request /\ sweep \subseteq 1 .. count
    /\ \A c \in check : RowKnown(c.row)
    /\ \A m \in mover : m.image <= count
    /\ AtMostOne(check) /\ AtMostOne(mover) /\ AtMostOne(sweep)
    /\ ~overlap => check = {} /\ mover = {} /\ sweep = {}

Typed == NodesTyped /\ DeploysTyped /\ MovesTyped /\ RowTyped /\ MemoryTyped /\ HandsTyped

\* The record of outages: a checker that has picked up the open outages knows
\* whether there is one, and the app whose row it holds has not been marked
\* failed since (only the checker does that).
Recorded ==
    /\ loaded => down = outage
    /\ \A c \in check : c.row.state = "running" => state = "running"
    /\ AvailabilityRecord

\* Moves, without overlap.
MovesInTurn ==
    ~overlap =>
        /\ \A d, e \in Deploys : mig[d] = "running" /\ mig[e] = "running" => d = e
        /\ \A d \in 1 .. count : job[d] = "completed" /\ mig[d] # "none" => mig[d] = "completed"

LEMMA TypedInit == FailoverInit => Typed
<1> SUFFICES ASSUME FailoverInit PROVE Typed
  OBVIOUS
<1> USE BoundsAreNaturals DEF FailoverInit, Deploys
<1>1. NodesTyped
  BY FNodesAssumption DEF NodesTyped
<1>2. DeploysTyped
  BY FNodesAssumption DEF DeploysTyped, Triggers, Outcomes, Jobs
<1>3. MovesTyped
  BY DEF MovesTyped, Migrations
<1>4. RowTyped
  BY FNodesAssumption DEF RowTyped, States, Healths
<1>5. MemoryTyped
  <2>1. /\ 0 \in 0 .. FailoverThreshold - 1 /\ 0 \in 0 .. MaxUnconfirmedWaits
        /\ 0 \in 0 .. MaxInPlaceRestarts /\ 0 \in 0 .. RecoveryChecks - 1
    OBVIOUS
  <2>2. QED
    BY <2>1, Zenon DEF MemoryTyped
<1>6. HandsTyped
  BY DEF HandsTyped, AtMostOne
<1>7. QED
  BY <1>1, <1>2, <1>3, <1>4, <1>5, <1>6 DEF Typed

\* Deploys are numbered by naturals.
LEMMA CountIsNatural ==
    ASSUME DeploysTyped
    PROVE  /\ count \in Nat /\ count >= 1 /\ count <= MaxDeploys
           /\ \A d \in 1 .. count : d \in Deploys /\ d \in Nat
           /\ \A d \in Deploys : img[d] \in 1 .. d
BY BoundsAreNaturals DEF DeploysTyped, Deploys

\* A new deploy is one more, and the project points at it.
LEMMA NewDeployTyped ==
    ASSUME DeploysTyped, NEW n \in Nodes, NEW i \in 1 .. count + 1, NEW t \in Triggers,
           NewDeploy(n, i, t)
    PROVE  /\ DeploysTyped'
           /\ count' = count + 1 /\ current' = count'
<1>1. /\ count \in Nat /\ count' = count + 1 /\ current' = count'
      /\ count' \in Deploys /\ i \in Deploys /\ i <= count'
  BY CountIsNatural, BoundsAreNaturals DEF NewDeploy, Deploys
<1>2. /\ node' \in [Deploys -> Nodes] /\ img' \in [Deploys -> Deploys]
      /\ trigger' \in [Deploys -> Triggers] /\ dep' \in [Deploys -> Outcomes]
      /\ job' \in [Deploys -> Jobs]
  BY <1>1 DEF NewDeploy, DeploysTyped, Outcomes, Jobs
<1>3. \A d \in Deploys : img'[d] <= d
  BY <1>1 DEF NewDeploy, DeploysTyped
<1>4. \A d \in Deploys : d > count' => dep'[d] = "completed" /\ job'[d] = "completed"
  BY <1>1 DEF NewDeploy, DeploysTyped, Deploys
<1>5. QED
  BY <1>1, <1>2, <1>3, <1>4 DEF DeploysTyped

LEMMA NewMoveTyped ==
    ASSUME DeploysTyped, MovesTyped, NEW n \in Nodes, NEW i \in 1 .. count + 1, NEW t \in Triggers,
           NewMove(n, i, t)
    PROVE  DeploysTyped' /\ MovesTyped' /\ count' = count + 1 /\ current' = count'
<1>1. DeploysTyped' /\ count' = count + 1 /\ current' = count'
  BY NewDeployTyped DEF NewMove
<1>2. count \in Nat /\ count' \in Deploys
  BY <1>1, CountIsNatural DEF DeploysTyped
<1>3. mig' \in [Deploys -> Migrations] /\ \A d \in Deploys : d > count' => mig'[d] = "none"
  BY <1>1, <1>2 DEF NewMove, MovesTyped, Migrations, Deploys
<1>4. expired' \subseteq {d \in 1 .. count' : mig'[d] = "failed"}
  BY <1>1, <1>2 DEF NewMove, MovesTyped, Deploys
<1>5. QED
  BY <1>1, <1>3, <1>4 DEF MovesTyped

\* What is left alone keeps its type while deploys are added.
LEMMA MovesKept ==
    ASSUME MovesTyped, count \in Nat, count' \in Nat, count' >= count, UNCHANGED migVars
    PROVE  MovesTyped'
BY DEF MovesTyped, migVars, Deploys

LEMMA HandsKept ==
    ASSUME DeploysTyped, HandsTyped, DeploysTyped', count' >= count, UNCHANGED handVars
    PROVE  HandsTyped'
<1>1. count \in Nat /\ count' \in Nat
  BY CountIsNatural DEF DeploysTyped, Deploys
<1>2. \A c \in check : c.row.current \in Nat /\ c.row.image \in Nat
  BY BoundsAreNaturals DEF HandsTyped, Round, Row, Deploys, Images
<1>3. \A m \in mover : m.image \in Nat
  BY BoundsAreNaturals DEF HandsTyped, Request, Deploys, Images
<1>4. QED
  BY <1>1, <1>2, <1>3 DEF HandsTyped, handVars, AtMostOne, RowKnown

-----------------------------------------------------------------------------
(* Types: what the checker does.                                             *)

\* What a round leaves, whatever it decides.
HandledTyped ==
    /\ DeploysTyped' /\ MovesTyped' /\ count' >= count
    /\ current' \in 1 .. count' /\ state' \in States /\ health' \in Healths
    /\ restarts' \in 0 .. MaxInPlaceRestarts /\ unconfirmed' \in 0 .. MaxUnconfirmedWaits
    /\ down' \in BOOLEAN /\ outage' \in BOOLEAN

LEMMA OutageTyped ==
    ASSUME MemoryTyped, SameOutage \/ CloseOutage \/ AnnounceDown
    PROVE  down' \in BOOLEAN /\ outage' \in BOOLEAN
BY DEF MemoryTyped, SameOutage, CloseOutage, AnnounceDown, OutageOpened, Known

LEMMA QuietlyTyped ==
    ASSUME Typed, Quietly, SameOutage \/ CloseOutage, state' \in States, health' \in Healths
    PROVE  HandledTyped
<1>1. DeploysTyped'
  BY DEF Typed, DeploysTyped, Quietly, deployVars
<1>2. count \in Nat /\ count' = count
  BY CountIsNatural DEF Typed, Quietly, deployVars
<1>3. MovesTyped'
  BY <1>2, MovesKept DEF Typed, Quietly
<1>4. /\ current' \in 1 .. count' /\ restarts' \in 0 .. MaxInPlaceRestarts
      /\ unconfirmed' \in 0 .. MaxUnconfirmedWaits
  BY <1>2 DEF Typed, RowTyped, MemoryTyped, Quietly
<1>5. QED
  BY <1>1, <1>2, <1>3, <1>4, OutageTyped DEF HandledTyped, Typed

\* The images a round may start are those of deploys there are.
LEMMA ImagesKnown ==
    ASSUME Typed, NEW row \in Row, RowKnown(row)
    PROVE  /\ FailoverImage(row) \in 1 .. count
           /\ \A d \in RollbackTargets(row) : img[d] \in 1 .. count
           /\ row.home \in Nodes /\ FailoverTargets(row) \subseteq Nodes
<1>1. row.current \in 1 .. count /\ row.image \in 1 .. count /\ row.home \in Nodes
  BY CountIsNatural, BoundsAreNaturals DEF Typed, Row, RowKnown, Deploys, Images
<1>2. \A d \in 1 .. count : img[d] \in 1 .. count
  BY CountIsNatural DEF Typed
<1>3. FailoverImage(row) \in 1 .. count
  BY <1>1, <1>2 DEF FailoverImage
<1>4. RollbackTargets(row) \subseteq 1 .. count
  <2> DEFINE before == {d \in CompletedDeploys : d < row.current}
  <2>1. before \subseteq 1 .. count
    BY DEF CompletedDeploys
  <2>2. before # {} => Newest(before) \in before
    BY <2>1, NewestIsOne, CountIsNatural DEF Typed
  <2>3. QED
    BY <2>1, <2>2 DEF RollbackTargets
<1>5. FailoverTargets(row) \subseteq Nodes
  BY DEF FailoverTargets, Available, Typed, NodesTyped
<1>6. QED
  BY <1>1, <1>2, <1>3, <1>4, <1>5

LEMMA HandleTyped ==
    ASSUME Typed, NEW row \in Row, RowKnown(row), HandleUnhealthyProject(row)
    PROVE  HandledTyped
<1>1. /\ DeploysTyped /\ MovesTyped /\ MemoryTyped /\ RowTyped
      /\ count \in Nat /\ count >= 1
  BY CountIsNatural DEF Typed
<1>2. CASE Quietly /\ UNCHANGED <<health, state>> /\ SameOutage
  BY <1>1, <1>2, QuietlyTyped DEF RowTyped
<1>3. CASE TryRollback(row)
  <2>1. PICK d \in RollbackTargets(row) : NewDeploy(row.home, img[d], "rollback")
    BY <1>3 DEF TryRollback
  <2>2. DeploysTyped' /\ count' = count + 1 /\ current' = count'
    BY <2>1, <1>1, ImagesKnown, NewDeployTyped DEF Triggers
  <2>3. MovesTyped'
    BY <1>1, <1>3, <2>2, MovesKept DEF TryRollback
  <2>4. /\ state' \in States /\ health' \in Healths /\ restarts' \in 0 .. MaxInPlaceRestarts
        /\ unconfirmed' \in 0 .. MaxUnconfirmedWaits
    BY <1>1, <1>3 DEF TryRollback, RowTyped, MemoryTyped, Healths
  <2>5. down' \in BOOLEAN /\ outage' \in BOOLEAN
    BY <1>1, <1>3, OutageTyped DEF TryRollback
  <2>6. QED
    BY <1>1, <2>2, <2>3, <2>4, <2>5 DEF HandledTyped
<1>4. CASE FailOver(row)
  <2>1. PICK n \in FailoverTargets(row) : NewMove(n, FailoverImage(row), "failover")
    BY <1>4 DEF FailOver
  <2>2. DeploysTyped' /\ MovesTyped' /\ count' = count + 1 /\ current' = count'
    BY <2>1, <1>1, ImagesKnown, NewMoveTyped DEF Triggers
  <2>3. /\ state' \in States /\ health' \in Healths /\ restarts' \in 0 .. MaxInPlaceRestarts
        /\ unconfirmed' \in 0 .. MaxUnconfirmedWaits
    BY <1>1, <1>4 DEF FailOver, RowTyped, MemoryTyped, Healths
  <2>4. down' \in BOOLEAN /\ outage' \in BOOLEAN
    BY <1>1, <1>4, OutageTyped DEF FailOver
  <2>5. QED
    BY <1>1, <2>2, <2>3, <2>4 DEF HandledTyped
<1>5. CASE RestartInPlace(row)
  <2>1. state' = state /\ SameOutage
    BY <1>5 DEF RestartInPlace
  <2>2. down' \in BOOLEAN /\ outage' \in BOOLEAN
    BY <1>1, <2>1, OutageTyped
  <2>3. CASE Quietly /\ health' = health
    BY <1>1, <2>1, <2>3, QuietlyTyped DEF RowTyped
  <2>4. CASE /\ unconfirmed < MaxUnconfirmedWaits /\ unconfirmed' = unconfirmed + 1
             /\ UNCHANGED <<deployVars, current, migVars, restarts, health>>
    <3>1. DeploysTyped' /\ count' = count
      BY <1>1, <2>4 DEF DeploysTyped, deployVars
    <3>2. MovesTyped'
      BY <1>1, <2>4, <3>1, MovesKept
    <3>3. unconfirmed' \in 0 .. MaxUnconfirmedWaits
      BY <1>1, <2>4, BoundsAreNaturals DEF MemoryTyped
    <3>4. QED
      BY <1>1, <2>1, <2>2, <2>4, <3>1, <3>2, <3>3 DEF HandledTyped, RowTyped, MemoryTyped
  <2>5. CASE /\ restarts < MaxInPlaceRestarts /\ unconfirmed' = 0 /\ restarts' = restarts + 1
             /\ NewDeploy(row.home, FailoverImage(row), "failover")
             /\ health' = "degraded" /\ UNCHANGED migVars
    <3>1. DeploysTyped' /\ count' = count + 1 /\ current' = count'
      BY <2>5, <1>1, ImagesKnown, NewDeployTyped DEF Triggers
    <3>2. MovesTyped'
      BY <1>1, <2>5, <3>1, MovesKept
    <3>3. /\ unconfirmed' \in 0 .. MaxUnconfirmedWaits /\ restarts' \in 0 .. MaxInPlaceRestarts
          /\ health' \in Healths
      BY <1>1, <2>5, BoundsAreNaturals DEF MemoryTyped, Healths
    <3>4. QED
      BY <1>1, <2>1, <2>2, <2>5, <3>1, <3>2, <3>3 DEF HandledTyped, RowTyped
  <2>6. QED
    BY <1>5, <2>3, <2>4, <2>5 DEF RestartInPlace
<1>6. CASE GiveUp(row)
  <2>1. /\ UNCHANGED <<deployVars, current, migVars, restarts>> /\ AnnounceDown
        /\ state' = "failed" /\ health' = "unhealthy"
        /\ unconfirmed' = unconfirmed \/ unconfirmed' = 0
    BY <1>6 DEF GiveUp
  <2>2. DeploysTyped' /\ count' = count
    BY <1>1, <2>1 DEF DeploysTyped, deployVars
  <2>3. MovesTyped'
    BY <1>1, <2>1, <2>2, MovesKept
  <2>4. unconfirmed' \in 0 .. MaxUnconfirmedWaits
    BY <1>1, <2>1, BoundsAreNaturals DEF MemoryTyped
  <2>5. QED
    BY <1>1, <2>1, <2>2, <2>3, <2>4, OutageTyped
       DEF HandledTyped, RowTyped, MemoryTyped, States, Healths
<1>7. QED
  BY <1>2, <1>3, <1>4, <1>5, <1>6 DEF HandleUnhealthyProject

\* A round reads the app's row as it is, or was when it was read.
LEMMA RoundsKnown ==
    ASSUME Typed, NEW c \in Rounds
    PROVE  c.row \in Row /\ RowKnown(c.row)
<1>1. CASE overlap
  BY <1>1 DEF Typed, HandsTyped, Rounds, Round
<1>2. CASE ~overlap
  <2>1. c.row = TheRow
    <3>1. c \in Seen
      BY <1>2 DEF Rounds
    <3>2. PICK ok \in {Answers, FALSE} :
            c = [row |-> TheRow, ok |-> ok, blip |-> ok # Answers, grace |-> age = "grace"]
      BY <3>1, Zenon DEF Seen
    <3>3. QED
      BY <3>2, Zenon
  <2>2. TheRow \in Row
    BY CountIsNatural DEF Typed, RowTyped, TheRow, Row, Images, States, Healths
  <2>3. TheRow.current = current /\ TheRow.image = image /\ count \in Nat
    BY CountIsNatural DEF TheRow, Typed
  <2>4. RowKnown(TheRow)
    BY <2>3 DEF Typed, RowTyped, RowKnown
  <2>5. QED
    BY <2>1, <2>2, <2>4
<1>3. QED
  BY <1>1, <1>2

LEMMA CheckGoodTyped ==
    ASSUME Typed, NEW c \in Rounds, CheckGood(c)
    PROVE  /\ HandledTyped /\ failures' \in 0 .. FailoverThreshold - 1
           /\ recovering' \in 0 .. RecoveryChecks - 1
<1>1. /\ UNCHANGED <<deployVars, migVars, current, state, restarts, recovering>>
      /\ failures' = 0 /\ unconfirmed' = 0 /\ health' \in {health, "healthy"}
      /\ SameOutage \/ CloseOutage
  BY DEF CheckGood
<1>2. DeploysTyped' /\ count' = count /\ count \in Nat
  BY <1>1, CountIsNatural DEF Typed, DeploysTyped, deployVars
<1>3. MovesTyped'
  BY <1>1, <1>2, MovesKept DEF Typed
<1>4. down' \in BOOLEAN /\ outage' \in BOOLEAN
  BY <1>1, OutageTyped DEF Typed
<1>5. /\ failures' \in 0 .. FailoverThreshold - 1 /\ unconfirmed' \in 0 .. MaxUnconfirmedWaits
      /\ recovering' \in 0 .. RecoveryChecks - 1 /\ restarts' \in 0 .. MaxInPlaceRestarts
  BY <1>1, BoundsAreNaturals DEF Typed, MemoryTyped
<1>6. QED
  BY <1>1, <1>2, <1>3, <1>4, <1>5 DEF HandledTyped, Typed, RowTyped, Healths

LEMMA CheckActTyped ==
    ASSUME Typed, CheckAct
    PROVE  Typed'
<1>1. PICK c \in Rounds : CheckGood(c) \/ CheckDegraded(c) \/ CheckUnhealthy(c)
                             \/ CheckRecovered(c) \/ CheckStillFailed(c)
  BY DEF CheckAct
<1>2. c.row \in Row /\ RowKnown(c.row)
  BY RoundsKnown
<1>3. /\ HandledTyped /\ failures' \in 0 .. FailoverThreshold - 1
      /\ recovering' \in 0 .. RecoveryChecks - 1
  <2>1. CASE CheckGood(c)
    BY <2>1, CheckGoodTyped
  <2>2. CASE CheckDegraded(c)
    <3>1. /\ Quietly /\ SameOutage /\ UNCHANGED <<state, recovering>>
          /\ health' \in {health, "degraded"}
          /\ failures' = failures \/ (failures + 1 < FailoverThreshold /\ failures' = failures + 1)
      BY <2>2 DEF CheckDegraded, Counted
    <3>2. HandledTyped
      BY <3>1, QuietlyTyped DEF Typed, RowTyped, Healths
    <3>3. QED
      BY <3>1, <3>2, BoundsAreNaturals DEF Typed, MemoryTyped
  <2>3. CASE CheckUnhealthy(c)
    BY <2>3, <1>2, HandleTyped, BoundsAreNaturals DEF CheckUnhealthy, Typed, MemoryTyped
  <2>4. CASE CheckRecovered(c)
    <3>1. /\ Quietly /\ (SameOutage \/ CloseOutage) /\ failures' = failures
          /\ state' \in States /\ health' \in Healths
      BY <2>4 DEF CheckRecovered, Typed, RowTyped, States, Healths
    <3>2. (recovering' = recovering + 1 /\ recovering + 1 < RecoveryChecks) \/ recovering' = 0
      BY <2>4 DEF CheckRecovered
    <3>3. HandledTyped
      BY <3>1, QuietlyTyped
    <3>4. QED
      BY <3>1, <3>2, <3>3, BoundsAreNaturals DEF Typed, MemoryTyped
  <2>5. CASE CheckStillFailed(c)
    <3>1. HandledTyped
      <4>1. CASE Quietly /\ UNCHANGED <<state, health>> /\ SameOutage
        BY <4>1, QuietlyTyped DEF Typed, RowTyped
      <4>2. CASE HandleUnhealthyProject(c.row)
        BY <4>2, <1>2, HandleTyped
      <4>3. QED
        BY <2>5, <4>1, <4>2 DEF CheckStillFailed
    <3>2. QED
      BY <2>5, <3>1, BoundsAreNaturals DEF CheckStillFailed, Typed, MemoryTyped
  <2>6. QED
    BY <1>1, <2>1, <2>2, <2>3, <2>4, <2>5
<1>4. /\ loaded' = TRUE /\ check' = {}
      /\ UNCHANGED <<nodeVars, home, image, age, copy, bad, overlap, mover, sweep>>
  BY DEF CheckAct
<1>5. NodesTyped'
  BY <1>4 DEF Typed, NodesTyped, nodeVars
<1>6. count \in Nat /\ count' \in Nat /\ count' >= count
  BY <1>3, CountIsNatural DEF Typed, HandledTyped, DeploysTyped, Deploys
<1>7. RowTyped'
  BY <1>3, <1>4, <1>6 DEF Typed, HandledTyped, RowTyped
<1>8. MemoryTyped'
  BY <1>3, <1>4 DEF HandledTyped, MemoryTyped
<1>9. HandsTyped'
  <2>1. \A m \in mover : m.image \in Nat
    BY BoundsAreNaturals DEF Typed, HandsTyped, Request, Deploys, Images
  <2>2. QED
    BY <1>4, <1>6, <2>1 DEF Typed, HandsTyped, AtMostOne
<1>10. QED
  BY <1>3, <1>5, <1>7, <1>8, <1>9 DEF Typed, HandledTyped

-----------------------------------------------------------------------------
(* Types: everything else.                                                   *)

\* The rows, the memory and the hands, while only deploys are added.
LEMMA NewDeployKeeps ==
    ASSUME Typed, DeploysTyped', count' = count + 1, current' = count',
           UNCHANGED <<nodeVars, home, age, state, memoryVars, outage>>,
           image' \in 1 .. count', health' \in Healths, copy' \in 0 .. count', bad' \subseteq 1 .. count'
    PROVE  NodesTyped' /\ RowTyped' /\ MemoryTyped'
<1>1. count \in Nat /\ count >= 1
  BY CountIsNatural DEF Typed
<1>2. NodesTyped'
  BY DEF Typed, NodesTyped, nodeVars
<1>3. RowTyped'
  BY <1>1 DEF Typed, RowTyped
<1>4. MemoryTyped'
  BY DEF Typed, MemoryTyped, memoryVars
<1>5. QED
  BY <1>2, <1>3, <1>4

LEMMA RequestedTyped ==
    ASSUME Typed, NEW n \in Nodes, NEW i \in 1 .. count + 1, NEW t \in Triggers,
           NewDeploy(n, i, t), Requested, bad' \subseteq 1 .. count + 1
    PROVE  Typed'
<1>1. DeploysTyped' /\ count' = count + 1 /\ current' = count' /\ count \in Nat
  BY NewDeployTyped, CountIsNatural DEF Typed
<1>2. /\ UNCHANGED <<nodeVars, migVars, rowVars, health, copy, memoryVars, outage, handVars>>
      /\ image' \in 1 .. count' /\ health' \in Healths /\ copy' \in 0 .. count'
  BY <1>1 DEF Requested, Typed, RowTyped, rowVars
<1>3. NodesTyped' /\ RowTyped' /\ MemoryTyped'
  BY <1>1, <1>2, NewDeployKeeps DEF rowVars
<1>4. MovesTyped'
  BY <1>1, <1>2, MovesKept DEF Typed
<1>5. HandsTyped'
  BY <1>1, <1>2, HandsKept DEF Typed
<1>6. QED
  BY <1>1, <1>3, <1>4, <1>5 DEF Typed

LEMMA RequestsTyped ==
    ASSUME Typed, Push \/ Redeploy \/ Rollback
    PROVE  Typed'
<1>1. Chosen \subseteq Nodes
  BY DEF Chosen, Available, Typed, NodesTyped, RowTyped
<1>2. count \in Nat /\ count >= 1 /\ bad \subseteq 1 .. count /\ image \in 1 .. count
  BY CountIsNatural DEF Typed, RowTyped
<1>3. CASE Push
  <2>1. PICK n \in Chosen : NewDeploy(n, count + 1, "ci")
    BY <1>3 DEF Push
  <2>2. count' = count + 1
    BY <2>1 DEF NewDeploy
  <2>3. bad' \subseteq 1 .. count + 1 /\ Requested
    BY <1>2, <1>3, <2>2 DEF Push
  <2>4. QED
    BY <1>1, <1>2, <2>1, <2>3, RequestedTyped DEF Triggers
<1>4. CASE Redeploy
  <2>1. PICK n \in Chosen : NewDeploy(n, image, "manual")
    BY <1>4 DEF Redeploy
  <2>2. bad' \subseteq 1 .. count + 1 /\ Requested
    BY <1>2, <1>4 DEF Redeploy
  <2>3. QED
    BY <1>1, <1>2, <2>1, <2>2, RequestedTyped DEF Triggers
<1>5. CASE Rollback
  <2> DEFINE earlier == {d \in CompletedDeploys : img[d] # image}
  <2>1. PICK n \in Chosen : NewDeploy(n, img[Newest(earlier)], "rollback")
    BY <1>5 DEF Rollback
  <2>2. earlier # {} /\ earlier \subseteq 1 .. count
    BY <1>5 DEF Rollback, CompletedDeploys
  <2>3. Newest(earlier) \in 1 .. count
    BY <1>2, <2>2, NewestIsOne
  <2>4. img[Newest(earlier)] \in 1 .. count + 1
    BY <1>2, <2>3, CountIsNatural DEF Typed
  <2>5. bad' \subseteq 1 .. count + 1 /\ Requested
    BY <1>2, <1>5 DEF Rollback
  <2>6. QED
    BY <1>1, <2>1, <2>4, <2>5, RequestedTyped DEF Triggers
<1>6. QED
  BY <1>3, <1>4, <1>5

LEMMA ReportTyped ==
    ASSUME Typed, NEW d \in 1 .. count, NEW ok \in BOOLEAN, Report(d, ok),
           UNCHANGED <<count, current, bad>>
    PROVE  RowTyped'
<1>1. /\ count \in Nat /\ node[d] \in Nodes /\ img[d] \in 1 .. count /\ RowTyped
      /\ img[d] \in 0 .. count
  BY CountIsNatural DEF Typed, DeploysTyped
<1>2. CASE d # current
  <2>1. UNCHANGED <<rowVars, health>>
    BY <1>2 DEF Report
  <2>2. copy' \in {copy, None, img[d]}
    BY <1>2 DEF Report
  <2>3. QED
    BY <1>1, <2>1, <2>2 DEF RowTyped, rowVars, None
<1>3. CASE d = current /\ ok
  BY <1>1, <1>3 DEF Report, RowTyped, States, Healths
<1>4. CASE d = current /\ ~ok
  <2>1. /\ UNCHANGED <<home, image, age>> /\ state' = "running" /\ health' = "unknown"
        /\ copy' \in {copy, None}
    BY <1>4 DEF Report
  <2>2. QED
    BY <1>1, <2>1 DEF RowTyped, States, Healths, None
<1>5. QED
  BY <1>2, <1>3, <1>4

\* The actions that change the jobs, their rows and their migrations only.
LEMMA SettledTyped ==
    ASSUME Typed, UNCHANGED <<nodeVars, count, node, img, trigger, current, memoryVars, outage>>,
           dep' \in [Deploys -> Outcomes], job' \in [Deploys -> Jobs], mig' \in [Deploys -> Migrations],
           \A d \in Deploys : d > count => dep'[d] = dep[d] /\ job'[d] = job[d] /\ mig'[d] = mig[d],
           expired' \subseteq {d \in 1 .. count : mig'[d] = "failed"},
           RowTyped', HandsTyped'
    PROVE  Typed'
<1>1. DeploysTyped'
  BY DEF Typed, DeploysTyped
<1>2. MovesTyped'
  BY DEF Typed, MovesTyped
<1>3. NodesTyped'
  BY DEF Typed, NodesTyped, nodeVars
<1>4. MemoryTyped'
  BY DEF Typed, MemoryTyped, memoryVars
<1>5. QED
  BY <1>1, <1>2, <1>3, <1>4 DEF Typed

LEMMA EndsTyped ==
    ASSUME Typed, NEW d \in Deploys, NEW ok \in BOOLEAN, Complete(d, ok) \/ FailStuck(d)
    PROVE  Typed'
<1>1. d \in 1 .. count /\ count \in Nat
  <2>1. job[d] # "completed" /\ count \in Nat
    BY CountIsNatural DEF Typed, Complete, FailStuck
  <2>2. ~(d > count) /\ d \in 1 .. MaxDeploys
    BY <2>1 DEF Typed, DeploysTyped, Deploys
  <2>3. QED
    BY <2>1, <2>2, BoundsAreNaturals
<1>2. DeploysTyped /\ MovesTyped /\ \A e \in Deploys : e \in Nat
  BY BoundsAreNaturals DEF Typed, Deploys
<1>3. CASE Complete(d, ok)
  <2>1. /\ job' = [job EXCEPT ![d] = IF ok THEN "completed" ELSE "failed"]
        /\ dep' = [dep EXCEPT ![d] = IF ok THEN "completed" ELSE "failed"]
        /\ mig' = [mig EXCEPT ![d] = Outcome(d, ok)]
        /\ expired' = expired \ {d} /\ Report(d, ok)
        /\ UNCHANGED <<nodeVars, count, node, img, trigger, current, bad, memoryVars, outage, handVars>>
    BY <1>3 DEF Complete
  <2>2. Outcome(d, ok) \in Migrations
    BY DEF Outcome, Migrations
  <2>3. /\ dep' \in [Deploys -> Outcomes] /\ job' \in [Deploys -> Jobs]
        /\ mig' \in [Deploys -> Migrations]
    BY <1>2, <2>1, <2>2 DEF DeploysTyped, MovesTyped, Outcomes, Jobs
  <2>4. \A e \in Deploys : e > count => dep'[e] = dep[e] /\ job'[e] = job[e] /\ mig'[e] = mig[e]
    BY <1>1, <1>2, <2>1 DEF DeploysTyped, MovesTyped
  <2>5. expired' \subseteq {e \in 1 .. count : mig'[e] = "failed"}
    BY <1>1, <1>2, <2>1, CountIsNatural DEF MovesTyped
  <2>6. RowTyped'
    BY <1>1, <2>1, ReportTyped
  <2>7. HandsTyped'
    BY <2>1 DEF Typed, HandsTyped, handVars, AtMostOne, RowKnown
  <2>8. QED
    BY <2>1, <2>3, <2>4, <2>5, <2>6, <2>7, SettledTyped
<1>4. CASE FailStuck(d)
  <2>1. /\ job' = [job EXCEPT ![d] = "failed"] /\ dep' = [dep EXCEPT ![d] = "failed"]
        /\ Report(d, FALSE)
        /\ UNCHANGED <<nodeVars, count, node, img, trigger, migVars, current, bad, memoryVars, outage,
                       handVars>>
    BY <1>4 DEF FailStuck
  <2>2. /\ dep' \in [Deploys -> Outcomes] /\ job' \in [Deploys -> Jobs]
        /\ mig' \in [Deploys -> Migrations]
    BY <1>2, <2>1 DEF DeploysTyped, MovesTyped, Outcomes, Jobs, migVars
  <2>3. \A e \in Deploys : e > count => dep'[e] = dep[e] /\ job'[e] = job[e] /\ mig'[e] = mig[e]
    BY <1>1, <1>2, <2>1 DEF DeploysTyped, migVars
  <2>4. expired' \subseteq {e \in 1 .. count : mig'[e] = "failed"}
    BY <1>2, <2>1 DEF MovesTyped, migVars
  <2>5. RowTyped'
    BY <1>1, <2>1, ReportTyped
  <2>6. HandsTyped'
    BY <2>1 DEF Typed, HandsTyped, handVars, AtMostOne, RowKnown
  <2>7. QED
    BY <2>1, <2>2, <2>3, <2>4, <2>5, <2>6, SettledTyped
<1>5. QED
  BY <1>3, <1>4

\* Agents and nodes: jobs change hands, nodes come and go, a container stops.
LEMMA WorldTyped ==
    ASSUME Typed,
           UNCHANGED <<pinned, master, maintenance, count, node, img, trigger, dep, migVars, current, rowVars,
                       health, bad, memoryVars, outage, handVars>>,
           alive' \subseteq Nodes, online' \subseteq Nodes, copy' \in {copy, None},
           job' \in [Deploys -> Jobs], \A d \in Deploys : d > count => job'[d] = job[d]
    PROVE  Typed'
<1>1. DeploysTyped'
  BY DEF Typed, DeploysTyped
<1>2. NodesTyped'
  BY DEF Typed, NodesTyped
<1>3. count \in Nat
  BY CountIsNatural DEF Typed
<1>4. MovesTyped'
  BY <1>3, MovesKept DEF Typed
<1>5. RowTyped'
  BY <1>3 DEF Typed, RowTyped, rowVars, None
<1>6. MemoryTyped'
  BY DEF Typed, MemoryTyped, memoryVars
<1>7. HandsTyped'
  BY DEF Typed, HandsTyped, handVars, AtMostOne, RowKnown
<1>8. QED
  BY <1>1, <1>2, <1>4, <1>5, <1>6, <1>7 DEF Typed

LEMMA AgentsTyped ==
    ASSUME Typed,
           \/ \E d \in Deploys : Claim(d)
           \/ \E n \in Nodes : NodeDies(n) \/ NodeReturns(n) \/ Notice(n)
           \/ Crash
    PROVE  Typed'
<1>1. /\ alive \subseteq Nodes /\ online \subseteq Nodes /\ job \in [Deploys -> Jobs]
      /\ count \in Nat /\ \A d \in Deploys : d \in Nat
      /\ \A d \in Deploys : d > count => job[d] = "completed"
  BY CountIsNatural, BoundsAreNaturals DEF Typed, NodesTyped, DeploysTyped, Deploys
<1>2. ASSUME NEW d \in Deploys, Claim(d) PROVE Typed'
  <2>1. /\ job[d] = "pending" /\ job' = [job EXCEPT ![d] = "running"]
        /\ UNCHANGED <<nodeVars, count, node, img, trigger, dep, migVars, current, rowVars, health, copy,
                       bad, memoryVars, outage, handVars>>
    BY <1>2 DEF Claim
  <2>2. job' \in [Deploys -> Jobs] /\ \A e \in Deploys : e > count => job'[e] = job[e]
    BY <1>1, <2>1 DEF Jobs
  <2>3. QED
    BY <1>1, <2>1, <2>2, WorldTyped DEF nodeVars
<1>3. ASSUME NEW n \in Nodes, NodeDies(n) PROVE Typed'
  <2>1. job' \in [Deploys -> Jobs] /\ \A e \in Deploys : e > count => job'[e] = job[e]
    BY <1>1, <1>3 DEF NodeDies, Jobs
  <2>2. alive' \subseteq Nodes /\ UNCHANGED <<online, maintenance, copy>> /\ World
    BY <1>1, <1>3 DEF NodeDies
  <2>3. QED
    BY <1>1, <2>1, <2>2, WorldTyped DEF World
<1>4. ASSUME NEW n \in Nodes, NodeReturns(n) \/ Notice(n) PROVE Typed'
  <2>1. /\ alive' \subseteq Nodes /\ online' \subseteq Nodes
        /\ UNCHANGED <<maintenance, copy, job>> /\ World
    BY <1>1, <1>4 DEF NodeReturns, Notice
  <2>2. QED
    BY <1>1, <2>1, WorldTyped DEF World
<1>5. CASE Crash
  <2>1. copy' = None /\ UNCHANGED <<alive, online, maintenance, job>> /\ World
    BY <1>5 DEF Crash
  <2>2. QED
    BY <1>1, <2>1, WorldTyped DEF World
<1>6. QED
  BY <1>2, <1>3, <1>4, <1>5

LEMMA MaintenanceTyped ==
    ASSUME Typed, NEW n \in Nodes, Maintenance(n)
    PROVE  Typed'
<1>1. /\ UNCHANGED <<alive, online, pinned, master, migVars, rowVars, health, copy, bad, memoryVars,
                     outage, handVars>>
      /\ maintenance' \subseteq Nodes
  BY DEF Maintenance, Typed, NodesTyped
<1>2. count \in Nat /\ count >= 1 /\ image \in 1 .. count + 1 /\ DeploysTyped
  BY CountIsNatural DEF Typed, RowTyped
<1>3. NodesTyped'
  BY <1>1 DEF Typed, NodesTyped
<1>4. MemoryTyped'
  BY <1>1 DEF Typed, MemoryTyped, memoryVars
<1>5. DeploysTyped' /\ count' >= count /\ current' \in 1 .. count'
  <2>1. CASE UNCHANGED <<deployVars, current>>
    BY <1>2, <2>1 DEF Typed, DeploysTyped, RowTyped, deployVars
  <2>2. CASE \E t \in Available \ {n} : NewDeploy(t, image, "migration")
    <3>1. PICK t \in Available \ {n} : NewDeploy(t, image, "migration")
      BY <2>2
    <3>2. t \in Nodes
      BY DEF Available, Typed, NodesTyped
    <3>3. QED
      BY <1>2, <3>1, <3>2, NewDeployTyped DEF Triggers
  <2>3. QED
    BY <2>1, <2>2 DEF Maintenance
<1>6. count' \in Nat
  BY <1>5, BoundsAreNaturals DEF DeploysTyped, Deploys
<1>7. MovesTyped'
  BY <1>1, <1>2, <1>5, <1>6, MovesKept DEF Typed
<1>8. RowTyped'
  BY <1>1, <1>2, <1>5, <1>6 DEF Typed, RowTyped, rowVars
<1>9. HandsTyped'
  BY <1>1, <1>5, HandsKept DEF Typed
<1>10. QED
  BY <1>3, <1>4, <1>5, <1>7, <1>8, <1>9 DEF Typed

\* Nothing but the memory, the hands or the age of the deploy changes.
LEMMA MemoryOnlyTyped ==
    ASSUME Typed, CheckRead \/ Age \/ RestartForgotten \/ HubStop
    PROVE  Typed'
<1>1. UNCHANGED <<nodeVars, deployVars, migVars, current, home, image, state, health, copy, bad>>
  BY DEF CheckRead, Age, RestartForgotten, HubStop, rowVars
<1>2. NodesTyped' /\ DeploysTyped'
  BY <1>1 DEF Typed, NodesTyped, nodeVars, DeploysTyped, deployVars
<1>3. count' = count /\ count \in Nat
  BY <1>1, CountIsNatural DEF Typed, deployVars
<1>4. MovesTyped'
  BY <1>1, <1>3, MovesKept DEF Typed
<1>5. age' \in {"grace", "recent", "old"}
  BY DEF Typed, RowTyped, CheckRead, Age, RestartForgotten, HubStop, rowVars
<1>6. RowTyped'
  BY <1>1, <1>3, <1>5 DEF Typed, RowTyped
<1>7. MemoryTyped'
  <2>1. CASE CheckRead \/ Age
    BY <2>1 DEF Typed, MemoryTyped, memoryVars, CheckRead, Age
  <2>2. CASE RestartForgotten
    <3>1. /\ restarts > 0 /\ restarts' = restarts - 1
          /\ UNCHANGED <<failures, unconfirmed, recovering, down, loaded, outage>>
      BY <2>2 DEF RestartForgotten
    <3>2. restarts' \in 0 .. MaxInPlaceRestarts
      BY <3>1, BoundsAreNaturals DEF Typed, MemoryTyped
    <3>3. QED
      BY <3>1, <3>2 DEF Typed, MemoryTyped
  <2>3. CASE HubStop
    <3>1. /\ 0 \in 0 .. FailoverThreshold - 1 /\ 0 \in 0 .. MaxUnconfirmedWaits
          /\ 0 \in 0 .. MaxInPlaceRestarts /\ 0 \in 0 .. RecoveryChecks - 1
      BY BoundsAreNaturals
    <3>2. QED
      BY <2>3, <3>1, Zenon DEF Typed, MemoryTyped, HubStop
  <2>4. QED
    BY <2>1, <2>2, <2>3
<1>8. HandsTyped'
  <2>1. CASE CheckRead
    <3>1. PICK c \in Seen : check' = {c}
      BY <2>1 DEF CheckRead
    <3>2. overlap /\ UNCHANGED <<overlap, mover, sweep>>
      BY <2>1 DEF CheckRead
    <3>3. PICK ok \in {Answers, FALSE} :
            c = [row |-> TheRow, ok |-> ok, blip |-> ok # Answers, grace |-> age = "grace"]
      BY Zenon DEF Seen
    <3>4. c.row = TheRow /\ c.ok \in BOOLEAN /\ c.blip \in BOOLEAN /\ c.grace \in BOOLEAN
      BY <3>3, Zenon DEF Answers
    <3>5. TheRow \in Row
      BY CountIsNatural DEF Typed, RowTyped, TheRow, Row, Images, States, Healths
    <3>6. c \in Round
      BY <3>3, <3>5, Zenon DEF Round, Answers
    <3>7. TheRow.current <= count /\ TheRow.image <= count
      BY <1>3 DEF TheRow, Typed, RowTyped
    <3>8. QED
      BY <1>3, <3>1, <3>2, <3>4, <3>6, <3>7 DEF Typed, HandsTyped, AtMostOne, RowKnown
  <2>2. CASE Age \/ RestartForgotten
    BY <1>3, <2>2 DEF Typed, HandsTyped, handVars, AtMostOne, RowKnown, Age, RestartForgotten
  <2>3. CASE HubStop
    BY <1>3, <2>3 DEF Typed, HandsTyped, AtMostOne, HubStop
  <2>4. QED
    BY <2>1, <2>2, <2>3
<1>9. QED
  BY <1>2, <1>4, <1>6, <1>7, <1>8 DEF Typed

\* Whoever moves the app: a deploy may be added, and the mover's hands change.
LEMMA MoversTyped ==
    ASSUME Typed, DeploysTyped', MovesTyped', count' >= count, current' \in 1 .. count',
           health' \in Healths, image' \in 1 .. count,
           UNCHANGED <<nodeVars, home, state, age, copy, bad, memoryVars, outage, overlap, check, sweep>>,
           mover' \subseteq Request, \A m \in mover' : m.image <= count, AtMostOne(mover'),
           ~overlap => mover' = {}
    PROVE  Typed'
<1>1. count \in Nat /\ count' \in Nat
  BY CountIsNatural DEF Typed, DeploysTyped, Deploys
<1>2. NodesTyped'
  BY DEF Typed, NodesTyped, nodeVars
<1>3. RowTyped'
  BY <1>1 DEF Typed, RowTyped
<1>4. MemoryTyped'
  BY DEF Typed, MemoryTyped, memoryVars
<1>5. HandsTyped'
  <2>1. \A c \in check : c.row.current \in Nat /\ c.row.image \in Nat
    BY BoundsAreNaturals DEF Typed, HandsTyped, Round, Row, Deploys, Images
  <2>2. \A m \in mover' : m.image \in Nat
    BY BoundsAreNaturals DEF Request, Deploys, Images
  <2>3. \A c \in check' : RowKnown(c.row)'
    BY <1>1, <2>1 DEF Typed, HandsTyped, RowKnown
  <2>4. \A m \in mover' : m.image <= count'
    BY <1>1, <2>2
  <2>5. QED
    BY <1>1, <2>3, <2>4 DEF Typed, HandsTyped, AtMostOne
<1>6. QED
  BY <1>2, <1>3, <1>4, <1>5 DEF Typed

\* What begins: the migration, or what a mover will begin.
LEMMA BeginTyped ==
    ASSUME Typed, NEW n \in Nodes, NEW i \in 1 .. count, Begin(n, i)
    PROVE  /\ DeploysTyped' /\ MovesTyped' /\ count' >= count /\ current' \in 1 .. count'
           /\ health' \in Healths /\ mover' \subseteq Request
           /\ \A m \in mover' : m.image <= count
           /\ AtMostOne(mover') /\ (~overlap => mover' = {})
<1>1. count \in Nat /\ count >= 1 /\ count \in Deploys /\ i \in Images
  BY CountIsNatural, BoundsAreNaturals DEF Typed, DeploysTyped, Images, Deploys
<1>2. CASE overlap
  <2>1. /\ mover' = {[target |-> n, image |-> i]}
        /\ UNCHANGED <<deployVars, migVars, current, health>>
    BY <1>2 DEF Begin
  <2>2. DeploysTyped' /\ count' = count
    BY <2>1 DEF Typed, DeploysTyped, deployVars
  <2>3. MovesTyped'
    BY <1>1, <2>1, <2>2, MovesKept DEF Typed
  <2>4. /\ mover' \subseteq Request /\ AtMostOne(mover') /\ \A m \in mover' : m.image <= count
    BY <1>1, <2>1 DEF Request, AtMostOne
  <2>5. QED
    BY <1>1, <1>2, <2>1, <2>2, <2>3, <2>4 DEF Typed, RowTyped
<1>3. CASE ~overlap
  <2>1. NewMove(n, i, "migration") /\ health' = "migrating" /\ mover' = mover
    BY <1>3 DEF Begin, StartMigration
  <2>2. DeploysTyped' /\ MovesTyped' /\ count' = count + 1 /\ current' = count'
    BY <1>1, <2>1, NewMoveTyped DEF Typed, Triggers
  <2>3. mover' = {}
    BY <1>3, <2>1 DEF Typed, HandsTyped
  <2>4. QED
    BY <1>1, <2>1, <2>2, <2>3 DEF Request, AtMostOne, Healths
<1>4. QED
  BY <1>2, <1>3

LEMMA EnforceTyped ==
    ASSUME Typed, EnforceMasterNode
    PROVE  Typed'
<1>1. Enforced \subseteq Nodes
  BY DEF Enforced, Available, Typed, NodesTyped
<1>2. PICK n \in Enforced \ {home} : Begin(n, image)
  BY DEF EnforceMasterNode
<1>3. n \in Nodes /\ image \in 1 .. count
  BY <1>1 DEF Typed, RowTyped
<1>4. /\ image' = image
      /\ UNCHANGED <<nodeVars, home, state, age, copy, bad, memoryVars, outage, overlap, check, sweep>>
  BY DEF EnforceMasterNode, rowVars
<1>5. QED
  BY <1>2, <1>3, <1>4, BeginTyped, MoversTyped

LEMMA MigrateTyped ==
    ASSUME Typed, NEW n \in Nodes, MigrateProject(n)
    PROVE  Typed'
<1>1. UNCHANGED <<nodeVars, home, state, age, copy, bad, memoryVars, outage, overlap, check, sweep>>
  BY DEF MigrateProject
<1>2. image' \in 1 .. count /\ count \in Nat
  <2>1. PICK d \in 1 .. count : image' = img[d]
    BY DEF MigrateProject
  <2>2. QED
    BY <2>1, CountIsNatural DEF Typed
<1>3. CASE UNCHANGED <<mover, deployVars, migVars, current, health>>
  <2>1. DeploysTyped' /\ count' = count
    BY <1>3 DEF Typed, DeploysTyped, deployVars
  <2>2. MovesTyped'
    BY <1>2, <1>3, <2>1, MovesKept DEF Typed
  <2>3. /\ current' \in 1 .. count' /\ health' \in Healths /\ mover' \subseteq Request
        /\ \A m \in mover' : m.image <= count
        /\ AtMostOne(mover') /\ (~overlap => mover' = {})
    BY <1>3, <2>1 DEF Typed, RowTyped, HandsTyped, AtMostOne
  <2>4. QED
    BY <1>1, <1>2, <2>1, <2>2, <2>3, MoversTyped
<1>4. CASE Begin(n, image')
  BY <1>1, <1>2, <1>4, BeginTyped, MoversTyped
<1>5. QED
  BY <1>3, <1>4 DEF MigrateProject

LEMMA MoveStartTyped ==
    ASSUME Typed, MoveStart
    PROVE  Typed'
<1>1. PICK m \in mover : StartMigration(m.target, m.image)
  BY DEF MoveStart
<1>2. /\ mover' = {} /\ image' = image
      /\ UNCHANGED <<nodeVars, home, state, age, copy, bad, memoryVars, outage, overlap, check, sweep>>
  BY DEF MoveStart, rowVars
<1>3. m.target \in Nodes /\ m.image \in 1 .. count + 1 /\ image \in 1 .. count /\ count \in Nat
  BY CountIsNatural, BoundsAreNaturals DEF Typed, RowTyped, HandsTyped, Request, Deploys, Images
<1>4. NewMove(m.target, m.image, "migration") /\ health' \in Healths
  BY <1>1 DEF StartMigration, Healths
<1>5. DeploysTyped' /\ MovesTyped' /\ count' = count + 1 /\ current' = count'
  BY <1>3, <1>4, NewMoveTyped DEF Typed, Triggers
<1>6. QED
  BY <1>2, <1>3, <1>4, <1>5, MoversTyped DEF AtMostOne

\* The sweeper: only migrations there are are given up on.
LEMMA SweptTyped ==
    ASSUME Typed, NEW ds \in SUBSET (1 .. count), NEW hands \in SUBSET (1 .. count),
           GiveUpMoves(ds) \/ UNCHANGED <<mig, job>>,
           sweep' = hands, AtMostOne(hands), ~overlap => hands = {},
           UNCHANGED <<nodeVars, count, node, img, trigger, dep, expired, current, rowVars, health, copy,
                       bad, memoryVars, outage, overlap, check, mover>>
    PROVE  Typed'
<1>1. DeploysTyped /\ MovesTyped /\ count \in Nat /\ \A d \in Deploys : d \in Nat
  BY CountIsNatural, BoundsAreNaturals DEF Typed, Deploys
<1>2. RowTyped'
  BY DEF Typed, RowTyped, rowVars
<1>3. HandsTyped'
  BY DEF Typed, HandsTyped, AtMostOne, RowKnown
<1>4. CASE UNCHANGED <<mig, job>>
  <2>1. /\ mig' \in [Deploys -> Migrations] /\ job' \in [Deploys -> Jobs] /\ dep' \in [Deploys -> Outcomes]
        /\ expired' \subseteq {d \in 1 .. count : mig'[d] = "failed"}
    BY <1>1, <1>4 DEF DeploysTyped, MovesTyped
  <2>2. QED
    BY <1>2, <1>3, <1>4, <2>1, SettledTyped
<1>5. CASE GiveUpMoves(ds)
  <2>1. mig' \in [Deploys -> Migrations] /\ job' \in [Deploys -> Jobs] /\ dep' \in [Deploys -> Outcomes]
    BY <1>1, <1>5 DEF DeploysTyped, MovesTyped, GiveUpMoves, Migrations, Jobs
  <2>2. \A d \in Deploys : d > count => dep'[d] = dep[d] /\ job'[d] = job[d] /\ mig'[d] = mig[d]
    BY <1>1, <1>5 DEF GiveUpMoves
  <2>3. expired' \subseteq {d \in 1 .. count : mig'[d] = "failed"}
    BY <1>1, <1>5, CountIsNatural DEF MovesTyped, GiveUpMoves
  <2>4. QED
    BY <1>2, <1>3, <2>1, <2>2, <2>3, SettledTyped
<1>6. QED
  BY <1>4, <1>5

LEMMA SweeperTyped ==
    ASSUME Typed, SweepSave \/ \E d \in Deploys : Sweep(d) \/ CooledDown(d)
    PROVE  Typed'
<1>1. sweep \subseteq 1 .. count /\ count \in Nat /\ \A d \in Deploys : d <= count => d \in 1 .. count
  BY CountIsNatural, BoundsAreNaturals DEF Typed, HandsTyped, Deploys
<1>2. ASSUME NEW d \in Deploys, Sweep(d) PROVE Typed'
  <2>1. d \in 1 .. count
    BY <1>1, <1>2 DEF Sweep
  <2>2. UNCHANGED <<nodeVars, count, node, img, trigger, dep, expired, current, rowVars, health, copy,
                    bad, memoryVars, outage, overlap, check, mover>>
    BY <1>2 DEF Sweep
  <2>3. CASE overlap
    <3>1. sweep' = {d} /\ UNCHANGED <<mig, job>>
      BY <1>2, <2>3 DEF Sweep
    <3>2. {d} \in SUBSET (1 .. count) /\ AtMostOne({d})
      BY <2>1 DEF AtMostOne
    <3>3. QED
      BY <2>2, <2>3, <3>1, <3>2, SweptTyped
  <2>4. CASE ~overlap
    <3>1. GiveUpMoves({d}) /\ sweep' = {}
      BY <1>2, <2>4 DEF Sweep
    <3>2. {d} \in SUBSET (1 .. count) /\ {} \in SUBSET (1 .. count) /\ AtMostOne({})
      BY <2>1 DEF AtMostOne
    <3>3. QED
      BY <2>2, <3>1, <3>2, SweptTyped
  <2>5. QED
    BY <2>3, <2>4
<1>3. CASE SweepSave
  <2>1. {} \in SUBSET (1 .. count) /\ AtMostOne({})
    BY DEF AtMostOne
  <2>2. /\ GiveUpMoves(sweep) /\ sweep' = {}
        /\ UNCHANGED <<nodeVars, count, node, img, trigger, dep, expired, current, rowVars, health, copy,
                       bad, memoryVars, outage, overlap, check, mover>>
    BY <1>3 DEF SweepSave
  <2>3. QED
    BY <1>1, <2>1, <2>2, SweptTyped
<1>4. ASSUME NEW d \in Deploys, CooledDown(d) PROVE Typed'
  <2>1. /\ d \in 1 .. count /\ mig[d] = "failed" /\ expired' = expired \cup {d}
        /\ UNCHANGED <<nodeVars, deployVars, mig, current, rowVars, health, copy, bad, memoryVars, outage,
                       handVars>>
    BY <1>1, <1>4 DEF CooledDown
  <2>2. /\ mig' \in [Deploys -> Migrations] /\ job' \in [Deploys -> Jobs] /\ dep' \in [Deploys -> Outcomes]
        /\ expired' \subseteq {e \in 1 .. count : mig'[e] = "failed"}
    BY <2>1 DEF Typed, DeploysTyped, MovesTyped, deployVars
  <2>3. RowTyped' /\ HandsTyped'
    BY <2>1 DEF Typed, RowTyped, rowVars, HandsTyped, handVars, AtMostOne, RowKnown, deployVars
  <2>4. QED
    BY <2>1, <2>2, <2>3, SettledTyped DEF deployVars
<1>5. QED
  BY <1>2, <1>3, <1>4

LEMMA TypedStep == Typed /\ [FailoverNext]_vars => Typed'
<1> SUFFICES ASSUME Typed, [FailoverNext]_vars PROVE Typed'
  OBVIOUS
<1>1. CASE Push \/ Redeploy \/ Rollback
  BY <1>1, RequestsTyped
<1>2. ASSUME NEW d \in Deploys, NEW ok \in BOOLEAN, Complete(d, ok) \/ FailStuck(d) PROVE Typed'
  BY <1>2, EndsTyped
<1>3. CASE \/ \E d \in Deploys : Claim(d)
           \/ \E n \in Nodes : NodeDies(n) \/ NodeReturns(n) \/ Notice(n)
           \/ Crash
  BY <1>3, AgentsTyped
<1>4. ASSUME NEW n \in Nodes, Maintenance(n) \/ MigrateProject(n) PROVE Typed'
  BY <1>4, MaintenanceTyped, MigrateTyped
<1>5. CASE CheckRead \/ Age \/ RestartForgotten \/ HubStop
  BY <1>5, MemoryOnlyTyped
<1>6. CASE CheckAct
  BY <1>6, CheckActTyped
<1>7. CASE EnforceMasterNode \/ MoveStart
  BY <1>7, EnforceTyped, MoveStartTyped
<1>8. CASE SweepSave \/ \E d \in Deploys : Sweep(d) \/ CooledDown(d)
  BY <1>8, SweeperTyped
<1>9. CASE UNCHANGED vars
  <2>1. NodesTyped' /\ DeploysTyped' /\ MovesTyped' /\ RowTyped' /\ MemoryTyped'
    BY <1>9 DEF Typed, vars, NodesTyped, nodeVars, DeploysTyped, deployVars, MovesTyped, migVars,
                RowTyped, rowVars, MemoryTyped, memoryVars
  <2>2. HandsTyped'
    BY <1>9 DEF Typed, vars, HandsTyped, handVars, deployVars, AtMostOne, RowKnown
  <2>3. QED
    BY <2>1, <2>2 DEF Typed
<1>10. CASE FailoverNext
  BY <1>1, <1>2, <1>3, <1>4, <1>5, <1>6, <1>7, <1>8, <1>10 DEF FailoverNext
<1>11. QED
  BY <1>9, <1>10

LEMMA CardinalityOfOne ==
    ASSUME NEW S, AtMostOne(S)
    PROVE  IsFiniteSet(S) /\ Cardinality(S) \in {0, 1} /\ (S = {} => Cardinality(S) = 0)
<1>1. CASE S = {}
  BY <1>1, FS_EmptySet
<1>2. CASE S # {}
  <2>1. PICK x : S = {x}
    BY <1>2 DEF AtMostOne
  <2>2. QED
    BY <1>2, <2>1, FS_Singleton
<1>3. QED
  BY <1>1, <1>2

LEMMA TypedImplies == Typed => FailoverTypeOK
<1> SUFFICES ASSUME Typed PROVE FailoverTypeOK
  OBVIOUS
<1>1. {alive, online, maintenance} \subseteq SUBSET Nodes /\ pinned \in BOOLEAN /\ master \in Nodes \cup {NoNode}
  BY DEF Typed, NodesTyped
<1>2. /\ count \in Deploys
      /\ \A d \in 1 .. count :
          /\ node[d] \in Nodes /\ img[d] \in 1 .. d /\ trigger[d] \in Triggers
          /\ dep[d] \in {"pending", "completed", "failed"}
          /\ job[d] \in {"pending", "running", "orphan", "completed", "failed", "cancelled"}
          /\ mig[d] \in {"none", "running", "completed", "failed"}
      /\ expired \subseteq {d \in 1 .. count : mig[d] = "failed"}
  BY CountIsNatural DEF Typed, DeploysTyped, MovesTyped, Outcomes, Jobs, Migrations
<1>3. /\ TheRow \in Row /\ {current, image} \subseteq 1 .. count /\ age \in {"grace", "recent", "old"}
      /\ copy \in 0 .. count /\ bad \subseteq 1 .. count
  BY CountIsNatural DEF Typed, RowTyped, TheRow, Row, Images, States, Healths
<1>4. /\ failures \in 0 .. FailoverThreshold - 1 /\ unconfirmed \in 0 .. MaxUnconfirmedWaits
      /\ restarts \in 0 .. MaxInPlaceRestarts /\ recovering \in 0 .. RecoveryChecks - 1
      /\ {down, loaded, outage} \subseteq BOOLEAN
  BY DEF Typed, MemoryTyped
<1>5. overlap \in BOOLEAN /\ check \subseteq Round /\ mover \subseteq Request /\ sweep \subseteq 1 .. count
  BY DEF Typed, HandsTyped
<1>6. Cardinality(check) + Cardinality(mover) + Cardinality(sweep) <= IF overlap THEN 3 ELSE 0
  <2>1. /\ Cardinality(check) \in {0, 1} /\ Cardinality(mover) \in {0, 1} /\ Cardinality(sweep) \in {0, 1}
        /\ (check = {} => Cardinality(check) = 0) /\ (mover = {} => Cardinality(mover) = 0)
        /\ (sweep = {} => Cardinality(sweep) = 0)
    BY CardinalityOfOne DEF Typed, HandsTyped
  <2>2. CASE overlap
    BY <2>1, <2>2
  <2>3. CASE ~overlap
    <3>1. Cardinality(check) = 0 /\ Cardinality(mover) = 0 /\ Cardinality(sweep) = 0
      BY <2>1, <2>3 DEF Typed, HandsTyped
    <3>2. QED
      BY <2>3, <3>1
  <2>4. QED
    BY <2>2, <2>3
<1>7. QED
  BY <1>1, <1>2, <1>3, <1>4, <1>5, <1>6 DEF FailoverTypeOK

\* Type correctness: the checker's counters stay below the limits the code
\* compares them with (health_service.go), a deploy's image is one that an
\* earlier deploy or it brought, and whatever a round, a mover or the sweeper
\* holds refers to deploys that exist.
THEOREM TypeCorrect == FailoverSpec => []FailoverTypeOK
<1>1. FailoverInit => Typed
  BY TypedInit
<1>2. Typed /\ [FailoverNext]_vars => Typed'
  BY TypedStep
<1>3. Typed => FailoverTypeOK
  BY TypedImplies
<1>4. QED
  BY <1>1, <1>2, <1>3, PTL DEF FailoverSpec

-----------------------------------------------------------------------------
(* The record of outages.                                                    *)

LEMMA RecordedInit == FailoverInit => Recorded
BY DEF FailoverInit, Recorded, AvailabilityRecord

\* What a checker knows of the outages is what is recorded.
LEMMA KnownIsRecorded ==
    ASSUME Typed, Recorded
    PROVE  Known = outage
BY DEF Typed, MemoryTyped, Recorded, Known

\* A checker that closes, keeps or opens the outage goes on knowing it.
LEMMA OutageKept ==
    ASSUME Typed, Recorded, SameOutage \/ CloseOutage \/ AnnounceDown
    PROVE  /\ down' = outage'
           /\ SameOutage => outage' = outage
           /\ AnnounceDown => outage' = TRUE
<1>1. Known = outage /\ outage \in BOOLEAN
  BY KnownIsRecorded DEF Typed, MemoryTyped
<1>2. CASE SameOutage
  BY <1>1, <1>2 DEF SameOutage, AnnounceDown, OutageOpened
<1>3. CASE CloseOutage
  BY <1>1, <1>3 DEF CloseOutage, SameOutage, AnnounceDown
<1>4. CASE AnnounceDown
  BY <1>1, <1>4 DEF SameOutage, AnnounceDown, OutageOpened
<1>5. QED
  BY <1>2, <1>3, <1>4

\* A row that says the app runs was read since the app was last marked failed.
LEMMA RoundsFresh ==
    ASSUME Typed, Recorded, NEW c \in Rounds, c.row.state = "running"
    PROVE  state = "running"
<1>1. CASE overlap
  BY <1>1 DEF Rounds, Recorded
<1>2. CASE ~overlap
  <2>1. c \in Seen
    BY <1>2 DEF Rounds
  <2>2. PICK ok \in {Answers, FALSE} :
          c = [row |-> TheRow, ok |-> ok, blip |-> ok # Answers, grace |-> age = "grace"]
    BY <2>1, Zenon DEF Seen
  <2>3. c.row = TheRow
    BY <2>2, Zenon
  <2>4. QED
    BY <2>3 DEF TheRow
<1>3. QED
  BY <1>1, <1>2

\* An outage that stays as it was is right as long as the app is neither marked
\* failed nor found well.
LEMMA SameRecord ==
    ASSUME Recorded, outage' = outage, state' = state, health' = health \/ health' # "healthy"
    PROVE  AvailabilityRecord'
BY DEF Recorded, AvailabilityRecord

LEMMA HandledRecord ==
    ASSUME Typed, Recorded, NEW row, HandleUnhealthyProject(row)
    PROVE  down' = outage' /\ AvailabilityRecord'
<1>1. CASE Quietly /\ UNCHANGED <<health, state>> /\ SameOutage
  BY <1>1, OutageKept, SameRecord
<1>2. CASE TryRollback(row)
  <2>1. SameOutage /\ state' = state /\ health' = "degraded"
    BY <1>2 DEF TryRollback
  <2>2. QED
    BY <2>1, OutageKept, SameRecord
<1>3. CASE FailOver(row)
  <2>1. AnnounceDown /\ health' = "migrating"
    BY <1>3 DEF FailOver
  <2>2. down' = outage' /\ outage'
    BY <2>1, OutageKept
  <2>3. QED
    BY <2>1, <2>2 DEF AvailabilityRecord
<1>4. CASE RestartInPlace(row)
  <2>1. SameOutage /\ state' = state /\ (health' = health \/ health' = "degraded")
    BY <1>4 DEF RestartInPlace
  <2>2. QED
    BY <2>1, OutageKept, SameRecord
<1>5. CASE GiveUp(row)
  <2>1. AnnounceDown /\ state' = "failed"
    BY <1>5 DEF GiveUp
  <2>2. down' = outage' /\ outage'
    BY <2>1, OutageKept
  <2>3. QED
    BY <2>1, <2>2 DEF AvailabilityRecord
<1>6. QED
  BY <1>1, <1>2, <1>3, <1>4, <1>5 DEF HandleUnhealthyProject

LEMMA CheckedRecord ==
    ASSUME Typed, Recorded, CheckAct
    PROVE  Recorded'
<1>1. PICK c \in Rounds : CheckGood(c) \/ CheckDegraded(c) \/ CheckUnhealthy(c)
                             \/ CheckRecovered(c) \/ CheckStillFailed(c)
  BY DEF CheckAct
<1>2. down' = outage' /\ AvailabilityRecord'
  <2>1. CASE CheckGood(c)
    <3>1. state = "running" /\ state' = state
      BY <2>1, RoundsFresh DEF CheckGood
    <3>2. CASE Known /\ CloseOutage
      BY <3>1, <3>2 DEF CloseOutage, AvailabilityRecord
    <3>3. CASE ~Known /\ SameOutage
      <4>1. down' = outage' /\ ~outage'
        BY <3>3, OutageKept, KnownIsRecorded
      <4>2. QED
        BY <3>1, <4>1 DEF AvailabilityRecord
    <3>4. QED
      BY <2>1, <3>2, <3>3 DEF CheckGood
  <2>2. CASE CheckDegraded(c)
    <3>1. SameOutage /\ state' = state /\ (health' = health \/ health' = "degraded")
      BY <2>2 DEF CheckDegraded
    <3>2. QED
      BY <3>1, OutageKept, SameRecord
  <2>3. CASE CheckUnhealthy(c)
    BY <2>3, HandledRecord DEF CheckUnhealthy
  <2>4. CASE CheckRecovered(c)
    <3>1. CASE UNCHANGED <<state, health>> /\ SameOutage
      BY <3>1, OutageKept, SameRecord
    <3>2. CASE state' = "running" /\ CloseOutage
      BY <3>2 DEF CloseOutage, AvailabilityRecord
    <3>3. QED
      BY <2>4, <3>1, <3>2 DEF CheckRecovered
  <2>5. CASE CheckStillFailed(c)
    <3>1. CASE UNCHANGED <<state, health>> /\ SameOutage
      BY <3>1, OutageKept, SameRecord
    <3>2. CASE HandleUnhealthyProject(c.row)
      BY <3>2, HandledRecord
    <3>3. QED
      BY <2>5, <3>1, <3>2 DEF CheckStillFailed
  <2>6. QED
    BY <1>1, <2>1, <2>2, <2>3, <2>4, <2>5
<1>3. check' = {}
  BY DEF CheckAct
<1>4. QED
  BY <1>2, <1>3 DEF Recorded

\* The end of a deploy puts the app back to running, and its health is not known.
LEMMA ReportedRecord ==
    ASSUME Recorded, NEW d, NEW ok \in BOOLEAN, Report(d, ok),
           UNCHANGED <<memoryVars, outage, handVars>>
    PROVE  Recorded'
<1>1. (state' = state /\ health' = health) \/ (state' = "running" /\ health' = "unknown")
  BY DEF Report, rowVars
<1>2. QED
  BY <1>1 DEF Recorded, AvailabilityRecord, memoryVars, handVars

LEMMA RecordedStep == Typed /\ Recorded /\ [FailoverNext]_vars => Recorded'
<1> SUFFICES ASSUME Typed, Recorded, [FailoverNext]_vars PROVE Recorded'
  OBVIOUS
\* Most actions leave what is recorded, or only the health becomes "migrating".
<1>1. ASSUME UNCHANGED <<memoryVars, outage, check, state>>, health' = health \/ health' = "migrating"
      PROVE  Recorded'
  BY <1>1 DEF Recorded, AvailabilityRecord, memoryVars
<1>2. CASE Push \/ Redeploy \/ Rollback
  BY <1>1, <1>2 DEF Push, Redeploy, Rollback, Requested, rowVars, handVars
<1>3. ASSUME NEW d \in Deploys, NEW ok \in BOOLEAN, Complete(d, ok) PROVE Recorded'
  BY <1>3, ReportedRecord DEF Complete
<1>4. ASSUME NEW d \in Deploys, FailStuck(d) PROVE Recorded'
  BY <1>4, ReportedRecord DEF FailStuck
<1>5. ASSUME NEW d \in Deploys, Claim(d) \/ Sweep(d) \/ CooledDown(d) PROVE Recorded'
  BY <1>1, <1>5 DEF Claim, Sweep, CooledDown, rowVars, handVars
<1>6. ASSUME NEW n \in Nodes, NodeDies(n) \/ NodeReturns(n) \/ Notice(n) \/ Maintenance(n)
      PROVE  Recorded'
  BY <1>1, <1>6 DEF NodeDies, NodeReturns, Notice, Maintenance, World, rowVars, handVars
<1>7. ASSUME NEW n \in Nodes, MigrateProject(n) PROVE Recorded'
  BY <1>1, <1>7 DEF MigrateProject, Begin, StartMigration
<1>8. CASE Crash \/ Age \/ SweepSave
  BY <1>1, <1>8 DEF Crash, World, Age, SweepSave, rowVars, handVars
<1>9. CASE EnforceMasterNode \/ MoveStart
  BY <1>1, <1>9 DEF EnforceMasterNode, MoveStart, Begin, StartMigration, rowVars
<1>10. CASE CheckRead
  <2>1. PICK c \in Seen : check' = {c}
    BY <1>10 DEF CheckRead
  <2>2. PICK ok \in {Answers, FALSE} :
          c = [row |-> TheRow, ok |-> ok, blip |-> ok # Answers, grace |-> age = "grace"]
    BY Zenon DEF Seen
  <2>3. c.row = TheRow
    BY <2>2, Zenon
  <2>4. c.row.state = state
    BY <2>3 DEF TheRow
  <2>5. UNCHANGED <<state, health, memoryVars, outage>>
    BY <1>10 DEF CheckRead, rowVars
  <2>6. QED
    BY <2>1, <2>4, <2>5 DEF Recorded, AvailabilityRecord, memoryVars
<1>11. CASE CheckAct
  BY <1>11, CheckedRecord
<1>12. CASE RestartForgotten
  BY <1>12 DEF RestartForgotten, Recorded, AvailabilityRecord, rowVars, handVars
<1>13. CASE HubStop
  BY <1>13 DEF HubStop, Recorded, AvailabilityRecord, rowVars
<1>14. CASE UNCHANGED vars
  BY <1>1, <1>14 DEF vars, rowVars, handVars
<1>15. CASE FailoverNext
  BY <1>2, <1>3, <1>4, <1>5, <1>6, <1>7, <1>8, <1>9, <1>10, <1>11, <1>12, <1>13, <1>15 DEF FailoverNext
<1>16. QED
  BY <1>14, <1>15

\* The record of outages is right: an app marked failed has an outage open, one
\* that runs and was found well has none.  announceDown and closing go by what
\* the checker remembers; that it remembers what the database holds, also after
\* a restart of the Hub, is what makes them right (app_outages.go).
THEOREM OutagesRecorded == FailoverSpec => []AvailabilityRecord
<1>1. FailoverInit => Typed /\ Recorded
  BY TypedInit, RecordedInit
<1>2. (Typed /\ Recorded) /\ [FailoverNext]_vars => (Typed /\ Recorded)'
  BY TypedStep, RecordedStep
<1>3. Typed /\ Recorded => AvailabilityRecord
  BY DEF Recorded
<1>4. QED
  BY <1>1, <1>2, <1>3, PTL DEF FailoverSpec

-----------------------------------------------------------------------------
(* Moves.                                                                    *)

LEMMA MovesInit == FailoverInit => MovesInTurn
BY BoundsAreNaturals DEF FailoverInit, MovesInTurn, Deploys

\* A deploy that is no move, or a move begun while there is none.
LEMMA DeployInTurn ==
    ASSUME Typed, MovesInTurn, overlap' = overlap, NEW n, NEW i, NEW t,
           NewDeploy(n, i, t), UNCHANGED migVars
    PROVE  MovesInTurn'
<1>1. /\ count' = count + 1 /\ job' = [job EXCEPT ![count'] = "pending"] /\ mig' = mig
  BY DEF NewDeploy, migVars
<1>2. count \in Nat /\ job \in [Deploys -> Jobs] /\ count' \in Nat
  BY <1>1, CountIsNatural DEF Typed, DeploysTyped
<1>3. \A d \in 1 .. count' : job'[d] = "completed" => d \in 1 .. count /\ job[d] = "completed"
  <2>1. ASSUME NEW d \in 1 .. count', job'[d] = "completed"
        PROVE  d \in 1 .. count /\ job[d] = "completed"
    <3>1. d \in Deploys /\ count' \in Deploys
      BY <1>1, <1>2, BoundsAreNaturals DEF NewDeploy, Deploys
    <3>2. d # count'
      BY <1>1, <1>2, <2>1, <3>1
    <3>3. QED
      BY <1>1, <1>2, <2>1, <3>1, <3>2
  <2>2. QED
    BY <2>1
<1>4. QED
  BY <1>1, <1>3 DEF MovesInTurn

LEMMA MoveInTurn ==
    ASSUME Typed, MovesInTurn, overlap' = overlap, NEW n, NEW i, NEW t,
           NewMove(n, i, t), overlap \/ ~Moving
    PROVE  MovesInTurn'
<1>1. /\ count' = count + 1 /\ job' = [job EXCEPT ![count'] = "pending"]
      /\ mig' = [mig EXCEPT ![count'] = "running"] /\ count < MaxDeploys
  BY DEF NewMove, NewDeploy
<1>2. /\ count \in Nat /\ job \in [Deploys -> Jobs] /\ mig \in [Deploys -> Migrations]
      /\ count' \in Deploys /\ \A d \in Deploys : d > count => mig[d] = "none"
      /\ \A d \in Deploys : d \in Nat /\ d >= 1
  BY <1>1, CountIsNatural, BoundsAreNaturals DEF Typed, DeploysTyped, MovesTyped, Deploys
<1>3. CASE overlap
  BY <1>3 DEF MovesInTurn
<1>4. CASE ~overlap /\ ~Moving
  <2>1. \A d \in Deploys : mig[d] # "running"
    <3>1. ASSUME NEW d \in Deploys PROVE mig[d] # "running"
      <4>1. d > count \/ d \in 1 .. count
        BY <1>2
      <4>2. QED
        BY <1>2, <1>4, <4>1 DEF Moving
    <3>2. QED
      BY <3>1
  <2>2. \A d \in Deploys : mig'[d] = "running" => d = count'
    BY <1>1, <1>2, <2>1
  <2>3. \A d \in 1 .. count' : job'[d] = "completed" /\ mig'[d] # "none" => mig'[d] = "completed"
    <3>1. ASSUME NEW d \in 1 .. count', job'[d] = "completed", mig'[d] # "none"
          PROVE  mig'[d] = "completed"
      <4>1. d \in Deploys
        BY <1>1, <1>2, BoundsAreNaturals DEF Deploys
      <4>2. d # count'
        BY <1>1, <1>2, <3>1
      <4>3. d \in 1 .. count /\ job[d] = "completed" /\ mig[d] = mig'[d]
        BY <1>1, <1>2, <3>1, <4>1, <4>2
      <4>4. QED
        BY <1>4, <3>1, <4>3 DEF MovesInTurn
    <3>2. QED
      BY <3>1
  <2>4. QED
    BY <2>2, <2>3 DEF MovesInTurn
<1>5. QED
  BY <1>3, <1>4

\* No deploy is added, no job becomes completed and no migration runs anew.
LEMMA SameMoves ==
    ASSUME MovesInTurn, UNCHANGED <<overlap, count>>,
           ~overlap => \A d \in Deploys : mig'[d] = "running" => mig[d] = "running",
           ~overlap => \A d \in 1 .. count : job'[d] = "completed" /\ mig'[d] # "none" =>
               mig'[d] = "completed" \/ (job[d] = "completed" /\ mig'[d] = mig[d])
    PROVE  MovesInTurn'
BY DEF MovesInTurn

LEMMA BegunInTurn ==
    ASSUME Typed, MovesInTurn, overlap' = overlap, NEW n, NEW i, Begin(n, i), ~Moving
    PROVE  MovesInTurn'
<1>1. CASE overlap
  BY <1>1 DEF MovesInTurn
<1>2. CASE ~overlap
  BY <1>2, MoveInTurn DEF Begin, StartMigration
<1>3. QED
  BY <1>1, <1>2

LEMMA HandledInTurn ==
    ASSUME Typed, MovesInTurn, overlap' = overlap, NEW row, HandleUnhealthyProject(row)
    PROVE  MovesInTurn'
<1>1. CASE UNCHANGED <<deployVars, migVars>>
  BY <1>1, SameMoves DEF deployVars, migVars
<1>2. CASE \E n, i, t : NewDeploy(n, i, t) /\ UNCHANGED migVars
  BY <1>2, DeployInTurn
<1>3. CASE ~Moving /\ \E n, i, t : NewMove(n, i, t)
  BY <1>3, MoveInTurn
<1>4. CASE Quietly
  BY <1>1, <1>4 DEF Quietly
<1>5. CASE ~Moving /\ (TryRollback(row) \/ FailOver(row) \/ RestartInPlace(row) \/ GiveUp(row))
  <2>1. CASE TryRollback(row)
    BY <1>2, <2>1 DEF TryRollback
  <2>2. CASE FailOver(row)
    BY <1>3, <1>5, <2>2 DEF FailOver
  <2>3. CASE RestartInPlace(row)
    BY <1>1, <1>2, <1>4, <2>3 DEF RestartInPlace
  <2>4. CASE GiveUp(row)
    BY <1>1, <2>4 DEF GiveUp
  <2>5. QED
    BY <1>5, <2>1, <2>2, <2>3, <2>4
<1>6. QED
  BY <1>4, <1>5 DEF HandleUnhealthyProject

LEMMA CheckedInTurn ==
    ASSUME Typed, MovesInTurn, CheckAct
    PROVE  MovesInTurn'
<1>1. PICK c \in Rounds : CheckGood(c) \/ CheckDegraded(c) \/ CheckUnhealthy(c)
                             \/ CheckRecovered(c) \/ CheckStillFailed(c)
  BY DEF CheckAct
<1>2. overlap' = overlap
  BY DEF CheckAct
<1>3. CASE UNCHANGED <<deployVars, migVars>>
  BY <1>2, <1>3, SameMoves DEF deployVars, migVars
<1>4. CASE HandleUnhealthyProject(c.row)
  BY <1>2, <1>4, HandledInTurn
<1>5. QED
  BY <1>1, <1>3, <1>4
     DEF CheckGood, CheckDegraded, CheckUnhealthy, CheckRecovered, CheckStillFailed, Quietly

\* Only the report of a job completes it, and then its migration with it.
LEMMA CompletedInTurn ==
    ASSUME Typed, MovesInTurn, NEW d \in Deploys, NEW ok \in BOOLEAN, Complete(d, ok)
    PROVE  MovesInTurn'
<1>1. /\ job' = [job EXCEPT ![d] = IF ok THEN "completed" ELSE "failed"]
      /\ mig' = [mig EXCEPT ![d] = Outcome(d, ok)]
      /\ UNCHANGED <<overlap, count>>
  BY DEF Complete, handVars
<1>2. /\ job \in [Deploys -> Jobs] /\ mig \in [Deploys -> Migrations]
      /\ \A e \in 1 .. count : e \in Deploys
  BY CountIsNatural DEF Typed, DeploysTyped, MovesTyped
<1>3. \A e \in Deploys : mig'[e] = "running" => mig[e] = "running"
  BY <1>1, <1>2 DEF Outcome
<1>4. \A e \in 1 .. count : job'[e] = "completed" /\ mig'[e] # "none" =>
          mig'[e] = "completed" \/ (job[e] = "completed" /\ mig'[e] = mig[e])
  BY <1>1, <1>2 DEF Outcome
<1>5. QED
  BY <1>1, <1>3, <1>4, SameMoves

\* The sweeper gives up on moves whose job has not completed.
LEMMA SweptInTurn ==
    ASSUME Typed, MovesInTurn, SweepSave \/ \E d \in Deploys : Sweep(d)
    PROVE  MovesInTurn'
<1>1. UNCHANGED <<overlap, count>>
  BY DEF SweepSave, Sweep
<1>2. CASE overlap
  BY <1>1, <1>2 DEF MovesInTurn
<1>3. CASE ~overlap
  <2>1. PICK d \in Deploys : Sweep(d)
    BY <1>3 DEF Typed, HandsTyped, SweepSave
  <2>2. mig[d] = "running" /\ d <= count /\ GiveUpMoves({d})
    BY <1>3, <2>1 DEF Sweep
  <2>3. /\ mig' = [e \in Deploys |-> IF e = d THEN "failed" ELSE mig[e]]
        /\ job' = [e \in Deploys |-> IF e = d /\ job[e] = "pending" THEN "cancelled" ELSE job[e]]
    BY <2>2 DEF GiveUpMoves
  <2>4. d \in 1 .. count /\ \A e \in 1 .. count : e \in Deploys
    BY <2>2, CountIsNatural, BoundsAreNaturals DEF Typed, Deploys
  <2>5. job[d] # "completed"
    BY <1>3, <2>2, <2>4 DEF MovesInTurn
  <2>6. \A e \in Deploys : mig'[e] = "running" => mig[e] = "running"
    BY <2>3
  <2>7. \A e \in 1 .. count : job'[e] = "completed" => job[e] = "completed" /\ mig'[e] = mig[e]
    BY <2>3, <2>4, <2>5
  <2>8. QED
    BY <1>1, <2>6, <2>7, SameMoves
<1>4. QED
  BY <1>2, <1>3

LEMMA MovesStep == Typed /\ MovesInTurn /\ [FailoverNext]_vars => MovesInTurn'
<1> SUFFICES ASSUME Typed, MovesInTurn, [FailoverNext]_vars PROVE MovesInTurn'
  OBVIOUS
<1>1. /\ job \in [Deploys -> Jobs] /\ \A d \in 1 .. count : d \in Deploys
  BY CountIsNatural DEF Typed, DeploysTyped
\* What neither adds a deploy nor completes one.
<1>2. ASSUME UNCHANGED <<overlap, count, mig>>, \A d \in Deploys : job'[d] = "completed" => job[d] = "completed"
      PROVE  MovesInTurn'
  BY <1>1, <1>2, SameMoves
<1>3. CASE Push \/ Redeploy \/ Rollback
  BY <1>3, DeployInTurn DEF Push, Redeploy, Rollback, Requested, handVars
<1>4. ASSUME NEW d \in Deploys, NEW ok \in BOOLEAN, Complete(d, ok) PROVE MovesInTurn'
  BY <1>4, CompletedInTurn
<1>5. ASSUME NEW d \in Deploys, FailStuck(d) \/ Claim(d) PROVE MovesInTurn'
  <2>1. UNCHANGED <<overlap, count, mig>>
    BY <1>5 DEF FailStuck, Claim, migVars, handVars
  <2>2. \A e \in Deploys : job'[e] = "completed" => job[e] = "completed"
    BY <1>1, <1>5 DEF FailStuck, Claim
  <2>3. QED
    BY <1>2, <2>1, <2>2
<1>6. ASSUME NEW n \in Nodes, NodeDies(n) \/ NodeReturns(n) \/ Notice(n) PROVE MovesInTurn'
  <2>1. UNCHANGED <<overlap, count, mig>>
    BY <1>6 DEF NodeDies, NodeReturns, Notice, World, migVars, handVars
  <2>2. \A e \in Deploys : job'[e] = "completed" => job[e] = "completed"
    BY <1>1, <1>6 DEF NodeDies, NodeReturns, Notice
  <2>3. QED
    BY <1>2, <2>1, <2>2
<1>7. ASSUME NEW n \in Nodes, Maintenance(n) PROVE MovesInTurn'
  <2>1. UNCHANGED migVars /\ overlap' = overlap
    BY <1>7 DEF Maintenance, handVars
  <2>2. CASE UNCHANGED deployVars
    BY <1>2, <2>1, <2>2 DEF migVars, deployVars
  <2>3. CASE \E m, i, t : NewDeploy(m, i, t)
    BY <2>1, <2>3, DeployInTurn
  <2>4. QED
    BY <1>7, <2>2, <2>3 DEF Maintenance
<1>8. ASSUME NEW n \in Nodes, MigrateProject(n) PROVE MovesInTurn'
  <2>1. overlap' = overlap
    BY <1>8 DEF MigrateProject
  <2>2. CASE UNCHANGED <<deployVars, migVars>>
    BY <1>2, <2>1, <2>2 DEF migVars, deployVars
  <2>3. CASE ~Moving /\ Begin(n, image')
    BY <2>1, <2>3, BegunInTurn
  <2>4. QED
    BY <1>8, <2>2, <2>3 DEF MigrateProject
<1>9. CASE Crash \/ CheckRead \/ Age \/ RestartForgotten \/ HubStop \/ UNCHANGED vars
  BY <1>2, <1>9 DEF Crash, World, CheckRead, Age, RestartForgotten, HubStop, vars, deployVars, migVars, handVars
<1>10. CASE CheckAct
  BY <1>10, CheckedInTurn
<1>11. CASE EnforceMasterNode
  <2>1. overlap' = overlap /\ ~Moving /\ \E n \in Enforced \ {home} : Begin(n, image)
    BY <1>11 DEF EnforceMasterNode
  <2>2. QED
    BY <2>1, BegunInTurn
<1>12. CASE MoveStart
  <2>1. overlap' = overlap /\ mover # {}
    BY <1>12 DEF MoveStart
  <2>2. QED
    BY <2>1 DEF Typed, HandsTyped, MovesInTurn
<1>13. CASE SweepSave \/ \E d \in Deploys : Sweep(d)
  BY <1>13, SweptInTurn
<1>14. ASSUME NEW d \in Deploys, CooledDown(d) PROVE MovesInTurn'
  BY <1>2, <1>14 DEF CooledDown, deployVars, handVars
<1>15. CASE FailoverNext
  BY <1>3, <1>4, <1>5, <1>6, <1>7, <1>8, <1>9, <1>10, <1>11, <1>12, <1>13, <1>14, <1>15 DEF FailoverNext
<1>16. QED
  BY <1>9, <1>15

LEMMA InTurnImplies == Typed /\ MovesInTurn => OneMoveAtATime /\ MovesEndAsTheirJobs
<1> SUFFICES ASSUME Typed, MovesInTurn PROVE OneMoveAtATime /\ MovesEndAsTheirJobs
  OBVIOUS
<1>1. MovesEndAsTheirJobs
  BY DEF MovesInTurn, MovesEndAsTheirJobs
<1>2. ASSUME ~overlap PROVE Cardinality({d \in 1 .. count : mig[d] = "running"}) <= 1
  <2>1. AtMostOne({d \in 1 .. count : mig[d] = "running"})
    BY <1>2, CountIsNatural DEF Typed, MovesInTurn, AtMostOne
  <2>2. QED
    BY <2>1, CardinalityOfOne
<1>3. QED
  BY <1>1, <1>2 DEF OneMoveAtATime

LEMMA MovesAreInTurn == FailoverSpec => [](Typed /\ MovesInTurn)
<1>1. FailoverInit => Typed /\ MovesInTurn
  BY TypedInit, MovesInit
<1>2. (Typed /\ MovesInTurn) /\ [FailoverNext]_vars => (Typed /\ MovesInTurn)'
  BY TypedStep, MovesStep
<1>3. QED
  BY <1>1, <1>2, PTL DEF FailoverSpec

\* As long as nobody acts on rows read earlier, the app is moved by one
\* migration at a time, whether the checker, the enforcer of the master node or
\* a person asked for it: each counts the running ones first (MigrateToNode,
\* MigrateProject, handleUnhealthyProject).
THEOREM OneMove == FailoverSpec => []OneMoveAtATime
<1>1. Typed /\ MovesInTurn => OneMoveAtATime
  BY InTurnImplies
<1>2. QED
  BY <1>1, MovesAreInTurn, PTL

\* Then a move whose job completed is recorded as completed, also one the
\* sweeper had given up on before: JobService.Complete settles the migration
\* whatever it says, and cleanupStuckMigrations looks only at those that run.
THEOREM MovesEnd == FailoverSpec => []MovesEndAsTheirJobs
<1>1. Typed /\ MovesInTurn => MovesEndAsTheirJobs
  BY InTurnImplies
<1>2. QED
  BY <1>1, MovesAreInTurn, PTL

=============================================================================
