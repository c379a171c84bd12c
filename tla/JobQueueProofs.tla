--------------------------- MODULE JobQueueProofs ---------------------------
(***************************************************************************)
(* Theorems about JobQueue for any number of jobs, scopes, claim requests  *)
(* and agent restarts.  NoOvertaking needs no assumption on the requests;  *)
(* NoOverlap and the refinement of ScopeLocks need SerialClaims.           *)
(***************************************************************************)
EXTENDS JobQueue, FiniteSetTheorems, TLAPS

LEMMA CandidateIsPending ==
    ASSUME NEW room \in BOOLEAN, NEW j \in Candidates(room)
    PROVE  j \in Jobs /\ status[j] = "pending" /\ MayStart(j, room)
BY DEF Candidates, Window, Pending

LEMMA JobsFinite == IsFiniteSet(Jobs)
BY BoundsAssumption, FS_Interval DEF Jobs

\* Claim request r hands out job j.
HandsOut(r, j) ==
    /\ j \in claim[r].cands /\ status[j] = "pending"
    /\ \A i \in claim[r].cands : status[i] = "pending" => j <= i
    /\ status' = [status EXCEPT ![j] = "running"]
    /\ started' = [started EXCEPT ![j] = claim[r].inc]
    /\ claim' = [claim EXCEPT ![r] = Idle]
    /\ executing' \in {executing, executing \cup {j}}
    /\ UNCHANGED <<type, scope, count, incarnation, report, sweep>>

LEMMA WriteOneJob ==
    ASSUME TypeOK, NEW r \in Requests, NEW delivered \in BOOLEAN, ClaimWrite(r, delivered)
    PROVE  \E j \in Jobs : HandsOut(r, j)
<1>1. claim[r].cands \subseteq Jobs
  BY BoundsAssumption DEF TypeOK, Created, Jobs
<1>2. PICK j \in Claimable(r) :
        /\ \A i \in Claimable(r) : j <= i
        /\ status' = [status EXCEPT ![j] = "running"]
        /\ started' = [started EXCEPT ![j] = claim[r].inc]
        /\ claim' = [claim EXCEPT ![r] = Idle]
        /\ executing' = IF delivered THEN executing \cup {j} ELSE executing
        /\ UNCHANGED <<type, scope, count, incarnation, report, sweep>>
  BY DEF ClaimWrite
<1>3. QED
  BY <1>1, <1>2 DEF Claimable, HandsOut

-----------------------------------------------------------------------------
(* Types *)

LEMMA TypeStep == TypeOK /\ [Next]_vars => TypeOK'
<1> SUFFICES ASSUME TypeOK, [Next]_vars PROVE TypeOK'
  OBVIOUS
<1> USE BoundsAssumption, ScopeAssumption
    DEF TypeOK, Created, Jobs, Incarnations, Statuses, Outcomes, Types
<1>1. ASSUME NEW kind \in [type : Types, scope : Scopes \cup {NoScope}], NewJob(kind)
      PROVE  TypeOK'
  <2>1. count + 1 \in Jobs /\ count' \in 0 .. MaxJobs /\ Created \subseteq Created'
    BY <1>1 DEF NewJob
  <2>2. /\ status' \in [Jobs -> Statuses]
        /\ \A j \in Jobs : status'[j] # "none" <=> j \in Created'
    BY <1>1, <2>1 DEF NewJob
  <2>3. claim' \in [Requests -> [cands : SUBSET Created', inc : Incarnations']]
    BY <1>1, <2>1 DEF NewJob
  <2>4. /\ sweep' \in [as : {"failed", "cancelled"}, left : SUBSET Created']
        /\ executing' \in SUBSET Created'
        /\ \A j \in Jobs : report'[j] # "none" => j \in Created'
    BY <1>1, <2>1 DEF NewJob, agentVars
  <2>5. QED
    BY <1>1, <2>1, <2>2, <2>3, <2>4 DEF NewJob, agentVars
<1>2. CASE Create
  BY <1>1, <1>2, KindsAssumption DEF Create
<1>3. ASSUME NEW j \in Jobs, Retry(j) PROVE TypeOK'
  <2>1. [type |-> type[j], scope |-> scope[j]] \in [type : Types, scope : Scopes \cup {NoScope}]
    OBVIOUS
  <2>2. QED
    BY <1>1, <1>3, <2>1 DEF Retry
<1>4. ASSUME NEW r \in Requests, NEW room \in BOOLEAN, ClaimRead(r, room) PROVE TypeOK'
  <2>1. Candidates(room) \in SUBSET Created
    BY CandidateIsPending
  <2>2. claim' \in [Requests -> [cands : SUBSET Created, inc : Incarnations]]
    BY <1>4, <2>1 DEF ClaimRead
  <2>3. QED
    BY <1>4, <2>2 DEF ClaimRead, jobVars, agentVars
<1>5. ASSUME NEW r \in Requests, NEW delivered \in BOOLEAN, ClaimWrite(r, delivered) PROVE TypeOK'
  <2>1. PICK j \in Jobs : HandsOut(r, j)
    <3> HIDE DEF TypeOK
    <3>1. QED
      BY <1>5, WriteOneJob
  <2>2. Idle \in [cands : SUBSET Created, inc : Incarnations]
    BY DEF Idle
  <2>3. started' \in [Jobs -> Incarnations \cup {Never}]
    BY <2>1 DEF HandsOut
  <2>4. QED
    BY <2>1, <2>2, <2>3 DEF HandsOut
<1>6. ASSUME NEW r \in Requests, ClaimNothing(r) PROVE TypeOK'
  <2>1. claim' \in [Requests -> [cands : SUBSET Created, inc : Incarnations]]
    BY <1>6 DEF ClaimNothing, Idle
  <2>2. QED
    BY <1>6, <2>1 DEF ClaimNothing, jobVars, agentVars
<1>7. ASSUME NEW j \in Jobs, NEW outcome \in Outcomes, Finish(j, outcome) PROVE TypeOK'
  BY <1>7 DEF Finish, jobVars
<1>8. ASSUME NEW j \in Jobs, NEW answered \in BOOLEAN, Complete(j, answered) PROVE TypeOK'
  BY <1>8 DEF Complete, Duplicate
<1>9. CASE Register
  BY <1>9 DEF Register, jobVars
<1>10. ASSUME NEW some \in SUBSET Jobs, FindStuck(some) \/ FindStale(some) PROVE TypeOK'
  <2>1. some \subseteq Created
    BY <1>10 DEF FindStuck, FindStale
  <2>2. sweep' \in [as : {"failed", "cancelled"}, left : SUBSET Created]
    <3>1. sweep' \in {[as |-> "failed", left |-> some], [as |-> "cancelled", left |-> some]}
      BY <1>10 DEF FindStuck, FindStale
    <3>2. \A verdict \in {"failed", "cancelled"} :
            [as |-> verdict, left |-> some] \in [as : {"failed", "cancelled"}, left : SUBSET Created]
      BY <2>1
    <3>3. QED
      BY <3>1, <3>2
  <2>3. UNCHANGED <<jobVars, agentVars, claim>>
    BY <1>10 DEF FindStuck, FindStale
  <2>4. QED
    BY <2>2, <2>3 DEF jobVars, agentVars
<1>11. ASSUME NEW j \in Jobs, SweepSave(j) PROVE TypeOK'
  <2>1. sweep' \in [as : {"failed", "cancelled"}, left : SUBSET Created]
    BY <1>11 DEF SweepSave
  <2>2. started' \in [Jobs -> Incarnations \cup {Never}]
    BY <1>11 DEF SweepSave
  <2>3. QED
    BY <1>11, <2>1, <2>2 DEF SweepSave, agentVars
<1>12. CASE UNCHANGED vars
  BY <1>12 DEF vars, jobVars, agentVars
<1>13. QED
  <2> HIDE DEF TypeOK
  <2>1. QED
    BY <1>2, <1>3, <1>4, <1>5, <1>6, <1>7, <1>8, <1>9, <1>10, <1>11, <1>12 DEF Next

LEMMA TypeInit == Init => TypeOK
<1> SUFFICES ASSUME Init PROVE TypeOK
  OBVIOUS
<1> USE BoundsAssumption DEF Init, Jobs, Created, Incarnations, Statuses, Outcomes, Types
<1>1. claim \in [Requests -> [cands : SUBSET Created, inc : Incarnations]]
  BY DEF Idle
<1>2. sweep \in [as : {"failed", "cancelled"}, left : SUBSET Created]
  OBVIOUS
<1>3. \A j \in Jobs : status[j] # "none" <=> j \in Created
  OBVIOUS
<1>4. QED
  BY <1>1, <1>2, <1>3, ScopeAssumption DEF TypeOK

\* Every variable keeps its type, and claims, sweeps and reports only ever
\* name jobs that were created.
THEOREM TypeCorrect == Spec => []TypeOK
BY TypeInit, TypeStep, PTL DEF Spec

-----------------------------------------------------------------------------
(* Nobody is overtaken *)

\* An older pending job that j must not overtake.
Ahead(i, j) == i < j /\ status[i] = "pending" /\ scope[i] \in {scope[j], NoScope}

\* Whatever a claim may hand out, the jobs it would overtake are among its
\* candidates too, and it hands out the oldest candidate.
ClaimFair ==
    \A r \in Requests : \A j \in claim[r].cands : \A i \in Jobs :
        ~Streams(j) /\ Ahead(i, j) => i \in claim[r].cands

\* The window of a claim holds every pending job older than one it holds.
LEMMA WindowIsOldest ==
    ASSUME NEW j \in Window, NEW i \in Jobs, i < j, status[i] = "pending", TypeOK
    PROVE  i \in Window
<1> DEFINE Older(k) == {x \in Pending : x < k}
<1>1. j \in Jobs
  BY DEF Window, Pending
<1>2. IsFiniteSet(Older(j))
  BY JobsFinite, FS_Subset DEF Pending
<1>3. Older(i) \in SUBSET Older(j)
  BY <1>1, BoundsAssumption DEF Pending, Jobs
<1>4. Cardinality(Older(i)) <= Cardinality(Older(j)) /\ IsFiniteSet(Older(i))
  BY <1>2, <1>3, FS_Subset
<1>5. Cardinality(Older(i)) \in Nat /\ Cardinality(Older(j)) \in Nat
  BY <1>2, <1>4, FS_CardinalityType
<1>6. Cardinality(Older(j)) < ClaimWindow
  BY DEF Window
<1>7. Cardinality(Older(i)) < ClaimWindow
  BY <1>4, <1>5, <1>6, LimitAssumption
<1>8. QED
  BY <1>7 DEF Window, Pending

LEMMA CandidatesAreFair ==
    ASSUME TypeOK, NEW room \in BOOLEAN, NEW j \in Candidates(room), NEW i \in Jobs,
           ~Streams(j), Ahead(i, j)
    PROVE  i \in Candidates(room)
<1>1. j \in Jobs /\ j \in Window /\ MayStart(j, room)
  BY CandidateIsPending DEF Candidates
<1>2. i \in Window
  BY <1>1, WindowIsOldest DEF Ahead
<1>3. CASE Streams(i)
  BY <1>2, <1>3 DEF Candidates, MayStart
<1>4. CASE ~Streams(i)
  <2>1. ~HoldsUpQueue(i, room)
    BY <1>1, <1>2 DEF MayStart, Ahead
  <2>2. ~Full /\ (Running # {} => scope[j] # NoScope /\ scope[j] \notin Busy /\ room)
    BY <1>1 DEF MayStart
  <2>3. Running # {} => scope[i] # NoScope /\ scope[i] \notin Busy
    BY <1>4, <2>1, <2>2 DEF HoldsUpQueue, Ahead
  <2>4. \A k \in Window : k < i => ~HoldsUpQueue(k, room)
    <3>1. ASSUME NEW k \in Window, k < i PROVE k < j
      BY <1>1, <3>1, BoundsAssumption DEF Window, Pending, Jobs, Ahead
    <3>2. QED
      BY <1>1, <3>1 DEF MayStart
  <2>5. MayStart(i, room)
    BY <2>2, <2>3, <2>4 DEF MayStart
  <2>6. QED
    BY <1>2, <2>5 DEF Candidates
<1>5. QED
  BY <1>3, <1>4

\* No step makes a job pending but its creation, after every candidate.
LEMMA AheadStep ==
    ASSUME TypeOK, [Next]_vars, NEW j \in Created, NEW i \in Jobs, Ahead(i, j)'
    PROVE  Ahead(i, j) /\ type'[j] = type[j]
<1> USE BoundsAssumption DEF Ahead
<1>1. ASSUME NEW kind, NewJob(kind) PROVE Ahead(i, j) /\ type'[j] = type[j]
  BY <1>1 DEF NewJob, TypeOK, Created, Jobs
<1>2. ASSUME UNCHANGED <<type, scope>>, status'[i] = "pending" => status[i] = "pending"
      PROVE  Ahead(i, j) /\ type'[j] = type[j]
  BY <1>2
<1>3. CASE Create
  BY <1>1, <1>3 DEF Create
<1>4. ASSUME NEW k \in Jobs, Retry(k) PROVE Ahead(i, j) /\ type'[j] = type[j]
  BY <1>1, <1>4 DEF Retry
<1>5. ASSUME NEW r \in Requests, NEW room \in BOOLEAN, ClaimRead(r, room) \/ ClaimNothing(r)
      PROVE  Ahead(i, j) /\ type'[j] = type[j]
  BY <1>2, <1>5 DEF ClaimRead, ClaimNothing, jobVars
<1>6. ASSUME NEW r \in Requests, NEW delivered \in BOOLEAN, ClaimWrite(r, delivered)
      PROVE  Ahead(i, j) /\ type'[j] = type[j]
  BY <1>2, <1>6, WriteOneJob DEF HandsOut, TypeOK
<1>7. ASSUME NEW k \in Jobs, NEW o \in Outcomes, Finish(k, o)
      PROVE  Ahead(i, j) /\ type'[j] = type[j]
  BY <1>2, <1>7 DEF Finish, jobVars
<1>8. ASSUME NEW k \in Jobs, NEW answered \in BOOLEAN, Complete(k, answered)
      PROVE  Ahead(i, j) /\ type'[j] = type[j]
  BY <1>2, <1>8 DEF Complete, TypeOK, Outcomes
<1>9. CASE Register
  BY <1>2, <1>9 DEF Register, jobVars
<1>10. ASSUME NEW some \in SUBSET Jobs, FindStuck(some) \/ FindStale(some)
       PROVE  Ahead(i, j) /\ type'[j] = type[j]
  BY <1>2, <1>10 DEF FindStuck, FindStale, jobVars
<1>11. ASSUME NEW k \in Jobs, SweepSave(k) PROVE Ahead(i, j) /\ type'[j] = type[j]
  BY <1>2, <1>11 DEF SweepSave, TypeOK
<1>12. CASE UNCHANGED vars
  BY <1>2, <1>12 DEF vars, jobVars
<1>13. QED
  BY <1>3, <1>4, <1>5, <1>6, <1>7, <1>8, <1>9, <1>10, <1>11, <1>12 DEF Next

LEMMA FairStep == TypeOK /\ ClaimFair /\ [Next]_vars => ClaimFair'
<1> SUFFICES ASSUME TypeOK, ClaimFair, [Next]_vars,
                    NEW r \in Requests, NEW j \in claim'[r].cands, NEW i \in Jobs,
                    ~Streams(j)', Ahead(i, j)'
             PROVE  i \in claim'[r].cands
  BY DEF ClaimFair
<1>1. CASE claim'[r] = claim[r]
  <2>1. j \in Created
    BY <1>1 DEF TypeOK
  <2>2. QED
    BY <1>1, <2>1, AheadStep DEF ClaimFair, Streams
<1>2. CASE claim'[r] # claim[r] /\ claim'[r] # Idle
  <2>1. PICK room \in BOOLEAN : ClaimRead(r, room)
    <3>1. ASSUME NEW q \in Requests, NEW room \in BOOLEAN, ClaimRead(q, room)
          PROVE  q = r
      BY <1>2, <3>1 DEF ClaimRead, TypeOK
    <3>2. ASSUME NEW q \in Requests, ClaimNothing(q) PROVE FALSE
      BY <1>2, <3>2 DEF ClaimNothing, TypeOK
    <3>3. ASSUME NEW q \in Requests, NEW delivered \in BOOLEAN, ClaimWrite(q, delivered)
          PROVE  FALSE
      BY <1>2, <3>3, WriteOneJob DEF HandsOut, TypeOK
    <3>4. QED
      BY <1>2, <3>1, <3>2, <3>3
      DEF Next, Create, Retry, NewJob, Finish, Complete, Register, FindStuck, FindStale,
          SweepSave, vars
  <2>2. claim'[r].cands = Candidates(room) /\ UNCHANGED jobVars
    BY <2>1 DEF ClaimRead, TypeOK
  <2>3. j \in Candidates(room) /\ ~Streams(j) /\ Ahead(i, j)
    BY <2>2 DEF jobVars, Streams, Ahead
  <2>4. QED
    BY <2>2, <2>3, CandidatesAreFair
<1>3. CASE claim'[r] = Idle
  BY <1>3 DEF Idle
<1>4. QED
  BY <1>1, <1>2, <1>3

LEMMA FairInit == Init => ClaimFair
BY DEF Init, ClaimFair, Idle

\* Whatever requests run side by side, and whatever the sweeper overwrites, no
\* job starts before an older one of its scope or one that needs the node alone.
THEOREM NobodyOvertaken == Spec => NoOvertaking
<1> DEFINE Step == \A i, j \in Jobs : i < j /\ status[i] = "pending" /\ Starts(j)
                                       => scope[i] \notin {scope[j], NoScope}
<1>1. TypeOK /\ ClaimFair /\ [Next]_vars => [Step]_vars
  <2> SUFFICES ASSUME TypeOK, ClaimFair, [Next]_vars, NEW i \in Jobs, NEW j \in Jobs,
                      i < j, status[i] = "pending", Starts(j),
                      scope[i] \in {scope[j], NoScope}
               PROVE  FALSE
    OBVIOUS
  <2>1. PICK r \in Requests : HandsOut(r, j)
    <3>1. ASSUME NEW r \in Requests, NEW delivered \in BOOLEAN, ClaimWrite(r, delivered)
          PROVE  HandsOut(r, j)
      BY <3>1, WriteOneJob DEF HandsOut, Starts, TypeOK
    <3>2. ASSUME NEW kind, NewJob(kind) PROVE FALSE
      BY <3>2, BoundsAssumption DEF NewJob, Starts, TypeOK
    <3>3. ASSUME NEW k \in Jobs, NEW answered \in BOOLEAN, Complete(k, answered) PROVE FALSE
      BY <3>3 DEF Complete, Starts, TypeOK, Outcomes
    <3>4. ASSUME NEW k \in Jobs, SweepSave(k) PROVE FALSE
      BY <3>4 DEF SweepSave, Starts, TypeOK
    <3>5. QED
      BY <3>1, <3>2, <3>3, <3>4
      DEF Next, Create, Retry, ClaimRead, ClaimNothing, Finish, Register, FindStuck,
          FindStale, Starts, vars, jobVars
  <2>2. i \in claim[r].cands
    BY <2>1 DEF ClaimFair, HandsOut, Starts, Ahead
  <2>3. QED
    BY <2>1, <2>2, BoundsAssumption DEF HandsOut, Jobs
<1>2. QED
  BY <1>1, TypeCorrect, TypeStep, FairInit, FairStep, PTL DEF Spec, NoOvertaking

-----------------------------------------------------------------------------
(* Nothing overlaps, when a node's claims are handled one at a time *)

\* The Hub handles one claim request of the node at a time.  Nothing in nextJob
\* makes it so: it is what the rest of this module needs of the agent.
SerialClaims == \A q, r \in Requests : q = r

\* A job that a claim may hand out now still fits beside the running ones.
Fits(j) ==
    /\ Cardinality(Running) < Limit
    /\ \A h \in Running : Locking!Compatible(scope[h], scope[j])

ClaimSafe ==
    \A r \in Requests : \A j \in claim[r].cands :
        claim[r].inc = incarnation /\ ~Streams(j) => Fits(j)

\* Nothing started in an incarnation that is still to come.
NoFuture ==
    /\ \A r \in Requests : claim[r].inc <= incarnation
    /\ \A j \in Jobs : started[j] <= incarnation

Safe == TypeOK /\ NoFuture /\ ClaimSafe /\ NoOverlap

LEMMA RunningFinite ==
    /\ Running \in SUBSET Jobs
    /\ IsFiniteSet(Running)
    /\ Cardinality(Running) \in Nat
BY JobsFinite, FS_Subset, FS_CardinalityType DEF Running

LEMMA SmallerIsSafer ==
    ASSUME Safe, Running' \subseteq Running, \A h \in Running' : scope'[h] = scope[h]
    PROVE  /\ Cardinality(Running') <= Cardinality(Running)
           /\ Cardinality(Running') \in Nat
           /\ NoOverlap'
           /\ \A j \in Jobs : scope'[j] = scope[j] /\ Fits(j) => Fits(j)'
<1>1. Cardinality(Running') <= Cardinality(Running) /\ IsFiniteSet(Running')
  BY RunningFinite, FS_Subset
<1>2. Cardinality(Running') \in Nat /\ Cardinality(Running) \in Nat
  BY <1>1, RunningFinite, FS_CardinalityType
<1>3. NoOverlap'
  BY <1>1, <1>2, LimitAssumption DEF NoOverlap, Safe
<1>4. ASSUME NEW j \in Jobs, scope'[j] = scope[j], Fits(j) PROVE Fits(j)'
  BY <1>1, <1>2, <1>4, LimitAssumption DEF Fits, Locking!Compatible
<1>5. QED
  BY <1>1, <1>2, <1>3, <1>4

\* A step that starts nothing: the running jobs are among those that ran, keep
\* their scopes, and the claims under way were under way before.
StartsNothing ==
    /\ Running' \subseteq Running
    /\ \A j \in Created : type'[j] = type[j] /\ scope'[j] = scope[j]
    /\ \A r \in Requests : \/ claim'[r] = claim[r]
                           \/ claim'[r] = Idle
    /\ \A j \in Jobs : started'[j] \in {started[j], Never}
    /\ incarnation' = incarnation

LEMMA StartsNothingKeepsLocks ==
    ASSUME Safe, StartsNothing
    PROVE  NoFuture' /\ ClaimSafe' /\ NoOverlap'
<1> USE BoundsAssumption DEF Safe, StartsNothing
<1>1. Running \subseteq Created
  BY DEF Running, TypeOK
<1>2. \A h \in Running' : scope'[h] = scope[h]
  BY <1>1
<1>3. NoOverlap' /\ \A j \in Jobs : scope'[j] = scope[j] /\ Fits(j) => Fits(j)'
  BY <1>2, SmallerIsSafer
<1>4. NoFuture'
  BY DEF NoFuture, Idle, TypeOK, Incarnations, Never
<1>5. ASSUME NEW r \in Requests, NEW j \in claim'[r].cands,
             claim'[r].inc = incarnation', ~Streams(j)'
      PROVE  Fits(j)'
  <2>1. claim'[r] = claim[r] /\ j \in Created
    BY <1>5 DEF Idle, TypeOK
  <2>2. ~Streams(j) /\ scope'[j] = scope[j] /\ j \in Jobs
    BY <1>5, <2>1 DEF Streams, TypeOK, Created, Jobs
  <2>3. Fits(j)
    BY <1>5, <2>1, <2>2 DEF ClaimSafe
  <2>4. QED
    BY <1>3, <2>2, <2>3
<1>6. QED
  BY <1>3, <1>4, <1>5 DEF ClaimSafe

\* The steps that are not a claim and not the agent's registration.
LEMMA OthersStartNothing ==
    ASSUME TypeOK, [Next]_vars, ~Register,
           \A r \in Requests : /\ \A room \in BOOLEAN : ~ClaimRead(r, room)
                               /\ \A delivered \in BOOLEAN : ~ClaimWrite(r, delivered)
    PROVE  StartsNothing
<1> USE DEF TypeOK, StartsNothing, Running, Streams
<1>1. ASSUME NEW kind, NewJob(kind) PROVE StartsNothing
  BY <1>1, BoundsAssumption DEF NewJob, agentVars, Created, Jobs
<1>2. CASE Create
  BY <1>1, <1>2 DEF Create
<1>3. ASSUME NEW k \in Jobs, Retry(k) PROVE StartsNothing
  BY <1>1, <1>3 DEF Retry
<1>4. ASSUME NEW r \in Requests, ClaimNothing(r) PROVE StartsNothing
  BY <1>4 DEF ClaimNothing, jobVars, agentVars
<1>5. ASSUME NEW k \in Jobs, NEW o \in Outcomes, Finish(k, o) PROVE StartsNothing
  BY <1>5 DEF Finish, jobVars
<1>6. ASSUME NEW k \in Jobs, NEW answered \in BOOLEAN, Complete(k, answered) PROVE StartsNothing
  BY <1>6 DEF Complete, Outcomes
<1>7. ASSUME NEW some \in SUBSET Jobs, FindStuck(some) \/ FindStale(some) PROVE StartsNothing
  BY <1>7 DEF FindStuck, FindStale, jobVars, agentVars
<1>8. ASSUME NEW k \in Jobs, SweepSave(k) PROVE StartsNothing
  <2>1. status' = [status EXCEPT ![k] = sweep.as] /\ sweep.as # "running"
    BY <1>8 DEF SweepSave
  <2>2. \A j \in Jobs : j # k => started'[j] = started[j] /\ status'[j] = status[j]
    BY <1>8 DEF SweepSave
  <2>3. QED
    BY <1>8, <2>1, <2>2 DEF SweepSave, agentVars
<1>9. CASE UNCHANGED vars
  BY <1>9 DEF vars, jobVars, agentVars
<1>10. QED
  BY <1>2, <1>3, <1>4, <1>5, <1>6, <1>7, <1>8, <1>9 DEF Next

\* A job handed out by the only claim request leaves the locks well kept.
LEMMA HandOutIsSafe ==
    ASSUME SerialClaims, Safe, NEW r \in Requests, NEW j \in Jobs, HandsOut(r, j)
    PROVE  /\ NoFuture' /\ ClaimSafe' /\ NoOverlap'
           /\ \/ Running' \subseteq Running
              \/ Running' = Running \cup {j} /\ Fits(j)
<1> USE DEF Safe, HandsOut
<1>1. \A q \in Requests : claim'[q] = Idle
  BY DEF SerialClaims, TypeOK
<1>2. \A k \in Jobs : k # j => started'[k] = started[k] /\ status'[k] = status[k]
  BY DEF TypeOK
<1>3. started'[j] = claim[r].inc /\ status'[j] = "running"
  BY DEF TypeOK
<1>4. NoFuture'
  BY <1>1, <1>2, <1>3, BoundsAssumption DEF NoFuture, Idle, TypeOK, Incarnations
<1>5. ClaimSafe'
  BY <1>1 DEF ClaimSafe, Idle
<1>6. CASE Streams(j) \/ claim[r].inc # incarnation
  <2>1. claim[r].inc \in Int /\ incarnation \in Int /\ claim[r].inc <= incarnation
    BY BoundsAssumption DEF NoFuture, TypeOK, Incarnations
  <2>2. j \notin Running'
    BY <1>3, <1>6, <2>1 DEF Running, Streams
  <2>3. Running' \subseteq Running
    BY <1>2, <2>2 DEF Running, Streams
  <2>4. QED
    BY <1>4, <1>5, <2>3, SmallerIsSafer
<1>7. CASE ~Streams(j) /\ claim[r].inc = incarnation
  <2>1. Fits(j)
    BY <1>7 DEF ClaimSafe
  <2>2. Running' = Running \cup {j}
    BY <1>2, <1>3, <1>7, BoundsAssumption DEF Running, Streams, TypeOK, Incarnations
  <2>3. /\ IsFiniteSet(Running \cup {j})
        /\ Cardinality(Running \cup {j}) <= Cardinality(Running) + 1
        /\ Cardinality(Running) \in Nat
    <3>1. Cardinality(Running \cup {j}) = IF j \in Running THEN Cardinality(Running)
                                                             ELSE Cardinality(Running) + 1
      BY RunningFinite, FS_AddElement
    <3>2. QED
      BY <3>1, RunningFinite, FS_AddElement
  <2>4. Cardinality(Running') \in Nat /\ Cardinality(Running') <= Cardinality(Running) + 1
    BY <2>2, <2>3, FS_CardinalityType
  <2>5. Cardinality(Running') <= Limit
    BY <2>1, <2>3, <2>4, LimitAssumption DEF Fits
  <2>6. NoOverlap'
    BY <2>1, <2>2, <2>5 DEF NoOverlap, Fits, Locking!Compatible
  <2>7. QED
    BY <1>4, <1>5, <2>1, <2>2, <2>6
<1>8. QED
  BY <1>6, <1>7

\* What a claim reads as startable fits beside what is running.
LEMMA CandidatesFit ==
    ASSUME TypeOK, NEW room \in BOOLEAN, NEW j \in Candidates(room), ~Streams(j)
    PROVE  Fits(j)
<1>1. ~Full /\ (Running # {} => scope[j] # NoScope /\ scope[j] \notin Busy)
  BY CandidateIsPending DEF MayStart
<1>2. Cardinality(Running) < Limit
  BY <1>1, RunningFinite, LimitAssumption DEF Full
<1>3. ASSUME NEW h \in Running PROVE Locking!Compatible(scope[h], scope[j])
  BY <1>1, <1>3 DEF Full, Busy, Locking!Compatible
<1>4. QED
  BY <1>2, <1>3 DEF Fits

LEMMA SafeStep == SerialClaims /\ Safe /\ [Next]_vars => Safe'
<1> SUFFICES ASSUME SerialClaims, Safe, [Next]_vars
             PROVE  NoFuture' /\ ClaimSafe' /\ NoOverlap'
  BY TypeStep DEF Safe
<1>1. ASSUME NEW r \in Requests, NEW room \in BOOLEAN, ClaimRead(r, room)
      PROVE  NoFuture' /\ ClaimSafe' /\ NoOverlap'
  <2>1. UNCHANGED <<type, scope, status, started, incarnation>>
    BY <1>1 DEF ClaimRead, jobVars, agentVars
  <2>2. claim'[r] = [cands |-> Candidates(room), inc |-> incarnation]
    BY <1>1 DEF ClaimRead, Safe, TypeOK
  <2>3. \A q \in Requests : claim'[q] = claim'[r]
    BY DEF SerialClaims
  <2>4. Running' = Running /\ NoOverlap'
    BY <2>1 DEF Running, Streams, NoOverlap, Safe
  <2>5. \A j \in Candidates(room) : ~Streams(j) => Fits(j)'
    BY <2>1, <2>4, CandidatesFit DEF Safe, Fits
  <2>6. NoFuture'
    BY <2>1, <2>2, <2>3, BoundsAssumption DEF NoFuture, Safe, TypeOK, Incarnations
  <2>7. ClaimSafe'
    BY <2>1, <2>2, <2>3, <2>5 DEF ClaimSafe, Streams
  <2>8. QED
    BY <2>4, <2>6, <2>7
<1>2. ASSUME NEW r \in Requests, NEW delivered \in BOOLEAN, ClaimWrite(r, delivered)
      PROVE  NoFuture' /\ ClaimSafe' /\ NoOverlap'
  BY <1>2, WriteOneJob, HandOutIsSafe DEF Safe
<1>3. CASE Register
  <2>1. incarnation' = incarnation + 1 /\ UNCHANGED <<jobVars, claim>>
    BY <1>3 DEF Register
  <2>2. Running' = {}
    BY <2>1, BoundsAssumption
    DEF Running, jobVars, Safe, NoFuture, TypeOK, Incarnations, Never
  <2>3. \A r \in Requests : claim'[r].inc # incarnation'
    BY <2>1, BoundsAssumption DEF Safe, NoFuture, TypeOK, Incarnations
  <2>4. NoOverlap'
    BY <2>2, FS_EmptySet, LimitAssumption DEF NoOverlap
  <2>5. NoFuture'
    BY <2>1, BoundsAssumption DEF Safe, NoFuture, TypeOK, Incarnations, jobVars, Never
  <2>6. QED
    BY <2>3, <2>4, <2>5 DEF ClaimSafe
<1>4. CASE ~Register /\ \A r \in Requests :
              /\ \A room \in BOOLEAN : ~ClaimRead(r, room)
              /\ \A delivered \in BOOLEAN : ~ClaimWrite(r, delivered)
  BY <1>4, OthersStartNothing, StartsNothingKeepsLocks DEF Safe
<1>5. QED
  BY <1>1, <1>2, <1>3, <1>4

LEMMA SafeInit == Init => Safe
<1> SUFFICES ASSUME Init PROVE NoFuture /\ ClaimSafe /\ NoOverlap
  BY TypeInit DEF Safe
<1>1. Running = {}
  BY DEF Init, Running
<1>2. NoOverlap
  BY <1>1, FS_EmptySet, LimitAssumption DEF NoOverlap
<1>3. QED
  BY <1>2 DEF Init, NoFuture, ClaimSafe, Idle, Never

\* With serial claims no two running jobs share a scope, a job without one
\* runs alone and the limit is kept, across agent restarts, lost answers, late
\* reports and the sweeper's stale writes.
THEOREM RunningJobsNeverOverlap ==
    ASSUME SerialClaims
    PROVE  Spec => []NoOverlap
<1>1. Safe /\ [Next]_vars => Safe'
  BY SafeStep
<1>2. Safe => NoOverlap
  BY DEF Safe
<1>3. QED
  BY <1>1, <1>2, SafeInit, PTL DEF Spec

LEMMA SameCardinality == \A S : Locking!Cardinality(S) = Cardinality(S)
BY DEF Cardinality, Locking!Cardinality

\* With serial claims the queue implements ScopeLocks: starting a job takes
\* its scope's lock, and nothing else ever takes one.
THEOREM QueueImplementsLocks ==
    ASSUME SerialClaims
    PROVE  Spec => KeepsLocks
<1> DEFINE locks == {[job |-> j, scope |-> scope[j]] : j \in Running}
<1>1. Init => Locking!Init
  BY DEF Init, Locking!Init, Running
<1>2. ASSUME Safe, [Next]_vars PROVE [Locking!Next]_locks
  <2>1. ASSUME locks' \subseteq locks PROVE [Locking!Next]_locks
    <3>1. PICK ended \in SUBSET locks : ended = locks \ locks'
      OBVIOUS
    <3>2. Locking!Release(ended)
      BY <2>1, <3>1 DEF Locking!Release
    <3>3. Locking!Next
      BY <3>2 DEF Locking!Next
    <3>4. QED
      BY <3>3
  <2>2. ASSUME NEW r \in Requests, NEW delivered \in BOOLEAN, ClaimWrite(r, delivered)
        PROVE  [Locking!Next]_locks
    <3>1. PICK j \in Jobs : HandsOut(r, j)
      BY <2>2, <1>2, WriteOneJob DEF Safe
    <3>2. UNCHANGED scope
      BY <3>1 DEF HandsOut
    <3>3. CASE Running' \subseteq Running
      BY <2>1, <3>2, <3>3
    <3>4. CASE Running' = Running \cup {j} /\ Fits(j)
      <4>1. PICK lock \in Locking!Locks : lock = [job |-> j, scope |-> scope[j]]
        BY <1>2 DEF Locking!Locks, Safe, TypeOK
      <4>2. locks' = locks \cup {lock}
        BY <3>2, <3>4, <4>1
      <4>3. Cardinality(locks) < Limit
        <5> DEFINE f == [k \in Running |-> [job |-> k, scope |-> scope[k]]]
        <5>1. f \in Surjection(Running, locks)
          BY DEF Surjection
        <5>2. Cardinality(locks) <= Cardinality(Running) /\ IsFiniteSet(locks)
          BY <5>1, RunningFinite, FS_Surjection
        <5>3. Cardinality(locks) \in Nat
          BY <5>2, FS_CardinalityType
        <5>4. QED
          BY <3>4, <5>2, <5>3, RunningFinite, LimitAssumption DEF Fits
      <4>4. \A h \in locks : Locking!Compatible(h.scope, lock.scope)
        BY <3>4, <4>1 DEF Fits
      <4>5. Locking!Acquire(lock)
        BY <4>2, <4>3, <4>4, SameCardinality DEF Locking!Acquire
      <4>6. Locking!Next
        BY <4>5 DEF Locking!Next
      <4>7. QED
        BY <4>6
    <3>5. QED
      BY <1>2, <3>1, <3>3, <3>4, HandOutIsSafe
  <2>3. ASSUME NEW r \in Requests, NEW room \in BOOLEAN, ClaimRead(r, room)
        PROVE  [Locking!Next]_locks
    <3>1. locks' = locks
      BY <2>3 DEF ClaimRead, jobVars, agentVars, Running, Streams
    <3>2. QED
      BY <3>1, <2>1
  <2>4. CASE Register
    <3>1. Running' \subseteq Running /\ UNCHANGED scope
      BY <1>2, <2>4, BoundsAssumption
      DEF Register, jobVars, Running, Streams, Safe, TypeOK, Incarnations, Never
    <3>2. QED
      BY <2>1, <3>1
  <2>5. CASE ~Register /\ \A r \in Requests :
                /\ \A room \in BOOLEAN : ~ClaimRead(r, room)
                /\ \A delivered \in BOOLEAN : ~ClaimWrite(r, delivered)
    <3>1. StartsNothing
      BY <1>2, <2>5, OthersStartNothing DEF Safe
    <3>2. Running \subseteq Created
      BY <1>2 DEF Running, Safe, TypeOK
    <3>3. locks' \subseteq locks
      BY <3>1, <3>2 DEF StartsNothing
    <3>4. QED
      BY <2>1, <3>3
  <2>6. QED
    BY <1>2, <2>2, <2>3, <2>4, <2>5
<1>3. QED
  BY <1>1, <1>2, SafeInit, SafeStep, PTL DEF Spec, KeepsLocks, Locking!Spec
=============================================================================
