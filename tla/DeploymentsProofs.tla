-------------------------- MODULE DeploymentsProofs --------------------------
(***************************************************************************)
(* Theorems about Deployments for any nodes, bounds and incidents.  The    *)
(* types hold however requests interleave; the others need requests to be  *)
(* handled one at a time.                                                  *)
(***************************************************************************)
EXTENDS Deployments, TLAPS

-----------------------------------------------------------------------------
(* Types.  What the project and the handlers point at is recorded. *)

Recorded(row) ==
    /\ row.current # None => dep[row.current] # "none"
    /\ row.image \in Jobs => dep[row.image] # "none"

Known ==
    /\ Recorded(TheRow) /\ Recorded(editing.row)
    /\ reporting.job # None => /\ kind[reporting.job] = "deploy"
                               /\ status[reporting.job] \in Outcomes
    /\ reporting.read => reporting.job # None /\ dep[reporting.job] # "none"

TypeInv == TypeOK /\ Known

LEMMA NewJobTyped ==
    ASSUME TypeOK, NEW k \in {"deploy", "stop"}, NEW n \in Nodes, NewJob(k, n)
    PROVE  /\ count + 1 \in Jobs \ Created /\ count' \in 0 .. MaxJobs
           /\ Created' = Created \cup {count + 1}
           /\ kind' \in [Jobs -> {"deploy", "stop"}]
           /\ node' \in [Jobs -> Nodes \cup {NoNode}]
           /\ \A j \in Created' : node'[j] \in Nodes
           /\ status' \in [Jobs -> Statuses]
           /\ \A j \in Jobs : status'[j] = "none" <=> j \notin Created'
           /\ lost' \in SUBSET Created'
           /\ \A j \in Created : kind'[j] = kind[j] /\ status'[j] = status[j] /\ node'[j] = node[j]
           /\ kind'[count + 1] = k /\ node'[count + 1] = n /\ status'[count + 1] = "pending"
<1> USE BoundsAssumption DEF Jobs
<1>1. count + 1 \in Jobs \ Created /\ count' \in 0 .. MaxJobs
  BY DEF NewJob, TypeOK, Created
<1>2. Created' = Created \cup {count + 1}
  BY <1>1 DEF NewJob, TypeOK, Created
<1>3. /\ kind' \in [Jobs -> {"deploy", "stop"}]
      /\ node' \in [Jobs -> Nodes \cup {NoNode}]
      /\ status' \in [Jobs -> Statuses]
      /\ kind'[count + 1] = k /\ node'[count + 1] = n /\ status'[count + 1] = "pending"
  BY <1>1 DEF NewJob, TypeOK, Statuses
<1>4. \A j \in Created : kind'[j] = kind[j] /\ status'[j] = status[j] /\ node'[j] = node[j]
  BY <1>1 DEF NewJob, TypeOK, Created
<1>5. \A j \in Created' : node'[j] \in Nodes
  BY <1>2, <1>3, <1>4 DEF TypeOK
<1>6. \A j \in Jobs : status'[j] = "none" <=> j \notin Created'
  BY <1>1, <1>2 DEF NewJob, TypeOK
<1>7. lost' \in SUBSET Created'
  BY <1>2 DEF NewJob, TypeOK
<1>8. QED
  BY <1>1, <1>2, <1>3, <1>4, <1>5, <1>6, <1>7

\* A step that may create a job and changes nothing else jobs, agents or
\* deployment rows have keeps their types.
JobsTyped ==
    /\ count \in 0 .. MaxJobs
    /\ kind \in [Jobs -> {"deploy", "stop"}]
    /\ node \in [Jobs -> Nodes \cup {NoNode}]
    /\ \A j \in Created : node[j] \in Nodes
    /\ status \in [Jobs -> Statuses]
    /\ \A j \in Jobs : status[j] = "none" <=> j \notin Created
    /\ lost \in SUBSET Created
    /\ byHand \in SUBSET Created

AgentsTyped ==
    /\ executing \in SUBSET Created
    /\ report \in [Jobs -> Outcomes \cup {"none"}]
    /\ \A j \in Jobs : report[j] # "none" => j \in Created
    /\ copy \in [Nodes -> Created \cup {None}]

DepTyped ==
    /\ dep \in [Jobs -> {"none", "pending"} \cup Outcomes]
    /\ \A j \in Jobs : dep[j] # "none" => j \in Created /\ kind[j] = "deploy"

HandlersTyped ==
    /\ reporting \in [job : Created \cup {None}, read : BOOLEAN, row : Row]
    /\ editing \in [on : BOOLEAN, row : Row]
    /\ removing \in SUBSET Nodes

LEMMA TypeParts ==
    TypeOK <=> /\ JobsTyped /\ AgentsTyped /\ DepTyped /\ HandlersTyped
               /\ present \in BOOLEAN /\ TheRow \in Row /\ happened \in SUBSET Incidents
BY DEF TypeOK, JobsTyped, AgentsTyped, DepTyped, HandlersTyped

LEMMA TypePartsNext ==
    ASSUME JobsTyped', AgentsTyped', DepTyped', HandlersTyped',
           present' \in BOOLEAN, TheRow' \in Row, happened' \in SUBSET Incidents
    PROVE  TypeOK'
BY DEF TypeOK, JobsTyped, AgentsTyped, DepTyped, HandlersTyped

\* Jobs that exist stay as they are.
SameJobs == \A j \in Created : kind'[j] = kind[j] /\ status'[j] = status[j] /\ node'[j] = node[j]

LEMMA QueueStopTyped ==
    ASSUME TypeOK, NEW n \in Nodes \cup {NoNode}, QueueStop(n)
    PROVE  JobsTyped' /\ Created \subseteq Created' /\ SameJobs
<1>1. CASE n = NoNode
  BY <1>1 DEF QueueStop, TypeOK, JobsTyped, Created, SameJobs
<1>2. CASE n # NoNode
  <2>1. NewJob("stop", n) /\ byHand' = byHand /\ n \in Nodes
    BY <1>2 DEF QueueStop
  <2>2. byHand \subseteq Created
    BY DEF TypeOK
  <2>3. QED
    BY <2>1, <2>2, NewJobTyped DEF JobsTyped, SameJobs
<1>3. QED
  BY <1>1, <1>2

\* What still holds of the agents and the deployments when jobs were added.
LEMMA OthersTyped ==
    ASSUME TypeOK, Known, Created \subseteq Created', SameJobs
    PROVE  /\ UNCHANGED agentVars => AgentsTyped'
           /\ UNCHANGED dep => DepTyped'
           /\ reporting' \in {reporting, NotReporting} /\ UNCHANGED <<dep, editing>>
                /\ removing' \in SUBSET removing
                => HandlersTyped' /\ (Recorded(TheRow)' => Known')
<1>1. UNCHANGED agentVars => AgentsTyped'
  BY DEF TypeOK, AgentsTyped, agentVars
<1>2. UNCHANGED dep => DepTyped'
  BY DEF TypeOK, DepTyped, SameJobs
<1>3. ASSUME reporting' \in {reporting, NotReporting}, UNCHANGED <<dep, editing>>,
             removing' \in SUBSET removing
      PROVE  HandlersTyped' /\ (Recorded(TheRow)' => Known')
  <2>1. NotReporting \in [job : Created \cup {None}, read : BOOLEAN, row : Row]
    BY DEF NotReporting, NoRow, Row
  <2>2. HandlersTyped'
    BY <1>3, <2>1 DEF TypeOK, HandlersTyped
  <2>3. Recorded(editing.row)'
    BY <1>3 DEF Known, Recorded
  <2>4. reporting'.job # None => /\ kind'[reporting'.job] = "deploy"
                                 /\ status'[reporting'.job] \in Outcomes
    BY <1>3 DEF Known, SameJobs, TypeOK, NotReporting
  <2>5. reporting'.read => reporting'.job # None /\ dep'[reporting'.job] # "none"
    BY <1>3 DEF Known, NotReporting
  <2>6. QED
    BY <2>2, <2>3, <2>4, <2>5 DEF Known
<1>4. QED
  BY <1>1, <1>2, <1>3

LEMMA DeployTyped ==
    ASSUME TypeOK, NEW n \in Nodes, Deploy(n)
    PROVE  /\ JobsTyped' /\ DepTyped' /\ Created \subseteq Created' /\ SameJobs
           /\ current' \in Jobs /\ dep'[current'] # "none"
           /\ \A j \in Jobs : dep[j] # "none" => dep'[j] # "none"
<1>1. NewJob("deploy", n) /\ byHand' = byHand /\ byHand \subseteq Created
      /\ dep' = [dep EXCEPT ![count + 1] = "pending"] /\ current' = count + 1
  BY DEF Deploy, TypeOK
<1>2. JobsTyped' /\ Created \subseteq Created' /\ SameJobs
      /\ count + 1 \in Jobs /\ count + 1 \in Created' /\ kind'[count + 1] = "deploy"
  BY <1>1, NewJobTyped DEF JobsTyped, SameJobs
<1>3. dep' \in [Jobs -> {"none", "pending"} \cup Outcomes]
      /\ \A j \in Jobs : dep[j] # "none" => dep'[j] # "none"
      /\ dep'[count + 1] # "none"
  BY <1>1, <1>2 DEF TypeOK
<1>4. DepTyped'
  BY <1>1, <1>2, <1>3 DEF DepTyped, TypeOK, SameJobs
<1>5. QED
  BY <1>1, <1>2, <1>3, <1>4

LEMMA TypeInit == Init => TypeInv
<1> SUFFICES ASSUME Init PROVE TypeInv
  OBVIOUS
<1> USE BoundsAssumption DEF Init, Jobs, Created, None, Given, NoRow
<1>1. JobsTyped
  BY DEF JobsTyped, Statuses
<1>2. AgentsTyped /\ DepTyped
  BY DEF AgentsTyped, DepTyped, Outcomes
<1>3. NoRow \in Row /\ TheRow \in Row
  BY DEF Row, TheRow
<1>4. HandlersTyped
  BY <1>3 DEF HandlersTyped, NotReporting, NotEditing
<1>5. Known
  BY DEF Known, Recorded, TheRow, NotReporting, NotEditing
<1>6. QED
  BY <1>1, <1>2, <1>3, <1>4, <1>5, TypeParts DEF TypeInv

LEMMA TypeStep == TypeInv /\ [Next]_vars => TypeInv'
<1> SUFFICES ASSUME TypeOK, Known, [Next]_vars PROVE TypeInv'
  BY DEF TypeInv
<1>0. \A n \in Nodes : n # NoNode
  BY NodesAssumption
<1>1. ASSUME NEW n \in Nodes, Dispatch(n) PROVE TypeInv'
  <2>1. Deploy(n) /\ UNCHANGED <<present, home, image, state, handlerVars, agentVars, happened>>
    BY <1>1 DEF Dispatch
  <2>2. /\ JobsTyped' /\ DepTyped' /\ Created \subseteq Created' /\ SameJobs
        /\ current' \in Jobs /\ dep'[current'] # "none"
        /\ \A j \in Jobs : dep[j] # "none" => dep'[j] # "none"
    BY <2>1, DeployTyped
  <2>3. AgentsTyped'
    BY <2>1, <2>2, OthersTyped
  <2>4. HandlersTyped'
    BY <2>1, <2>2 DEF HandlersTyped, TypeOK, handlerVars
  <2>5. TheRow' \in Row /\ Recorded(TheRow)'
    BY <2>1, <2>2 DEF TypeOK, Known, Recorded, TheRow, Row
  <2>6. Recorded(editing.row)'
    <3>1. editing.row \in Row /\ editing' = editing
      BY <2>1 DEF TypeOK, handlerVars
    <3>2. editing.row.current \in Jobs \cup {None}
      BY <3>1 DEF Row
    <3>3. QED
      BY <2>2, <3>1, <3>2 DEF Known, Recorded
  <2>7. Known'
    <3>1. reporting' = reporting /\ reporting.job \in Created \cup {None} /\ Created \subseteq Jobs
      BY <2>1, BoundsAssumption DEF TypeOK, handlerVars, Created, Jobs
    <3>2. QED
      BY <2>2, <2>5, <2>6, <3>1 DEF Known, SameJobs
  <2>8. QED
    BY <2>1, <2>2, <2>3, <2>4, <2>5, <2>7, TypePartsNext DEF TypeInv, TypeOK
<1>2. ASSUME NEW j \in Jobs, Retry(j) PROVE TypeInv'
  <2>1. kind[j] \in {"deploy", "stop"} /\ node[j] \in Nodes /\ NewJob(kind[j], node[j])
    BY <1>2 DEF Retry, TypeOK
  <2>2. JobsTyped' /\ Created \subseteq Created' /\ SameJobs
    BY <1>2, <2>1, NewJobTyped DEF JobsTyped, SameJobs, Retry, TypeOK
  <2>3. UNCHANGED <<dep, projectVars, handlerVars, agentVars>> /\ happened' \in SUBSET Incidents
    BY <1>2 DEF Retry, Incident, TypeOK
  <2>4. QED
    <3> USE <2>3 DEF projectVars, handlerVars
    <3>1. AgentsTyped' /\ DepTyped'
      BY <2>2, OthersTyped
    <3>2. Recorded(TheRow)'
      BY DEF Known, Recorded, TheRow
    <3>3. HandlersTyped' /\ Known'
      BY <2>2, <3>2, OthersTyped
    <3>4. present' \in BOOLEAN /\ TheRow' \in Row
      BY DEF TypeOK, TheRow
    <3>5. QED
      BY <2>2, <3>1, <3>3, <3>4, TypePartsNext DEF TypeInv
<1>3. ASSUME NEW n \in Nodes, NEW delivered \in BOOLEAN, Claim(n, delivered) PROVE TypeInv'
  <2>0. happened \in SUBSET Incidents
    BY DEF TypeOK
  <2>1. PICK j \in Waiting(n) :
          /\ status' = [status EXCEPT ![j] = "running"]
          /\ executing' \in {executing, executing \cup {j}}
          /\ happened' \in SUBSET Incidents
    BY <1>3, <2>0 DEF Claim, Incident
  <2>2. j \in Created /\ j \in Jobs /\ status[j] = "pending"
    BY BoundsAssumption DEF Waiting, Created, TypeOK, Jobs
  <2>3. UNCHANGED <<count, kind, node, lost, byHand, dep, projectVars, handlerVars, report, copy>>
    BY <1>3 DEF Claim
  <2>4. Created' = Created /\ UNCHANGED <<TheRow, reporting, editing, removing, present>>
    BY <2>3 DEF Created, TheRow, projectVars, handlerVars
  <2>5. JobsTyped' /\ AgentsTyped' /\ DepTyped' /\ HandlersTyped'
    BY <2>1, <2>2, <2>3, <2>4 DEF TypeOK, JobsTyped, AgentsTyped, DepTyped, HandlersTyped, Statuses
  <2>6. reporting.job # None => status'[reporting.job] \in Outcomes
    BY <2>1, <2>2 DEF Known, Outcomes, TypeOK
  <2>7. Known'
    BY <2>3, <2>4, <2>6 DEF Known, Recorded, projectVars, handlerVars
  <2>8. QED
    BY <2>1, <2>4, <2>5, <2>7, TypePartsNext DEF TypeInv, TypeOK
<1>4. ASSUME NEW j \in Jobs, NEW outcome \in Outcomes, Finish(j, outcome) PROVE TypeInv'
  <2>1. UNCHANGED <<jobVars, dep, projectVars, handlerVars, happened>>
    BY <1>4 DEF Finish
  <2>2. AgentsTyped'
    BY <1>4, <2>1 DEF Finish, AgentsTyped, TypeOK, After, None, jobVars, Created
  <2>3. QED
    BY <2>1, <2>2, TypePartsNext DEF TypeInv, TypeOK, JobsTyped, DepTyped, HandlersTyped, Known,
         Recorded, TheRow, Created, jobVars, projectVars, handlerVars
<1>5. ASSUME NEW n \in Nodes, AgentRestart(n) PROVE TypeInv'
  <2>1. UNCHANGED <<count, kind, node, status, byHand, dep, projectVars, handlerVars>>
        /\ happened' \in SUBSET Incidents
        /\ lost' = lost \cup {j \in On(n) : status[j] = "running"}
    BY <1>5 DEF AgentRestart, Incident, TypeOK
  <2>2. AgentsTyped'
    <3>1. \A j \in executing : After(j, "failed") \subseteq Created \cup {None}
      BY DEF After, TypeOK, Outcomes
    <3>2. PICK c \in Created \cup {None} : copy' = [copy EXCEPT ![n] = c]
      <4>1. copy[n] \in Created \cup {None}
        BY DEF TypeOK
      <4>2. UNION {After(j, "failed") : j \in executing \cap On(n)} \subseteq Created \cup {None}
        BY <3>1
      <4>3. QED
        BY <1>5, <4>1, <4>2 DEF AgentRestart
    <3>3. QED
      BY <1>5, <2>1, <3>2 DEF AgentRestart, AgentsTyped, TypeOK, Created
  <2>3. JobsTyped'
    BY <2>1 DEF JobsTyped, TypeOK, On, Created
  <2>4. QED
    BY <2>1, <2>2, <2>3, TypePartsNext DEF TypeInv, TypeOK, DepTyped, HandlersTyped, Known,
         Recorded, TheRow, Created, projectVars, handlerVars
<1>6. ASSUME NEW j \in Jobs, Complete(j) \/ GiveUp(j) PROVE TypeInv'
  <2>1. PICK outcome \in Outcomes : status' = [status EXCEPT ![j] = outcome]
    BY <1>6 DEF Complete, GiveUp, TypeOK, Outcomes
  <2>2. j \in Created /\ reporting.job = None
    BY <1>6 DEF Complete, GiveUp, TypeOK
  <2>3. UNCHANGED <<count, kind, node, lost, byHand, dep, projectVars, editing, removing, agentVars>>
        /\ happened' \in SUBSET Incidents
    BY <1>6 DEF Complete, GiveUp, Incident, TypeOK
  <2>4. reporting' = IF kind[j] = "deploy" THEN [NotReporting EXCEPT !.job = j] ELSE reporting
    BY <1>6 DEF Complete, GiveUp, Handle
  <2>5. [NotReporting EXCEPT !.job = j] \in [job : Created \cup {None}, read : BOOLEAN, row : Row]
        /\ [NotReporting EXCEPT !.job = j].job = j /\ ~[NotReporting EXCEPT !.job = j].read
    BY <2>2 DEF NotReporting, NoRow, Row
  <2>6. HandlersTyped'
    BY <2>3, <2>4, <2>5 DEF HandlersTyped, TypeOK, Created
  <2>7. JobsTyped'
    BY <2>1, <2>2, <2>3 DEF JobsTyped, TypeOK, Created, Statuses, Outcomes
  <2>8. AgentsTyped' /\ DepTyped'
    BY <2>3 DEF AgentsTyped, DepTyped, TypeOK, Created, agentVars
  <2>9. Known'
    BY <2>1, <2>2, <2>3, <2>4, <2>5 DEF Known, Recorded, TheRow, projectVars, TypeOK
  <2>10. QED
    BY <2>3, <2>6, <2>7, <2>8, <2>9, TypePartsNext DEF TypeInv, TypeOK, TheRow, projectVars
<1>7. ASSUME NEW j \in Jobs, Answer(j) PROVE TypeInv'
  <2>1. UNCHANGED <<jobVars, dep, projectVars, handlerVars, happened>>
    BY <1>7 DEF Answer
  <2>2. AgentsTyped'
    BY <1>7, <2>1 DEF Answer, AgentsTyped, TypeOK, jobVars, Created
  <2>3. QED
    BY <2>1, <2>2, TypePartsNext DEF TypeInv, TypeOK, JobsTyped, DepTyped, HandlersTyped, Known,
         Recorded, TheRow, Created, jobVars, projectVars, handlerVars
<1>8. CASE RecordDeployment
  <2>1. PICK j \in Created : j = reporting.job /\ kind[j] = "deploy" /\ status[j] \in Outcomes
    BY <1>8 DEF RecordDeployment, Known, TypeOK
  <2>2. j \in Jobs
    BY BoundsAssumption DEF TypeOK, Created, Jobs
  <2>3. UNCHANGED <<jobVars, projectVars, editing, removing, agentVars, happened>>
    BY <1>8 DEF RecordDeployment
  <2>4. dep' = IF dep[j] = "none" THEN dep ELSE [dep EXCEPT ![j] = status[j]]
    BY <1>8, <2>1 DEF RecordDeployment
  <2>5. \/ reporting' = NotReporting
        \/ dep[j] # "none" /\ reporting' = [job |-> j, read |-> TRUE, row |-> TheRow]
    BY <1>8, <2>1 DEF RecordDeployment
  <2>6. \A i \in Jobs : dep[i] # "none" => dep'[i] # "none"
    <3>1. dep \in [Jobs -> {"none", "pending"} \cup Outcomes] /\ status[j] # "none"
      BY <2>1 DEF TypeOK, Outcomes
    <3>2. QED
      BY <2>2, <2>4, <3>1
  <2>7. DepTyped'
    <3>1. DepTyped /\ Created' = Created /\ kind' = kind
      BY <2>3, TypeParts DEF jobVars, Created
    <3>2. QED
      BY <2>1, <2>2, <2>4, <3>1 DEF DepTyped
  <2>8. HandlersTyped'
    <3>1. NotReporting \in [job : Created \cup {None}, read : BOOLEAN, row : Row]
      BY DEF NotReporting, NoRow, Row
    <3>2. HandlersTyped /\ Created' = Created /\ TheRow \in Row
      BY <2>3, TypeParts DEF jobVars, Created
    <3>3. [job |-> j, read |-> TRUE, row |-> TheRow] \in [job : Created \cup {None}, read : BOOLEAN, row : Row]
      BY <3>2
    <3>4. reporting' \in [job : Created \cup {None}, read : BOOLEAN, row : Row]
      BY <2>5, <3>1, <3>3
    <3>5. QED
      BY <2>3, <3>2, <3>4 DEF HandlersTyped
  <2>9. TheRow \in Row /\ editing.row \in Row /\ TheRow' = TheRow
    BY <2>3 DEF TypeOK, TheRow, projectVars
  <2>10. \A row \in Row : Recorded(row) /\ row.current # None => dep'[row.current] # "none"
    BY <2>6 DEF Recorded, Row
  <2>11. Recorded(TheRow)' /\ Recorded(editing.row)'
    BY <2>3, <2>6, <2>9, <2>10 DEF Known, Recorded
  <2>12. Known'
    <3>1. reporting'.job \in {j, None} /\ (reporting'.read => reporting'.job = j /\ dep[j] # "none")
      BY <2>5 DEF NotReporting
    <3>2. UNCHANGED <<kind, status>>
      BY <2>3 DEF jobVars
    <3>3. dep[j] # "none" => dep'[j] # "none"
      BY <2>2, <2>6
    <3>4. j # None
      BY <2>2, BoundsAssumption DEF Jobs, None
    <3>5. reporting'.job # None => reporting'.job = j
      BY <3>1
    <3>6. QED
      BY <2>1, <2>11, <3>1, <3>2, <3>3, <3>4, <3>5 DEF Known
  <2>13. JobsTyped' /\ AgentsTyped' /\ present' \in BOOLEAN /\ happened' \in SUBSET Incidents
    BY <2>3 DEF JobsTyped, AgentsTyped, TypeOK, Created, jobVars, agentVars, projectVars
  <2>14. QED
    BY <2>7, <2>8, <2>9, <2>12, <2>13, TypePartsNext DEF TypeInv
<1>9. ASSUME NEW n \in Nodes \cup {NoNode}, QueueStop(n), present' \in BOOLEAN, TheRow' \in Row,
             Recorded(TheRow)', reporting' \in {reporting, NotReporting},
             removing' \in SUBSET removing, UNCHANGED <<dep, editing, agentVars, happened>>
      PROVE  TypeInv'
  <2>1. JobsTyped' /\ Created \subseteq Created' /\ SameJobs
    BY <1>9, QueueStopTyped
  <2>2. AgentsTyped' /\ DepTyped' /\ HandlersTyped' /\ Known'
    BY <1>9, <2>1, OthersTyped
  <2>3. QED
    BY <1>9, <2>1, <2>2, TypePartsNext DEF TypeInv, TypeOK
<1>10. ASSUME Ignore \/ RecordFailure \/ RecordSuccess PROVE TypeInv'
  <2>1. reporting.job \in Created /\ dep[reporting.job] # "none" /\ reporting.job \in Jobs
    BY <1>10, BoundsAssumption DEF Ignore, RecordFailure, RecordSuccess, Known, TypeOK, Created, Jobs
  <2>2. node[reporting.job] \in Nodes /\ reporting.row.home \in Nodes \cup {NoNode}
    BY <2>1 DEF TypeOK, Row
  <2>3. PICK n \in Nodes \cup {NoNode} : QueueStop(n)
    <3>1. CASE Ignore
      BY <2>2, <3>1 DEF Ignore
    <3>2. CASE RecordFailure
      BY <3>2 DEF RecordFailure, QueueStop, jobVars
    <3>3. CASE RecordSuccess
      BY <2>2, <3>3 DEF RecordSuccess
    <3>4. QED
      BY <1>10, <3>1, <3>2, <3>3
  <2>4. reporting' = NotReporting /\ UNCHANGED <<dep, present, current, editing, removing, agentVars, happened>>
    BY <1>10 DEF Ignore, RecordFailure, RecordSuccess, projectVars
  <2>5. /\ home' \in Nodes \cup {NoNode} /\ state' \in {"stopped", "deploying", "running", "failed"}
        /\ image' \in {image, reporting.job}
    <3>1. home \in Nodes \cup {NoNode} /\ state \in {"stopped", "deploying", "running", "failed"}
      BY DEF TypeOK, TheRow, Row
    <3>2. QED
      BY <1>10, <2>2, <3>1 DEF Ignore, RecordFailure, RecordSuccess, projectVars
  <2>6. TheRow' \in Row
    BY <2>1, <2>4, <2>5 DEF TypeOK, TheRow, Row
  <2>7. Recorded(TheRow)'
    BY <2>1, <2>4, <2>5 DEF Known, Recorded, TheRow
  <2>8. QED
    BY <1>9, <2>3, <2>4, <2>6, <2>7 DEF TypeOK
<1>11. CASE EditRead
  <2>1. UNCHANGED <<jobVars, dep, projectVars, reporting, removing, agentVars, happened>>
        /\ editing' = [on |-> TRUE, row |-> TheRow]
    BY <1>11 DEF EditRead
  <2>2. HandlersTyped'
    BY <2>1 DEF HandlersTyped, TypeOK, jobVars, Created
  <2>3. Known'
    BY <2>1 DEF Known, Recorded, TheRow, jobVars, projectVars
  <2>4. QED
    BY <2>1, <2>2, <2>3, TypePartsNext DEF TypeInv, TypeOK, JobsTyped, AgentsTyped, DepTyped,
         TheRow, Created, jobVars, projectVars, agentVars
<1>12. CASE EditSave
  <2>1. /\ UNCHANGED <<reporting, removing, agentVars, happened>>
        /\ editing' = NotEditing /\ present' = TRUE
        /\ home' \in Homes(editing.row) /\ image' = editing.row.image /\ state' = editing.row.state
    BY <1>12 DEF EditSave
  <2>2. editing.row \in Row
    BY DEF TypeOK
  <2>3. /\ JobsTyped' /\ DepTyped' /\ Created \subseteq Created' /\ SameJobs
        /\ \A j \in Jobs : dep[j] # "none" => dep'[j] # "none"
        /\ \/ current' = editing.row.current
           \/ current' \in Jobs /\ dep'[current'] # "none"
    <3>1. CASE current' = editing.row.current /\ UNCHANGED <<jobVars, dep>>
      BY <3>1 DEF TypeOK, JobsTyped, DepTyped, SameJobs, jobVars, Created
    <3>2. CASE \E n \in Nodes : Deploy(n)
      BY <3>2, DeployTyped
    <3>3. QED
      BY <1>12, <3>1, <3>2 DEF EditSave
  <2>4. TheRow' \in Row
    BY <2>1, <2>2, <2>3 DEF TheRow, Row, Homes
  <2>5. Recorded(TheRow)'
    <3>1. editing.row.current \in Jobs \cup {None}
      BY <2>2 DEF Row
    <3>2. QED
      BY <2>1, <2>3, <3>1 DEF Known, Recorded, TheRow
  <2>6. AgentsTyped'
    BY <2>1, <2>3, OthersTyped
  <2>7. HandlersTyped' /\ Recorded(editing.row)'
    BY <2>1, <2>3, BoundsAssumption
    DEF HandlersTyped, TypeOK, NotEditing, NoRow, Row, Recorded, Jobs, None
  <2>8. Known'
    <3>1. reporting' = reporting /\ reporting.job \in Created \cup {None} /\ Created \subseteq Jobs
      BY <2>1, BoundsAssumption DEF TypeOK, Created, Jobs
    <3>2. QED
      BY <2>3, <2>5, <2>7, <3>1 DEF Known, SameJobs
  <2>9. QED
    BY <2>1, <2>3, <2>4, <2>6, <2>7, <2>8, TypePartsNext DEF TypeInv, TypeOK
<1>13. CASE DeleteProject
  <2>1. UNCHANGED <<count, kind, node, lost, byHand, dep, reporting, editing, agentVars, happened>>
        /\ present' = FALSE /\ TheRow' = NoRow
        /\ status' = [j \in Jobs |-> IF j \in Active /\ status[j] = "pending" THEN "cancelled" ELSE status[j]]
    BY <1>13 DEF DeleteProject, TheRow, NoRow
  <2>2. removing' \in SUBSET Nodes
    <3>1. \A j \in Active : node[j] \in Nodes
      BY DEF Active, TypeOK
    <3>2. home \in Nodes \cup {NoNode}
      BY DEF TypeOK, TheRow, Row
    <3>3. QED
      BY <1>13, <3>1, <3>2 DEF DeleteProject
  <2>3. JobsTyped'
    BY <2>1 DEF JobsTyped, TypeOK, Created, Statuses
  <2>4. AgentsTyped' /\ DepTyped' /\ HandlersTyped'
    BY <2>1, <2>2 DEF AgentsTyped, DepTyped, HandlersTyped, TypeOK, Created, agentVars
  <2>5. NoRow \in Row /\ Recorded(TheRow)'
    BY <2>1, BoundsAssumption DEF NoRow, Row, Recorded, Jobs, None
  <2>6. Known'
    <3>1. reporting.job # None => reporting.job \in Jobs /\ status'[reporting.job] = status[reporting.job]
      BY <2>1, BoundsAssumption DEF Known, TypeOK, Created, Jobs, Outcomes
    <3>2. QED
      BY <2>1, <2>5, <3>1 DEF Known, Recorded
  <2>7. QED
    BY <2>1, <2>3, <2>4, <2>5, <2>6, TypePartsNext DEF TypeInv, TypeOK
<1>14. ASSUME NEW n \in Nodes, RemoveFrom(n) PROVE TypeInv'
  BY <1>9, <1>14 DEF RemoveFrom, TypeOK, TheRow, Known, Recorded, projectVars
<1>15. CASE HubStop
  <2>1. reporting' = NotReporting /\ editing' = NotEditing /\ removing' = {}
        /\ UNCHANGED <<jobVars, dep, projectVars, agentVars>> /\ happened' \in SUBSET Incidents
    BY <1>15 DEF HubStop, Incident, TypeOK
  <2>2. HandlersTyped' /\ Known'
    BY <2>1, BoundsAssumption DEF HandlersTyped, Known, Recorded, TheRow, NotReporting, NotEditing, NoRow, Row,
         Jobs, None, projectVars
  <2>3. QED
    BY <2>1, <2>2, TypePartsNext DEF TypeInv, TypeOK, JobsTyped, AgentsTyped, DepTyped,
         TheRow, Created, jobVars, projectVars, agentVars
<1>16. CASE UNCHANGED vars
  BY <1>16 DEF TypeInv, TypeOK, Known, Recorded, TheRow, Created, vars, jobVars, projectVars,
       handlerVars, agentVars
<1>17. QED
  BY <1>1, <1>2, <1>3, <1>4, <1>5, <1>6, <1>7, <1>8, <1>10, <1>11, <1>12, <1>13, <1>14, <1>15,
     <1>16 DEF Next

\* Whatever happens, in any order, every variable keeps its type: no report,
\* agent or project ever refers to a job or a deployment that does not exist.
THEOREM TypeCorrect == Spec => []TypeOK
<1>1. TypeInv => TypeOK
  BY DEF TypeInv
<1>2. QED
  BY <1>1, TypeInit, TypeStep, PTL DEF Spec

-----------------------------------------------------------------------------
(* Requests handled one at a time *)

\* What a handler read is still so when it writes, and the project points at
\* the newest deployment there is.
Fresh ==
    /\ reporting.job # None => ~editing.on
    /\ reporting.read => present /\ reporting.row = TheRow
    /\ editing.on => present /\ editing.row = TheRow
    /\ removing # {} => ~present
    /\ present => \A j \in Jobs : dep[j] # "none" => j <= current

\* What an agent runs or reports it was given, and it was not lost.
Working ==
    /\ \A j \in Jobs : j \in executing \/ report[j] # "none"
                        => status[j] \in {"running"} \cup Outcomes
    /\ \A j \in lost : status[j] # "pending" /\ j \notin executing

\* A removal that is due where the newest deploy goes was queued before that
\* deploy, and it still keeps the deploy waiting.
RemovalsFirst ==
    present /\ current # None
        => \A s \in DueRemovals(node[current]) : s < current /\ status[current] = "pending"

Inv == TypeInv /\ Fresh /\ Working /\ RemovalsFirst

LEMMA FreshStep ==
    ASSUME Interruptible = {}, Inv, [Next]_vars
    PROVE  Fresh'
<1> USE DEF Fresh
<1>0. /\ TypeOK /\ Known /\ Fresh
      /\ Calm => reporting.job = None /\ ~reporting.read /\ ~editing.on
  BY DEF Inv, TypeInv, Calm, Known
<1>1. ASSUME UNCHANGED <<dep, projectVars, handlerVars>> PROVE Fresh'
  BY <1>0, <1>1 DEF projectVars, handlerVars, TheRow
\* A new deployment is the newest.
<1>12. ASSUME NEW n \in Nodes, Deploy(n) PROVE \A j \in Jobs : dep'[j] # "none" => j <= current'
  <2>1. current' = count + 1 /\ dep' = [dep EXCEPT ![count + 1] = "pending"]
    BY <1>12 DEF Deploy
  <2>2. QED
    BY <1>0, <2>1 DEF TypeOK, Created, Jobs
<1>2. ASSUME NEW n \in Nodes, Dispatch(n) PROVE Fresh'
  <2>1. Calm /\ UNCHANGED <<present, handlerVars>> /\ present
    BY <1>2 DEF Dispatch
  <2>2. \A j \in Jobs : dep'[j] # "none" => j <= current'
    BY <1>2, <1>12 DEF Dispatch
  <2>3. removing = {}
    BY <1>0, <2>1
  <2>4. QED
    BY <1>0, <2>1, <2>2, <2>3 DEF handlerVars
<1>3. ASSUME NEW j \in Jobs, Complete(j) \/ GiveUp(j) PROVE Fresh'
  <2>1. Calm /\ UNCHANGED <<dep, projectVars, editing, removing>>
        /\ (reporting' = reporting \/ reporting' = [NotReporting EXCEPT !.job = j])
    BY <1>3 DEF Complete, GiveUp, Handle
  <2>2. ~reporting'.read
    BY <1>0, <2>1 DEF NotReporting
  <2>3. QED
    BY <1>0, <2>1, <2>2 DEF projectVars
<1>4. CASE RecordDeployment
  <2>1. reporting.job # None /\ reporting.job \in Jobs
    BY <1>0, <1>4, BoundsAssumption DEF RecordDeployment, TypeOK, Created, Jobs
  <2>2. ~editing.on /\ UNCHANGED <<projectVars, editing, removing>>
    BY <1>0, <1>4, <2>1 DEF RecordDeployment
  <2>3. \/ reporting' = NotReporting
        \/ present /\ reporting' = [job |-> reporting.job, read |-> TRUE, row |-> TheRow]
    BY <1>4 DEF RecordDeployment
  <2>4. \A j \in Jobs : dep'[j] # "none" => dep[j] # "none"
    BY <1>0, <1>4, <2>1 DEF RecordDeployment, TypeOK
  <2>5. TheRow' = TheRow /\ present' = present
    BY <2>2 DEF projectVars, TheRow
  <2>6. reporting'.read => present /\ reporting'.row = TheRow
    BY <2>3 DEF NotReporting
  <2>7. QED
    BY <1>0, <2>2, <2>4, <2>5, <2>6 DEF projectVars
<1>5. ASSUME Ignore \/ RecordFailure \/ RecordSuccess PROVE Fresh'
  <2>1. reporting.job # None /\ reporting' = NotReporting
        /\ UNCHANGED <<dep, present, current, editing, removing>>
    BY <1>0, <1>5 DEF Ignore, RecordFailure, RecordSuccess, projectVars, Known
  <2>2. QED
    BY <1>0, <2>1 DEF NotReporting
<1>6. CASE EditRead
  <2>1. Calm /\ present /\ UNCHANGED <<dep, projectVars, reporting, removing>>
        /\ editing' = [on |-> TRUE, row |-> TheRow]
    BY <1>6 DEF EditRead
  <2>2. QED
    BY <1>0, <2>1 DEF projectVars, TheRow
<1>7. CASE EditSave
  <2>1. editing.on /\ editing.row.current = current /\ present
    BY <1>0, <1>7 DEF EditSave, TheRow
  <2>2. ~reporting.read /\ reporting.job = None /\ removing = {}
    BY <1>0, <2>1 DEF Known
  <2>3. editing' = NotEditing /\ UNCHANGED <<reporting, removing>>
    BY <1>7 DEF EditSave
  <2>4. \A j \in Jobs : dep'[j] # "none" => j <= current'
    <3>1. CASE current' = current /\ dep' = dep
      BY <1>0, <2>1, <3>1
    <3>2. QED
      BY <1>7, <1>12, <2>1, <3>1 DEF EditSave
  <2>5. QED
    BY <2>2, <2>3, <2>4 DEF NotEditing
<1>8. CASE DeleteProject
  BY <1>0, <1>8 DEF DeleteProject
<1>9. ASSUME NEW n \in Nodes, RemoveFrom(n) PROVE Fresh'
  <2>1. ~present
    BY <1>0, <1>9 DEF RemoveFrom
  <2>2. QED
    BY <1>0, <1>9, <2>1 DEF RemoveFrom, projectVars
<1>10. CASE HubStop
  BY <1>0, <1>10 DEF HubStop, NotReporting, NotEditing, projectVars
<1>11. QED
  BY <1>1, <1>2, <1>3, <1>4, <1>5, <1>6, <1>7, <1>8, <1>9, <1>10
  DEF Next, Retry, Claim, Finish, AgentRestart, Answer, vars

LEMMA WorkingStep ==
    ASSUME Inv, [Next]_vars
    PROVE  Working'
<1> USE DEF Working
<1>0. TypeOK /\ Known /\ Working /\ Created \subseteq Jobs
  BY BoundsAssumption DEF Inv, TypeInv, TypeOK, Created, Jobs
\* A new job is nobody's yet.
<1>1. ASSUME NEW k \in {"deploy", "stop"}, NEW n \in Nodes, NewJob(k, n), UNCHANGED agentVars
      PROVE  Working'
  <2>1. count + 1 \notin executing /\ count + 1 \notin lost
    BY <1>0, <1>1, NewJobTyped DEF TypeOK
  <2>2. \A j \in Created : status'[j] = status[j]
    BY <1>0, <1>1, NewJobTyped
  <2>3. QED
    BY <1>0, <1>1, <2>2 DEF NewJob, agentVars, TypeOK
<1>2. ASSUME NEW n \in Nodes \cup {NoNode}, QueueStop(n), UNCHANGED agentVars
      PROVE  Working'
  BY <1>0, <1>1, <1>2 DEF QueueStop, agentVars
<1>3. ASSUME NEW n \in Nodes, Deploy(n), UNCHANGED agentVars PROVE Working'
  BY <1>1, <1>3 DEF Deploy
<1>4. ASSUME NEW j \in Jobs, Retry(j) PROVE Working'
  BY <1>0, <1>1, <1>4 DEF Retry, TypeOK
<1>5. ASSUME NEW n \in Nodes, NEW delivered \in BOOLEAN, Claim(n, delivered) PROVE Working'
  <2>1. PICK j \in Waiting(n) : /\ status' = [status EXCEPT ![j] = "running"]
                                /\ executing' \in {executing, executing \cup {j}}
    BY <1>5 DEF Claim
  <2>2. j \in Jobs /\ status[j] = "pending" /\ UNCHANGED <<lost, report>>
    BY <1>0, <1>5 DEF Waiting, Claim
  <2>3. QED
    BY <1>0, <2>1, <2>2 DEF TypeOK
<1>6. ASSUME NEW j \in Jobs, NEW outcome \in Outcomes, Finish(j, outcome) PROVE Working'
  BY <1>0, <1>6 DEF Finish, TypeOK, jobVars
<1>7. ASSUME NEW n \in Nodes, AgentRestart(n) PROVE Working'
  BY <1>0, <1>7 DEF AgentRestart, TypeOK
<1>8. ASSUME NEW j \in Jobs, Complete(j) \/ GiveUp(j) PROVE Working'
  <2>1. PICK outcome \in Outcomes : status' = [status EXCEPT ![j] = outcome]
    BY <1>0, <1>8 DEF Complete, GiveUp, TypeOK, Outcomes
  <2>2. UNCHANGED <<lost, agentVars>>
    BY <1>8 DEF Complete, GiveUp
  <2>3. QED
    BY <1>0, <2>1, <2>2 DEF TypeOK, Outcomes, agentVars
<1>9. ASSUME NEW j \in Jobs, Answer(j) PROVE Working'
  BY <1>0, <1>9 DEF Answer, TypeOK, jobVars
<1>10. ASSUME Ignore \/ RecordFailure \/ RecordSuccess PROVE Working'
  <2>1. node[reporting.job] \in Nodes /\ reporting.row.home \in Nodes \cup {NoNode}
    BY <1>0, <1>10 DEF Ignore, RecordFailure, RecordSuccess, TypeOK, Known, Row
  <2>2. PICK n \in Nodes \cup {NoNode} : QueueStop(n)
    <3>1. CASE Ignore
      BY <2>1, <3>1 DEF Ignore
    <3>2. CASE RecordFailure
      BY <3>2 DEF RecordFailure, QueueStop, jobVars
    <3>3. CASE RecordSuccess
      BY <2>1, <3>3 DEF RecordSuccess
    <3>4. QED
      BY <1>10, <3>1, <3>2, <3>3
  <2>3. QED
    BY <1>2, <1>10, <2>2 DEF Ignore, RecordFailure, RecordSuccess
<1>11. CASE DeleteProject
  <2>1. UNCHANGED <<lost, agentVars>>
        /\ \A j \in Jobs : status'[j] = status[j] \/ (status[j] = "pending" /\ status'[j] = "cancelled")
    BY <1>11 DEF DeleteProject
  <2>2. QED
    BY <1>0, <2>1 DEF TypeOK, Outcomes, agentVars
<1>12. ASSUME NEW n \in Nodes, RemoveFrom(n) PROVE Working'
  BY <1>2, <1>12 DEF RemoveFrom
<1>13. ASSUME UNCHANGED <<status, lost, agentVars>> PROVE Working'
  BY <1>0, <1>13 DEF agentVars
<1>14. QED
  BY <1>3, <1>4, <1>5, <1>6, <1>7, <1>8, <1>9, <1>10, <1>11, <1>12, <1>13
  DEF Next, Dispatch, RecordDeployment, EditRead, EditSave, HubStop, vars, jobVars

LEMMA CurrentDeploy ==
    ASSUME TypeOK, Known, current # None
    PROVE  current \in Created /\ current \in Jobs /\ kind[current] = "deploy"
<1>1. current \in Jobs /\ dep[current] # "none"
  BY DEF TypeOK, Known, Recorded, TheRow, Row
<1>2. QED
  BY <1>1 DEF TypeOK

\* The newest deploy and its removals stay as they are, or removals go.
LEMMA FewerRemovals ==
    ASSUME TypeOK, Known, RemovalsFirst, UNCHANGED <<present, current, node>>,
           current # None => /\ DueRemovals(node[current])' \subseteq DueRemovals(node[current])
                             /\ status'[current] = status[current]
    PROVE  RemovalsFirst'
BY DEF RemovalsFirst

LEMMA NewStopElsewhere ==
    ASSUME TypeOK, Known, RemovalsFirst, NEW n \in Nodes \cup {NoNode}, QueueStop(n),
           UNCHANGED <<present, current, executing>>,
           present /\ current # None => n # node[current]
    PROVE  RemovalsFirst'
<1>1. CASE n = NoNode
  BY <1>1 DEF QueueStop, RemovalsFirst, DueRemovals, Created
<1>2. CASE n # NoNode
  <2>1. NewJob("stop", n) /\ n \in Nodes /\ byHand' = byHand
    BY <1>2 DEF QueueStop
  <2>2. SUFFICES ASSUME present, current # None, NEW s \in DueRemovals(node[current])'
                 PROVE  s < current /\ status'[current] = "pending"
    BY DEF RemovalsFirst
  <2>3. current \in Created
    BY <2>2, CurrentDeploy
  <2>4. node'[current] = node[current] /\ status'[current] = status[current]
    BY <2>1, <2>3, NewJobTyped
  <2>5. s \in Created
    <3>1. s \in Created \cup {count + 1} /\ node'[s] = node[current]
      BY <2>1, <2>2, <2>4, NewJobTyped DEF DueRemovals
    <3>2. s # count + 1
      BY <2>1, <2>2, <3>1, NewJobTyped
    <3>3. QED
      BY <3>1, <3>2
  <2>6. kind'[s] = kind[s] /\ status'[s] = status[s] /\ node'[s] = node[s]
    BY <2>1, <2>5, NewJobTyped
  <2>7. s \in DueRemovals(node[current])
    BY <2>1, <2>2, <2>4, <2>5, <2>6 DEF DueRemovals
  <2>8. QED
    BY <2>2, <2>4, <2>7 DEF RemovalsFirst
<1>3. QED
  BY <1>1, <1>2

LEMMA RemovalsStep ==
    ASSUME Interruptible = {}, Inv, [Next]_vars
    PROVE  RemovalsFirst'
<1>0. TypeOK /\ Known /\ Fresh /\ Working /\ RemovalsFirst /\ Created \subseteq Jobs
  BY BoundsAssumption DEF Inv, TypeInv, TypeOK, Created, Jobs
<1>1. ASSUME NEW n \in Nodes, Deploy(n) PROVE RemovalsFirst'
  <2>1. NewJob("deploy", n) /\ current' = count + 1
    BY <1>1 DEF Deploy
  <2>2. kind'[count + 1] = "deploy" /\ status'[count + 1] = "pending" /\ Created' = Created \cup {count + 1}
    BY <1>0, <2>1, NewJobTyped
  <2>3. \A m : \A s \in DueRemovals(m)' : s \in Created
    BY <2>2 DEF DueRemovals
  <2>4. \A s \in Created : s < count + 1
    BY <1>0 DEF TypeOK, Created
  <2>5. QED
    BY <2>1, <2>2, <2>3, <2>4 DEF RemovalsFirst
<1>2. ASSUME NEW j \in Jobs, Retry(j) PROVE RemovalsFirst'
  <2>1. NewJob(kind[j], node[j]) /\ kind[j] \in {"deploy", "stop"} /\ node[j] \in Nodes
        /\ byHand' = byHand \cup {count + 1} /\ UNCHANGED <<present, current, executing>>
    BY <1>0, <1>2 DEF Retry, TypeOK, projectVars, agentVars
  <2>2. Created' = Created \cup {count + 1} /\ SameJobs
    BY <1>0, <2>1, NewJobTyped DEF SameJobs
  <2>3. \A m : DueRemovals(m)' \subseteq DueRemovals(m)
    BY <2>1, <2>2 DEF DueRemovals, SameJobs
  <2>4. current # None => node'[current] = node[current] /\ status'[current] = status[current]
    BY <1>0, <2>2, CurrentDeploy DEF SameJobs
  <2>5. QED
    BY <1>0, <2>1, <2>3, <2>4 DEF RemovalsFirst
<1>3. ASSUME NEW n \in Nodes, NEW delivered \in BOOLEAN, Claim(n, delivered) PROVE RemovalsFirst'
  <2>1. PICK j \in Waiting(n) : /\ \A i \in Waiting(n) : j <= i
                                /\ status' = [status EXCEPT ![j] = "running"]
                                /\ executing' \in {executing, executing \cup {j}}
    BY <1>3 DEF Claim
  <2>2. ~Busy(n) /\ UNCHANGED <<count, kind, node, lost, byHand, present, current>>
    BY <1>3 DEF Claim, projectVars
  <2>3. j \in Created /\ status[j] = "pending" /\ node[j] = n /\ j \in Jobs
    BY <1>0, <2>1 DEF Waiting
  <2>4. SUFFICES ASSUME present, current # None, NEW s \in DueRemovals(node[current])'
                 PROVE  s < current /\ status'[current] = "pending"
    BY <2>2 DEF RemovalsFirst
  <2>5. current \in Jobs /\ kind[current] = "deploy"
    BY <1>0, <2>4, CurrentDeploy
  <2>6. /\ s \in Created \ byHand /\ s \in Jobs /\ kind[s] = "stop" /\ node[s] = node[current]
        /\ status'[s] = "pending" \/ (status'[s] = "running" /\ s \in executing')
    BY <1>0, <2>2, <2>4 DEF DueRemovals, Created
  <2>7. s \in DueRemovals(node[current])
    BY <1>0, <2>1, <2>3, <2>6 DEF DueRemovals, TypeOK
  <2>8. s < current /\ status[current] = "pending"
    BY <1>0, <2>4, <2>7 DEF RemovalsFirst
  <2>9. j # current
    <3>1. SUFFICES ASSUME j = current PROVE FALSE
      OBVIOUS
    <3>2. s # j /\ node[s] = n
      BY <2>3, <2>5, <2>6, <3>1
    <3>3. CASE status[s] = "pending"
      <4>1. s \in Waiting(n)
        BY <2>6, <3>2, <3>3 DEF Waiting
      <4>2. j <= s /\ j \in Int /\ s \in Int
        BY <2>1, <2>3, <2>6, <4>1 DEF Jobs
      <4>3. QED
        BY <2>8, <3>1, <4>2
    <3>4. CASE status[s] # "pending"
      <4>1. status[s] = "running" /\ s \in executing
        BY <1>0, <2>1, <2>3, <2>6, <3>2, <3>4 DEF TypeOK
      <4>2. s \notin lost
        BY <1>0, <4>1 DEF Working
      <4>3. QED
        BY <2>2, <2>6, <3>2, <4>1, <4>2 DEF Busy
    <3>5. QED
      BY <3>3, <3>4
  <2>10. QED
    BY <1>0, <2>1, <2>5, <2>8, <2>9 DEF TypeOK
<1>4. ASSUME UNCHANGED <<count, kind, node, status, byHand, present, current>>, executing' \subseteq executing
      PROVE  RemovalsFirst'
  BY <1>0, <1>4, FewerRemovals DEF DueRemovals, Created
<1>5. ASSUME NEW j \in Jobs, Complete(j) \/ GiveUp(j) PROVE RemovalsFirst'
  <2>1. PICK outcome \in Outcomes : status' = [status EXCEPT ![j] = outcome]
    BY <1>0, <1>5 DEF Complete, GiveUp, TypeOK, Outcomes
  <2>2. UNCHANGED <<count, kind, node, byHand, present, current, executing>>
    BY <1>5 DEF Complete, GiveUp, projectVars, agentVars
  <2>3. status[j] # "pending"
    BY <1>0, <1>5 DEF Complete, GiveUp, Working, Outcomes
  <2>4. \A m : DueRemovals(m)' \subseteq DueRemovals(m)
    <3>1. \A i \in Created : status'[i] \in {"pending", "running"} => status'[i] = status[i]
      BY <1>0, <2>1 DEF TypeOK, Outcomes
    <3>2. QED
      BY <2>2, <3>1 DEF DueRemovals, Created
  <2>5. present /\ current # None /\ status[current] # "pending" => DueRemovals(node[current]) = {}
    BY <1>0 DEF RemovalsFirst
  <2>6. current # None => current = j \/ status'[current] = status[current]
    BY <1>0, <2>1, CurrentDeploy DEF TypeOK
  <2>7. QED
    BY <1>0, <2>2, <2>3, <2>4, <2>5, <2>6 DEF RemovalsFirst
<1>6. ASSUME Ignore PROVE RemovalsFirst'
  <2>1. reporting.row.current = current /\ node[reporting.job] \in Nodes
    BY <1>0, <1>6 DEF Ignore, Fresh, Known, TypeOK, TheRow
  <2>2. PICK n \in Nodes \cup {NoNode} : QueueStop(n) /\ n \in {node[reporting.job], NoNode}
                                         /\ (n # NoNode => node[current] # n)
    BY <1>6, <2>1 DEF Ignore
  <2>3. present /\ current # None => n # node[current]
    BY <1>0, <2>2, CurrentDeploy, NodesAssumption DEF TypeOK
  <2>4. UNCHANGED <<present, current, executing>>
    BY <1>6 DEF Ignore, projectVars, agentVars
  <2>5. QED
    BY <1>0, <2>2, <2>3, <2>4, NewStopElsewhere
<1>7. ASSUME RecordSuccess PROVE RemovalsFirst'
  <2>1. reporting.job # None /\ reporting.row = TheRow /\ dep[reporting.job] # "none" /\ present
    BY <1>0, <1>7 DEF RecordSuccess, Fresh, Known
  <2>2. reporting.job \in Jobs /\ node[reporting.job] \in Nodes
    BY <1>0, <2>1 DEF TypeOK
  <2>3. reporting.job <= current
    BY <1>0, <2>1, <2>2 DEF Fresh
  <2>4. current = reporting.job
    BY <1>7, <2>1, <2>2, <2>3, BoundsAssumption DEF RecordSuccess, Superseded, TheRow, Jobs, None
  <2>5. reporting.row.home \in Nodes \cup {NoNode}
    BY <1>0 DEF TypeOK, Row
  <2>6. PICK n \in Nodes \cup {NoNode} : QueueStop(n) /\ n # node[current]
    BY <1>7, <2>2, <2>4, <2>5, NodesAssumption DEF RecordSuccess
  <2>7. UNCHANGED <<present, current, executing>>
    BY <1>7 DEF RecordSuccess, agentVars
  <2>8. QED
    BY <1>0, <2>6, <2>7, NewStopElsewhere
<1>8. CASE EditSave
  <2>1. CASE current' = editing.row.current /\ UNCHANGED <<jobVars, dep>>
    <3>1. UNCHANGED <<present, current>>
      BY <1>0, <1>8, <2>1 DEF EditSave, Fresh, TheRow
    <3>2. QED
      BY <1>4, <1>8, <2>1, <3>1 DEF EditSave, jobVars, agentVars
  <2>2. QED
    BY <1>1, <1>8, <2>1 DEF EditSave
<1>9. ASSUME ~present' PROVE RemovalsFirst'
  BY <1>9 DEF RemovalsFirst
<1>10. ASSUME NEW n \in Nodes, RemoveFrom(n) PROVE RemovalsFirst'
  BY <1>0, <1>9, <1>10 DEF RemoveFrom, Fresh, projectVars
<1>11. QED
  BY <1>1, <1>2, <1>3, <1>4, <1>5, <1>6, <1>7, <1>8, <1>9, <1>10
  DEF Next, Dispatch, Finish, AgentRestart, Answer, RecordDeployment, RecordFailure, EditRead,
      DeleteProject, HubStop, vars, jobVars, projectVars, agentVars

LEMMA InvInit == Init => Inv
<1> SUFFICES ASSUME Init PROVE Inv
  OBVIOUS
<1>1. TypeInv
  BY TypeInit
<1>2. Fresh /\ Working
  BY DEF Init, Fresh, Working, NotReporting, NotEditing
<1>3. RemovalsFirst
  BY DEF Init, RemovalsFirst
<1>4. QED
  BY <1>1, <1>2, <1>3 DEF Inv

LEMMA InvStep ==
    ASSUME Interruptible = {}
    PROVE  Inv /\ [Next]_vars => Inv'
BY TypeStep, FreshStep, WorkingStep, RemovalsStep DEF Inv

\* With requests handled one at a time, whatever is lost, given up, retried or
\* restarted, no removal the Hub queued can hit the newest deploy once it has
\* been started on its node.
THEOREM NewestDeploySafe ==
    ASSUME Interruptible = {}
    PROVE  Spec => []LatestCopyKept
<1>1. Inv => LatestCopyKept
  BY DEF Inv, RemovalsFirst, LatestCopyKept
<1>2. QED
  BY <1>1, InvInit, InvStep, PTL DEF Spec

\* With requests handled one at a time, however late or often a deploy is
\* reported, the project's image never goes back to an older deploy's.
THEOREM ImageNeverReverts ==
    ASSUME Interruptible = {}
    PROVE  Spec => NoReversion
<1>1. ASSUME Inv, Next, present', image' # image PROVE image' > image
  <2>1. TypeOK /\ Known /\ Fresh
    BY <1>1 DEF Inv, TypeInv
  <2>2. RecordSuccess
    <3>1. ~EditSave
      <4>1. SUFFICES ASSUME EditSave PROVE image' = image
        BY <1>1
      <4>2. present /\ editing.row = TheRow
        BY <2>1, <4>1 DEF EditSave, Fresh
      <4>3. editing.row.image = image
        BY <4>2 DEF TheRow
      <4>4. QED
        BY <4>1, <4>2, <4>3 DEF EditSave
    <3>2. QED
      BY <1>1, <3>1 DEF Next, Dispatch, Retry, Claim, Finish, AgentRestart, Complete, Answer, GiveUp,
         RecordDeployment, Ignore, RecordFailure, EditRead, DeleteProject, RemoveFrom, HubStop,
         projectVars
  <2>3. image' = reporting.job /\ reporting.job # None /\ dep[reporting.job] # "none"
        /\ reporting.row = TheRow /\ present
    <3>1. reporting.read /\ present /\ reporting.row = TheRow
      BY <2>1, <2>2 DEF RecordSuccess, Fresh
    <3>2. image' = reporting.job
      BY <2>2, <3>1 DEF RecordSuccess
    <3>3. QED
      BY <2>1, <3>1, <3>2 DEF Known
  <2>4. reporting.job \in Jobs /\ image \in Jobs \cup {None, Given} /\ current \in Jobs \cup {None}
    BY <2>1, <2>3, BoundsAssumption DEF TypeOK, TheRow, Row, Created, Jobs
  <2>5. reporting.job = current
    <3>1. reporting.job <= current
      BY <2>1, <2>3, <2>4 DEF Fresh
    <3>2. QED
      BY <2>2, <2>3, <2>4, <3>1, BoundsAssumption DEF RecordSuccess, Superseded, TheRow, Jobs, None
  <2>6. image \in Jobs => image <= current
    BY <2>1, <2>3 DEF Known, Recorded, TheRow, Fresh
  <2>7. QED
    BY <1>1, <2>3, <2>4, <2>5, <2>6, BoundsAssumption DEF Jobs, None, Given
<1>2. Inv /\ [Next]_vars => [present' /\ image' # image => image' > image]_vars
  BY <1>1
<1>3. QED
  BY <1>2, InvInit, InvStep, PTL DEF Spec, NoReversion


-----------------------------------------------------------------------------
(* Where all that went wrong is that deploys overtook each other *)

Trouble == {"retry", "give up", "Hub stop"}

\* Nobody repeated or gave up on a job, and each one that was handed out is
\* being run, or has ended well and says so.
Carried(j) ==
    \/ status[j] \in {"pending", "cancelled", "completed"}
    \/ status[j] = "running" /\ (j \in executing \/ report[j] = "completed")
Smooth == happened \cap Trouble = {} /\ \A j \in Created : Carried(j)

\* An agent reports what it no longer runs; a job that failed is over; every
\* deploy was dispatched.
Handed ==
    /\ \A j \in Jobs : report[j] # "none" => j \notin executing
    /\ \A j \in lost : report[j] = "none"
    /\ \A j \in executing : status[j] # "completed"
    /\ "give up" \notin happened =>
         \A j \in Jobs : status[j] = "failed" => j \notin executing /\ report[j] # "completed"
    /\ "retry" \notin happened =>
         byHand = {} /\ \A j \in Created : kind[j] = "deploy" => dep[j] # "none"

LEMMA HandedStep ==
    ASSUME TypeInv, Working, Handed, [Next]_vars
    PROVE  Handed'
<1>0. TypeOK /\ Known /\ Working /\ Handed /\ Created \subseteq Jobs
  BY BoundsAssumption DEF TypeInv, TypeOK, Created, Jobs
<1>1. ASSUME NEW k \in {"deploy", "stop"}, NEW n \in Nodes, NewJob(k, n),
             UNCHANGED <<agentVars, byHand>>, happened \subseteq happened',
             \A j \in Created : dep'[j] = dep[j], k = "deploy" => dep'[count + 1] # "none"
      PROVE  Handed'
  <2>1. /\ count + 1 \in Jobs \ Created /\ Created' = Created \cup {count + 1} /\ SameJobs
        /\ kind'[count + 1] = k /\ status'[count + 1] = "pending"
    BY <1>0, <1>1, NewJobTyped DEF SameJobs
  <2>2. lost' = lost /\ report' = report /\ executing' = executing
    BY <1>1 DEF NewJob, agentVars
  <2>3. status' = [status EXCEPT ![count + 1] = "pending"]
    BY <1>1 DEF NewJob
  <2>4. \A j \in Jobs : status'[j] \in Outcomes => status'[j] = status[j]
    BY <1>0, <2>1, <2>3 DEF TypeOK, Outcomes
  <2>5. \A j \in Created' : kind'[j] = "deploy" /\ "retry" \notin happened => dep'[j] # "none"
    BY <1>0, <1>1, <2>1 DEF Handed, SameJobs
  <2>6. \A j \in Jobs : status'[j] = "failed" => status[j] = "failed"
    BY <2>4 DEF Outcomes
  <2>7. \A j \in executing : status'[j] # "completed"
    <3>1. executing \subseteq Created
      BY <1>0 DEF TypeOK
    <3>2. \A j \in executing : status[j] # "completed"
      BY <1>0 DEF Handed
    <3>3. QED
      BY <2>1, <3>1, <3>2 DEF SameJobs
  <2>8. QED
    BY <1>0, <1>1, <2>2, <2>5, <2>6, <2>7 DEF Handed
<1>2. ASSUME NEW n \in Nodes, Deploy(n), UNCHANGED <<agentVars, happened>> PROVE Handed'
  <2>1. NewJob("deploy", n) /\ byHand' = byHand /\ dep' = [dep EXCEPT ![count + 1] = "pending"]
    BY <1>2 DEF Deploy
  <2>2. count + 1 \in Jobs \ Created
    BY <1>0, <2>1, NewJobTyped
  <2>3. dep'[count + 1] = "pending" /\ \A j \in Created : dep'[j] = dep[j]
    BY <1>0, <2>1, <2>2 DEF TypeOK
  <2>4. QED
    BY <1>1, <1>2, <2>1, <2>3
<1>3. ASSUME NEW n \in Nodes \cup {NoNode}, QueueStop(n), UNCHANGED <<agentVars, happened, dep>>
      PROVE  Handed'
  <2>1. CASE n = NoNode
    BY <1>0, <1>3, <2>1 DEF QueueStop, Handed, Created, agentVars
  <2>2. CASE n # NoNode
    BY <1>1, <1>3, <2>2 DEF QueueStop
  <2>3. QED
    BY <2>1, <2>2
<1>4. ASSUME NEW j \in Jobs, Retry(j) PROVE Handed'
  <2>1. "retry" \in happened' /\ happened \subseteq happened'
    BY <1>4 DEF Retry, Incident
  <2>2. kind[j] \in {"deploy", "stop"} /\ node[j] \in Nodes /\ NewJob(kind[j], node[j])
    BY <1>0, <1>4 DEF Retry, TypeOK
  <2>3. count + 1 \in Jobs \ Created
    BY <1>0, <2>2, NewJobTyped
  <2>4. lost' = lost /\ report' = report /\ executing' = executing
        /\ status' = [status EXCEPT ![count + 1] = "pending"]
    BY <1>4, <2>2 DEF NewJob, Retry, agentVars
  <2>5. \A i \in Jobs : status'[i] \in Outcomes => status'[i] = status[i]
    BY <1>0, <2>3, <2>4 DEF TypeOK, Outcomes
  <2>6. QED
    BY <1>0, <2>1, <2>4, <2>5 DEF Handed, TypeOK, Outcomes
<1>5. ASSUME NEW n \in Nodes, NEW delivered \in BOOLEAN, Claim(n, delivered) PROVE Handed'
  <2>1. PICK j \in Waiting(n) : /\ status' = [status EXCEPT ![j] = "running"]
                                /\ executing' \in {executing, executing \cup {j}}
                                /\ happened \subseteq happened'
    BY <1>5 DEF Claim, Incident
  <2>2. j \in Jobs /\ status[j] = "pending" /\ UNCHANGED <<count, kind, lost, report, byHand, dep>>
    BY <1>0, <1>5 DEF Waiting, Claim
  <2>3. report[j] = "none"
    BY <1>0, <2>2 DEF Working, Outcomes
  <2>4. \A i \in Jobs : status'[i] \in Outcomes => i # j /\ status'[i] = status[i]
    BY <1>0, <2>1, <2>2 DEF TypeOK, Outcomes
  <2>5. Created' = Created
    BY <2>2 DEF Created
  <2>6. \A i \in executing' : i \in executing \/ i = j
    BY <2>1
  <2>7. \A i \in Jobs : report'[i] # "none" => i \notin executing'
    BY <1>0, <2>2, <2>3, <2>6 DEF Handed
  <2>8. \A i \in lost' : report'[i] = "none"
    BY <1>0, <2>2 DEF Handed
  <2>9. \A i \in executing' : status'[i] # "completed"
    <3>1. executing \subseteq Jobs
      BY <1>0 DEF TypeOK
    <3>2. ASSUME NEW i \in executing', status'[i] = "completed" PROVE FALSE
      <4>1. i \in Jobs /\ i # j /\ status[i] = "completed"
        BY <2>2, <2>4, <2>6, <3>1, <3>2 DEF Outcomes
      <4>2. QED
        BY <1>0, <2>6, <4>1 DEF Handed
    <3>3. QED
      BY <3>2
  <2>10. "give up" \notin happened' =>
           \A i \in Jobs : status'[i] = "failed" => i \notin executing' /\ report'[i] # "completed"
    <3>1. ASSUME "give up" \notin happened', NEW i \in Jobs, status'[i] = "failed"
          PROVE  i \notin executing' /\ report'[i] # "completed"
      <4>1. i # j /\ status[i] = "failed" /\ "give up" \notin happened
        BY <2>1, <2>4, <3>1 DEF Outcomes
      <4>2. QED
        BY <1>0, <2>2, <2>6, <4>1 DEF Handed
    <3>2. QED
      BY <3>1
  <2>11. "retry" \notin happened' =>
           byHand' = {} /\ \A i \in Created' : kind'[i] = "deploy" => dep'[i] # "none"
    BY <1>0, <2>1, <2>2, <2>5 DEF Handed
  <2>12. QED
    BY <2>7, <2>8, <2>9, <2>10, <2>11 DEF Handed
<1>6. ASSUME NEW j \in Jobs, NEW outcome \in Outcomes, Finish(j, outcome) PROVE Handed'
  <2>1. j \in executing /\ executing' = executing \ {j} /\ report' = [report EXCEPT ![j] = outcome]
        /\ UNCHANGED <<jobVars, dep, happened>>
    BY <1>6 DEF Finish
  <2>2. j \notin lost
    BY <1>0, <2>1 DEF Working
  <2>3. \A i \in Jobs : i # j => report'[i] = report[i]
    BY <1>0, <2>1 DEF TypeOK
  <2>4. "give up" \notin happened => status[j] # "failed"
    BY <1>0, <2>1 DEF Handed
  <2>5. lost \subseteq Jobs
    BY <1>0 DEF TypeOK
  <2>6. QED
    BY <1>0, <2>1, <2>2, <2>3, <2>4, <2>5 DEF Handed, jobVars, Created
<1>7. ASSUME NEW n \in Nodes, AgentRestart(n) PROVE Handed'
  <2>1. UNCHANGED <<count, kind, status, byHand, dep>> /\ happened \subseteq happened'
        /\ executing' = executing \ On(n)
        /\ report' = [j \in Jobs |-> IF j \in On(n) THEN "none" ELSE report[j]]
        /\ lost' = lost \cup {j \in On(n) : status[j] = "running"}
    BY <1>7 DEF AgentRestart, Incident
  <2>2. On(n) \subseteq Jobs /\ lost \subseteq Jobs
    BY <1>0 DEF On, TypeOK
  <2>3. \A j \in Jobs : report'[j] \in {report[j], "none"}
    BY <2>1
  <2>4. \A j \in lost' : report'[j] = "none"
    BY <1>0, <2>1, <2>2 DEF Handed
  <2>5. Created' = Created
    BY <2>1 DEF Created
  <2>6. QED
    BY <1>0, <2>1, <2>3, <2>4, <2>5 DEF Handed
<1>8. ASSUME NEW j \in Jobs, Complete(j) PROVE Handed'
  <2>1. report[j] # "none" /\ status' = [status EXCEPT ![j] = report[j]]
        /\ UNCHANGED <<count, kind, lost, byHand, dep, agentVars, happened>>
    BY <1>8 DEF Complete
  <2>2. \A i \in Jobs : i # j => status'[i] = status[i]
    BY <1>0, <2>1 DEF TypeOK
  <2>3. status'[j] = report[j] /\ j \notin executing
    BY <1>0, <2>1 DEF TypeOK, Handed
  <2>4. QED
    BY <1>0, <2>1, <2>2, <2>3 DEF Handed, agentVars, Created, TypeOK
<1>9. ASSUME NEW j \in Jobs, GiveUp(j) PROVE Handed'
  <2>1. "give up" \in happened' /\ happened \subseteq happened'
        /\ UNCHANGED <<count, kind, lost, byHand, dep, agentVars>>
    BY <1>9 DEF GiveUp, Incident
  <2>3. \A i \in Jobs : status'[i] = status[i] \/ status'[i] = "failed"
    BY <1>0, <1>9 DEF GiveUp, TypeOK
  <2>2. QED
    BY <1>0, <2>1, <2>3 DEF Handed, agentVars, Created, TypeOK
<1>10. ASSUME NEW j \in Jobs, Answer(j) PROVE Handed'
  <2>1. report' = [report EXCEPT ![j] = "none"] /\ executing' = executing
        /\ UNCHANGED <<jobVars, dep, happened>>
    BY <1>10 DEF Answer
  <2>2. \A i \in Jobs : report'[i] \in {report[i], "none"}
    BY <1>0, <2>1 DEF TypeOK
  <2>3. lost \subseteq Jobs
    BY <1>0 DEF TypeOK
  <2>4. QED
    BY <1>0, <2>1, <2>2, <2>3 DEF Handed, jobVars, Created
<1>11. CASE RecordDeployment
  <2>1. reporting.job \in Created /\ reporting.job \in Jobs /\ status[reporting.job] \in Outcomes
    BY <1>0, <1>11 DEF RecordDeployment, Known, TypeOK
  <2>2. UNCHANGED <<jobVars, agentVars, happened>>
        /\ dep' = IF dep[reporting.job] = "none" THEN dep ELSE [dep EXCEPT ![reporting.job] = status[reporting.job]]
    BY <1>11 DEF RecordDeployment
  <2>3. \A j \in Jobs : dep[j] # "none" => dep'[j] # "none"
    BY <1>0, <2>1, <2>2 DEF TypeOK, Outcomes
  <2>4. QED
    BY <1>0, <2>2, <2>3 DEF Handed, jobVars, agentVars, Created
<1>12. ASSUME Ignore \/ RecordSuccess \/ \E n \in Nodes : RemoveFrom(n) PROVE Handed'
  <2>1. Ignore \/ RecordSuccess
           => node[reporting.job] \in Nodes /\ reporting.row.home \in Nodes \cup {NoNode}
    BY <1>0 DEF Ignore, RecordSuccess, TypeOK, Known, Row
  <2>2. PICK n \in Nodes \cup {NoNode} : QueueStop(n) /\ UNCHANGED <<agentVars, happened, dep>>
    <3>1. CASE Ignore
      BY <2>1, <3>1 DEF Ignore
    <3>2. CASE RecordSuccess
      BY <2>1, <3>2 DEF RecordSuccess
    <3>3. CASE \E n \in Nodes : RemoveFrom(n)
      BY <3>3 DEF RemoveFrom
    <3>4. QED
      BY <1>12, <3>1, <3>2, <3>3
  <2>3. QED
    BY <1>3, <2>2
<1>13. CASE DeleteProject
  <2>1. UNCHANGED <<count, kind, lost, byHand, dep, agentVars, happened>>
        /\ \A j \in Jobs : status'[j] \in {status[j], "cancelled"}
    BY <1>13 DEF DeleteProject
  <2>2. QED
    BY <1>0, <2>1 DEF Handed, agentVars, Created, TypeOK
<1>14. ASSUME UNCHANGED <<jobVars, dep, agentVars>>, happened \subseteq happened' PROVE Handed'
  BY <1>0, <1>14 DEF Handed, jobVars, agentVars, Created
<1>15. CASE EditSave
  <2>1. UNCHANGED <<agentVars, happened>>
    BY <1>15 DEF EditSave
  <2>2. CASE UNCHANGED <<jobVars, dep>>
    BY <1>14, <2>1, <2>2
  <2>3. CASE \E n \in Nodes : Deploy(n)
    BY <1>2, <2>1, <2>3
  <2>4. QED
    BY <1>15, <2>2, <2>3 DEF EditSave
<1>16. QED
  BY <1>2, <1>4, <1>5, <1>6, <1>7, <1>8, <1>9, <1>10, <1>11, <1>12, <1>13, <1>14, <1>15
  DEF Next, Dispatch, RecordFailure, EditRead, HubStop, Incident, vars

\* Trouble stays: what became of a job that failed or was lost is not undone,
\* unless somebody gave up on it.
LEMMA SmoothBefore ==
    ASSUME TypeInv, Working, Handed, Next, Smooth'
    PROVE  Smooth
<1>0. TypeOK /\ Known /\ Working /\ Handed /\ Created \subseteq Jobs
  BY BoundsAssumption DEF TypeInv, TypeOK, Created, Jobs
<1>1. happened \subseteq happened'
  BY DEF Next, Dispatch, Retry, Claim, Finish, AgentRestart, Complete, Answer, GiveUp, RecordDeployment,
     Ignore, RecordFailure, RecordSuccess, EditRead, EditSave, DeleteProject, RemoveFrom, HubStop, Incident
<1>2. happened' \cap Trouble = {} /\ happened \cap Trouble = {}
  BY <1>1 DEF Smooth
<1>3. SUFFICES ASSUME NEW i \in Created, ~Carried(i) PROVE FALSE
  BY <1>2 DEF Smooth
<1>4. i \in Jobs /\ (status[i] = "failed" \/ status[i] = "running") /\ i \notin executing
      /\ report[i] # "completed"
  <2>1. status[i] \in Statuses /\ status[i] # "none"
    BY <1>0 DEF TypeOK
  <2>2. status[i] = "failed" => i \notin executing /\ report[i] # "completed"
    BY <1>0, <1>2, <1>3 DEF Handed, Trouble
  <2>3. QED
    BY <1>0, <1>3, <2>1, <2>2 DEF Carried, Statuses, Outcomes
<1>5. i \in Created' => Carried(i)'
  BY DEF Smooth
<1>6. ASSUME Created \subseteq Created', status'[i] = status[i] \/ status'[i] = "failed",
             i \notin executing', report'[i] # "completed"
      PROVE  FALSE
  BY <1>3, <1>4, <1>5, <1>6 DEF Carried
<1>7. ASSUME NEW k \in {"deploy", "stop"}, NEW n \in Nodes, NewJob(k, n), UNCHANGED agentVars
      PROVE  FALSE
  BY <1>0, <1>4, <1>6, <1>7, NewJobTyped DEF agentVars
<1>8. ASSUME NEW n \in Nodes \cup {NoNode}, QueueStop(n), UNCHANGED agentVars PROVE FALSE
  <2>1. CASE n = NoNode
    BY <1>4, <1>6, <1>8, <2>1 DEF QueueStop, Created, agentVars
  <2>2. CASE n # NoNode
    BY <1>7, <1>8, <2>2 DEF QueueStop
  <2>3. QED
    BY <2>1, <2>2
<1>9. ASSUME UNCHANGED <<jobVars, agentVars>> PROVE FALSE
  BY <1>4, <1>6, <1>9 DEF jobVars, agentVars, Created
<1>10. ASSUME NEW n \in Nodes, Deploy(n), UNCHANGED agentVars PROVE FALSE
  BY <1>7, <1>10 DEF Deploy
<1>11. ASSUME NEW j \in Jobs, Retry(j) \/ GiveUp(j) PROVE FALSE
  BY <1>2, <1>11 DEF Retry, GiveUp, Incident, Trouble
<1>12. ASSUME NEW n \in Nodes, NEW delivered \in BOOLEAN, Claim(n, delivered) PROVE FALSE
  <2>1. PICK j \in Waiting(n) : /\ status' = [status EXCEPT ![j] = "running"]
                                /\ executing' \in {executing, executing \cup {j}}
    BY <1>12 DEF Claim
  <2>2. UNCHANGED <<count, report>> /\ status[j] = "pending"
    BY <1>12, <2>1 DEF Claim, Waiting
  <2>3. i # j /\ status'[i] = status[i]
    BY <1>0, <1>4, <2>1, <2>2 DEF TypeOK
  <2>4. QED
    BY <1>4, <1>6, <2>1, <2>2, <2>3 DEF Created
<1>13. ASSUME NEW j \in Jobs, NEW outcome \in Outcomes, Finish(j, outcome) PROVE FALSE
  <2>1. j \in executing /\ executing' = executing \ {j} /\ report' = [report EXCEPT ![j] = outcome]
        /\ UNCHANGED jobVars
    BY <1>13 DEF Finish
  <2>2. report'[i] = report[i]
    BY <1>0, <1>4, <2>1 DEF TypeOK
  <2>3. QED
    BY <1>4, <1>6, <2>1, <2>2 DEF jobVars, Created
<1>14. ASSUME NEW n \in Nodes, AgentRestart(n) PROVE FALSE
  <2>1. UNCHANGED <<count, status>> /\ executing' \subseteq executing
        /\ report' = [j \in Jobs |-> IF j \in On(n) THEN "none" ELSE report[j]]
    BY <1>14 DEF AgentRestart
  <2>2. QED
    BY <1>4, <1>6, <2>1 DEF Created
<1>15. ASSUME NEW j \in Jobs, Complete(j) PROVE FALSE
  <2>1. report[j] # "none" /\ status' = [status EXCEPT ![j] = report[j]] /\ UNCHANGED <<count, agentVars>>
    BY <1>15 DEF Complete
  <2>2. status'[i] = status[i] \/ status'[i] = "failed"
    <3>1. i = j => report[i] = "failed"
      BY <1>0, <1>4, <2>1 DEF TypeOK, Outcomes
    <3>2. QED
      BY <1>0, <1>4, <2>1, <3>1 DEF TypeOK
  <2>3. QED
    BY <1>4, <1>6, <2>1, <2>2 DEF agentVars, Created
<1>16. ASSUME NEW j \in Jobs, Answer(j) PROVE FALSE
  <2>1. report' = [report EXCEPT ![j] = "none"] /\ executing' = executing /\ UNCHANGED jobVars
    BY <1>16 DEF Answer
  <2>2. report'[i] # "completed"
    BY <1>0, <1>4, <2>1 DEF TypeOK
  <2>3. QED
    BY <1>4, <1>6, <2>1, <2>2 DEF jobVars, Created
<1>17. ASSUME Ignore \/ RecordSuccess PROVE FALSE
  <2>1. node[reporting.job] \in Nodes /\ reporting.row.home \in Nodes \cup {NoNode}
    BY <1>0, <1>17 DEF Ignore, RecordSuccess, TypeOK, Known, Row
  <2>2. PICK n \in Nodes \cup {NoNode} : QueueStop(n)
    BY <1>17, <2>1 DEF Ignore, RecordSuccess
  <2>3. QED
    BY <1>8, <1>17, <2>2 DEF Ignore, RecordSuccess
<1>18. CASE DeleteProject
  <2>1. UNCHANGED <<count, agentVars>>
        /\ status' = [j \in Jobs |-> IF j \in Active /\ status[j] = "pending" THEN "cancelled" ELSE status[j]]
    BY <1>18 DEF DeleteProject
  <2>2. QED
    BY <1>4, <1>6, <2>1 DEF agentVars, Created
<1>19. ASSUME NEW n \in Nodes, RemoveFrom(n) PROVE FALSE
  BY <1>8, <1>19 DEF RemoveFrom
<1>20. CASE EditSave
  BY <1>9, <1>10, <1>20 DEF EditSave
<1>21. QED
  BY <1>9, <1>10, <1>11, <1>12, <1>13, <1>14, <1>15, <1>16, <1>17, <1>18, <1>19, <1>20
  DEF Next, Dispatch, RecordDeployment, RecordFailure, EditRead, HubStop

-----------------------------------------------------------------------------
(* How far the jobs of a node got *)

Over == {"completed", "cancelled"}
Finished(j) == status[j] = "completed" \/ (status[j] = "running" /\ j \notin executing)
Started(j) == status[j] \in {"running", "completed"}

\* Of the jobs of a node, a later one starts when the earlier ones are over.
InOrder == \A i, j \in Created : node[i] = node[j] /\ i < j /\ Started(j) => status[i] \in Over

\* Only deploys that had not started are ever cancelled.
StopsStay == \A j \in Created : kind[j] = "stop" => status[j] # "cancelled"

\* Job d is the deploy that finished last of all jobs on n.
LastOn(n, d) ==
    /\ d \in Created /\ kind[d] = "deploy" /\ node[d] = n /\ Finished(d)
    /\ \A i \in Created : node[i] = n /\ Finished(i) => i <= d

\* What is on a node is what the last job that finished there left.
CopiesAre == \A n \in Nodes, d \in Jobs : copy[n] = d <=> LastOn(n, d)

\* What a step may do to the jobs, when nothing goes wrong.
JobsMove ==
    /\ Created \subseteq Created' /\ \A j \in Created : kind'[j] = kind[j] /\ node'[j] = node[j]
    /\ \A j \in Created' \ Created : j = count + 1 /\ j \in Jobs /\ status'[j] = "pending"
    /\ \A j \in Created :
         \/ status'[j] = status[j]
         \/ status[j] = "running" /\ status'[j] = "completed"
         \/ status[j] = "pending" /\ status'[j] = "cancelled" /\ kind[j] = "deploy" /\ ~present'
         \/ /\ status[j] = "pending" /\ status'[j] = "running"
            /\ \A i \in Created : node[i] = node[j] /\ i < j => status[i] \in Over

LEMMA JobsMoveStep ==
    ASSUME TypeInv, Working, Handed, Next, Smooth, Smooth'
    PROVE  JobsMove
<1>0. TypeOK /\ Known /\ Working /\ Handed /\ Created \subseteq Jobs
  BY BoundsAssumption DEF TypeInv, TypeOK, Created, Jobs
<1>1. ASSUME NEW k \in {"deploy", "stop"}, NEW n \in Nodes, NewJob(k, n) PROVE JobsMove
  <2>1. count + 1 \in Jobs \ Created /\ Created' = Created \cup {count + 1} /\ SameJobs
        /\ status'[count + 1] = "pending"
    BY <1>0, <1>1, NewJobTyped DEF SameJobs
  <2>2. QED
    BY <2>1 DEF JobsMove, SameJobs
<1>2. ASSUME UNCHANGED <<count, kind, node, status>> PROVE JobsMove
  BY <1>2 DEF JobsMove, Created
<1>3. ASSUME NEW n \in Nodes \cup {NoNode}, QueueStop(n) PROVE JobsMove
  BY <1>1, <1>2, <1>3 DEF QueueStop
<1>4. ASSUME NEW n \in Nodes, Deploy(n) PROVE JobsMove
  BY <1>1, <1>4 DEF Deploy
<1>5. ASSUME NEW j \in Jobs, Retry(j) \/ GiveUp(j) PROVE JobsMove
  BY <1>5 DEF Retry, GiveUp, Incident, Trouble, Smooth
<1>6. ASSUME NEW n \in Nodes, NEW delivered \in BOOLEAN, Claim(n, delivered) PROVE JobsMove
  <2>1. PICK j \in Waiting(n) : status' = [status EXCEPT ![j] = "running"] /\ \A i \in Waiting(n) : j <= i
    BY <1>6 DEF Claim
  <2>2. UNCHANGED <<count, kind, node>> /\ ~Busy(n)
    BY <1>6 DEF Claim
  <2>3. j \in Created /\ j \in Jobs /\ node[j] = n /\ status[j] = "pending"
    BY <1>0, <2>1 DEF Waiting
  <2>4. ASSUME NEW i \in Created, node[i] = node[j], i < j PROVE status[i] \in Over
    <3>1. i \in Int /\ j \in Int
      BY <1>0, <2>3 DEF Jobs
    <3>2. status[i] # "pending"
      BY <2>1, <2>3, <2>4, <3>1 DEF Waiting
    <3>3. status[i] # "running"
      <4>1. SUFFICES ASSUME status[i] = "running" PROVE FALSE
        OBVIOUS
      <4>2. i \in lost
        BY <2>2, <2>3, <2>4, <4>1 DEF Busy
      <4>3. i \notin executing /\ report[i] = "none"
        BY <1>0, <4>2 DEF Working, Handed
      <4>4. Carried(i)
        BY DEF Smooth
      <4>5. QED
        BY <4>1, <4>3, <4>4 DEF Carried
    <3>4. Carried(i)
      BY DEF Smooth
    <3>5. QED
      BY <3>2, <3>3, <3>4 DEF Carried, Over
  <2>5. \A i \in Created : i # j => status'[i] = status[i]
    BY <1>0, <2>1 DEF TypeOK
  <2>6. status'[j] = "running"
    BY <1>0, <2>1, <2>3 DEF TypeOK
  <2>7. QED
    BY <2>2, <2>3, <2>4, <2>5, <2>6 DEF JobsMove, Created
<1>7. ASSUME NEW j \in Jobs, Complete(j) PROVE JobsMove
  <2>1. report[j] # "none" /\ report[j] # status[j] /\ status' = [status EXCEPT ![j] = report[j]]
        /\ UNCHANGED <<count, kind, node>>
    BY <1>7 DEF Complete
  <2>2. j \in Created /\ Created' = Created
    BY <1>0, <2>1 DEF TypeOK, Created
  <2>3. status'[j] = report[j] /\ \A i \in Created : i # j => status'[i] = status[i]
    BY <1>0, <2>1 DEF TypeOK
  <2>4. report[j] \in Outcomes /\ status[j] \in {"running"} \cup Outcomes
    BY <1>0, <2>1 DEF TypeOK, Working
  <2>5. Carried(j) /\ Carried(j)'
    BY <2>2 DEF Smooth
  <2>6. report[j] = "completed" /\ status[j] = "running"
    BY <2>1, <2>3, <2>4, <2>5 DEF Carried, Outcomes
  <2>7. QED
    BY <2>1, <2>2, <2>3, <2>6 DEF JobsMove
<1>8. CASE DeleteProject
  <2>1. UNCHANGED <<count, kind, node>> /\ ~present'
        /\ status' = [j \in Jobs |-> IF j \in Active /\ status[j] = "pending" THEN "cancelled" ELSE status[j]]
    BY <1>8 DEF DeleteProject
  <2>2. \A j \in Active : kind[j] = "deploy"
    BY <1>0 DEF Active, TypeOK
  <2>3. Created' = Created
    BY <2>1 DEF Created
  <2>4. QED
    BY <1>0, <2>1, <2>2, <2>3 DEF JobsMove
<1>9. ASSUME Ignore \/ RecordSuccess PROVE JobsMove
  <2>1. node[reporting.job] \in Nodes /\ reporting.row.home \in Nodes \cup {NoNode}
    BY <1>0, <1>9 DEF Ignore, RecordSuccess, TypeOK, Known, Row
  <2>2. QED
    BY <1>3, <1>9, <2>1 DEF Ignore, RecordSuccess
<1>10. CASE EditSave
  BY <1>2, <1>4, <1>10 DEF EditSave, jobVars
<1>11. QED
  BY <1>2, <1>3, <1>4, <1>5, <1>6, <1>7, <1>8, <1>9, <1>10
  DEF Next, Dispatch, Finish, AgentRestart, Answer, RecordDeployment, RecordFailure, EditRead,
      RemoveFrom, HubStop, jobVars

LEMMA OrderStep ==
    ASSUME TypeInv, InOrder, StopsStay, JobsMove
    PROVE  InOrder' /\ StopsStay'
<1>0. Created \subseteq Jobs /\ (\A j \in Created : j <= count) /\ count \in Nat
      /\ status \in [Jobs -> Statuses]
  BY BoundsAssumption DEF TypeInv, TypeOK, Created, Jobs
<1>1. ASSUME NEW i \in Created', NEW j \in Created', node'[i] = node'[j], i < j, Started(j)'
      PROVE  status'[i] \in Over
  <2>1. j \in Created /\ j \in Int
    BY <1>0, <1>1 DEF JobsMove, Started, Jobs
  <2>2. i \in Created /\ i \in Int
    BY <1>0, <1>1, <2>1 DEF JobsMove, Jobs
  <2>3. node[i] = node[j]
    BY <1>1, <2>1, <2>2 DEF JobsMove
  <2>4. status[i] \in Over
    <3>1. CASE Started(j)
      BY <1>1, <2>1, <2>2, <2>3, <3>1 DEF InOrder
    <3>2. CASE ~Started(j)
      <4>1. status[j] = "pending" /\ status'[j] = "running"
        BY <1>1, <2>1, <3>2 DEF JobsMove, Started
      <4>2. QED
        BY <1>1, <2>1, <2>2, <2>3, <4>1 DEF JobsMove
    <3>3. QED
      BY <3>1, <3>2
  <2>5. QED
    BY <2>2, <2>4 DEF JobsMove, Over
<1>2. StopsStay'
  BY DEF JobsMove, StopsStay
<1>3. QED
  BY <1>1, <1>2 DEF InOrder

\* A step that changes neither which jobs finished nor what is on the nodes.
LEMMA CopiesStay ==
    ASSUME TypeInv, CopiesAre, JobsMove, UNCHANGED copy,
           \A j \in Created : Finished(j)' <=> Finished(j)
    PROVE  CopiesAre'
<1>1. \A j \in Created' \ Created : ~Finished(j)'
  BY DEF JobsMove, Finished
<1>2. Created \subseteq Created' /\ \A j \in Created : kind'[j] = kind[j] /\ node'[j] = node[j]
  BY DEF JobsMove
<1>3. \A n \in Nodes, d \in Jobs : LastOn(n, d)' <=> LastOn(n, d)
  BY <1>1, <1>2 DEF LastOn
<1>4. QED
  BY <1>3 DEF CopiesAre

LEMMA CopiesStep ==
    ASSUME TypeInv, Working, Handed, Next, Smooth, Smooth', InOrder, CopiesAre, JobsMove
    PROVE  CopiesAre'
<1>0. TypeOK /\ Known /\ Working /\ Handed /\ Created \subseteq Jobs
  BY BoundsAssumption DEF TypeInv, TypeOK, Created, Jobs
<1>1. ASSUME UNCHANGED <<executing, copy>>, \A j \in Created : Started(j) \/ Started(j)' => status'[j] = status[j]
      PROVE  CopiesAre'
  BY <1>1, CopiesStay DEF Finished, Started
<1>2. \A j \in executing : status[j] = "running"
  <2>1. SUFFICES ASSUME NEW j \in executing PROVE status[j] = "running"
    OBVIOUS
  <2>2. j \in Created /\ j \in Jobs
    BY <1>0 DEF TypeOK
  <2>3. status[j] \in {"running", "failed"}
    BY <1>0, <2>2 DEF Working, Handed, Outcomes
  <2>4. Carried(j)
    BY <2>2 DEF Smooth
  <2>5. QED
    BY <2>3, <2>4 DEF Carried
<1>3. ASSUME NEW k \in {"deploy", "stop"}, NEW n \in Nodes, NewJob(k, n), UNCHANGED agentVars
      PROVE  CopiesAre'
  <2>1. SameJobs
    BY <1>0, <1>3, NewJobTyped DEF SameJobs
  <2>2. QED
    BY <1>1, <1>3, <2>1 DEF SameJobs, agentVars
<1>4. ASSUME UNCHANGED <<jobVars, executing, copy>> PROVE CopiesAre'
  BY <1>1, <1>4 DEF jobVars
<1>5. ASSUME NEW n \in Nodes \cup {NoNode}, QueueStop(n), UNCHANGED agentVars PROVE CopiesAre'
  <2>1. CASE n = NoNode
    BY <1>1, <1>5, <2>1 DEF QueueStop, agentVars
  <2>2. CASE n # NoNode
    BY <1>3, <1>5, <2>2 DEF QueueStop
  <2>3. QED
    BY <2>1, <2>2
<1>6. ASSUME NEW n \in Nodes, Deploy(n), UNCHANGED agentVars PROVE CopiesAre'
  BY <1>3, <1>6 DEF Deploy
<1>7. ASSUME NEW j \in Jobs, Retry(j) \/ GiveUp(j) PROVE CopiesAre'
  BY <1>7 DEF Retry, GiveUp, Incident, Trouble, Smooth
<1>8. ASSUME NEW n \in Nodes, NEW delivered \in BOOLEAN, Claim(n, delivered) PROVE CopiesAre'
  <2>1. PICK j \in Waiting(n) : /\ status' = [status EXCEPT ![j] = "running"]
                                /\ executing' \in {executing, executing \cup {j}}
    BY <1>8 DEF Claim
  <2>2. j \in Created /\ j \in Jobs /\ status[j] = "pending" /\ UNCHANGED <<count, report, copy>>
    BY <1>0, <1>8, <2>1 DEF Waiting, Claim
  <2>3. \A i \in Created : i # j => status'[i] = status[i] /\ (i \in executing' <=> i \in executing)
    BY <1>0, <2>1 DEF TypeOK
  <2>4. status'[j] = "running" /\ report'[j] = "none"
    BY <1>0, <2>1, <2>2 DEF TypeOK, Working, Outcomes
  <2>5. Carried(j)'
    BY <2>2 DEF Smooth, Created
  <2>6. j \in executing'
    BY <2>4, <2>5 DEF Carried
  <2>7. \A i \in Created : Finished(i)' <=> Finished(i)
    BY <2>2, <2>3, <2>4, <2>6 DEF Finished
  <2>8. QED
    BY <2>2, <2>7, CopiesStay
<1>9. ASSUME NEW j \in Jobs, NEW outcome \in Outcomes, Finish(j, outcome) PROVE CopiesAre'
  <2>1. /\ j \in executing /\ executing' = executing \ {j} /\ report' = [report EXCEPT ![j] = outcome]
        /\ UNCHANGED <<count, kind, node, status>>
    BY <1>9 DEF Finish, jobVars
  <2>2. j \in Created /\ status[j] = "running" /\ Created' = Created /\ report'[j] = outcome
    BY <1>0, <1>2, <2>1 DEF TypeOK, Created
  <2>3. Carried(j)'
    BY <2>2 DEF Smooth
  <2>4. outcome = "completed"
    BY <2>1, <2>2, <2>3 DEF Carried
  <2>5. PICK c : c = (IF kind[j] = "deploy" THEN j ELSE None) /\ copy' = [copy EXCEPT ![node[j]] = c]
    BY <1>9, <2>4 DEF Finish, After
  <2>6. node[j] \in Nodes /\ \A n \in Nodes : copy'[n] = IF n = node[j] THEN c ELSE copy[n]
    BY <1>0, <2>2, <2>5 DEF TypeOK
  <2>7. Finished(j)' /\ ~Finished(j) /\ \A i \in Created : i # j => (Finished(i)' <=> Finished(i))
    BY <2>1, <2>2 DEF Finished
  <2>8. \A i \in Created : node[i] = node[j] /\ Finished(i)' => i <= j
    <3>1. SUFFICES ASSUME NEW i \in Created, node[i] = node[j], Finished(i)', ~(i <= j) PROVE FALSE
      OBVIOUS
    <3>2. j < i
      BY <1>0, <2>2, <3>1 DEF Jobs
    <3>3. Started(i)
      BY <2>1, <3>1 DEF Started, Finished
    <3>4. QED
      BY <2>2, <3>1, <3>2, <3>3 DEF InOrder, Over
  <2>9. ASSUME NEW n \in Nodes, NEW d \in Jobs PROVE copy'[n] = d <=> LastOn(n, d)'
    <3>1. CASE n # node[j]
      <4>1. LastOn(n, d)' <=> LastOn(n, d)
        BY <2>1, <2>2, <2>7, <3>1 DEF LastOn
      <4>2. QED
        BY <2>6, <3>1, <4>1 DEF CopiesAre
    <3>2. CASE n = node[j]
      <4>1. copy'[n] = c
        BY <2>6, <3>2
      <4>2. ASSUME LastOn(n, d)' PROVE d = j /\ kind[j] = "deploy"
        <5>1. d \in Created /\ node[d] = node[j] /\ Finished(d)' /\ kind[d] = "deploy" /\ j <= d
          BY <2>1, <2>2, <2>7, <3>2, <4>2 DEF LastOn
        <5>2. d <= j
          BY <2>8, <5>1
        <5>3. QED
          BY <1>0, <2>2, <5>1, <5>2 DEF Jobs
      <4>3. ASSUME d = j, kind[j] = "deploy" PROVE LastOn(n, d)'
        BY <2>1, <2>2, <2>7, <2>8, <3>2, <4>3 DEF LastOn
      <4>4. d # None
        BY BoundsAssumption DEF Jobs, None
      <4>5. QED
        BY <2>5, <4>1, <4>2, <4>3, <4>4
    <3>3. QED
      BY <3>1, <3>2
  <2>10. QED
    BY <2>9 DEF CopiesAre
<1>10. ASSUME NEW n \in Nodes, AgentRestart(n) PROVE CopiesAre'
  <2>1. UNCHANGED <<count, kind, node, status>> /\ executing' = executing \ On(n)
        /\ report' = [j \in Jobs |-> IF j \in On(n) THEN "none" ELSE report[j]]
    BY <1>10 DEF AgentRestart
  <2>2. executing \cap On(n) = {}
    <3>1. SUFFICES ASSUME NEW j \in executing, j \in On(n) PROVE FALSE
      OBVIOUS
    <3>2. j \in Created' /\ j \in Jobs
      BY <1>0, <2>1 DEF TypeOK, Created
    <3>3. status'[j] = "running" /\ j \notin executing' /\ report'[j] = "none"
      BY <1>2, <2>1, <3>1, <3>2
    <3>4. Carried(j)'
      BY <3>2 DEF Smooth
    <3>5. QED
      BY <3>3, <3>4 DEF Carried
  <2>3. copy' = copy
    <3>1. copy' = [copy EXCEPT ![n] = copy[n]]
      BY <1>10, <2>2 DEF AgentRestart
    <3>2. QED
      BY <1>0, <3>1 DEF TypeOK
  <2>4. QED
    BY <1>1, <2>1, <2>2, <2>3
<1>11. ASSUME NEW j \in Jobs, Complete(j) PROVE CopiesAre'
  <2>1. report[j] # "none" /\ status' = [status EXCEPT ![j] = report[j]] /\ UNCHANGED <<count, agentVars>>
    BY <1>11 DEF Complete
  <2>2. j \notin executing /\ UNCHANGED <<executing, copy>>
    BY <1>0, <2>1 DEF Handed, agentVars
  <2>3. \A i \in Created : i # j => status'[i] = status[i]
    BY <1>0, <2>1 DEF TypeOK
  <2>4. j \in Created => (status[j] \in {"running"} \cup Outcomes) /\ status'[j] \in Outcomes
    BY <1>0, <2>1 DEF TypeOK, Working
  <2>5. j \in Created => Carried(j) /\ Carried(j)'
    BY <2>1 DEF Smooth, Created
  <2>6. j \in Created => Finished(j) /\ Finished(j)'
    BY <2>2, <2>4, <2>5 DEF Finished, Carried, Outcomes
  <2>7. QED
    BY <2>2, <2>3, <2>6, CopiesStay DEF Finished
<1>12. CASE DeleteProject
  <2>1. UNCHANGED agentVars
        /\ status' = [j \in Jobs |-> IF j \in Active /\ status[j] = "pending" THEN "cancelled" ELSE status[j]]
    BY <1>12 DEF DeleteProject
  <2>2. QED
    BY <1>0, <1>1, <2>1 DEF agentVars, Started
<1>13. ASSUME Ignore \/ RecordSuccess PROVE CopiesAre'
  <2>1. node[reporting.job] \in Nodes /\ reporting.row.home \in Nodes \cup {NoNode}
    BY <1>0, <1>13 DEF Ignore, RecordSuccess, TypeOK, Known, Row
  <2>2. QED
    BY <1>5, <1>13, <2>1 DEF Ignore, RecordSuccess
<1>14. CASE EditSave
  BY <1>4, <1>6, <1>14 DEF EditSave, agentVars
<1>15. QED
  BY <1>4, <1>5, <1>6, <1>7, <1>8, <1>9, <1>10, <1>11, <1>12, <1>13, <1>14
  DEF Next, Dispatch, Answer, RecordDeployment, RecordFailure, EditRead, RemoveFrom, HubStop, agentVars

-----------------------------------------------------------------------------
(* Where the copies are that deploys left *)

Deploys == {j \in Created : kind[j] = "deploy"}
StopAfter(c) == \E s \in Created : kind[s] = "stop" /\ node[s] = node[c] /\ s > c

\* The project is recorded to run deploy e, or what e comes to is still to be
\* recorded.
Unsettled(e) == image = e \/ status[e] \in {"pending", "running"} \/ reporting.job = e

\* What a deploy left on its node is taken away later, or replaced by, or is
\* itself, a copy that counts.
Covered(c) == StopAfter(c) \/ \E e \in Deploys : node[e] = node[c] /\ e >= c /\ Unsettled(e)

\* While the project exists: the copy it is recorded to run is where it says,
\* the newest deploy is recorded as soon as it succeeds, no removal comes after
\* it on its node, and every copy is accounted for.
Kept ==
    /\ image \in Jobs => home = node[image]
    /\ current # None /\ status[current] = "completed" => current \in {reporting.job, image}
    /\ current # None => \A s \in Created : kind[s] = "stop" /\ node[s] = node[current] => s < current
    /\ \A c \in Deploys : status[c] # "cancelled" /\ Covered(c)

\* Once it is deleted: a deploy was cancelled, or a removal follows it.
Gone == \A c \in Deploys : status[c] = "cancelled" \/ node[c] \in removing \/ StopAfter(c)

LEMMA StopAfterStays ==
    ASSUME TypeInv, JobsMove, NEW c \in Created, StopAfter(c)
    PROVE  StopAfter(c)'
BY DEF JobsMove, StopAfter

\* A stop that was queued now comes after every job on its node.
LEMMA NewStopAfter ==
    ASSUME TypeInv, NEW n \in Nodes, NewJob("stop", n), NEW c \in Created, node[c] = n
    PROVE  StopAfter(c)'
<1>0. TypeOK /\ c \in 1 .. count /\ count \in Int
  BY DEF TypeInv, TypeOK, Created
<1>1. /\ Created' = Created \cup {count + 1} /\ node'[c] = n
      /\ kind'[count + 1] = "stop" /\ node'[count + 1] = n
  BY <1>0, NewJobTyped
<1>2. count + 1 > c
  BY <1>0
<1>3. QED
  BY <1>1, <1>2 DEF StopAfter

LEMMA CoveredStays ==
    ASSUME TypeInv, JobsMove, present', Kept,
           \A c, e \in Deploys : node[e] = node[c] /\ e >= c /\ Unsettled(e)
                => Unsettled(e)' \/ Covered(c)'
    PROVE  \A c \in Deploys' : status'[c] # "cancelled" /\ Covered(c)'
<1>0. Created \subseteq Jobs
  BY BoundsAssumption DEF TypeInv, TypeOK, Created, Jobs
<1>1. SUFFICES ASSUME NEW c \in Deploys' PROVE status'[c] # "cancelled" /\ Covered(c)'
  OBVIOUS
<1>2. CASE c \in Created
  <2>1. c \in Deploys /\ status'[c] # "cancelled"
    BY <1>2 DEF Kept, Deploys, JobsMove
  <2>2. CASE StopAfter(c)
    BY <1>2, <2>1, <2>2, StopAfterStays DEF Covered
  <2>3. CASE ~StopAfter(c)
    <3>1. PICK e \in Deploys : node[e] = node[c] /\ e >= c /\ Unsettled(e)
      BY <2>1, <2>3 DEF Kept, Covered
    <3>2. CASE Unsettled(e)'
      <4>1. e \in Deploys' /\ node'[e] = node'[c]
        BY <2>1, <3>1 DEF Deploys, JobsMove
      <4>2. QED
        BY <3>1, <3>2, <4>1, <2>1 DEF Covered
    <3>3. QED
      BY <2>1, <3>1, <3>2
  <2>4. QED
    BY <2>1, <2>2, <2>3
<1>3. CASE c \notin Created
  <2>1. status'[c] = "pending" /\ c \in Jobs
    BY <1>1, <1>3 DEF Deploys, JobsMove
  <2>2. c >= c
    BY <2>1 DEF Jobs
  <2>3. QED
    BY <2>1, <2>2 DEF Covered, Unsettled
<1>4. QED
  BY <1>2, <1>3

LEMMA KeptStep ==
    ASSUME Interruptible = {}, Inv, Handed, Next, Smooth, Smooth', JobsMove, present => Kept, present'
    PROVE  Kept'
<1>0. /\ TypeInv /\ TypeOK /\ Known /\ Fresh /\ Working /\ Handed /\ Created \subseteq Jobs /\ None \notin Jobs
      /\ reporting.job \in Created \cup {None}
  BY BoundsAssumption DEF Inv, TypeInv, TypeOK, Created, Jobs, None
<1>1. ~DeleteProject /\ ~HubStop /\ ~RecordFailure /\ \A j \in Jobs : ~Retry(j) /\ ~GiveUp(j)
  <2>1. ~DeleteProject
    BY DEF DeleteProject
  <2>2. ~HubStop /\ \A j \in Jobs : ~Retry(j) /\ ~GiveUp(j)
    BY DEF HubStop, Retry, GiveUp, Incident, Trouble, Smooth
  <2>3. ~RecordFailure
    <3>1. SUFFICES ASSUME RecordFailure PROVE FALSE
      OBVIOUS
    <3>2. reporting.job \in Created /\ status[reporting.job] = "failed"
      BY <1>0, <3>1 DEF RecordFailure, Known, Succeeded, Outcomes
    <3>3. QED
      BY <3>2 DEF Smooth, Carried
  <2>4. QED
    BY <2>1, <2>2, <2>3
<1>2. present
  <2>1. editing.on => present
    BY <1>0 DEF Fresh
  <2>2. QED
    BY <1>1, <2>1 DEF Next, Dispatch, Claim, Finish, AgentRestart, Complete, Answer, RecordDeployment,
      Ignore, RecordSuccess, EditRead, EditSave, RemoveFrom, projectVars
<1>3. Kept /\ \A n \in Nodes : ~RemoveFrom(n)
  BY <1>0, <1>2 DEF Fresh, RemoveFrom
<1>4. image \in Jobs => image \in Created /\ kind[image] = "deploy" /\ dep[image] # "none" /\ image <= current
  BY <1>0, <1>2 DEF Known, Recorded, TheRow, TypeOK, Fresh
<1>5. current # None => current \in Created /\ current \in Jobs /\ kind[current] = "deploy"
  BY <1>0, CurrentDeploy
<1>6. current \in Jobs \cup {None} /\ image \in Jobs \cup {None, Given}
  BY <1>0 DEF TypeOK, TheRow, Row
\* Nothing new is recorded and no job ends.
<1>7. ASSUME UNCHANGED <<current, image, reporting>>, image \in Jobs => home' = home,
             Created' = Created, \A j \in Created : status'[j] # status[j] => status'[j] = "running"
      PROVE  Kept'
  <2>1. image' \in Jobs => home' = node'[image']
    BY <1>3, <1>4, <1>7 DEF Kept, JobsMove
  <2>2. current' # None /\ status'[current'] = "completed" => current' \in {reporting'.job, image'}
    BY <1>3, <1>5, <1>7 DEF Kept
  <2>3. current' # None => \A s \in Created' : kind'[s] = "stop" /\ node'[s] = node'[current'] => s < current'
    BY <1>3, <1>5, <1>7 DEF Kept, JobsMove
  <2>4. \A e \in Deploys : Unsettled(e) => Unsettled(e)'
    BY <1>7 DEF Unsettled, Deploys
  <2>5. \A c \in Deploys' : status'[c] # "cancelled" /\ Covered(c)'
    BY <1>0, <1>3, <2>4, CoveredStays
  <2>6. QED
    BY <2>1, <2>2, <2>3, <2>5 DEF Kept
<1>8. ASSUME NEW n \in Nodes, Deploy(n), UNCHANGED <<image, reporting>>, image \in Jobs => home' = home
      PROVE  Kept'
  <2>1. NewJob("deploy", n) /\ current' = count + 1
    BY <1>8 DEF Deploy
  <2>2. Created' = Created \cup {count + 1} /\ SameJobs /\ kind'[count + 1] = "deploy"
        /\ status'[count + 1] = "pending"
    BY <1>0, <2>1, NewJobTyped DEF SameJobs
  <2>3. image' \in Jobs => home' = node'[image']
    BY <1>3, <1>4, <1>8, <2>2 DEF Kept, SameJobs
  <2>4. \A s \in Created : s < count + 1
    BY <1>0 DEF Created, TypeOK
  <2>5. \A e \in Deploys : Unsettled(e) => Unsettled(e)'
    BY <1>8, <2>2 DEF Unsettled, Deploys, SameJobs
  <2>6. \A c \in Deploys' : status'[c] # "cancelled" /\ Covered(c)'
    BY <1>0, <1>3, <2>5, CoveredStays
  <2>7. QED
    BY <2>1, <2>2, <2>3, <2>4, <2>6 DEF Kept
<1>9. ASSUME NEW n \in Nodes, NEW delivered \in BOOLEAN, Claim(n, delivered) PROVE Kept'
  <2>1. PICK j \in Waiting(n) : status' = [status EXCEPT ![j] = "running"]
    BY <1>9 DEF Claim
  <2>2. UNCHANGED <<count, projectVars, handlerVars>> /\ \A i \in Created : status'[i] # status[i] => status'[i] = "running"
    BY <1>0, <1>9, <2>1 DEF Claim, TypeOK
  <2>3. QED
    BY <1>7, <2>2 DEF Created, projectVars, handlerVars
<1>10. ASSUME UNCHANGED <<count, status, projectVars, reporting>> PROVE Kept'
  BY <1>7, <1>10 DEF projectVars, Created
<1>11. ASSUME NEW j \in Jobs, Complete(j) PROVE Kept'
  <2>1. /\ reporting.job = None /\ status' = [status EXCEPT ![j] = report[j]]
        /\ reporting' = IF kind[j] = "deploy" THEN [NotReporting EXCEPT !.job = j] ELSE reporting
        /\ UNCHANGED <<count, projectVars>>
    BY <1>11 DEF Complete, Handle
  <2>2. /\ Created' = Created /\ UNCHANGED <<current, image, home>>
        /\ (kind[j] = "deploy" => reporting'.job = j)
        /\ \A i \in Created : i # j => status'[i] = status[i]
    BY <1>0, <2>1 DEF NotReporting, Created, projectVars, TypeOK
  <2>3. image' \in Jobs => home' = node'[image']
    BY <1>3, <1>4, <2>2 DEF Kept, JobsMove
  <2>4. current' # None /\ status'[current'] = "completed" => current' \in {reporting'.job, image'}
    <3>1. CASE current = j
      BY <1>5, <2>2, <3>1
    <3>2. CASE current # j
      BY <1>3, <1>5, <2>1, <2>2, <3>2 DEF Kept
    <3>3. QED
      BY <3>1, <3>2
  <2>5. current' # None => \A s \in Created' : kind'[s] = "stop" /\ node'[s] = node'[current'] => s < current'
    BY <1>3, <1>5, <2>2 DEF Kept, JobsMove
  <2>6. \A e \in Deploys : Unsettled(e) => Unsettled(e)'
    BY <1>0, <2>1, <2>2 DEF Unsettled, Deploys
  <2>7. \A c \in Deploys' : status'[c] # "cancelled" /\ Covered(c)'
    BY <1>0, <1>3, <2>6, CoveredStays
  <2>8. QED
    BY <2>3, <2>4, <2>5, <2>7 DEF Kept
<1>12. CASE RecordDeployment
  <2>1. reporting.job \in Created /\ kind[reporting.job] = "deploy"
    BY <1>0, <1>12 DEF RecordDeployment, Known
  <2>2. dep[reporting.job] # "none"
    BY <1>0, <2>1 DEF Handed, Smooth, Trouble
  <2>3. reporting'.job = reporting.job /\ UNCHANGED <<jobVars, projectVars>>
    BY <1>2, <1>12, <2>2 DEF RecordDeployment
  <2>4. /\ image' \in Jobs => home' = node'[image']
        /\ current' # None /\ status'[current'] = "completed" => current' \in {reporting'.job, image'}
        /\ current' # None => \A s \in Created' : kind'[s] = "stop" /\ node'[s] = node'[current'] => s < current'
    BY <1>3, <2>3 DEF Kept, jobVars, projectVars, Created
  <2>5. \A e \in Deploys : Unsettled(e) => Unsettled(e)'
    BY <2>3 DEF Unsettled, jobVars, projectVars
  <2>6. \A c \in Deploys' : status'[c] # "cancelled" /\ Covered(c)'
    BY <1>0, <1>3, <2>5, CoveredStays
  <2>7. QED
    BY <2>4, <2>6 DEF Kept
\* A report that a newer deploy has overtaken.
<1>13. CASE Ignore
  <2>1. /\ reporting.job \in Created /\ kind[reporting.job] = "deploy" /\ status[reporting.job] = "completed"
        /\ reporting.row = TheRow /\ dep[reporting.job] # "none"
    <3>1. reporting.read
      BY <1>13 DEF Ignore
    <3>2. reporting.job \in Created /\ kind[reporting.job] = "deploy" /\ status[reporting.job] \in Outcomes
          /\ reporting.row = TheRow /\ dep[reporting.job] # "none"
      BY <1>0, <3>1 DEF Known, Fresh
    <3>3. Carried(reporting.job)
      BY <3>2 DEF Smooth
    <3>4. QED
      BY <3>2, <3>3 DEF Carried, Outcomes
  <2>2. PICK d \in Created : d = reporting.job
    BY <2>1
  <2>3. current # None /\ current # d /\ d < current /\ d \in Jobs
    <3>1. current # None /\ current # d
      BY <1>13, <2>1, <2>2 DEF Ignore, Superseded, TheRow
    <3>2. d <= current
      BY <1>0, <1>2, <2>1, <2>2 DEF Fresh
    <3>3. QED
      BY <1>0, <1>5, <2>2, <3>1, <3>2 DEF Jobs
  <2>4. /\ QueueStop(IF node[current] # node[d] THEN node[d] ELSE NoNode)
        /\ reporting' = NotReporting /\ UNCHANGED <<projectVars>>
    BY <1>13, <2>1, <2>2 DEF Ignore, Succeeded, TheRow
  <2>5. node[d] \in Nodes /\ node[d] # NoNode
    BY <1>0, NodesAssumption DEF TypeOK
  <2>6. reporting'.job = None
    BY <2>4 DEF NotReporting
  <2>7. \A j \in Created : status'[j] = status[j]
    <3>1. CASE node[current] # node[d]
      BY <1>0, <2>4, <2>5, <3>1, NewJobTyped DEF QueueStop
    <3>2. QED
      BY <2>4, <3>1 DEF QueueStop
  <2>8. \A s \in Created' \ Created : node'[s] # node[current]
    <3>1. CASE node[current] # node[d]
      BY <1>0, <2>4, <2>5, <3>1, NewJobTyped DEF QueueStop
    <3>2. CASE node[current] = node[d]
      BY <2>4, <3>2 DEF QueueStop, Created
    <3>3. QED
      BY <3>1, <3>2
  <2>9. image' \in Jobs => home' = node'[image']
    BY <1>3, <1>4, <2>4 DEF Kept, JobsMove, projectVars
  <2>10. current' # None /\ status'[current'] = "completed" => current' \in {reporting'.job, image'}
    BY <1>3, <1>5, <2>2, <2>3, <2>4, <2>7 DEF Kept, projectVars
  <2>11. current' # None => \A s \in Created' : kind'[s] = "stop" /\ node'[s] = node'[current'] => s < current'
    BY <1>3, <1>5, <2>4, <2>8 DEF Kept, JobsMove, projectVars
  <2>12. ASSUME NEW c \in Deploys, NEW e \in Deploys, node[e] = node[c], e >= c, Unsettled(e)
         PROVE  Unsettled(e)' \/ Covered(c)'
    <3>1. CASE e # d
      BY <1>0, <2>2, <2>4, <2>7, <2>12, <3>1 DEF Unsettled, Deploys, projectVars
    <3>2. CASE e = d /\ node[current] # node[d]
      <4>1. NewJob("stop", node[d]) /\ node[c] = node[d] /\ c \in Created
        BY <2>4, <2>5, <2>12, <3>2 DEF QueueStop, Deploys
      <4>2. StopAfter(c)'
        BY <1>0, <2>5, <4>1, NewStopAfter
      <4>3. QED
        BY <4>2 DEF Covered
    <3>3. CASE e = d /\ node[current] = node[d]
      <4> PICK m \in Created : m = current
        BY <1>5, <2>3
      <4>1. m \in Deploys' /\ node'[m] = node'[c]
        BY <1>5, <2>3, <2>12, <3>3 DEF Deploys, JobsMove
      <4>2. m >= c
        BY <1>0, <1>5, <2>3, <2>12, <3>3 DEF Deploys, Jobs
      <4>3. image = m \/ status[m] \in {"pending", "running"}
        <5>1. status[m] \notin {"completed", "cancelled"} \/ m = image
          BY <1>3, <1>5, <2>2, <2>3 DEF Kept, Deploys
        <5>2. Carried(m)
          BY DEF Smooth
        <5>3. QED
          BY <5>1, <5>2 DEF Carried
      <4>4. Unsettled(m)'
        BY <2>4, <2>7, <4>3 DEF Unsettled, projectVars
      <4>5. QED
        BY <4>1, <4>2, <4>4 DEF Covered
    <3>4. QED
      BY <3>1, <3>2, <3>3
  <2>13. \A c \in Deploys' : status'[c] # "cancelled" /\ Covered(c)'
    BY <1>0, <1>3, <2>12, CoveredStays
  <2>14. QED
    BY <2>9, <2>10, <2>11, <2>13 DEF Kept
\* The newest deploy's report.
<1>14. CASE RecordSuccess
  <2>1. /\ reporting.job \in Created /\ kind[reporting.job] = "deploy"
        /\ reporting.row = TheRow /\ dep[reporting.job] # "none"
    BY <1>0, <1>14 DEF RecordSuccess, Known, Fresh
  <2>2. current = reporting.job
    <3>1. reporting.job <= current
      BY <1>0, <1>2, <2>1 DEF Fresh
    <3>2. reporting.row.current \in {None, reporting.job} /\ reporting.row.current = current
      BY <1>14, <2>1 DEF RecordSuccess, Superseded, TheRow
    <3>3. reporting.job \in Jobs
      BY <1>0, <2>1
    <3>4. QED
      BY <3>1, <3>2, <3>3, BoundsAssumption DEF Jobs, None
  <2>3. PICK d \in Created : d = reporting.job /\ d = current
    BY <2>1, <2>2
  <2>4. d \in Jobs /\ node[d] \in Nodes /\ d \in Deploys
    BY <1>0, <2>1, <2>3 DEF TypeOK, Deploys
  <2>5. /\ home' = node[d] /\ image' = d /\ current' = current /\ reporting' = NotReporting
        /\ QueueStop(IF home = node[d] THEN NoNode ELSE home)
    BY <1>2, <1>14, <2>1, <2>3 DEF RecordSuccess, TheRow
  <2>6. home \in Nodes \cup {NoNode}
    BY <1>0 DEF TypeOK, TheRow, Row
  <2>7. PICK n \in Nodes \cup {NoNode} :
            QueueStop(n) /\ n # node[d] /\ n = IF home = node[d] THEN NoNode ELSE home
    BY <2>4, <2>5, <2>6, NodesAssumption
  <2>8. /\ \A j \in Created : status'[j] = status[j]
        /\ \A s \in Created' \ Created : node'[s] # node[d]
    <3>1. CASE n = NoNode
      BY <2>7, <3>1 DEF QueueStop, Created
    <3>2. CASE n # NoNode
      BY <1>0, <2>7, <3>2, NewJobTyped DEF QueueStop
    <3>3. QED
      BY <3>1, <3>2
  <2>9. image' \in Jobs => home' = node'[image']
    BY <2>3, <2>5 DEF JobsMove
  <2>10. current' # None /\ status'[current'] = "completed" => current' \in {reporting'.job, image'}
    BY <2>3, <2>5
  <2>11. current' # None => \A s \in Created' : kind'[s] = "stop" /\ node'[s] = node'[current'] => s < current'
    BY <1>3, <1>5, <2>3, <2>5, <2>8 DEF Kept, JobsMove
  <2>12. ASSUME NEW c \in Deploys, NEW e \in Deploys, node[e] = node[c], e >= c, Unsettled(e)
         PROVE  Unsettled(e)' \/ Covered(c)'
    <3>1. CASE e = d \/ status[e] \in {"pending", "running"}
      BY <2>3, <2>5, <2>8, <2>12, <3>1 DEF Unsettled, Deploys
    <3>2. CASE ~(e = d \/ status[e] \in {"pending", "running"})
      <4>1. image = e /\ e \in Jobs
        BY <1>0, <2>3, <2>12, <3>2 DEF Unsettled, Deploys
      <4>2. home = node[c] /\ e <= d /\ c \in Created /\ c \in Jobs
        BY <1>0, <1>3, <1>4, <2>3, <2>12, <4>1 DEF Kept, Deploys
      <4>3. CASE home = node[d]
        <5>1. d \in Deploys' /\ node'[d] = node'[c] /\ Unsettled(d)'
          BY <2>4, <2>5, <4>2, <4>3 DEF Deploys, JobsMove, Unsettled
        <5>2. d >= c
          BY <2>4, <2>12, <4>1, <4>2 DEF Jobs
        <5>3. QED
          BY <5>1, <5>2 DEF Covered
      <4>4. CASE home # node[d]
        <5>1. home \in Nodes /\ n = home /\ n # NoNode
          BY <1>0, <2>7, <4>2, <4>4, NodesAssumption DEF TypeOK
        <5>2. NewJob("stop", home)
          BY <2>7, <5>1 DEF QueueStop
        <5>3. StopAfter(c)'
          BY <1>0, <4>2, <5>1, <5>2, NewStopAfter
        <5>4. QED
          BY <5>3 DEF Covered
      <4>5. QED
        BY <4>3, <4>4
    <3>3. QED
      BY <3>1, <3>2
  <2>13. \A c \in Deploys' : status'[c] # "cancelled" /\ Covered(c)'
    BY <1>0, <1>3, <2>12, CoveredStays
  <2>14. QED
    BY <2>9, <2>10, <2>11, <2>13 DEF Kept
<1>15. CASE EditSave
  <2>1. editing.row = TheRow
    BY <1>0, <1>15 DEF EditSave, Fresh
  <2>2. image' = image /\ home' \in Homes(TheRow) /\ reporting' = reporting
    BY <1>15, <2>1 DEF EditSave, TheRow
  <2>3. image \in Jobs => home' = home
    <3>1. SUFFICES ASSUME image \in Jobs PROVE home' = home
      OBVIOUS
    <3>2. home \in Nodes /\ home # NoNode /\ image # None
      BY <1>0, <1>3, <1>4, <3>1, NodesAssumption DEF Kept, TypeOK
    <3>3. Homes(TheRow) = {home}
      BY <3>2 DEF Homes, TheRow
    <3>4. QED
      BY <2>2, <3>3
  <2>4. CASE current' = editing.row.current /\ UNCHANGED <<jobVars, dep>>
    BY <1>7, <2>1, <2>2, <2>3, <2>4 DEF jobVars, TheRow, Created
  <2>5. CASE \E n \in Nodes : Deploy(n)
    BY <1>8, <2>2, <2>3, <2>5
  <2>6. QED
    BY <1>15, <2>4, <2>5 DEF EditSave
<1>16. ASSUME NEW n \in Nodes, Dispatch(n) PROVE Kept'
  BY <1>8, <1>16 DEF Dispatch, handlerVars
<1>17. QED
  BY <1>1, <1>3, <1>9, <1>10, <1>11, <1>12, <1>13, <1>14, <1>15, <1>16
  DEF Next, Finish, AgentRestart, Answer, EditRead, handlerVars, jobVars

LEMMA GoneStep ==
    ASSUME Interruptible = {}, Inv, Handed, Next, Smooth, Smooth', JobsMove, present => Kept, ~present => Gone,
           ~present'
    PROVE  Gone'
<1>0. /\ TypeInv /\ TypeOK /\ Known /\ Fresh /\ Created \subseteq Jobs
      /\ (Calm => reporting.job = None) /\ None \notin Jobs
  BY BoundsAssumption DEF Inv, TypeInv, TypeOK, Created, Jobs, Calm, None
<1>1. CASE DeleteProject
  <2>1. /\ present /\ reporting.job = None /\ UNCHANGED <<count, kind, node>>
        /\ removing' = {node[j] : j \in Active} \cup ({home} \ {NoNode})
        /\ status' = [j \in Jobs |-> IF j \in Active /\ status[j] = "pending" THEN "cancelled" ELSE status[j]]
    BY <1>0, <1>1 DEF DeleteProject
  <2>2. Kept /\ Created' = Created
    BY <2>1 DEF Created
  <2>3. SUFFICES ASSUME NEW c \in Deploys PROVE node[c] \in removing' \/ StopAfter(c)'
    BY <2>1, <2>2 DEF Gone, Deploys
  <2>4. CASE StopAfter(c)
    BY <2>1, <2>2, <2>4 DEF StopAfter
  <2>5. CASE ~StopAfter(c)
    <3>1. PICK e \in Deploys : node[e] = node[c] /\ Unsettled(e)
      BY <2>2, <2>5 DEF Kept, Covered
    <3>2. e \in Jobs /\ e # None /\ e \in Created /\ kind[e] = "deploy"
      BY <1>0, <3>1 DEF Deploys
    <3>3. CASE image = e
      <4>1. home = node[c] /\ node[c] # NoNode
        BY <1>0, <2>2, <3>1, <3>2, <3>3, NodesAssumption DEF Kept, TypeOK
      <4>2. QED
        BY <2>1, <4>1
    <3>4. CASE status[e] \in {"pending", "running"}
      <4>1. dep[e] # "none"
        BY <3>2 DEF Handed, Smooth, Trouble
      <4>2. QED
        BY <2>1, <3>1, <3>2, <3>4, <4>1 DEF Active
    <3>5. QED
      BY <2>1, <3>1, <3>2, <3>3, <3>4 DEF Unsettled
  <2>6. QED
    BY <2>4, <2>5
<1>2. ASSUME ~DeleteProject PROVE Gone'
  <2>1. ~present /\ Gone
    <3>1. present' = present \/ EditSave
      BY <1>2 DEF Next, Dispatch, Retry, Claim, Finish, AgentRestart, Complete, Answer, GiveUp,
         RecordDeployment, Ignore, RecordFailure, RecordSuccess, EditRead, RemoveFrom, HubStop, projectVars
    <3>2. QED
      BY <3>1 DEF EditSave
  <2>2. /\ ~Ignore /\ ~RecordSuccess /\ ~RecordFailure /\ ~EditSave /\ ~EditRead /\ ~HubStop
        /\ \A n \in Nodes : ~Dispatch(n)
        /\ \A j \in Jobs : ~Retry(j) /\ ~GiveUp(j)
    <3>1. ~reporting.read /\ ~editing.on
      BY <1>0, <2>1 DEF Fresh
    <3>2. ~Ignore /\ ~RecordSuccess /\ ~RecordFailure /\ ~EditSave /\ ~EditRead /\ \A n \in Nodes : ~Dispatch(n)
      BY <2>1, <3>1 DEF Ignore, RecordSuccess, RecordFailure, EditSave, EditRead, Dispatch
    <3>3. ~HubStop /\ \A j \in Jobs : ~Retry(j) /\ ~GiveUp(j)
      BY DEF HubStop, Retry, GiveUp, Incident, Trouble, Smooth
    <3>4. QED
      BY <3>2, <3>3
  <2>3. ASSUME Created' = Created, UNCHANGED removing PROVE Gone'
    <3>1. SUFFICES ASSUME NEW c \in Deploys
                   PROVE status'[c] = "cancelled" \/ node'[c] \in removing' \/ StopAfter(c)'
      BY <2>3 DEF Gone, Deploys, JobsMove
    <3>2. c \in Created /\ node'[c] = node[c] /\ (status[c] = "cancelled" => status'[c] = "cancelled")
      BY DEF Deploys, JobsMove
    <3>3. QED
      BY <1>0, <2>1, <2>3, <3>2, StopAfterStays DEF Gone
  <2>4. ASSUME NEW n \in Nodes, RemoveFrom(n) PROVE Gone'
    <3>1. NewJob("stop", n) /\ removing' = removing \ {n}
      BY <2>4, NodesAssumption DEF RemoveFrom, QueueStop
    <3>2. Created' = Created \cup {count + 1} /\ kind'[count + 1] = "stop"
      BY <1>0, <3>1, NewJobTyped
    <3>3. SUFFICES ASSUME NEW c \in Deploys
                   PROVE status'[c] = "cancelled" \/ node'[c] \in removing' \/ StopAfter(c)'
      BY <3>2 DEF Gone, Deploys, JobsMove
    <3>4. c \in Created /\ node'[c] = node[c] /\ (status[c] = "cancelled" => status'[c] = "cancelled")
      BY DEF Deploys, JobsMove
    <3>5. CASE node[c] = n
      BY <1>0, <3>1, <3>4, <3>5, NewStopAfter
    <3>6. CASE node[c] # n
      BY <1>0, <2>1, <3>1, <3>4, <3>6, StopAfterStays DEF Gone
    <3>7. QED
      BY <3>5, <3>6
  <2>5. QED
    BY <1>2, <2>2, <2>3, <2>4 DEF Next, Claim, Finish, AgentRestart, Complete, Answer, RecordDeployment,
       handlerVars, jobVars, Created
<1>3. QED
  BY <1>1, <1>2

-----------------------------------------------------------------------------

Accounts == InOrder /\ StopsStay /\ CopiesAre /\ (present => Kept) /\ (~present => Gone)

FullInv == Inv /\ Handed /\ (Smooth => Accounts)

LEMMA FullInit == Init => FullInv
<1> SUFFICES ASSUME Init PROVE FullInv
  OBVIOUS
<1>1. Inv
  BY InvInit
<1>2. Created = {}
  BY DEF Init, Created
<1>3. Handed
  BY <1>2 DEF Init, Handed
<1>4. InOrder /\ StopsStay
  BY <1>2 DEF InOrder, StopsStay
<1>5. CopiesAre
  BY <1>2, BoundsAssumption DEF Init, CopiesAre, LastOn, Jobs, None
<1>6. Kept
  BY <1>2, BoundsAssumption DEF Init, Kept, Deploys, Jobs, None, Given
<1>7. present
  BY DEF Init
<1>8. QED
  BY <1>1, <1>3, <1>4, <1>5, <1>6, <1>7 DEF FullInv, Accounts

LEMMA FullStep ==
    ASSUME Interruptible = {}, FullInv, [Next]_vars
    PROVE  FullInv'
<1>1. Inv' /\ Handed'
  BY InvStep, HandedStep DEF FullInv, Inv
<1>2. ASSUME Smooth', Next PROVE Accounts'
  <2>1. Smooth /\ Accounts /\ TypeInv /\ Working /\ Handed /\ Inv
    BY <1>2, SmoothBefore DEF FullInv, Inv
  <2>2. JobsMove
    BY <1>2, <2>1, JobsMoveStep
  <2>3. InOrder' /\ StopsStay'
    BY <2>1, <2>2, OrderStep DEF Accounts
  <2>4. CopiesAre'
    BY <1>2, <2>1, <2>2, CopiesStep DEF Accounts
  <2>5. present' => Kept'
    BY <1>2, <2>1, <2>2, KeptStep DEF Accounts
  <2>6. ~present' => Gone'
    BY <1>2, <2>1, <2>2, GoneStep DEF Accounts
  <2>7. QED
    BY <2>3, <2>4, <2>5, <2>6 DEF Accounts
<1>3. ASSUME Smooth', UNCHANGED vars PROVE Accounts'
  <2>1. Smooth' => Smooth
    BY <1>3 DEF Smooth, Carried, Created, vars, jobVars, agentVars
  <2>2. Accounts
    BY <1>3, <2>1 DEF FullInv
  <2>3. InOrder' /\ StopsStay' /\ CopiesAre'
    BY <1>3, <2>2 DEF Accounts, InOrder, StopsStay, CopiesAre, LastOn, Started, Finished, Created, vars, jobVars, agentVars
  <2>4. UNCHANGED <<present, current, home, image, status, reporting, kind, node, count, removing>>
    BY <1>3 DEF vars, jobVars, projectVars, handlerVars
  <2>5. present' => Kept'
    BY <2>2, <2>4 DEF Accounts, Kept, Deploys, Covered, Unsettled, StopAfter, Created
  <2>6. ~present' => Gone'
    BY <2>2, <2>4 DEF Accounts, Gone, Deploys, StopAfter, Created
  <2>7. QED
    BY <2>3, <2>5, <2>6 DEF Accounts
<1>4. QED
  BY <1>1, <1>2, <1>3 DEF FullInv

\* When the queues are empty and nothing went wrong, what is on a node is what
\* the last of its jobs left.
LEMMA QuietCopies ==
    ASSUME FullInv, Undisturbed
    PROVE  /\ Smooth /\ Accounts /\ Inv /\ Handed /\ reporting.job = None /\ removing = {}
           /\ \A j \in Created : status[j] \in Over /\ (Finished(j) <=> status[j] = "completed")
<1>1. Smooth
  BY DEF Undisturbed, Quiet, Smooth, Carried, Trouble
<1>2. \A j \in Created : status[j] \in Over
  BY DEF Undisturbed, Quiet, Over
<1>3. QED
  BY <1>1, <1>2 DEF FullInv, Undisturbed, Quiet, NotReporting, Finished, Over

\* With requests handled one at a time, when all deploys have succeeded and the
\* queues are empty the app runs exactly once, whatever the order in which its
\* deploys overtook each other, and however the project was edited meanwhile.
THEOREM AppRunsOnce ==
    ASSUME Interruptible = {}
    PROVE  Spec => []ConvergesWhenAllSucceed
<1>1. FullInv => ConvergesWhenAllSucceed
  <2>1. SUFFICES ASSUME FullInv, Undisturbed, present, current # None
                 PROVE  /\ home = node[current] /\ image = current
                        /\ copy = [n \in Nodes |-> IF n = home THEN current ELSE None]
    BY DEF ConvergesWhenAllSucceed
  <2>2. /\ TypeOK /\ Known /\ Fresh /\ Handed /\ Smooth /\ Kept /\ CopiesAre /\ reporting.job = None
        /\ \A j \in Created : status[j] \in Over /\ (Finished(j) <=> status[j] = "completed")
    BY <2>1, QuietCopies DEF Accounts, Inv, TypeInv
  <2>3. Created \subseteq Jobs /\ None \notin Jobs
    BY <2>2, BoundsAssumption DEF TypeOK, Created, Jobs, None
  <2>4. current \in Created /\ current \in Jobs /\ kind[current] = "deploy"
    BY <2>1, <2>2, CurrentDeploy
  <2>5. \A j \in Deploys : status[j] = "completed" /\ j <= current /\ j \in Created /\ j \in Jobs
    <3>1. SUFFICES ASSUME NEW j \in Deploys
                   PROVE  status[j] = "completed" /\ j <= current /\ j \in Created /\ j \in Jobs
      OBVIOUS
    <3>2. j \in Created /\ j \in Jobs /\ kind[j] = "deploy"
      BY <2>3 DEF Deploys
    <3>3. dep[j] # "none"
      BY <2>2, <3>2 DEF Handed, Smooth, Trouble
    <3>4. status[j] = "completed"
      BY <2>2, <3>2 DEF Kept, Over
    <3>5. QED
      BY <2>1, <2>2, <3>2, <3>3, <3>4 DEF Fresh
  <2>6. image = current /\ home = node[current]
    BY <2>1, <2>2, <2>3, <2>4, <2>5 DEF Kept, Deploys
  <2>7. LastOn(home, current)
    <3>1. ASSUME NEW i \in Created, node[i] = home PROVE i <= current
      <4>1. CASE kind[i] = "deploy"
        BY <2>5, <4>1 DEF Deploys
      <4>2. CASE kind[i] # "deploy"
        <5>1. kind[i] = "stop" /\ i \in Jobs
          BY <2>2, <2>3, <4>2 DEF TypeOK
        <5>2. i < current
          BY <2>1, <2>2, <2>6, <3>1, <5>1 DEF Kept
        <5>3. QED
          BY <2>4, <5>1, <5>2 DEF Jobs
      <4>3. QED
        BY <4>1, <4>2
    <3>2. Finished(current)
      BY <2>2, <2>4, <2>5 DEF Deploys
    <3>3. QED
      BY <2>4, <2>6, <3>1, <3>2 DEF LastOn
  <2>8. ASSUME NEW n \in Nodes, n # home, copy[n] # None PROVE FALSE
    <3>1. PICK d \in Created : d = copy[n] /\ d \in Jobs
      BY <2>2, <2>3, <2>8 DEF TypeOK
    <3>2. LastOn(n, d)
      BY <2>2, <3>1 DEF CopiesAre
    <3>3. d \in Deploys /\ node[d] = n /\ \A i \in Created : node[i] = n /\ Finished(i) => i <= d
      BY <3>2 DEF LastOn, Deploys
    <3>4. ~StopAfter(d)
      <4>1. SUFFICES ASSUME NEW s \in Created, kind[s] = "stop", node[s] = n, s > d PROVE FALSE
        BY <3>3 DEF StopAfter
      <4>2. Finished(s)
        BY <2>1, <2>2, <4>1, QuietCopies DEF Accounts, StopsStay, Over
      <4>3. QED
        BY <2>3, <3>1, <3>3, <4>1, <4>2 DEF Jobs
    <3>5. PICK e \in Deploys : node[e] = n /\ Unsettled(e)
      BY <2>2, <3>3, <3>4 DEF Kept, Covered
    <3>6. image = e
      BY <2>2, <2>3, <2>5, <3>5 DEF Unsettled
    <3>7. QED
      BY <2>6, <2>8, <3>5, <3>6
  <2>9. home \in Nodes /\ copy[home] = current
    BY <2>2, <2>4, <2>6, <2>7 DEF CopiesAre, TypeOK
  <2>10. copy = [n \in Nodes |-> IF n = home THEN current ELSE None]
    BY <2>2, <2>8, <2>9 DEF TypeOK
  <2>11. QED
    BY <2>6, <2>10
<1>2. QED
  BY <1>1, FullInit, FullStep, PTL DEF Spec

\* With requests handled one at a time, when all jobs that were not cancelled
\* have succeeded a deleted project has left no copy, wherever its deploys were
\* when it was deleted.
THEOREM NothingLeftBehind ==
    ASSUME Interruptible = {}
    PROVE  Spec => []DeletedLeavesNothing
<1>1. FullInv => DeletedLeavesNothing
  <2>1. SUFFICES ASSUME FullInv, Undisturbed, ~present PROVE copy = [n \in Nodes |-> None]
    BY DEF DeletedLeavesNothing
  <2>2. /\ TypeOK /\ Gone /\ CopiesAre /\ StopsStay /\ removing = {}
        /\ \A j \in Created : status[j] \in Over /\ (Finished(j) <=> status[j] = "completed")
    BY <2>1, QuietCopies DEF Accounts, Inv, TypeInv
  <2>3. Created \subseteq Jobs
    BY <2>2, BoundsAssumption DEF TypeOK, Created, Jobs
  <2>4. ASSUME NEW n \in Nodes, copy[n] # None PROVE FALSE
    <3>1. PICK d \in Created : d = copy[n] /\ d \in Jobs
      BY <2>2, <2>3, <2>4 DEF TypeOK
    <3>2. LastOn(n, d)
      BY <2>2, <3>1 DEF CopiesAre
    <3>3. d \in Deploys /\ node[d] = n /\ Finished(d)
          /\ \A i \in Created : node[i] = n /\ Finished(i) => i <= d
      BY <3>2 DEF LastOn, Deploys
    <3>4. status[d] # "cancelled"
      BY <2>2, <3>3
    <3>5. StopAfter(d)
      BY <2>2, <3>3, <3>4 DEF Gone
    <3>6. PICK s \in Created : kind[s] = "stop" /\ node[s] = n /\ s > d
      BY <3>3, <3>5 DEF StopAfter
    <3>7. Finished(s)
      BY <2>2, <3>6 DEF StopsStay, Over
    <3>8. QED
      BY <2>3, <3>1, <3>3, <3>6, <3>7 DEF Jobs
  <2>5. QED
    BY <2>2, <2>4 DEF TypeOK
<1>2. QED
  BY <1>1, FullInit, FullStep, PTL DEF Spec
=============================================================================
