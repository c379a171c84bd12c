------------------------- MODULE NodeRegistryProofs -------------------------
(***************************************************************************)
(* Theorems about NodeRegistry for any timing, bounds and number of        *)
(* requests.  Two of them hold only while the Hub does one thing at a      *)
(* time, and one while it has not stopped, which they state themselves.    *)
(***************************************************************************)
EXTENDS NodeRegistry, FunctionTheorems, FiniteSetTheorems, TLAPS

-----------------------------------------------------------------------------
(* Types *)

RowTyped == row \in Row /\ outages \in Seq(Outage) /\ present \in BOOLEAN
ToldTyped == told \in [maintenance : BOOLEAN, bye : Times \cup {Never}, began : Incarnations]
Step == {"none", "close", "save"}
Kind == {"register", "heartbeat"}
Query == [step : Step, kind : Kind, by : Incarnations, row : Row]
HandlersTyped ==
    request \in [Requests -> Query] /\ sweep \in [step : {"none", "save", "open"}, row : Row]
HubTyped == overlap \in Overlaps /\ now \in Times /\ up \in BOOLEAN /\ started \in Times
            /\ stops \in 0 .. MaxStops
AgentTyped ==
    /\ agent \in {"stopped", "starting", "running", "away", "removed"}
    /\ process \in Incarnations /\ contact \in Times

LEMMA TypeParts ==
    TypeOK <=> RowTyped /\ ToldTyped /\ HandlersTyped /\ HubTyped /\ AgentTyped
BY DEF TypeOK, RowTyped, ToldTyped, HandlersTyped, HubTyped, AgentTyped, Query, Step, Kind

LEMMA TypePartsNext ==
    ASSUME RowTyped', ToldTyped', HandlersTyped', HubTyped', AgentTyped'
    PROVE  TypeOK'
BY DEF TypeOK, RowTyped, ToldTyped, HandlersTyped, HubTyped, AgentTyped, Query, Step, Kind

LEMMA EnrolledTyped ==
    Enrolled \in Row /\ NoRequest \in Query /\ NotSweeping \in [step : {"none", "save", "open"}, row : Row]
BY BoundsAssumption DEF Enrolled, Row, NoRequest, NotSweeping, Query, Step, Kind, Times, Incarnations, Never

\* Ending outages, and starting one, keeps the list of outages one.
LEMMA ClosedTyped ==
    ASSUME outages \in Seq(Outage), NEW at \in Times
    PROVE  Closed(at) \in Seq(Outage)
<1>1. /\ Len(outages) \in Nat /\ DOMAIN outages = 1 .. Len(outages)
      /\ \A i \in DOMAIN outages : outages[i] \in Outage
  OBVIOUS
<1>2. ASSUME NEW i \in DOMAIN outages
      PROVE  Closed(at)[i] \in Outage
  BY <1>1, <1>2 DEF Closed, Outage
<1>3. DOMAIN Closed(at) = 1 .. Len(outages)
  BY <1>1 DEF Closed
<1>4. Closed(at) \in [1 .. Len(outages) -> Outage]
  BY <1>1, <1>2, <1>3 DEF Closed
<1>5. QED
  BY <1>1, <1>4

LEMMA SafetyNetTyped ==
    ASSUME outages \in Seq(Outage), row \in Row
    PROVE  SafetyNet \in Seq(Outage)
<1> DEFINE ends(i) == IF row.last < outages[i].from THEN outages[i].from ELSE row.last
           net == [i \in DOMAIN outages |->
                     IF IsOpen(outages[i])
                     THEN [from |-> outages[i].from, planned |-> outages[i].planned, to |-> ends(i)]
                     ELSE outages[i]]
<1>1. /\ Len(outages) \in Nat /\ DOMAIN outages = 1 .. Len(outages)
      /\ \A i \in DOMAIN outages : outages[i] \in Outage
  OBVIOUS
<1>2. ASSUME NEW i \in DOMAIN outages
      PROVE  net[i] \in Outage
  BY <1>1, <1>2 DEF Outage, Row
<1>3. net \in [1 .. Len(outages) -> Outage]
  BY <1>1, <1>2
<1>4. net \in Seq(Outage)
  BY <1>1, <1>3
<1>5. SafetyNet = net \/ SafetyNet = outages
  BY DEF SafetyNet
<1>6. QED
  BY <1>4, <1>5

LEMMA OpenedTyped ==
    ASSUME outages \in Seq(Outage), NEW r \in Row
    PROVE  Opened(r) \in Seq(Outage)
<1>1. [from |-> r.last, to |-> Never, planned |-> OnPurpose(r)] \in Outage
  BY DEF Outage, Row, OnPurpose
<1>2. QED
  BY <1>1 DEF Opened

LEMMA HearTyped ==
    ASSUME AgentTyped, HubTyped, NEW by \in Incarnations, Hear(by)
    PROVE  AgentTyped'
BY DEF AgentTyped, HubTyped, Hear, agentVars

LEMMA TypeInit == Init => TypeOK
<1> SUFFICES ASSUME Init PROVE TypeOK
  OBVIOUS
<1>1. RowTyped
  BY EnrolledTyped DEF Init, RowTyped
<1>2. HandlersTyped
  BY EnrolledTyped DEF Init, HandlersTyped
<1>3. ToldTyped /\ HubTyped /\ AgentTyped
  BY BoundsAssumption DEF Init, ToldTyped, HubTyped, AgentTyped, Times, Incarnations, Never
<1>4. QED
  BY <1>1, <1>2, <1>3, TypeParts

LEMMA TypeStep == TypeOK /\ [Next]_vars => TypeOK'
<1> SUFFICES ASSUME TypeOK, [Next]_vars PROVE TypeOK'
  OBVIOUS
<1>0. RowTyped /\ ToldTyped /\ HandlersTyped /\ HubTyped /\ AgentTyped
  BY TypeParts
<1>1. ASSUME NEW r \in Requests, NEW kind \in Kind, Begin(r, kind) PROVE TypeOK'
  <2>1. [step |-> IF row.online THEN "save" ELSE "close", kind |-> kind,
         by |-> process, row |-> row] \in Query
    BY <1>0 DEF Query, Step, RowTyped, AgentTyped
  <2>2. HandlersTyped'
    BY <1>0, <1>1, <2>1 DEF Begin, HandlersTyped
  <2>3. RowTyped' /\ ToldTyped' /\ HubTyped' /\ AgentTyped'
    BY <1>0, <1>1 DEF Begin, rowVars, hubVars, agentVars, RowTyped, ToldTyped, HubTyped, AgentTyped
  <2>4. QED
    BY <2>2, <2>3, TypePartsNext
<1>2. ASSUME NEW r \in Requests, CloseOutage(r) PROVE TypeOK'
  <2>1. RowTyped'
    BY <1>0, <1>2, ClosedTyped DEF CloseOutage, RowTyped, HubTyped
  <2>2. request[r] \in Query
    BY <1>0 DEF HandlersTyped
  <2>3. [step |-> "save", kind |-> request[r].kind, by |-> request[r].by, row |-> request[r].row] \in Query
    BY <2>2 DEF Query, Step
  <2>4. HandlersTyped'
    BY <1>0, <1>2, <2>3 DEF CloseOutage, HandlersTyped
  <2>5. ToldTyped' /\ HubTyped' /\ AgentTyped'
    BY <1>0, <1>2 DEF CloseOutage, hubVars, agentVars, ToldTyped, HubTyped, AgentTyped
  <2>6. QED
    BY <2>1, <2>4, <2>5, TypePartsNext
<1>3. ASSUME NEW r \in Requests, RegisterSave(r) \/ HeartbeatSave(r) PROVE TypeOK'
  <2>1. request[r] \in Query
    BY <1>0 DEF HandlersTyped
  <2>2. request[r].by \in Incarnations /\ request[r].row \in Row
    BY <2>1 DEF Query
  <2>3. RowTyped'
    <3>1. request[r].row.maintenance \in BOOLEAN /\ request[r].row.bye \in Times \cup {Never}
          /\ request[r].row.began \in Incarnations
      BY <2>2 DEF Row
    <3>2. now \in Times
      BY <1>0 DEF HubTyped
    <3>3. row' \in Row
      <4>1. CASE RegisterSave(r)
        BY <2>2, <3>1, <3>2, <4>1 DEF RegisterSave, Row
      <4>2. CASE HeartbeatSave(r)
        BY <2>2, <3>1, <3>2, <4>2 DEF HeartbeatSave, Row
      <4>3. QED
        BY <1>3, <4>1, <4>2
    <3>4. QED
      BY <1>0, <1>3, <3>3 DEF RegisterSave, HeartbeatSave, RowTyped
  <2>4. ToldTyped' /\ HubTyped'
    BY <1>0, <1>3, <2>2 DEF RegisterSave, HeartbeatSave, hubVars, ToldTyped, HubTyped
  <2>5. HandlersTyped'
    BY <1>0, <1>3, EnrolledTyped DEF RegisterSave, HeartbeatSave, HandlersTyped
  <2>6. AgentTyped'
    BY <1>0, <1>3, <2>2, HearTyped DEF RegisterSave, HeartbeatSave
  <2>7. QED
    BY <2>3, <2>4, <2>5, <2>6, TypePartsNext
<1>4. ASSUME GoingAway \/ (\E on \in BOOLEAN : SetMaintenance(on)) \/ Remove PROVE TypeOK'
  <2>1. RowTyped'
    <3>1. CASE GoingAway
      BY <1>0, <3>1 DEF GoingAway, RowTyped, HubTyped, Row
    <3>2. CASE \E on \in BOOLEAN : SetMaintenance(on)
      BY <1>0, <3>2 DEF SetMaintenance, RowTyped, Row
    <3>3. CASE Remove
      <4>1. row' \in Row /\ present' \in BOOLEAN
        BY <3>3, EnrolledTyped DEF Remove
      <4>2. outages' \in Seq(Outage)
        BY <3>3 DEF Remove
      <4>3. QED
        BY <4>1, <4>2 DEF RowTyped
    <3>4. QED
      BY <1>4, <3>1, <3>2, <3>3
  <2>2. ToldTyped'
    BY <1>0, <1>4 DEF GoingAway, SetMaintenance, Remove, ToldTyped, HubTyped
  <2>3. HandlersTyped' /\ HubTyped' /\ AgentTyped'
    BY <1>0, <1>4 DEF GoingAway, SetMaintenance, Remove, hubVars, agentVars, HandlersTyped,
       HubTyped, AgentTyped
  <2>4. QED
    BY <2>1, <2>2, <2>3, TypePartsNext
<1>5. ASSUME Sweep \/ SweepSave \/ SweepOpen PROVE TypeOK'
  <2>1. sweep.row \in Row
    BY <1>0 DEF HandlersTyped
  <2>2. RowTyped'
    BY <1>0, <1>5, <2>1, SafetyNetTyped, OpenedTyped DEF Sweep, SweepSave, SweepOpen, RowTyped, Row
  <2>3. HandlersTyped'
    BY <1>0, <1>5, <2>1, EnrolledTyped DEF Sweep, SweepSave, SweepOpen, HandlersTyped, RowTyped
  <2>4. ToldTyped' /\ HubTyped' /\ AgentTyped'
    BY <1>0, <1>5 DEF Sweep, SweepSave, SweepOpen, hubVars, agentVars, ToldTyped, HubTyped, AgentTyped
  <2>5. QED
    BY <2>2, <2>3, <2>4, TypePartsNext
<1>6. ASSUME Tick \/ AgentStop \/ AgentStart \/ LinkLost PROVE TypeOK'
  <2>1. RowTyped' /\ ToldTyped' /\ HandlersTyped'
    BY <1>0, <1>6 DEF Tick, AgentStop, AgentStart, LinkLost, rowVars, RowTyped, ToldTyped, HandlersTyped
  <2>2. HubTyped' /\ AgentTyped'
    BY <1>0, <1>6, BoundsAssumption DEF Tick, AgentStop, AgentStart, LinkLost, hubVars, agentVars,
       HubTyped, AgentTyped, Times, Incarnations
  <2>3. QED
    BY <2>1, <2>2, TypePartsNext
<1>7. ASSUME HubStop \/ HubStart PROVE TypeOK'
  <2>1. RowTyped'
    BY <1>0, <1>7, OpenedTyped DEF HubStop, HubStart, rowVars, RowTyped
  <2>2. HandlersTyped'
    BY <1>0, <1>7, EnrolledTyped DEF HubStop, HubStart, HandlersTyped
  <2>3. ToldTyped' /\ AgentTyped'
    BY <1>0, <1>7 DEF HubStop, HubStart, agentVars, ToldTyped, AgentTyped
  <2>4. stops' \in 0 .. MaxStops
    BY <1>0, <1>7, BoundsAssumption DEF HubStop, HubStart, HubTyped
  <2>5. HubTyped'
    BY <1>0, <1>7, <2>4 DEF HubStop, HubStart, HubTyped
  <2>6. QED
    BY <2>1, <2>2, <2>3, <2>5, TypePartsNext
<1>8. CASE UNCHANGED vars
  BY <1>8 DEF vars, rowVars, hubVars, agentVars, TypeOK
<1>9. QED
  <2>1. ASSUME NEW r \in Requests, Register(r) \/ Heartbeat(r)
        PROVE  Begin(r, "register") \/ Begin(r, "heartbeat")
    BY <2>1 DEF Register, Heartbeat
  <2>2. "register" \in Kind /\ "heartbeat" \in Kind
    BY DEF Kind
  <2>3. QED
    BY <1>1, <1>2, <1>3, <1>4, <1>5, <1>6, <1>7, <1>8, <2>1, <2>2 DEF Next

\* Every variable keeps its type, whatever overlaps.
THEOREM TypeCorrect == Spec => []TypeOK
BY TypeInit, TypeStep, PTL DEF Spec

-----------------------------------------------------------------------------
(* Outages on record *)

\* An outage appended, or found open, is open.
LEMMA OpenedIsOpen ==
    ASSUME TypeOK, NEW r \in Row, outages' = Opened(r)
    PROVE  AnyOpen'
<1>1. CASE AnyOpen
  BY <1>1 DEF Opened, AnyOpen
<1>2. CASE ~AnyOpen
  <2> DEFINE o == [from |-> r.last, to |-> Never, planned |-> OnPurpose(r)]
  <2>1. outages \in Seq(Outage) /\ outages' = Append(outages, o) /\ o.to = Never
    BY <1>2 DEF Opened, TypeOK
  <2>2. Len(outages) + 1 \in DOMAIN outages' /\ outages'[Len(outages) + 1] = o
    BY <2>1
  <2>3. QED
    BY <2>1, <2>2 DEF AnyOpen, IsOpen
<1>3. QED
  BY <1>1, <1>2

LEMMA RecordStep == TypeOK /\ OfflineIsOnRecord /\ [Next]_vars => OfflineIsOnRecord'
<1> SUFFICES ASSUME TypeOK, OfflineIsOnRecord, [Next]_vars,
                    up', present', ~row'.online, row'.began # 0
             PROVE  \/ AnyOpen'
                    \/ sweep'.step = "open"
                    \/ \E r \in Handling' : request'[r].step = "save"
  BY DEF OfflineIsOnRecord
<1> DEFINE Recorded == \/ AnyOpen
                       \/ sweep.step = "open"
                       \/ \E r \in Handling : request[r].step = "save"
<1>1. ASSUME NEW r \in Requests, Register(r) \/ Heartbeat(r) PROVE Recorded'
  <2>1. Begin(r, "register") \/ Begin(r, "heartbeat")
    BY <1>1 DEF Register, Heartbeat
  <2>2. Recorded
    BY <1>1, <2>1 DEF OfflineIsOnRecord, Begin, rowVars, hubVars
  <2>3. AnyOpen' = AnyOpen /\ sweep' = sweep
    BY <2>1 DEF Begin, rowVars, AnyOpen
  <2>4. \A q \in Handling : request'[q] = request[q] /\ q \in Handling'
    BY <2>1 DEF Begin, Handling, TypeOK
  <2>5. QED
    BY <2>2, <2>3, <2>4
<1>2. ASSUME NEW r \in Requests, CloseOutage(r) PROVE Recorded'
  <2>1. request'[r].step = "save" /\ r \in Handling'
    BY <1>2 DEF CloseOutage, TypeOK, Handling
  <2>2. QED
    BY <2>1
<1>3. ASSUME NEW r \in Requests, RegisterSave(r) \/ HeartbeatSave(r) PROVE FALSE
  BY <1>3 DEF RegisterSave, HeartbeatSave
<1>4. ASSUME GoingAway \/ (\E on \in BOOLEAN : SetMaintenance(on)) PROVE Recorded'
  <2>1. /\ row'.online = row.online /\ row'.began = row.began
        /\ UNCHANGED <<present, up, outages, request, sweep>>
    BY <1>4 DEF GoingAway, SetMaintenance, TypeOK, Row, hubVars
  <2>2. QED
    BY <2>1 DEF OfflineIsOnRecord, AnyOpen, Handling
<1>5. ASSUME Remove PROVE FALSE
  BY <1>5 DEF Remove
<1>6. ASSUME Sweep PROVE Recorded'
  <2>1. UNCHANGED <<present, row, up, request>> /\ ~row.online
    BY <1>6 DEF Sweep, hubVars
  <2>2. UNCHANGED <<outages, sweep>>
    BY <1>6, <2>1 DEF Sweep, SafetyNet, Silent
  <2>3. QED
    BY <2>1, <2>2 DEF OfflineIsOnRecord, AnyOpen, Handling
<1>7. ASSUME SweepSave PROVE Recorded'
  BY <1>7 DEF SweepSave
<1>8. ASSUME SweepOpen PROVE Recorded'
  <2>1. sweep.row \in Row
    BY DEF TypeOK
  <2>2. QED
    BY <1>8, <2>1, OpenedIsOpen DEF SweepOpen
<1>9. ASSUME Tick \/ AgentStop \/ AgentStart \/ LinkLost \/ UNCHANGED vars PROVE Recorded'
  <2>1. UNCHANGED <<present, row, outages, up, request, sweep>>
    BY <1>9 DEF Tick, AgentStop, AgentStart, LinkLost, vars, rowVars, hubVars
  <2>2. QED
    BY <2>1 DEF OfflineIsOnRecord, AnyOpen, Handling
<1>10. ASSUME HubStop PROVE FALSE
  BY <1>10 DEF HubStop
<1>11. ASSUME HubStart PROVE Recorded'
  <2>1. row \in Row
    BY DEF TypeOK
  <2>2. outages' = Opened(row)
    BY <1>11 DEF HubStart
  <2>3. QED
    BY <2>1, <2>2, OpenedIsOpen
<1>12. QED
  BY <1>1, <1>2, <1>3, <1>4, <1>5, <1>6, <1>7, <1>8, <1>9, <1>10, <1>11 DEF Next

\* A node that was online once and is offline has an outage on record, or one
\* is about to be put there or ended, whatever overlaps and whenever the Hub stops.
THEOREM OfflineRecorded == Spec => []OfflineIsOnRecord
<1>1. Init => OfflineIsOnRecord
  BY DEF Init, Enrolled, OfflineIsOnRecord
<1>2. QED
  BY <1>1, RecordStep, TypeCorrect, PTL DEF Spec

-----------------------------------------------------------------------------
(* One thing at a time *)

\* At most one handler is under way, and what it read is still so.
Fresh ==
    /\ \A r, q \in Handling : r = q
    /\ \A r \in Handling : present /\ request[r].row = row /\ sweep.step = "none"
    /\ sweep.step = "save" => present /\ sweep.row = row
    /\ sweep.step = "open" => present
    /\ ~up => Idle

\* A running agent was heard in time; the row says so, and nobody is judging it.
Heard ==
    agent = "running" =>
        /\ present /\ row.online /\ row.last = contact /\ sweep.step = "none"
        /\ \A r \in Handling : request[r].by = process
        /\ up => now - contact <= Interval \/ now - started <= Interval

InTurn == ~overlap => Fresh /\ NothingUndone /\ Heard

LEMMA InTurnInit == Init => InTurn
BY DEF Init, Enrolled, InTurn, Fresh, NothingUndone, Heard, Handling, Idle, NoRequest, NotSweeping

LEMMA OverlapStays == [Next]_vars => overlap' = overlap
BY DEF Next, vars, Register, Heartbeat, Begin, CloseOutage, RegisterSave, HeartbeatSave,
   GoingAway, SetMaintenance, Remove, Sweep, SweepSave, SweepOpen, Tick, AgentStop, AgentStart,
   LinkLost, HubStop, HubStart

LEMMA InTurnStep == TypeOK /\ InTurn /\ [Next]_vars => InTurn'
<1> SUFFICES ASSUME TypeOK, Fresh, NothingUndone, Heard, ~overlap, [Next]_vars
             PROVE  Fresh' /\ NothingUndone' /\ Heard'
  BY OverlapStays DEF InTurn
<1>0. /\ now \in Int /\ contact \in Int /\ started \in Int
      /\ {Interval, Timeout, Grace} \subseteq Int /\ Interval <= Timeout /\ Interval < Grace
  BY TimingAssumption DEF TypeOK, Times
<1>1. ASSUME NEW r \in Requests, NEW kind \in Kind, Begin(r, kind), Calm PROVE Fresh' /\ NothingUndone' /\ Heard'
  <2>1. Handling = {} /\ sweep.step = "none" /\ up /\ present
    BY <1>1 DEF Calm, Idle, Begin
  <2>2. /\ \A q \in Requests \ {r} : request'[q] = request[q]
        /\ request'[r].row = row /\ request'[r].by = process
    BY <1>1 DEF Begin, TypeOK
  <2>3. Handling' \subseteq {r}
    BY <2>1, <2>2 DEF Handling
  <2>4. UNCHANGED <<present, row, outages, sweep, up, started, now, agent, process, contact, told>>
    BY <1>1 DEF Begin, rowVars, hubVars, agentVars
  <2>5. QED
    BY <2>1, <2>2, <2>3, <2>4 DEF Fresh, NothingUndone, Heard, Idle
<1>2. ASSUME NEW r \in Requests, CloseOutage(r) PROVE Fresh' /\ NothingUndone' /\ Heard'
  <2>1. UNCHANGED <<present, row, sweep, up, started, now, agent, process, contact, told>>
    BY <1>2 DEF CloseOutage, hubVars, agentVars
  <2>2. \A q \in Requests : request'[q].row = request[q].row /\ request'[q].by = request[q].by
    BY <1>2 DEF CloseOutage, TypeOK
  <2>3. Handling' = Handling /\ r \in Handling
    BY <1>2 DEF CloseOutage, Handling, TypeOK
  <2>4. present
    BY <2>3 DEF Fresh
  <2>5. Fresh'
    BY <1>2, <2>1, <2>2, <2>3 DEF Fresh, Idle, CloseOutage, Handling
  <2>6. QED
    BY <2>1, <2>2, <2>3, <2>4, <2>5 DEF NothingUndone, Heard, Handling
<1>3. ASSUME NEW r \in Requests, RegisterSave(r) \/ HeartbeatSave(r)
      PROVE  Fresh' /\ NothingUndone' /\ Heard'
  <2>1. r \in Handling /\ up
    BY <1>3 DEF RegisterSave, HeartbeatSave, Handling
  <2>2. Handling = {r} /\ request[r].row = row /\ present /\ sweep.step = "none"
    BY <2>1 DEF Fresh
  <2>3. Handling' = {}
    BY <1>3, <2>2 DEF RegisterSave, HeartbeatSave, Handling, NoRequest, TypeOK
  <2>4. /\ present' /\ row'.online /\ row'.last = now
        /\ row'.maintenance = request[r].row.maintenance
        /\ UNCHANGED <<outages, sweep, up, started, now>>
        /\ Hear(request[r].by)
    BY <1>3 DEF RegisterSave, HeartbeatSave, hubVars
  <2>5. Fresh'
    BY <2>1, <2>2, <2>3, <2>4 DEF Fresh
  <2>6. agent' # "removed"
    BY <2>2, <2>4 DEF NothingUndone, Hear, agentVars
  <2>7. NothingUndone'
    <3>1. row.maintenance = told.maintenance /\ row.bye = told.bye /\ row.began = told.began
      BY <2>2 DEF NothingUndone
    <3>2. CASE RegisterSave(r)
      BY <2>2, <2>4, <2>6, <3>1, <3>2 DEF RegisterSave, NothingUndone
    <3>3. CASE HeartbeatSave(r)
      BY <2>2, <2>4, <2>6, <3>1, <3>3 DEF HeartbeatSave, NothingUndone
    <3>4. QED
      BY <1>3, <3>2, <3>3
  <2>8. ASSUME agent' = "running" PROVE contact' = now
    BY <2>1, <2>4, <2>8 DEF Hear, Heard, agentVars
  <2>9. Heard'
    BY <1>0, <2>2, <2>3, <2>4, <2>8, TimingAssumption DEF Heard
  <2>10. QED
    BY <2>5, <2>7, <2>9
<1>4. ASSUME GoingAway \/ (\E on \in BOOLEAN : SetMaintenance(on))
      PROVE  Fresh' /\ NothingUndone' /\ Heard'
  <2>1. /\ Handling = {} /\ sweep.step = "none" /\ up /\ present
        /\ UNCHANGED <<present, outages, request, sweep, up, started, now, process, contact>>
    BY <1>4 DEF GoingAway, SetMaintenance, Calm, Idle, hubVars, agentVars
  <2>2. Fresh'
    BY <2>1 DEF Fresh, Handling
  <2>3. /\ row'.online = row.online /\ row'.last = row.last /\ row'.began = row.began
        /\ told'.began = told.began
        /\ agent' \in {agent, "stopped"}
    BY <1>4 DEF GoingAway, SetMaintenance, TypeOK, Row, agentVars
  <2>4. row'.maintenance = told'.maintenance /\ row'.bye = told'.bye
    BY <1>4, <2>1 DEF GoingAway, SetMaintenance, TypeOK, Row, NothingUndone
  <2>5. NothingUndone'
    BY <2>1, <2>3, <2>4 DEF NothingUndone
  <2>6. Heard'
    BY <2>1, <2>3 DEF Heard, Handling
  <2>7. QED
    BY <2>2, <2>5, <2>6
<1>5. ASSUME Remove PROVE Fresh' /\ NothingUndone' /\ Heard'
  BY <1>5 DEF Remove, Calm, Idle, hubVars, Fresh, NothingUndone, Heard, Handling
<1>6. ASSUME Sweep PROVE Fresh' /\ NothingUndone' /\ Heard'
  <2>1. /\ Handling = {} /\ sweep.step = "none" /\ up
        /\ UNCHANGED <<present, row, request, up, started, now, agent, process, contact, told>>
    BY <1>6 DEF Sweep, Calm, Idle, hubVars, agentVars
  <2>2. \/ sweep' = sweep
        \/ present /\ Silent /\ sweep'.step = "save" /\ sweep'.row = row
    BY <1>6 DEF Sweep
  <2>3. Fresh'
    BY <2>1, <2>2 DEF Fresh, Handling
  <2>4. agent = "removed" => outages' = outages
    BY <1>6 DEF Sweep, SafetyNet, NothingUndone
  <2>5. agent = "running" => ~Silent
    BY <1>0, <2>1 DEF Heard, Silent
  <2>6. QED
    BY <2>1, <2>2, <2>3, <2>4, <2>5 DEF NothingUndone, Heard, Handling
<1>7. ASSUME SweepSave PROVE Fresh' /\ NothingUndone' /\ Heard'
  <2>1. /\ Handling = {} /\ sweep.step = "save" /\ present /\ sweep.row = row /\ up
        /\ agent # "running" /\ agent # "removed"
    BY <1>7 DEF SweepSave, Fresh, Heard, NothingUndone
  <2>2. /\ present' /\ sweep'.step = "open"
        /\ row'.maintenance = row.maintenance /\ row'.bye = row.bye /\ row'.began = row.began
        /\ UNCHANGED <<request, up, agent, told>>
    BY <1>7, <2>1 DEF SweepSave, hubVars, agentVars, TypeOK, Row
  <2>3. QED
    BY <2>1, <2>2 DEF Fresh, NothingUndone, Heard, Handling
<1>8. ASSUME SweepOpen PROVE Fresh' /\ NothingUndone' /\ Heard'
  <2>1. /\ Handling = {} /\ present /\ up /\ agent # "running" /\ agent # "removed"
    BY <1>8 DEF SweepOpen, Fresh, Heard, NothingUndone
  <2>2. UNCHANGED <<present, row, request, up, agent, told>> /\ sweep'.step = "none"
    BY <1>8 DEF SweepOpen, hubVars, agentVars, NotSweeping
  <2>3. QED
    BY <2>1, <2>2 DEF Fresh, NothingUndone, Heard, Handling
<1>9. ASSUME Tick PROVE Fresh' /\ NothingUndone' /\ Heard'
  <2>1. /\ UNCHANGED <<present, row, outages, request, sweep, up, started, agent, process, contact, told>>
        /\ now' = now + 1
        /\ up /\ agent = "running" => now - contact < Interval \/ now - started < Interval
    BY <1>9 DEF Tick, rowVars, hubVars, agentVars
  <2>2. Fresh' /\ NothingUndone'
    BY <2>1 DEF Fresh, NothingUndone, Handling, Idle
  <2>3. QED
    BY <1>0, <2>1, <2>2 DEF Heard, Handling
<1>10. ASSUME AgentStop \/ AgentStart \/ LinkLost PROVE Fresh' /\ NothingUndone' /\ Heard'
  <2>1. /\ UNCHANGED <<present, row, outages, request, sweep, up, told>>
        /\ agent' # "running" /\ agent' # "removed"
    BY <1>10 DEF AgentStop, AgentStart, LinkLost, rowVars, hubVars
  <2>2. QED
    BY <2>1 DEF Fresh, NothingUndone, Heard, Handling, Idle
<1>11. ASSUME HubStop PROVE Fresh' /\ NothingUndone' /\ Heard'
  <2>1. /\ UNCHANGED <<present, row, outages, agent, process, contact, told>>
        /\ ~up' /\ sweep'.step = "none" /\ Handling' = {}
    BY <1>11 DEF HubStop, rowVars, agentVars, NotSweeping, NoRequest, Handling
  <2>2. QED
    BY <2>1 DEF Fresh, NothingUndone, Heard, Idle
<1>12. ASSUME HubStart PROVE Fresh' /\ NothingUndone' /\ Heard'
  <2>1. /\ UNCHANGED <<present, row, request, sweep, now, agent, process, contact, told>>
        /\ up' /\ started' = now
        /\ Handling = {} /\ sweep.step = "none"
    BY <1>12 DEF HubStart, agentVars, Fresh, Idle
  <2>2. agent = "removed" => outages' = outages
    BY <1>12 DEF HubStart, NothingUndone
  <2>3. now' - started' <= Interval
    BY <1>0, <2>1, TimingAssumption
  <2>4. QED
    BY <2>1, <2>2, <2>3 DEF Fresh, NothingUndone, Heard, Handling
<1>13. CASE UNCHANGED vars
  BY <1>13 DEF vars, rowVars, hubVars, agentVars, Fresh, NothingUndone, Heard, Handling, Idle
<1>14. QED
  <2>1. ASSUME NEW r \in Requests, Register(r) \/ Heartbeat(r)
        PROVE  Calm /\ (Begin(r, "register") \/ Begin(r, "heartbeat"))
    BY <2>1 DEF Register, Heartbeat
  <2>2. "register" \in Kind /\ "heartbeat" \in Kind
    BY DEF Kind
  <2>3. QED
    BY <1>1, <1>2, <1>3, <1>4, <1>5, <1>6, <1>7, <1>8, <1>9, <1>10, <1>11, <1>12, <1>13, <2>1, <2>2
       DEF Next

LEMMA AlwaysInTurn == Spec => []InTurn
BY InTurnInit, InTurnStep, TypeCorrect, PTL DEF Spec

\* While the Hub does one thing at a time, nothing anyone wrote into the
\* node's row is undone: maintenance, a goodbye, a registration, a removal.
THEOREM NothingIsUndone == Spec => []NothingUndoneInTurn
<1>1. InTurn => NothingUndoneInTurn
  BY DEF InTurn, NothingUndoneInTurn
<1>2. QED
  BY <1>1, AlwaysInTurn, PTL

\* A node whose agent sends its heartbeats in time is online, also after the
\* Hub was down for any length of time: Interval below Timeout and Grace is all
\* that is needed.
THEOREM HeardNodesStayOnline == Spec => []HeardNodesAreOnline
<1>1. InTurn => HeardNodesAreOnline
  BY DEF InTurn, Heard, HeardNodesAreOnline
<1>2. QED
  BY <1>1, AlwaysInTurn, PTL
-----------------------------------------------------------------------------
(* Uptime *)

\* An outage began, and ended if it has, by at.
Known(o, at) == o.from <= at /\ (IsOpen(o) \/ (o.from <= o.to /\ o.to <= at))

\* Each outage has ended when the next one begins.
Apart == \A i, j \in DOMAIN outages :
             i < j => ~IsOpen(outages[i]) /\ outages[i].to <= outages[j].from

Bounded == row.last <= now /\ \A i \in DOMAIN outages : Known(outages[i], now)

\* A node that is online was heard after all its outages; it was heard just
\* now if somebody who takes it for offline is still at it.
HeardSince ==
    row.online =>
        /\ \A i \in DOMAIN outages : Known(outages[i], row.last)
        /\ (\E r \in Requests : request[r].step = "close") \/ sweep.step = "open" => row.last = now

\* What the sweeper judges was heard after all outages, and none is open.
JudgedSince ==
    sweep.step # "none" =>
        /\ sweep.row.last <= now
        /\ \A i \in DOMAIN outages : ~IsOpen(outages[i]) /\ Known(outages[i], sweep.row.last)

\* The Hub has not stopped so far.
Ordered == stops = 0 => up /\ Apart /\ Bounded /\ HeardSince /\ JudgedSince

LEMMA OrderedInit == Init => Ordered
BY BoundsAssumption
   DEF Init, Enrolled, Ordered, Apart, Bounded, HeardSince, JudgedSince, NoRequest, NotSweeping, Times

\* Numbers are compared below.
LEMMA Moments ==
    ASSUME TypeOK
    PROVE  /\ now \in Nat /\ row.last \in Nat /\ sweep.row.last \in Nat /\ stops \in Nat
           /\ \A i \in DOMAIN outages : outages[i].from \in Nat
           /\ \A i \in DOMAIN outages : ~IsOpen(outages[i]) => outages[i].to \in Nat
           /\ \A i \in DOMAIN outages : i \in Nat
<1>1. now \in Times /\ row \in Row /\ sweep.row \in Row /\ stops \in 0 .. MaxStops /\ outages \in Seq(Outage)
  BY DEF TypeOK
<1>2. \A i \in DOMAIN outages : outages[i] \in Outage /\ i \in Nat
  BY <1>1
<1>3. now \in Nat /\ row.last \in Nat /\ sweep.row.last \in Nat /\ stops \in Nat
  BY <1>1 DEF Row, Times
<1>4. ASSUME NEW i \in DOMAIN outages
      PROVE  outages[i].from \in Nat /\ (~IsOpen(outages[i]) => outages[i].to \in Nat)
  BY <1>2 DEF Outage, Times, IsOpen
<1>5. QED
  BY <1>2, <1>3, <1>4

LEMMA OrderedStep == TypeOK /\ TypeOK' /\ Ordered /\ [Next]_vars => Ordered'
<1> SUFFICES ASSUME TypeOK, TypeOK', Ordered, [Next]_vars, stops' = 0
             PROVE  up' /\ Apart' /\ Bounded' /\ HeardSince' /\ JudgedSince'
  BY DEF Ordered
<1>0. /\ now \in Nat /\ row.last \in Nat /\ sweep.row.last \in Nat /\ stops \in Nat
      /\ \A i \in DOMAIN outages : outages[i].from \in Nat
      /\ \A i \in DOMAIN outages : ~IsOpen(outages[i]) => outages[i].to \in Nat
      /\ \A i \in DOMAIN outages : i \in Nat
  BY Moments
<1>01. stops = 0 /\ (HubStop => FALSE)
  BY <1>0 DEF Next, vars, hubVars, Register, Heartbeat, Begin, CloseOutage, RegisterSave, HeartbeatSave,
     GoingAway, SetMaintenance, Remove, Sweep, SweepSave, SweepOpen, Tick, AgentStop, AgentStart,
     LinkLost, HubStop, HubStart
<1>02. up /\ Apart /\ Bounded /\ HeardSince /\ JudgedSince
  BY <1>01 DEF Ordered
<1>1. ASSUME NEW r \in Requests, NEW kind \in Kind, Begin(r, kind) PROVE up' /\ Apart' /\ Bounded' /\ HeardSince' /\ JudgedSince'
  <2>1. UNCHANGED <<now, row, outages, sweep, up>>
    BY <1>1 DEF Begin, rowVars, hubVars
  <2>2. \A q \in Requests : request'[q].step = "close" => request[q].step = "close" \/ ~row.online
    BY <1>1 DEF Begin, TypeOK
  <2>3. QED
    BY <1>02, <2>1, <2>2 DEF Apart, Bounded, HeardSince, JudgedSince
<1>2. ASSUME NEW r \in Requests, CloseOutage(r) PROVE up' /\ Apart' /\ Bounded' /\ HeardSince' /\ JudgedSince'
  <2>1. UNCHANGED <<now, row, sweep, up>> /\ request[r].step = "close"
    BY <1>2 DEF CloseOutage, hubVars
  <2>2. \A q \in Requests : request'[q].step = "close" => request[q].step = "close"
    BY <1>2 DEF CloseOutage, TypeOK
  <2>3. /\ DOMAIN outages' = DOMAIN outages
        /\ \A i \in DOMAIN outages : /\ ~IsOpen(outages[i]) => outages'[i] = outages[i]
                                     /\ IsOpen(outages[i]) => outages'[i].to = now
                                     /\ outages'[i].from = outages[i].from
    BY <1>2 DEF CloseOutage, Closed
  <2>4. \A i \in DOMAIN outages : ~IsOpen(outages'[i])
    BY <1>0, <2>3 DEF IsOpen, Never
  <2>5. Apart'
    BY <1>02, <2>3, <2>4 DEF Apart
  <2>6. \A i \in DOMAIN outages : Known(outages'[i], now)
    BY <1>0, <1>02, <2>3 DEF Bounded, Known
  <2>7. Bounded'
    BY <1>02, <2>1, <2>3, <2>6 DEF Bounded
  <2>8. HeardSince'
    BY <1>02, <2>1, <2>2, <2>3, <2>6 DEF HeardSince
  <2>9. JudgedSince'
    BY <1>02, <2>1, <2>3, <2>4 DEF JudgedSince
  <2>10. QED
    BY <1>02, <2>1, <2>5, <2>7, <2>8, <2>9
<1>3. ASSUME NEW r \in Requests, RegisterSave(r) \/ HeartbeatSave(r)
      PROVE  up' /\ Apart' /\ Bounded' /\ HeardSince' /\ JudgedSince'
  <2>1. row'.last = now /\ UNCHANGED <<now, outages, sweep, up>>
    BY <1>3 DEF RegisterSave, HeartbeatSave, hubVars
  <2>2. QED
    BY <1>0, <1>02, <2>1 DEF Apart, Bounded, HeardSince, JudgedSince
<1>4. ASSUME GoingAway \/ (\E on \in BOOLEAN : SetMaintenance(on))
      PROVE  up' /\ Apart' /\ Bounded' /\ HeardSince' /\ JudgedSince'
  <2>1. row'.last = row.last /\ row'.online = row.online /\ UNCHANGED <<now, outages, request, sweep, up>>
    BY <1>4 DEF GoingAway, SetMaintenance, TypeOK, Row, hubVars
  <2>2. QED
    BY <1>02, <2>1 DEF Apart, Bounded, HeardSince, JudgedSince
<1>5. ASSUME Remove PROVE up' /\ Apart' /\ Bounded' /\ HeardSince' /\ JudgedSince'
  <2>1. row'.last = 0 /\ ~row'.online /\ DOMAIN outages' = {} /\ UNCHANGED <<now, request, sweep, up>>
    BY <1>5 DEF Remove, Enrolled, hubVars
  <2>2. QED
    BY <1>0, <1>02, <2>1 DEF Apart, Bounded, HeardSince, JudgedSince
<1>6. ASSUME Sweep PROVE up' /\ Apart' /\ Bounded' /\ HeardSince' /\ JudgedSince'
  <2>1. UNCHANGED <<now, row, request, up>> /\ sweep.step = "none"
        /\ (sweep' = sweep \/ (present /\ row.online /\ sweep' = [step |-> "save", row |-> row]))
    BY <1>6 DEF Sweep, Silent, hubVars
  <2>2. CASE ~(present /\ row.online)
    <3>1. outages' = outages /\ sweep' = sweep
      BY <1>6, <2>1, <2>2 DEF Sweep, SafetyNet
    <3>2. QED
      BY <1>02, <2>1, <3>1 DEF Apart, Bounded, HeardSince, JudgedSince
  <2>3. CASE present /\ row.online
    <3>1. /\ DOMAIN outages' = DOMAIN outages
          /\ \A i \in DOMAIN outages :
                /\ ~IsOpen(outages[i]) => outages'[i] = outages[i]
                /\ IsOpen(outages[i]) => outages'[i].to = IF row.last < outages[i].from
                                                          THEN outages[i].from ELSE row.last
                /\ outages'[i].from = outages[i].from
      BY <1>6, <2>3 DEF Sweep, SafetyNet
    <3>2. \A i \in DOMAIN outages : outages[i].from <= row.last
      BY <1>02, <2>3 DEF HeardSince, Known
    <3>3. \A i \in DOMAIN outages : IsOpen(outages[i]) => outages'[i].to = row.last
      BY <1>0, <3>1, <3>2
    <3>4. \A i \in DOMAIN outages : ~IsOpen(outages'[i])
      BY <1>0, <3>1, <3>3 DEF IsOpen, Never
    <3>5. \A i \in DOMAIN outages : Known(outages'[i], row.last)
      BY <1>0, <1>02, <2>3, <3>1, <3>2, <3>3 DEF HeardSince, Known
    <3>6. row.last <= now
      BY <1>02 DEF Bounded
    <3>7. \A i \in DOMAIN outages : Known(outages'[i], now)
      <4>1. \A i \in DOMAIN outages : outages'[i].from \in Nat /\ outages'[i].to \in Nat
        BY <1>0, <3>1, <3>3
      <4>2. QED
        BY <1>0, <3>5, <3>6, <4>1 DEF Known
    <3>8. Apart'
      BY <1>02, <3>1, <3>4 DEF Apart
    <3>9. Bounded' /\ HeardSince'
      BY <1>02, <2>1, <3>1, <3>5, <3>6, <3>7 DEF Bounded, HeardSince
    <3>10. JudgedSince'
      BY <2>1, <3>1, <3>4, <3>5, <3>6 DEF JudgedSince
    <3>11. QED
      BY <1>02, <2>1, <3>8, <3>9, <3>10
  <2>4. QED
    BY <2>2, <2>3
<1>7. ASSUME SweepSave PROVE up' /\ Apart' /\ Bounded' /\ HeardSince' /\ JudgedSince'
  <2>1. /\ UNCHANGED <<now, outages, request, up>> /\ sweep.step = "save"
        /\ sweep'.row = sweep.row /\ ~row'.online /\ row'.last = sweep.row.last
    BY <1>7 DEF SweepSave, hubVars, TypeOK, Row
  <2>2. QED
    BY <1>02, <2>1 DEF Apart, Bounded, HeardSince, JudgedSince
<1>8. ASSUME SweepOpen PROVE up' /\ Apart' /\ Bounded' /\ HeardSince' /\ JudgedSince'
  <2>1. UNCHANGED <<now, row, request, up>> /\ sweep.step = "open" /\ sweep'.step = "none"
    BY <1>8 DEF SweepOpen, hubVars, NotSweeping
  <2>2. /\ sweep.row.last <= now
        /\ \A i \in DOMAIN outages : ~IsOpen(outages[i]) /\ Known(outages[i], sweep.row.last)
    BY <1>02, <2>1 DEF JudgedSince
  <2> DEFINE o == [from |-> sweep.row.last, to |-> Never, planned |-> OnPurpose(sweep.row)]
  <2>3. outages' = Append(outages, o) /\ o.from = sweep.row.last /\ IsOpen(o)
    BY <1>8, <2>2 DEF SweepOpen, Opened, AnyOpen, IsOpen
  <2> HIDE DEF o
  <2>4. PICK n \in Nat : n = Len(outages) /\ DOMAIN outages = 1 .. n /\ DOMAIN outages' = 1 .. n + 1
    BY <2>3 DEF TypeOK
  <2>5. outages'[n + 1] = o /\ \A i \in 1 .. n : outages'[i] = outages[i]
    BY <2>3, <2>4 DEF TypeOK
  <2>6. Apart'
    <3> SUFFICES ASSUME NEW i \in 1 .. n + 1, NEW j \in 1 .. n + 1, i < j
                 PROVE  ~IsOpen(outages'[i]) /\ outages'[i].to <= outages'[j].from
      BY <2>4 DEF Apart
    <3>1. i \in 1 .. n /\ outages'[i] = outages[i]
      BY <2>5
    <3>2. CASE j \in 1 .. n
      BY <1>02, <2>4, <2>5, <3>1, <3>2 DEF Apart
    <3>3. CASE j = n + 1
      BY <2>2, <2>3, <2>4, <2>5, <3>1, <3>3 DEF Known
    <3>4. QED
      BY <3>2, <3>3
  <2>7. Known(o, now)
    BY <2>2, <2>3 DEF Known
  <2>8. \A i \in 1 .. n + 1 : Known(outages'[i], now)
    BY <1>02, <2>4, <2>5, <2>7 DEF Bounded
  <2>9. Bounded'
    BY <1>02, <2>1, <2>4, <2>8 DEF Bounded
  <2>10. HeardSince'
    BY <1>02, <2>1, <2>4, <2>8 DEF HeardSince
  <2>11. QED
    BY <1>02, <2>1, <2>6, <2>9, <2>10 DEF JudgedSince
<1>9. ASSUME Tick PROVE up' /\ Apart' /\ Bounded' /\ HeardSince' /\ JudgedSince'
  <2>1. UNCHANGED <<row, outages, request, sweep, up>> /\ now' = now + 1 /\ Handling = {} /\ sweep.step = "none"
    BY <1>9 DEF Tick, Idle, rowVars, hubVars
  <2>2. \A r \in Requests : request[r].step # "close"
    BY <2>1 DEF Handling
  <2>3. row.last <= now + 1 /\ \A i \in DOMAIN outages : Known(outages[i], now + 1)
    BY <1>0, <1>02 DEF Bounded, Known
  <2>4. QED
    BY <1>02, <2>1, <2>2, <2>3 DEF Apart, Bounded, HeardSince, JudgedSince
<1>10. ASSUME AgentStop \/ AgentStart \/ LinkLost \/ UNCHANGED vars
       PROVE  up' /\ Apart' /\ Bounded' /\ HeardSince' /\ JudgedSince'
  <2>1. UNCHANGED <<now, row, outages, request, sweep, up>>
    BY <1>10 DEF AgentStop, AgentStart, LinkLost, vars, rowVars, hubVars
  <2>2. QED
    BY <1>02, <2>1 DEF Apart, Bounded, HeardSince, JudgedSince
<1>11. ASSUME HubStart PROVE FALSE
  BY <1>02, <1>11 DEF HubStart
<1>12. QED
  <2>1. ASSUME NEW r \in Requests, Register(r) \/ Heartbeat(r)
        PROVE  Begin(r, "register") \/ Begin(r, "heartbeat")
    BY <2>1 DEF Register, Heartbeat
  <2>2. "register" \in Kind /\ "heartbeat" \in Kind
    BY DEF Kind
  <2>3. QED
    BY <1>01, <1>1, <1>2, <1>3, <1>4, <1>5, <1>6, <1>7, <1>8, <1>9, <1>10, <1>11, <2>1, <2>2 DEF Next

\* Outages that are in order are counted once, moment by moment.
LEMMA OrderedExact == TypeOK /\ Ordered => UptimeIsExact
<1> SUFFICES ASSUME TypeOK, Apart, Bounded, NEW from \in 0 .. now
             PROVE  /\ Downtime(from) = Cardinality({t \in from .. now - 1 :
                                            \E i \in DOMAIN outages : t \in Away(outages[i])})
                    /\ Added(from) = Downtime(from)
  BY DEF Ordered, UptimeIsExact
<1> DEFINE Pairs == {m \in (DOMAIN outages) \X Times :
                        Counts(outages[m[1]], from) <= m[2] /\ m[2] < Until(outages[m[1]])}
           Gone == {t \in from .. now - 1 : \E i \in DOMAIN outages : t \in Away(outages[i])}
           moment == [m \in Pairs |-> m[2]]
<1>1. /\ now \in Nat /\ from \in Nat /\ from <= now
      /\ \A i \in DOMAIN outages : outages[i].from \in Nat
      /\ \A i \in DOMAIN outages : ~IsOpen(outages[i]) => outages[i].to \in Nat
      /\ \A i \in DOMAIN outages : i \in Nat
  BY Moments
<1>2. \A i \in DOMAIN outages : Until(outages[i]) = IF IsOpen(outages[i]) THEN now ELSE outages[i].to
  BY <1>1 DEF Bounded, Known, Until
<1>3. \A i \in DOMAIN outages : Until(outages[i]) <= now /\ Until(outages[i]) \in Nat
  BY <1>1, <1>2 DEF Bounded, Known
<1>4. \A t \in 0 .. now : t \in Times
  BY BoundsAssumption DEF TypeOK, Times
<1>5. ASSUME NEW i \in DOMAIN outages, NEW t \in Nat
      PROVE  t \in Times /\ Counts(outages[i], from) <= t /\ t < Until(outages[i])
               <=> t \in from .. now - 1 /\ t \in Away(outages[i])
  <2>1. Counts(outages[i], from) <= t <=> from <= t /\ outages[i].from <= t
    BY <1>1 DEF Counts
  <2>2. t \in from .. now - 1 => t \in Times
    BY <1>1, <1>4
  <2>3. t \in Away(outages[i]) <=> t \in Times /\ outages[i].from <= t /\ (IsOpen(outages[i]) \/ t < outages[i].to)
    BY DEF Away
  <2>4. CASE IsOpen(outages[i])
    BY <1>1, <1>2, <2>1, <2>2, <2>3, <2>4
  <2>5. CASE ~IsOpen(outages[i])
    BY <1>1, <1>2, <1>3, <2>1, <2>2, <2>3, <2>5
  <2>6. QED
    BY <2>4, <2>5
<1>6. ASSUME NEW m \in Pairs PROVE m[2] \in Gone /\ m[1] \in DOMAIN outages /\ m[2] \in Nat
  <2>1. m[1] \in DOMAIN outages /\ m[2] \in Times
    OBVIOUS
  <2>2. m[2] \in Nat
    BY <2>1 DEF Times
  <2>3. Counts(outages[m[1]], from) <= m[2] /\ m[2] < Until(outages[m[1]])
    OBVIOUS
  <2>4. m[2] \in from .. now - 1 /\ m[2] \in Away(outages[m[1]])
    BY <1>5, <2>1, <2>2, <2>3
  <2>5. QED
    BY <2>1, <2>2, <2>4
<1>7. ASSUME NEW m \in Pairs, NEW n \in Pairs, m[2] = n[2] PROVE m = n
  <2>1. m[1] \in DOMAIN outages /\ n[1] \in DOMAIN outages /\ m[2] \in Nat /\ m[1] \in Nat /\ n[1] \in Nat
    BY <1>1, <1>6
  <2>2. /\ m[2] < Until(outages[m[1]]) /\ outages[m[1]].from <= m[2]
        /\ m[2] < Until(outages[n[1]]) /\ outages[n[1]].from <= m[2]
    <3>1. /\ m[2] < Until(outages[m[1]]) /\ Counts(outages[m[1]], from) <= m[2]
          /\ m[2] < Until(outages[n[1]]) /\ Counts(outages[n[1]], from) <= m[2]
      BY <1>7
    <3>2. QED
      BY <1>1, <2>1, <3>1 DEF Counts
  <2>3. ASSUME NEW i \in DOMAIN outages, NEW j \in DOMAIN outages, i < j,
               m[2] < Until(outages[i]), outages[j].from <= m[2]
        PROVE  FALSE
    <3>1. ~IsOpen(outages[i]) /\ outages[i].to <= outages[j].from
      BY <2>3 DEF Apart
    <3>2. QED
      BY <1>1, <1>2, <2>1, <2>3, <3>1
  <2>4. m[1] = n[1]
    BY <2>1, <2>2, <2>3
  <2>5. QED
    BY <1>7, <2>4
<1>8. \A t \in Gone : \E m \in Pairs : m[2] = t
  <2> SUFFICES ASSUME NEW t \in Gone PROVE \E m \in Pairs : m[2] = t
    OBVIOUS
  <2>1. PICK i \in DOMAIN outages : t \in Away(outages[i])
    OBVIOUS
  <2>2. t \in from .. now - 1 /\ t \in Nat
    BY <1>1
  <2>3. t \in Times /\ Counts(outages[i], from) <= t /\ t < Until(outages[i])
    BY <1>5, <2>1, <2>2
  <2>4. <<i, t>> \in Pairs
    BY <2>3
  <2>5. QED
    BY <2>4
<1>9. moment \in Injection(Pairs, Gone) /\ moment \in Surjection(Pairs, Gone)
  <2>1. moment \in [Pairs -> Gone]
    BY <1>6
  <2>2. \A m, n \in Pairs : moment[m] = moment[n] => m = n
    BY <1>7
  <2>3. \A t \in Gone : \E m \in Pairs : moment[m] = t
    BY <1>8
  <2> HIDE DEF Pairs, Gone, moment
  <2>4. IsInjective(moment)
    BY <2>1, <2>2 DEF IsInjective
  <2>5. QED
    BY <2>1, <2>3, <2>4 DEF Injection, Surjection
<1>10. Gone \in SUBSET (from .. now - 1) /\ Added(from) = Cardinality(Pairs)
  BY DEF Added
<1> HIDE DEF Pairs, Gone, moment
<1>11. PICK last \in Int : last = now - 1
  BY <1>1
<1>12. IsFiniteSet(from .. last) /\ Cardinality(from .. last) = IF from > last THEN 0 ELSE last - from + 1
  BY <1>1, FS_Interval
<1>13. IsFiniteSet(Gone) /\ Cardinality(Gone) <= Cardinality(from .. last)
  BY <1>10, <1>11, <1>12, FS_Subset
<1>14. IsFiniteSet(Pairs) /\ Cardinality(Pairs) = Cardinality(Gone)
  BY <1>9, <1>13, FS_Injection
<1>15. Cardinality(Gone) \in Nat
  BY <1>13, FS_CardinalityType
<1>16. Added(from) <= now - from
  BY <1>1, <1>10, <1>11, <1>12, <1>13, <1>14, <1>15
<1>17. Added(from) = Cardinality(Gone) /\ Downtime(from) = Added(from)
  BY <1>1, <1>10, <1>14, <1>15, <1>16 DEF Downtime
<1>18. QED
  BY <1>17 DEF Gone

\* While the Hub has not stopped, what it makes of a node's outages is exact:
\* no moment is counted twice and nothing has to be cut off, for any timing and
\* whatever overlaps.
THEOREM UptimeExact == Spec => []UptimeIsExact
<1>1. Spec => []Ordered
  BY OrderedInit, OrderedStep, TypeCorrect, PTL DEF Spec
<1>2. QED
  BY <1>1, OrderedExact, TypeCorrect, PTL
=============================================================================
