---------------------------- MODULE RoutesProofs ----------------------------
(***************************************************************************)
(* Theorems about Routes for any number of apps, nodes, domains and ports, *)
(* and any order of deploys, edits, reports and updates.                   *)
(***************************************************************************)
EXTENDS Routes, FiniteSetTheorems, WellFoundedInduction, TLAPS

Statuses == {"none", "deploying", "running", "stopped", "failed", "deleted"}
Ports == {NoPort} \cup HostPorts
SomeNode == RouteNodes \cup {NoNode}
SomePlace == Places \cup {NoPlace}
AppRow == [status : Statuses, node : SomeNode, port : Ports, auto : BOOLEAN, place : SomePlace]
PluginRow == [attached : BOOLEAN, place : SomePlace, port : Ports]
EditRow == [app : {0} \cup Apps, old : AppRow, new : AppRow]
ShipRow == [step : {"none", "queued", "ran", "noted"}, node : SomeNode, auto : BOOLEAN,
            from : Ports, plug : BOOLEAN, plugFrom : Ports, ok : BOOLEAN, port : Ports,
            plugPort : Ports]
Target == [node : SomeNode, port : Ports \cup {DefaultPort}]
UpdateRow == [step : {"none", "plugins", "certs"}, table : [Served -> Target],
              homes : [Apps -> SomeNode]]
Holders == {Free, Foreign, Plug} \cup Apps
PortMap == [HostPorts -> Holders]

\* The rows, and what is under way between them and the nodes.
RowsTyped ==
    /\ app \in [Apps -> AppRow] /\ plugin \in PluginRow /\ edit \in EditRow
    /\ ship \in [Apps -> ShipRow] /\ leaving \subseteq RouteNodes \X Apps
    /\ settled \in [Apps -> BOOLEAN]
    /\ \A a \in Apps : ship[a].step # "none" => ship[a].node \in RouteNodes
BoundTyped == bound \in [RouteNodes -> PortMap]
NginxTyped ==
    /\ waiting \in Nat /\ update \in UpdateRow /\ nginx \in [Served -> Target]
    /\ secure \subseteq issued /\ good \in BOOLEAN /\ byHand \in BOOLEAN

\* No container is published twice.
OncePublished(m) == \A x \in Apps \cup {Plug}, p, q \in HostPorts : m[p] = x /\ m[q] = x => p = q

Homes == [a \in Apps |-> HomeOf(a)]

\* The routes that the rows stand for.
Current == WithPlugin(AppRoutes, Homes)

\* Nothing is left to tell nginx but what the update under way has read.
AllTold == waiting = 0 /\ ~byHand /\ \A a \in Apps : ship[a].step # "noted"

\* What an update has read is what the rows say, unless another one waits; and
\* while it waits for certificates its routes are nginx's.
UpdateFollows ==
    /\ update.step = "certs" => /\ good /\ nginx = update.table
                                /\ secure = issued \cap DomainsOf(update.table)
    /\ AllTold =>
          /\ update.step = "plugins" => update.table = AppRoutes /\ update.homes = Homes
          /\ update.step = "certs" => update.table = Current
          /\ update.step = "none" /\ good => nginx = Current /\ secure = issued \cap DomainsOf(nginx)

\* Two rows agree whether the Hub chooses the port, and on it if it does not.
SamePorts(r, s) == Fixed(r) = Fixed(s) /\ (Fixed(r) => r.port = s.port)

\* A port that is the user's choice is never overwritten by one the Hub chose:
\* neither while an edit is under way nor by a deploy's report.
EditFollows ==
    /\ \A a \in Apps : app[a].auto \/ app[a].port # NoPort
    /\ edit.app # 0 => /\ SamePorts(edit.old, app[edit.app])
                       /\ edit.new.auto \/ edit.new.port # NoPort
                       /\ edit.new.node = edit.old.node
                       /\ app[edit.app].status # "none"

\* x has port p of node n, and nothing queued takes it away.
Holds(n, a, x, p) ==
    n \in RouteNodes /\ p \in HostPorts /\ bound[n][p] = x /\ <<n, a>> \notin leaving

\* A deploy under way puts its app where the row says it may be, with the
\* plugin if there is one; when it got through, both are there.
ShipFollows(a) ==
    LET s == ship[a] IN
    s.step # "none" =>
        /\ ~settled[a] /\ s.from \in HostPorts
        /\ s.auto = ~Fixed(app[a]) /\ (~s.auto => s.from = app[a].port)
        /\ s.plug = (a = Owner /\ plugin.attached)
        /\ a # Owner => s.plugPort = NoPort
        /\ s.step = "noted" => s.ok
        /\ s.ok => /\ s.step # "queued"
                   /\ Holds(s.node, a, a, s.port) /\ (~s.auto => s.port = s.from)
                   /\ s.plug => Holds(s.node, a, Plug, s.plugPort)

\* A settled app is where its row says, and so is its plugin.
SettledHolds(a) ==
    settled[a] =>
        /\ Holds(app[a].node, a, a, app[a].port)
        /\ a = Owner /\ plugin.attached => Holds(app[a].node, a, Plug, plugin.port)

-----------------------------------------------------------------------------
(* The constants, and the least of a set *)

LEMMA RouteConstants ==
    /\ Owner \in Apps /\ Apps \subseteq Nat \ {0}
    /\ Plug \notin Apps \cup {Free, Foreign, 0} /\ {Free, Foreign} \cap Apps = {}
    /\ Plug \in Nat /\ Free # Foreign
    /\ HostPorts \subseteq Nat \ {0} /\ {1, 2} \subseteq HostPorts
    /\ 1 .. LastPort \subseteq HostPorts /\ LastPort \in HostPorts
    /\ NoNode \notin RouteNodes
BY RoutesAssumption DEF Owner, Apps, Plug, Free, Foreign, HostPorts

LEMMA MinOf ==
    ASSUME NEW S, S \subseteq Nat, S # {}
    PROVE  Min(S) \in S /\ \A y \in S : Min(S) <= y
<1>1. PICK x \in S : \A y \in S : ~(<<y, x>> \in OpToRel(<, Nat))
  BY NatLessThanWellFounded, WFMin
<1>2. ASSUME NEW y \in S, y < x
      PROVE  FALSE
  <2>1. <<y, x>> \in OpToRel(<, Nat)
    BY <1>2 DEF OpToRel
  <2>2. QED
    BY <1>1, <2>1
<1>3. \A y \in S : x <= y
  BY <1>2
<1>4. QED
  BY <1>3 DEF Min

-----------------------------------------------------------------------------
(* What a script does to a node's ports *)

Containers == Apps \cup {Plug}

\* From m to w, the containers but x stay where they are.
OthersStay(m, w, x) ==
    \A y \in Containers \ {x}, p \in HostPorts : (w[p] = y) = (m[p] = y)

LEMMA ContainerFacts == Containers \subseteq Holders /\ Free \notin Containers
BY RouteConstants DEF Containers, Holders

LEMMA WithoutKeeps ==
    ASSUME NEW m \in PortMap, OncePublished(m), NEW x \in Containers
    PROVE  /\ Without(m, x) \in PortMap /\ OncePublished(Without(m, x))
           /\ OthersStay(m, Without(m, x), x)
           /\ \A p \in HostPorts : Without(m, x)[p] # x
<1>1. \A p \in HostPorts : Without(m, x)[p] = IF m[p] = x THEN Free ELSE m[p]
  BY DEF Without
<1>2. Without(m, x) \in PortMap
  BY DEF Without, PortMap, Holders
<1>3. OncePublished(Without(m, x)) /\ OthersStay(m, Without(m, x), x)
  BY <1>1, ContainerFacts DEF OncePublished, OthersStay, Containers
<1>4. QED
  BY <1>1, <1>2, <1>3, ContainerFacts

LEMMA PublishedKeeps ==
    ASSUME NEW m \in PortMap, OncePublished(m), NEW x \in Containers,
           NEW from \in Int, NEW tries \in Int
    PROVE  LET r == Published(m, x, from, tries) IN
           /\ r.on \in PortMap /\ OncePublished(r.on) /\ OthersStay(m, r.on, x)
           /\ r.ok \in BOOLEAN /\ r.port \in Ports
           /\ r.ok => /\ r.port \in HostPorts /\ r.on[r.port] = x
                      /\ r.port \in from .. from + tries - 1
<1> DEFINE w == Without(m, x)
           open == FreePorts(w, from, tries)
<1>1. /\ w \in PortMap /\ OncePublished(w) /\ OthersStay(m, w, x)
      /\ \A p \in HostPorts : w[p] # x
  BY WithoutKeeps
<1>2. Published(m, x, from, tries) = IF open = {} THEN [on |-> w, ok |-> FALSE, port |-> NoPort]
                                     ELSE [on |-> With(w, x, Min(open)), ok |-> TRUE, port |-> Min(open)]
  BY DEF Published
<1> HIDE DEF w
<1>3. open \subseteq HostPorts /\ open \subseteq from .. from + tries - 1
      /\ \A p \in open : w[p] = Free
  BY DEF FreePorts
<1> HIDE DEF open
<1>4. CASE open = {}
  BY <1>1, <1>2, <1>4 DEF Ports
<1>5. CASE open # {}
  <2>1. Min(open) \in open
    BY <1>3, <1>5, MinOf, RouteConstants
  <2>2. PICK q \in HostPorts : q = Min(open) /\ q \in from .. from + tries - 1 /\ w[q] = Free
    BY <2>1, <1>3
  <2>3. \A p \in HostPorts : With(w, x, q)[p] = IF p = q THEN x ELSE w[p]
    BY <1>1 DEF With, PortMap
  <2>4. With(w, x, q) \in PortMap
    BY <1>1, ContainerFacts DEF With, PortMap
  <2>5. OncePublished(With(w, x, q))
    BY <1>1, <2>2, <2>3, ContainerFacts DEF OncePublished, Containers
  <2>6. OthersStay(m, With(w, x, q), x)
    BY <1>1, <2>2, <2>3, ContainerFacts DEF OthersStay
  <2>7. Published(m, x, from, tries) = [on |-> With(w, x, q), ok |-> TRUE, port |-> q]
    BY <1>2, <1>5, <2>2
  <2>8. QED
    BY <2>2, <2>3, <2>4, <2>5, <2>6, <2>7 DEF Ports
<1>6. QED
  BY <1>4, <1>5

\* The plugin's part of the script of a.
LEMMA PluginRunKeeps ==
    ASSUME NEW m \in PortMap, OncePublished(m), NEW a \in Apps, NEW s \in ShipRow,
           NEW anew \in BOOLEAN
    PROVE  LET r == PluginRun(a, s, m, anew) IN
           /\ r.on \in PortMap /\ OncePublished(r.on) /\ OthersStay(m, r.on, Plug)
           /\ a # Owner => r.on = m /\ r.port = NoPort
           /\ r.ok \in BOOLEAN /\ r.port \in Ports
           /\ r.ok /\ a = Owner /\ s.plug => r.port \in HostPorts /\ r.on[r.port] = Plug
<1>1. Plug \in Containers
  BY DEF Containers
<1>2. OthersStay(m, m, Plug)
  BY DEF OthersStay
<1>3. CASE a # Owner
  BY <1>2, <1>3 DEF PluginRun, Ports
<1>4. CASE a = Owner /\ ~s.plug
  BY <1>1, <1>4, WithoutKeeps DEF PluginRun, Ports
<1>5. CASE a = Owner /\ s.plug /\ PortsOf(m, Plug) # {} /\ ~anew
  <2>1. Min(PortsOf(m, Plug)) \in PortsOf(m, Plug)
    BY <1>5, MinOf, RouteConstants DEF PortsOf
  <2>2. PICK q \in HostPorts : q = Min(PortsOf(m, Plug)) /\ m[q] = Plug
    BY <2>1 DEF PortsOf
  <2>3. PluginRun(a, s, m, anew) = [on |-> m, ok |-> TRUE, port |-> q]
    BY <1>5, <2>2 DEF PluginRun
  <2>4. QED
    BY <1>2, <1>5, <2>2, <2>3 DEF Ports
<1>6. CASE a = Owner /\ s.plug /\ ~(PortsOf(m, Plug) # {} /\ ~anew)
  <2>1. PICK f \in Ports : f = Min({s.plugFrom, LastPort})
    <3>1. s.plugFrom \in Ports /\ LastPort \in HostPorts /\ HostPorts \subseteq Nat
      BY RouteConstants DEF ShipRow
    <3>2. {s.plugFrom, LastPort} \subseteq Ports /\ Ports \subseteq Nat
      BY <3>1 DEF Ports, NoPort
    <3>3. Min({s.plugFrom, LastPort}) \in {s.plugFrom, LastPort}
      BY <3>2, MinOf
    <3>4. QED
      BY <3>2, <3>3
  <2>2. PluginRun(a, s, m, anew) = Published(m, Plug, f, Tries)
    BY <1>6, <2>1 DEF PluginRun
  <2>3. f \in Int /\ Tries \in Int
    BY RouteConstants, RoutesAssumption DEF Ports, NoPort
  <2>4. QED
    BY <1>1, <1>6, <2>2, <2>3, PublishedKeeps
<1>7. QED
  BY <1>3, <1>4, <1>5, <1>6 DEF ShipRow

\* The script of a as a whole: where the app got to, and its plugin.
Script(a, s, m, anew) ==
    LET pl == PluginRun(a, s, m, anew) IN
    IF pl.ok THEN Published(pl.on, a, s.from, IF s.auto THEN Tries ELSE 1) ELSE pl

LEMMA ScriptKeeps ==
    ASSUME NEW m \in PortMap, OncePublished(m), NEW a \in Apps, NEW s \in ShipRow,
           NEW anew \in BOOLEAN
    PROVE  LET pl == PluginRun(a, s, m, anew)
               run == Script(a, s, m, anew)
           IN /\ run.on \in PortMap /\ OncePublished(run.on)
              /\ \A y \in Containers \ Own(a), p \in HostPorts : (run.on[p] = y) = (m[p] = y)
              /\ run.ok \in BOOLEAN /\ run.port \in Ports /\ pl.port \in Ports
              /\ a # Owner => pl.port = NoPort
              /\ run.ok => /\ run.port \in HostPorts /\ run.on[run.port] = a
                           /\ ~s.auto => run.port = s.from
                           /\ a = Owner /\ s.plug => /\ pl.port \in HostPorts
                                                     /\ run.on[pl.port] = Plug
<1> DEFINE pl == PluginRun(a, s, m, anew)
           tries == IF s.auto THEN Tries ELSE 1
           put == Published(pl.on, a, s.from, tries)
<1>1. /\ pl.on \in PortMap /\ OncePublished(pl.on) /\ OthersStay(m, pl.on, Plug)
      /\ a # Owner => pl.on = m /\ pl.port = NoPort
      /\ pl.ok \in BOOLEAN /\ pl.port \in Ports
      /\ pl.ok /\ a = Owner /\ s.plug => pl.port \in HostPorts /\ pl.on[pl.port] = Plug
  BY PluginRunKeeps
<1> HIDE DEF pl
<1>2. s.from \in Int /\ tries \in Int /\ a \in Containers /\ a # Plug /\ Plug \in Containers
  <2>1. s.from \in Ports
    BY DEF ShipRow
  <2>2. Ports \subseteq Int
    BY RouteConstants DEF Ports, NoPort
  <2>3. tries \in Int
    BY RoutesAssumption
  <2>4. a \in Containers /\ a # Plug /\ Plug \in Containers
    BY RouteConstants DEF Containers
  <2>5. QED
    BY <2>1, <2>2, <2>3, <2>4
<1>3. /\ put.on \in PortMap /\ OncePublished(put.on) /\ OthersStay(pl.on, put.on, a)
      /\ put.ok \in BOOLEAN /\ put.port \in Ports
      /\ put.ok => /\ put.port \in HostPorts /\ put.on[put.port] = a
                   /\ put.port \in s.from .. s.from + tries - 1
  <2> HIDE DEF tries
  <2>1. QED
    BY <1>1, <1>2, PublishedKeeps
<1>4. put.ok /\ ~s.auto => put.port = s.from
  BY <1>2, <1>3
<1> HIDE DEF put
<1>5. CASE pl.ok
  <2>1. \A y \in Containers \ Own(a), p \in HostPorts : (put.on[p] = y) = (m[p] = y)
    BY <1>1, <1>3 DEF OthersStay, Own
  <2>2. put.ok /\ a = Owner /\ s.plug => put.on[pl.port] = Plug
    BY <1>1, <1>2, <1>3, <1>5 DEF OthersStay
  <2>3. QED
    BY <1>1, <1>3, <1>4, <1>5, <2>1, <2>2 DEF put, pl, tries, Script
<1>6. CASE ~pl.ok
  <2>1. \A y \in Containers \ Own(a), p \in HostPorts : (pl.on[p] = y) = (m[p] = y)
    BY <1>1 DEF OthersStay, Own
  <2>2. QED
    BY <1>1, <1>6, <2>1 DEF pl, Script
<1>7. QED
  BY <1>1, <1>5, <1>6

-----------------------------------------------------------------------------
(* What Dispatch queues *)

LEMMA PortsOfRows ==
    /\ NoPort \in Ports /\ HostPorts \subseteq Ports /\ 1 .. LastPort \subseteq Ports
    /\ NoPort \notin HostPorts /\ {1, 2} \subseteq Ports
BY RouteConstants DEF Ports, NoPort

LEMMA RowsOf ==
    /\ NoApp \in AppRow /\ NoPlugin \in PluginRow /\ NoEdit \in EditRow /\ NoShip \in ShipRow
    /\ NoTarget \in Target /\ NoRoutes \in [Served -> Target] /\ NoUpdate \in UpdateRow
<1>1. NoApp \in AppRow /\ NoPlugin \in PluginRow /\ NoTarget \in Target
  BY PortsOfRows DEF NoApp, AppRow, NoPlugin, PluginRow, NoTarget, Target, Statuses, SomeNode, SomePlace
<1>2. NoEdit \in EditRow
  BY <1>1 DEF NoEdit, EditRow
<1>3. NoShip \in ShipRow
  BY PortsOfRows DEF NoShip, ShipRow, SomeNode
<1>4. NoRoutes \in [Served -> Target]
  BY <1>1 DEF NoRoutes
<1>5. NoUpdate \in UpdateRow
  BY <1>4 DEF NoUpdate, UpdateRow, SomeNode
<1>6. QED
  BY <1>1, <1>2, <1>3, <1>4, <1>5

LEMMA PreferredPort ==
    ASSUME NEW a \in Apps, NEW r \in AppRow, NEW n \in RouteNodes, NEW heard \in BOOLEAN
    PROVE  Preferred(a, r, n, heard) \in Ports
<1> DEFINE used == UsedHostPorts(a, n, heard)
           open == (1 .. LastPort) \ used
<1>1. Preferred(a, r, n, heard) = IF r.node = n /\ r.port \in HostPorts \ used THEN r.port
                                  ELSE IF open = {} THEN NoPort ELSE Min(open)
  BY DEF Preferred
<1>2. open # {} => Min(open) \in open
  BY MinOf, RouteConstants
<1> HIDE DEF used
<1>3. QED
  BY <1>1, <1>2, PortsOfRows

\* The job s takes the row r of a to n.
Orders(a, r, n, s) ==
    /\ s \in ShipRow /\ s.step = "queued" /\ s.node = n /\ ~s.ok
    /\ s.auto = ~Fixed(r) /\ s.from \in HostPorts /\ (~s.auto => s.from = r.port)
    /\ s.plug = (a = Owner /\ plugin'.attached) /\ s.plugPort = NoPort

LEMMA DispatchDoes ==
    ASSUME RowsTyped, plugin' \in PluginRow, NEW a \in Apps, NEW r \in AppRow,
           NEW n \in RouteNodes, Dispatch(a, r, n)
    PROVE  /\ ship[a].step = "none" /\ settled' = [settled EXCEPT ![a] = FALSE]
           /\ \E s : Orders(a, r, n, s) /\ ship' = [ship EXCEPT ![a] = s]
<1>1. PICK heard \in BOOLEAN : ship' = [ship EXCEPT ![a] = Shipment(a, r, n, heard)]
  BY DEF Dispatch
<1> DEFINE s == Shipment(a, r, n, heard)
           from == IF Fixed(r) THEN r.port ELSE Preferred(a, r, n, heard)
           plugFrom == IF plugin'.port = NoPort THEN 1 ELSE plugin'.port
<1>2. from \in Ports /\ plugFrom \in Ports
  BY PreferredPort, PortsOfRows DEF AppRow, PluginRow
<1>3. s = [NoShip EXCEPT !.step = "queued", !.node = n, !.auto = ~Fixed(r), !.from = from,
                         !.plug = (a = Owner /\ plugin'.attached), !.plugFrom = plugFrom]
  BY DEF Shipment
<1> HIDE DEF from, plugFrom, s
<1>4. plugin'.attached \in BOOLEAN /\ n \in SomeNode
  BY DEF PluginRow, SomeNode
<1>5. s \in ShipRow
  BY <1>2, <1>3, <1>4, RowsOf DEF ShipRow
<1>6. /\ s.step = "queued" /\ s.node = n /\ ~s.ok /\ s.auto = ~Fixed(r) /\ s.from = from
      /\ s.plug = (a = Owner /\ plugin'.attached) /\ s.plugPort = NoPort
  BY <1>3, RowsOf DEF NoShip
<1>7. ship'[a].from # NoPort /\ ship'[a] = s
  BY <1>1 DEF Dispatch, RowsTyped, s
<1>8. s.from \in HostPorts
  BY <1>2, <1>6, <1>7 DEF Ports
<1>9. ~s.auto => s.from = r.port
  BY <1>6 DEF from
<1>10. QED
  BY <1>1, <1>5, <1>6, <1>8, <1>9 DEF Orders, Dispatch, s

-----------------------------------------------------------------------------
(* Types *)

RoutesTyped ==
    /\ RowsTyped /\ BoundTyped /\ NginxTyped
    /\ \A n \in RouteNodes : OncePublished(bound[n])

LEMMA RowChanges ==
    ASSUME NEW r \in AppRow
    PROVE  /\ \A st \in Statuses : [r EXCEPT !.status = st] \in AppRow
           /\ \A st \in Statuses, n \in SomeNode : [r EXCEPT !.status = st, !.node = n] \in AppRow
           /\ \A pl \in SomePlace, p \in Ports, auto \in BOOLEAN :
                 [r EXCEPT !.place = pl, !.port = p, !.auto = auto] \in AppRow
           /\ \A s \in ShipRow : RowWithPort(r, s) \in AppRow
BY DEF AppRow, RowWithPort, ShipRow

LEMMA DispatchTyped ==
    ASSUME RowsTyped, plugin' \in PluginRow, NEW a \in Apps, NEW r \in AppRow,
           NEW n \in RouteNodes, Dispatch(a, r, n)
    PROVE  /\ ship' \in [Apps -> ShipRow] /\ settled' \in [Apps -> BOOLEAN]
           /\ \A b \in Apps : ship'[b].step # "none" => ship'[b].node \in RouteNodes
<1>1. settled' = [settled EXCEPT ![a] = FALSE]
      /\ \E s : Orders(a, r, n, s) /\ ship' = [ship EXCEPT ![a] = s]
  BY DispatchDoes
<1>2. ship' \in [Apps -> ShipRow]
  BY <1>1 DEF Orders, RowsTyped
<1>3. settled' \in [Apps -> BOOLEAN]
  BY <1>1, Zenon DEF RowsTyped
<1>4. \A b \in Apps : ship'[b].step # "none" => ship'[b].node \in RouteNodes
  BY <1>1 DEF Orders, RowsTyped
<1>5. QED
  BY <1>2, <1>3, <1>4

\* What RunDeploy leaves: nothing after a failed pull, or the script's work.
Leaves(a, w, ok, port, plugPort) ==
    LET s == ship[a] IN
    /\ w \in PortMap /\ OncePublished(w)
    /\ \A y \in Containers \ Own(a), p \in HostPorts : (w[p] = y) = (bound[s.node][p] = y)
    /\ ok \in BOOLEAN /\ port \in Ports /\ plugPort \in Ports
    /\ a # Owner => plugPort = NoPort
    /\ ok => /\ port \in HostPorts /\ w[port] = a
             /\ ~s.auto => port = s.from
             /\ a = Owner /\ s.plug => plugPort \in HostPorts /\ w[plugPort] = Plug

LEMMA RunDeployDoes ==
    ASSUME RoutesTyped, NEW a \in Apps, RunDeploy(a)
    PROVE  /\ ship[a].step = "queued" /\ <<ship[a].node, a>> \notin leaving
           /\ ship[a].node \in RouteNodes
           /\ \/ ship' = [ship EXCEPT ![a].step = "ran"] /\ UNCHANGED bound
              \/ \E w, ok, port, plugPort :
                    /\ Leaves(a, w, ok, port, plugPort)
                    /\ bound' = [bound EXCEPT ![ship[a].node] = w]
                    /\ ship' = [ship EXCEPT ![a].step = "ran", ![a].ok = ok,
                                            ![a].port = port, ![a].plugPort = plugPort]
<1> DEFINE s == ship[a]
           m == bound[s.node]
<1>1. s.step = "queued" /\ <<s.node, a>> \notin leaving /\ s \in ShipRow /\ s.node \in RouteNodes
  BY DEF RunDeploy, RoutesTyped, RowsTyped
<1>2. m \in PortMap /\ OncePublished(m)
  BY <1>1 DEF RoutesTyped, BoundTyped
<1>3. CASE ship' = [ship EXCEPT ![a].step = "ran"] /\ UNCHANGED bound
  BY <1>1, <1>3
<1>4. CASE ~(ship' = [ship EXCEPT ![a].step = "ran"] /\ UNCHANGED bound)
  <2> DEFINE pl(anew) == PluginRun(a, s, m, anew)
             run(anew) == Script(a, s, m, anew)
  <2>1. PICK anew \in BOOLEAN, exits \in BOOLEAN :
           /\ bound' = [bound EXCEPT ![s.node] = run(anew).on]
           /\ ship' = [ship EXCEPT ![a].step = "ran", ![a].ok = run(anew).ok /\ ~exits,
                                   ![a].port = run(anew).port, ![a].plugPort = pl(anew).port]
    BY <1>4 DEF RunDeploy, Script
  <2> HIDE DEF s, m
  <2>2. /\ run(anew).on \in PortMap /\ OncePublished(run(anew).on)
        /\ \A y \in Containers \ Own(a), p \in HostPorts : (run(anew).on[p] = y) = (m[p] = y)
        /\ run(anew).ok \in BOOLEAN /\ run(anew).port \in Ports /\ pl(anew).port \in Ports
        /\ a # Owner => pl(anew).port = NoPort
        /\ run(anew).ok => /\ run(anew).port \in HostPorts /\ run(anew).on[run(anew).port] = a
                           /\ ~s.auto => run(anew).port = s.from
                           /\ a = Owner /\ s.plug => /\ pl(anew).port \in HostPorts
                                                     /\ run(anew).on[pl(anew).port] = Plug
    BY <1>1, <1>2, ScriptKeeps
  <2> HIDE DEF pl, run
  <2> USE DEF s, m
  <2>3. Leaves(a, run(anew).on, run(anew).ok /\ ~exits, run(anew).port, pl(anew).port)
    BY <2>1, <2>2 DEF Leaves
  <2>4. QED
    BY <1>1, <2>1, <2>3
<1>5. QED
  BY <1>3, <1>4

LEMMA RowsTypedStep ==
    ASSUME RoutesTyped, RoutesNext
    PROVE  RowsTyped'
<1>1. RowsTyped /\ plugin \in PluginRow
  BY DEF RoutesTyped, RowsTyped
<1>2. ASSUME NEW a \in Apps, NEW n \in RouteNodes, NEW pl \in Places \cup {NoPlace},
             NEW port \in {NoPort, 1}, CreateProject(a, n, pl, port)
      PROVE  RowsTyped'
  <2> DEFINE r == [status |-> "deploying", node |-> NoNode, port |-> port,
                   auto |-> port = NoPort, place |-> pl]
  <2>1. r \in AppRow
    BY PortsOfRows DEF AppRow, Statuses, SomeNode, SomePlace
  <2>2. app' = [app EXCEPT ![a] = r] /\ Dispatch(a, app'[a], n)
        /\ UNCHANGED <<plugin, edit, leaving>>
    BY <1>2 DEF CreateProject
  <2> HIDE DEF r
  <2>3. app' \in [Apps -> AppRow] /\ app'[a] = r
    BY <1>1, <2>1, <2>2 DEF RowsTyped
  <2>4. QED
    BY <1>1, <2>1, <2>2, <2>3, DispatchTyped DEF RowsTyped
<1>3. ASSUME NEW a \in Apps, NEW n \in RouteNodes, Redispatch(a, n)
      PROVE  RowsTyped'
  <2>1. Dispatch(a, app[a], n) /\ UNCHANGED <<app, plugin, edit, leaving>>
    BY <1>3 DEF Redispatch, routeRowVars
  <2>2. QED
    BY <1>1, <2>1, DispatchTyped DEF RowsTyped
<1>4. ASSUME NEW a \in Apps, NEW n \in RouteNodes, RemoveContainer(n, a)
      PROVE  RowsTyped'
  BY <1>1, <1>4 DEF RemoveContainer, routeRowVars, RowsTyped
<1>5. ASSUME NEW a \in Apps, NEW pl \in Places \cup {NoPlace},
             NEW ports \in {<<app[a].port, app[a].auto>>, <<NoPort, TRUE>>, <<2, FALSE>>},
             EditRowRead(a, pl, ports)
      PROVE  RowsTyped'
  <2>1. ports[1] \in Ports /\ ports[2] \in BOOLEAN
    <3>1. app[a].port \in Ports /\ app[a].auto \in BOOLEAN
      BY <1>1 DEF RowsTyped, AppRow
    <3>2. CASE ports = <<app[a].port, app[a].auto>>
      BY <3>1, <3>2
    <3>3. NoPort \in Ports /\ 2 \in Ports
      BY PortsOfRows
    <3>4. CASE ports = <<NoPort, TRUE>>
      BY <3>3, <3>4
    <3>5. CASE ports = <<2, FALSE>>
      BY <3>3, <3>5
    <3>6. QED
      BY <3>2, <3>4, <3>5
  <2>2. [app[a] EXCEPT !.place = pl, !.port = ports[1], !.auto = ports[2]] \in AppRow
    BY <1>1, <2>1, RowChanges DEF RowsTyped, SomePlace
  <2>3. edit' \in EditRow
    BY <1>1, <1>5, <2>2 DEF EditRowRead, EditRow, RowsTyped
  <2>4. QED
    BY <1>1, <1>5, <2>3 DEF EditRowRead, portVars, RowsTyped
<1>6. ASSUME NEW a \in Apps, NEW status \in {"running", "stopped"}, UpdateProjectStatus(a, status)
      PROVE  RowsTyped'
  <2>1. [app[a] EXCEPT !.status = status] \in AppRow
    BY <1>1, RowChanges DEF RowsTyped, Statuses
  <2>2. QED
    BY <1>1, <1>6, <2>1 DEF UpdateProjectStatus, portVars, RowsTyped
<1>7. ASSUME NEW a \in Apps, DeleteProjectRow(a)
      PROVE  RowsTyped'
  <2>1. [NoApp EXCEPT !.status = "deleted"] \in AppRow
    BY RowsOf, RowChanges DEF Statuses
  <2>2. app' \in [Apps -> AppRow] /\ plugin' \in PluginRow
    BY <1>1, <1>7, <2>1, RowsOf DEF DeleteProjectRow, RowsTyped
  <2>3. leaving' \subseteq RouteNodes \X Apps
    BY <1>1, <1>7 DEF DeleteProjectRow, RowsTyped, AppRow, SomeNode
  <2>4. settled' \in [Apps -> BOOLEAN]
    BY <1>1, <1>7, Zenon DEF DeleteProjectRow, RowsTyped
  <2>5. QED
    BY <1>1, <1>7, <2>2, <2>3, <2>4 DEF DeleteProjectRow, RowsTyped
<1>8. ASSUME NEW a \in Apps, JudgeHealth(a)
      PROVE  RowsTyped'
  <2>1. app' \in [Apps -> AppRow]
    BY <1>1, <1>8, RowChanges DEF JudgeHealth, RowsTyped, Statuses
  <2>2. QED
    BY <1>1, <1>8, <2>1 DEF JudgeHealth, portVars, RowsTyped
<1>9. ASSUME NEW a \in Apps, RunDeploy(a)
      PROVE  RowsTyped'
  <2>1. UNCHANGED <<app, plugin, edit, leaving, settled>> /\ ship[a].step = "queued"
        /\ ship[a].node \in RouteNodes /\ ship[a] \in ShipRow
    BY <1>1, <1>9, RunDeployDoes DEF RunDeploy, routeRowVars, RowsTyped
  <2>2. \E s \in ShipRow : ship' = [ship EXCEPT ![a] = s] /\ s.node = ship[a].node
    <3>1. CASE ship' = [ship EXCEPT ![a].step = "ran"]
      <4>1. [ship[a] EXCEPT !.step = "ran"] \in ShipRow /\ [ship[a] EXCEPT !.step = "ran"].node = ship[a].node
        BY <2>1 DEF ShipRow
      <4>2. QED
        BY <3>1, <4>1, <1>1 DEF RowsTyped
    <3>2. ASSUME NEW w, NEW ok, NEW port, NEW plugPort, Leaves(a, w, ok, port, plugPort),
                 ship' = [ship EXCEPT ![a].step = "ran", ![a].ok = ok,
                                      ![a].port = port, ![a].plugPort = plugPort]
          PROVE  \E s \in ShipRow : ship' = [ship EXCEPT ![a] = s] /\ s.node = ship[a].node
      <4> DEFINE s == [ship[a] EXCEPT !.step = "ran", !.ok = ok, !.port = port, !.plugPort = plugPort]
      <4>1. s \in ShipRow /\ s.node = ship[a].node
        BY <2>1, <3>2 DEF ShipRow, Leaves
      <4>2. ship' = [ship EXCEPT ![a] = s]
        BY <3>2, <1>1 DEF RowsTyped
      <4>3. QED
        BY <4>1, <4>2
    <3>3. QED
      BY <1>9, <3>1, <3>2, RunDeployDoes
  <2>3. QED
    BY <1>1, <2>1, <2>2 DEF RowsTyped
<1>10. ASSUME NEW a \in Apps, RecordFailedDeploy(a)
      PROVE  RowsTyped'
  <2>1. app' \in [Apps -> AppRow]
    BY <1>1, <1>10, RowChanges DEF RecordFailedDeploy, RowsTyped, Statuses
  <2>2. ship' \in [Apps -> ShipRow] /\ ship' = [ship EXCEPT ![a] = NoShip] /\ NoShip.step = "none"
    BY <1>1, <1>10, RowsOf DEF RecordFailedDeploy, RowsTyped, NoShip
  <2>3. QED
    BY <1>1, <1>10, <2>1, <2>2 DEF RecordFailedDeploy, RowsTyped
<1>11. ASSUME NEW a \in Apps, RecordNode(a)
      PROVE  RowsTyped'
  <2>1. app' \in [Apps -> AppRow]
    BY <1>1, <1>11, RowChanges DEF RecordNode, RowsTyped, Statuses, ShipRow
  <2>2. leaving' \subseteq RouteNodes \X Apps
    BY <1>1, <1>11 DEF RecordNode, RowsTyped, AppRow, SomeNode
  <2>3. ship' \in [Apps -> ShipRow] /\ \A b \in Apps : ship'[b].step # "none" => ship'[b].node \in RouteNodes
    BY <1>1, <1>11 DEF RecordNode, RowsTyped, ShipRow
  <2>4. QED
    BY <1>1, <1>11, <2>1, <2>2, <2>3 DEF RecordNode, RowsTyped
<1>12. ASSUME NEW a \in Apps, RecordPorts(a)
      PROVE  RowsTyped'
  <2>1. app' \in [Apps -> AppRow]
    BY <1>1, <1>12, RowChanges DEF RecordPorts, RowsTyped
  <2>2. plugin' \in PluginRow
    BY <1>1, <1>12 DEF RecordPorts, RowsTyped, PluginRow, ShipRow
  <2>3. ship' \in [Apps -> ShipRow] /\ ship' = [ship EXCEPT ![a] = NoShip] /\ NoShip.step = "none"
    BY <1>1, <1>12, RowsOf DEF RecordPorts, RowsTyped, NoShip
  <2>4. settled' \in [Apps -> BOOLEAN]
    BY <1>1, <1>12, Zenon DEF RecordPorts, RowsTyped
  <2>5. QED
    BY <1>1, <1>12, <2>1, <2>2, <2>3, <2>4 DEF RecordPorts, RowsTyped
<1>13. ASSUME EditRowSave
      PROVE  RowsTyped'
  <2> DEFINE a == edit.app
  <2>1. a \in Apps /\ edit.new \in AppRow /\ edit' \in EditRow
    BY <1>1, <1>13, RowsOf DEF EditRowSave, RowsTyped, EditRow
  <2>2. app' \in [Apps -> AppRow] /\ UNCHANGED <<plugin, leaving>>
    BY <1>1, <1>13, <2>1 DEF EditRowSave, RowsTyped
  <2>3. CASE \E n \in IF edit.new.node = NoNode THEN RouteNodes ELSE {edit.new.node} :
                Dispatch(a, edit.new, n)
    <3>1. PICK n \in RouteNodes : Dispatch(a, edit.new, n)
      BY <2>1, <2>3 DEF AppRow, SomeNode
    <3>2. QED
      BY <1>1, <2>1, <2>2, <3>1, DispatchTyped DEF RowsTyped
  <2>4. CASE settled' = [settled EXCEPT ![a] = @ /\ app[a] = edit.old] /\ UNCHANGED ship
    <3>1. settled' \in [Apps -> BOOLEAN]
      BY <1>1, <2>1, <2>4, Zenon DEF RowsTyped
    <3>2. QED
      BY <1>1, <2>1, <2>2, <2>4, <3>1 DEF RowsTyped
  <2>5. QED
    BY <1>13, <2>3, <2>4 DEF EditRowSave
<1>14. ASSUME NEW pl \in Places \cup {NoPlace}, Attach(pl)
      PROVE  RowsTyped'
  <2>1. plugin' \in PluginRow /\ UNCHANGED <<app, edit, leaving>>
    BY <1>14, PortsOfRows DEF Attach, PluginRow, SomePlace
  <2>2. PICK n \in RouteNodes : Dispatch(Owner, app[Owner], n)
    BY <1>1, <1>14, RouteConstants DEF Attach, OwnersNodes, RowsTyped, AppRow, SomeNode
  <2>3. QED
    BY <1>1, <2>1, <2>2, DispatchTyped, RouteConstants DEF RowsTyped
<1>15. ASSUME NEW pl \in Places \cup {NoPlace}, MovePlugin(pl)
      PROVE  RowsTyped'
  <2>1. plugin' \in PluginRow
    BY <1>1, <1>15 DEF MovePlugin, PluginRow, SomePlace
  <2>2. QED
    BY <1>1, <1>15, <2>1 DEF MovePlugin, portVars, RowsTyped
<1>16. ASSUME Detach
      PROVE  RowsTyped'
  <2>1. plugin' \in PluginRow /\ UNCHANGED <<app, edit, leaving>>
    BY <1>16, RowsOf DEF Detach
  <2>2. PICK n \in RouteNodes : Dispatch(Owner, app[Owner], n)
    BY <1>1, <1>16, RouteConstants DEF Detach, OwnersNodes, RowsTyped, AppRow, SomeNode
  <2>3. QED
    BY <1>1, <2>1, <2>2, DispatchTyped, RouteConstants DEF RowsTyped
<1>17. ASSUME UpdateBegin \/ WriteRoutes \/ IssueCerts
      PROVE  RowsTyped'
  BY <1>1, <1>17 DEF UpdateBegin, WriteRoutes, IssueCerts, routeRowVars, portVars, RowsTyped
<1>18. QED
  BY <1>2, <1>3, <1>4, <1>5, <1>6, <1>7, <1>8, <1>9, <1>10, <1>11, <1>12, <1>13, <1>14, <1>15,
     <1>16, <1>17 DEF RoutesNext

LEMMA BoundTypedStep ==
    ASSUME RoutesTyped, RoutesNext
    PROVE  BoundTyped' /\ \A n \in RouteNodes : OncePublished(bound'[n])
<1>1. bound \in [RouteNodes -> PortMap] /\ \A n \in RouteNodes : OncePublished(bound[n])
  BY DEF RoutesTyped, BoundTyped
<1>2. ASSUME NEW n \in RouteNodes, NEW w \in PortMap, OncePublished(w),
             bound' = [bound EXCEPT ![n] = w]
      PROVE  BoundTyped' /\ \A k \in RouteNodes : OncePublished(bound'[k])
  BY <1>1, <1>2 DEF BoundTyped
<1>3. ASSUME NEW a \in Apps, NEW n \in RouteNodes, RemoveContainer(n, a)
      PROVE  BoundTyped' /\ \A k \in RouteNodes : OncePublished(bound'[k])
  <2> DEFINE w == Without(bound[n], a)
             v == IF a = Owner THEN Without(w, Plug) ELSE w
  <2>1. w \in PortMap /\ OncePublished(w)
    BY <1>1, WithoutKeeps DEF Containers
  <2>2. v \in PortMap /\ OncePublished(v)
    <3> HIDE DEF w
    <3>1. QED
      BY <2>1, WithoutKeeps DEF Containers
  <2>3. bound' = [bound EXCEPT ![n] = v]
    BY <1>3 DEF RemoveContainer
  <2>4. QED
    <3> HIDE DEF v
    <3>1. QED
      BY <1>2, <2>2, <2>3
<1>4. ASSUME NEW a \in Apps, RunDeploy(a)
      PROVE  BoundTyped' /\ \A k \in RouteNodes : OncePublished(bound'[k])
  <2>1. ship[a].node \in RouteNodes
    BY <1>4, RunDeployDoes
  <2>2. CASE UNCHANGED bound
    BY <1>1, <2>2 DEF BoundTyped
  <2>3. ASSUME NEW w, NEW ok, NEW port, NEW plugPort, Leaves(a, w, ok, port, plugPort),
               bound' = [bound EXCEPT ![ship[a].node] = w]
        PROVE  BoundTyped' /\ \A k \in RouteNodes : OncePublished(bound'[k])
    BY <1>2, <2>1, <2>3 DEF Leaves
  <2>4. QED
    BY <1>4, <2>2, <2>3, RunDeployDoes
<1>5. CASE UNCHANGED bound
  BY <1>1, <1>5 DEF BoundTyped
<1>6. QED
  BY <1>3, <1>4, <1>5 DEF RoutesNext, CreateProject, Redispatch, EditRowRead, UpdateProjectStatus,
     DeleteProjectRow, JudgeHealth, RecordFailedDeploy, RecordNode, RecordPorts, EditRowSave,
     Attach, MovePlugin, Detach, UpdateBegin, WriteRoutes, IssueCerts, portVars

\* The routes of the rows.
LEMMA RoutesOfRows ==
    ASSUME RowsTyped
    PROVE  /\ AppRoutes \in [Served -> Target] /\ Homes \in [Apps -> SomeNode]
           /\ \A table \in [Served -> Target], homes \in [Apps -> SomeNode] :
                 WithPlugin(table, homes) \in [Served -> Target]
<1> DEFINE here(k) == {a \in Apps : /\ HomeOf(a) # NoNode /\ app[a].place # NoPlace
                                    /\ Place(app[a].place) = k}
<1>1. \A k : here(k) # {} => Min(here(k)) \in here(k)
  BY MinOf, RouteConstants
<1>2. \A a \in Apps : [node |-> app[a].node, port |-> HostPort(app[a])] \in Target
  BY DEF RowsTyped, AppRow, HostPort, Target
<1>3. AppRoutes = [k \in Served |-> IF here(k) = {} THEN NoTarget
                                    ELSE [node |-> app[Min(here(k))].node,
                                          port |-> HostPort(app[Min(here(k))])]]
  BY DEF AppRoutes
<1>4. \A k : here(k) \subseteq Apps
  OBVIOUS
<1> HIDE DEF here
<1>5. AppRoutes \in [Served -> Target]
  BY <1>1, <1>2, <1>3, <1>4, RowsOf
<1>6. Homes \in [Apps -> SomeNode]
  BY DEF Homes, HomeOf, RowsTyped, AppRow, SomeNode
<1>7. ASSUME NEW table \in [Served -> Target], NEW homes \in [Apps -> SomeNode]
      PROVE  WithPlugin(table, homes) \in [Served -> Target]
  <2>1. [node |-> homes[Owner], port |-> plugin.port] \in Target
    BY RouteConstants DEF RowsTyped, PluginRow, Target
  <2>2. QED
    BY <2>1 DEF WithPlugin
<1>8. QED
  BY <1>5, <1>6, <1>7

LEMMA ApplyTyped ==
    ASSUME NginxTyped, NEW table \in [Served -> Target], NEW certs, Apply(table, certs)
    PROVE  /\ nginx' \in [Served -> Target] /\ good' \in BOOLEAN
           /\ \A more : issued \cup certs \subseteq more => secure' \subseteq more
BY DEF NginxTyped, Apply

\* What is not a step of an update only asks for one, or sets a status by hand.
LEMMA OtherSteps ==
    ASSUME RoutesNext, ~UpdateBegin, ~WriteRoutes, ~IssueCerts
    PROVE  /\ UNCHANGED <<update, nginx, secure, issued, good>>
           /\ waiting' = waiting \/ waiting' = waiting + 1
           /\ byHand' = byHand \/ byHand' = TRUE
<1>1. CASE RoutesChanged /\ UNCHANGED otherNginxVars
  BY <1>1 DEF RoutesChanged, otherNginxVars
<1>2. CASE UNCHANGED nginxVars
  BY <1>2 DEF nginxVars
<1>3. CASE \E a \in Apps, status \in {"running", "stopped"} : UpdateProjectStatus(a, status)
  BY <1>3 DEF UpdateProjectStatus
<1>4. CASE \E a \in Apps : \/ \E n \in RouteNodes, pl \in Places \cup {NoPlace}, port \in {NoPort, 1} :
                                CreateProject(a, n, pl, port)
                           \/ \E n \in RouteNodes : Redispatch(a, n) \/ RemoveContainer(n, a)
                           \/ RunDeploy(a) \/ RecordNode(a)
  BY <1>2, <1>4 DEF CreateProject, Redispatch, RemoveContainer, RunDeploy, RecordNode
<1>5. CASE \E a \in Apps : \E pl \in Places \cup {NoPlace},
              ports \in {<<app[a].port, app[a].auto>>, <<NoPort, TRUE>>, <<2, FALSE>>} :
                 EditRowRead(a, pl, ports)
  BY <1>2, <1>5 DEF EditRowRead
<1>6. CASE \E a \in Apps : DeleteProjectRow(a) \/ JudgeHealth(a) \/ RecordFailedDeploy(a) \/ RecordPorts(a)
  BY <1>1, <1>6 DEF DeleteProjectRow, JudgeHealth, RecordFailedDeploy, RecordPorts
<1>7. CASE EditRowSave \/ Detach \/ \E pl \in Places \cup {NoPlace} : MovePlugin(pl)
  BY <1>1, <1>7 DEF EditRowSave, Detach, MovePlugin
<1>8. CASE \E pl \in Places \cup {NoPlace} : Attach(pl)
  BY <1>2, <1>8 DEF Attach
<1>9. QED
  BY <1>3, <1>4, <1>5, <1>6, <1>7, <1>8 DEF RoutesNext

LEMMA NginxTypedStep ==
    ASSUME RoutesTyped, RoutesNext
    PROVE  NginxTyped'
<1>1. NginxTyped /\ RowsTyped
  BY DEF RoutesTyped
<1>2. ASSUME UpdateBegin
      PROVE  NginxTyped'
  <2>1. update' = [step |-> "plugins", table |-> AppRoutes, homes |-> Homes]
    BY <1>2 DEF UpdateBegin, Homes
  <2>2. update' \in UpdateRow
    BY <1>1, <2>1, RoutesOfRows DEF UpdateRow
  <2>3. waiting' \in Nat
    <3>1. waiting \in Nat /\ waiting > 0 /\ waiting' = waiting - 1
      BY <1>1, <1>2 DEF UpdateBegin, NginxTyped
    <3>2. QED
      BY <3>1
  <2>4. QED
    BY <1>1, <1>2, <2>2, <2>3 DEF UpdateBegin, NginxTyped
<1>3. ASSUME WriteRoutes
      PROVE  NginxTyped'
  <2> DEFINE table == WithPlugin(update.table, update.homes)
  <2>1. table \in [Served -> Target]
    BY <1>1, RoutesOfRows DEF NginxTyped, UpdateRow
  <2>2. Apply(table, issued)
    BY <1>3 DEF WriteRoutes
  <2>3. update' = [update EXCEPT !.step = "certs", !.table = table] \/ update' = NoUpdate
    BY <1>3 DEF WriteRoutes
  <2>4. UNCHANGED <<waiting, issued, byHand>>
    BY <1>3 DEF WriteRoutes
  <2> HIDE DEF table
  <2>5. update' \in UpdateRow
    BY <1>1, <2>1, <2>3, RowsOf DEF NginxTyped, UpdateRow
  <2>6. QED
    BY <1>1, <2>1, <2>2, <2>4, <2>5, ApplyTyped DEF NginxTyped
<1>4. ASSUME IssueCerts
      PROVE  NginxTyped'
  <2>1. PICK got : /\ issued' = issued \cup got
                   /\ IF got = {} THEN UNCHANGED <<nginx, secure, good>>
                      ELSE Apply(update.table, issued')
    BY <1>4 DEF IssueCerts
  <2>2. update.table \in [Served -> Target]
    BY <1>1 DEF NginxTyped, UpdateRow
  <2>3. update' \in UpdateRow /\ UNCHANGED <<waiting, byHand>>
    BY <1>4, RowsOf DEF IssueCerts
  <2>4. CASE UNCHANGED <<nginx, secure, good>>
    BY <1>1, <2>1, <2>3, <2>4 DEF NginxTyped
  <2>5. CASE Apply(update.table, issued')
    BY <1>1, <2>1, <2>2, <2>3, <2>5, ApplyTyped DEF NginxTyped
  <2>6. QED
    BY <2>1, <2>4, <2>5
<1>5. ASSUME ~UpdateBegin, ~WriteRoutes, ~IssueCerts
      PROVE  NginxTyped'
  <2>1. /\ UNCHANGED <<update, nginx, secure, issued, good>>
        /\ waiting' = waiting \/ waiting' = waiting + 1
        /\ byHand' = byHand \/ byHand' = TRUE
    BY <1>5, OtherSteps
  <2>2. waiting' \in Nat
    BY <1>1, <2>1 DEF NginxTyped
  <2>3. QED
    BY <1>1, <2>1, <2>2 DEF NginxTyped
<1>6. QED
  BY <1>2, <1>3, <1>4, <1>5

LEMMA RoutesTypedInit == RoutesInit => RoutesTyped
<1> SUFFICES ASSUME RoutesInit PROVE RoutesTyped
  OBVIOUS
<1> DEFINE n == CHOOSE n \in RouteNodes : TRUE
           pl == CHOOSE pl \in Places : TRUE
<1>1. n \in RouteNodes /\ pl \in Places
  BY RoutesAssumption
<1> DEFINE first(p) == [status |-> "running", node |-> n, port |-> p, auto |-> TRUE, place |-> pl]
           ports(m, p) == [q \in HostPorts |-> IF m = n /\ q = p THEN Owner
                                               ELSE IF (m = n) = (p = 2) /\ q = 1 THEN Foreign ELSE Free]
<1>2. PICK p \in {1, 2} :
        /\ app = [a \in Apps |-> IF a = Owner THEN first(p) ELSE NoApp]
        /\ bound = [m \in RouteNodes |-> ports(m, p)]
        /\ nginx = [k \in Served |-> IF k = Place(pl) THEN [node |-> n, port |-> p] ELSE NoTarget]
        /\ plugin = NoPlugin /\ edit = NoEdit
        /\ ship = [a \in Apps |-> NoShip] /\ leaving = {}
        /\ settled = [a \in Apps |-> a = Owner]
        /\ waiting = 0 /\ update = NoUpdate
        /\ secure = {} /\ issued = {}
        /\ good = TRUE /\ byHand = FALSE
  BY DEF RoutesInit
<1> HIDE DEF n, pl
<1>3. p \in Ports /\ n \in SomeNode /\ pl \in SomePlace
  BY <1>1, PortsOfRows DEF SomeNode, SomePlace
<1>4. first(p) \in AppRow /\ [node |-> n, port |-> p] \in Target
  BY <1>3 DEF AppRow, Statuses, Target
<1>5. \A m \in RouteNodes : ports(m, p) \in PortMap /\ OncePublished(ports(m, p))
  BY RouteConstants DEF PortMap, Holders, OncePublished
<1> HIDE DEF first, ports
<1>6. RowsTyped
  <2>1. app \in [Apps -> AppRow]
    BY <1>2, <1>4, RowsOf
  <2>2. settled \in [Apps -> BOOLEAN]
    BY <1>2
  <2>3. ship \in [Apps -> ShipRow] /\ \A a \in Apps : ship[a].step = "none"
    BY <1>2, RowsOf DEF NoShip
  <2>4. QED
    BY <1>2, <2>1, <2>2, <2>3, RowsOf DEF RowsTyped
<1>7. BoundTyped /\ \A m \in RouteNodes : OncePublished(bound[m])
  BY <1>2, <1>5 DEF BoundTyped
<1>8. NginxTyped
  BY <1>2, <1>4, RowsOf DEF NginxTyped
<1>9. QED
  BY <1>6, <1>7, <1>8 DEF RoutesTyped

LEMMA RoutesTypedStep ==
    ASSUME RoutesTyped, [RoutesNext]_routeVars
    PROVE  RoutesTyped'
<1>1. CASE RoutesNext
  BY <1>1, RowsTypedStep, BoundTypedStep, NginxTypedStep DEF RoutesTyped
<1>2. CASE UNCHANGED routeVars
  BY <1>2 DEF RoutesTyped, RowsTyped, BoundTyped, NginxTyped, routeVars, routeRowVars, portVars, nginxVars
<1>3. QED
  BY <1>1, <1>2

LEMMA RoutesTypes == RoutesSpec => []RoutesTyped
BY RoutesTypedInit, RoutesTypedStep, PTL DEF RoutesSpec

\* Whatever is deployed, edited, moved and removed, the rows name nodes and
\* ports there are, nothing that is not there is served over HTTPS without a
\* certificate, and no app's container and no plugin's is published twice on one
\* node: a script takes its old container away before it looks for a port.
THEOREM RoutesTypeCorrect == RoutesSpec => []RoutesTypeOK
<1>1. RoutesTyped => RoutesTypeOK
  <2> SUFFICES ASSUME RoutesTyped PROVE RoutesTypeOK
    OBVIOUS
  <2>1. app \in [Apps -> [status : Statuses, node : RouteNodes \cup {NoNode},
                          port : {NoPort} \cup HostPorts, auto : BOOLEAN, place : Places \cup {NoPlace}]]
        /\ plugin \in [attached : BOOLEAN, place : Places \cup {NoPlace}, port : {NoPort} \cup HostPorts]
    BY DEF RoutesTyped, RowsTyped, AppRow, PluginRow, SomeNode, SomePlace, Ports
  <2>2. bound \in [RouteNodes -> [HostPorts -> {Free, Foreign, Plug} \cup Apps]]
    BY DEF RoutesTyped, BoundTyped, PortMap, Holders
  <2>3. \A n \in RouteNodes, x \in Apps \cup {Plug}, p, q \in HostPorts :
           bound[n][p] = x /\ bound[n][q] = x => p = q
    BY DEF RoutesTyped, OncePublished
  <2>4. leaving \subseteq RouteNodes \X Apps /\ waiting \in Nat /\ secure \subseteq issued
    BY DEF RoutesTyped, RowsTyped, NginxTyped
  <2>5. QED
    BY <2>1, <2>2, <2>3, <2>4 DEF RoutesTypeOK, Statuses
<1>2. QED
  BY <1>1, RoutesTypes, PTL

-----------------------------------------------------------------------------
(* What nginx serves *)

\* Rows of apps that do not run do not matter to the routes.
LEMMA SameRoutes ==
    ASSUME RowsTyped,
           \A a \in Apps : /\ HomeOf(a)' = HomeOf(a)
                           /\ HomeOf(a) # NoNode => app'[a] = app[a]
    PROVE  AppRoutes' = AppRoutes /\ Homes' = Homes
<1> DEFINE here(k) == {a \in Apps : /\ HomeOf(a) # NoNode /\ app[a].place # NoPlace
                                    /\ Place(app[a].place) = k}
           later(k) == {a \in Apps : /\ HomeOf(a)' # NoNode /\ app'[a].place # NoPlace
                                     /\ Place(app'[a].place) = k}
           route(S) == IF S = {} THEN NoTarget
                       ELSE [node |-> app[Min(S)].node, port |-> HostPort(app[Min(S)])]
           laterRoute(S) == IF S = {} THEN NoTarget
                            ELSE [node |-> app'[Min(S)].node, port |-> HostPort(app'[Min(S)])]
<1>1. \A k : later(k) = here(k)
  OBVIOUS
<1>2. \A k : here(k) # {} => Min(here(k)) \in here(k)
  BY MinOf, RouteConstants
<1>3. \A k : laterRoute(here(k)) = route(here(k))
  BY <1>2
<1>4. AppRoutes = [k \in Served |-> route(here(k))]
  BY DEF AppRoutes
<1>5. AppRoutes' = [k \in Served |-> laterRoute(later(k))]
  BY DEF AppRoutes
<1> HIDE DEF here, later, route, laterRoute
<1>6. AppRoutes' = AppRoutes
  BY <1>1, <1>3, <1>4, <1>5
<1>7. Homes' = Homes
  BY DEF Homes
<1>8. QED
  BY <1>6, <1>7

\* Nor does a plugin that has no port yet.
LEMMA SameCurrent ==
    ASSUME AppRoutes' = AppRoutes, Homes' = Homes,
           \/ UNCHANGED plugin
           \/ ~plugin.attached /\ plugin'.port = NoPort
    PROVE  Current' = Current
<1>1. CASE UNCHANGED plugin
  BY <1>1 DEF Current, WithPlugin
<1>2. CASE ~plugin.attached /\ plugin'.port = NoPort
  BY <1>2 DEF Current, WithPlugin
<1>3. QED
  BY <1>1, <1>2

\* A step after which an update waits, or a status or a report is still to be
\* looked at.
LEMMA UntoldStep ==
    ASSUME UpdateFollows, UNCHANGED <<update, nginx, secure, issued, good>>, ~AllTold'
    PROVE  UpdateFollows'
BY DEF UpdateFollows

\* A step that changes no route.
LEMMA QuietStep ==
    ASSUME UpdateFollows, UNCHANGED nginxVars, AppRoutes' = AppRoutes, Homes' = Homes,
           Current' = Current,
           \A a \in Apps : ship[a].step = "noted" => ship'[a].step = "noted"
    PROVE  UpdateFollows'
<1>1. AllTold' => AllTold
  BY DEF AllTold, nginxVars
<1>2. QED
  BY <1>1 DEF UpdateFollows, nginxVars

LEMMA ToldSteps ==
    ASSUME RoutesTyped, UpdateFollows, NEW a \in Apps,
           DeleteProjectRow(a) \/ JudgeHealth(a) \/ RecordFailedDeploy(a) \/ RecordNode(a)
              \/ RecordPorts(a) \/ (\E status \in {"running", "stopped"} : UpdateProjectStatus(a, status))
              \/ EditRowSave \/ Detach \/ (\E pl \in Places \cup {NoPlace} : MovePlugin(pl))
    PROVE  UpdateFollows'
<1>1. CASE RoutesChanged /\ UNCHANGED otherNginxVars
  <2>1. waiting' # 0
    BY <1>1 DEF RoutesChanged, RoutesTyped, NginxTyped
  <2>2. QED
    BY <1>1, <2>1, UntoldStep DEF AllTold, otherNginxVars
<1>2. CASE RecordNode(a)
  <2>1. ship'[a].step = "noted" /\ UNCHANGED nginxVars
    BY <1>2 DEF RecordNode, RoutesTyped, RowsTyped, ShipRow
  <2>2. QED
    BY <2>1, UntoldStep DEF AllTold, nginxVars
<1>3. CASE \E status \in {"running", "stopped"} : UpdateProjectStatus(a, status)
  BY <1>3, UntoldStep DEF UpdateProjectStatus, AllTold
<1>4. QED
  BY <1>1, <1>2, <1>3 DEF DeleteProjectRow, JudgeHealth, RecordFailedDeploy, RecordPorts, EditRowSave,
     Detach, MovePlugin

LEMMA QuietSteps ==
    ASSUME RoutesTyped, UpdateFollows, NEW a \in Apps,
           \/ \E n \in RouteNodes, pl \in Places \cup {NoPlace}, port \in {NoPort, 1} :
                 CreateProject(a, n, pl, port)
           \/ \E n \in RouteNodes : Redispatch(a, n) \/ RemoveContainer(n, a)
           \/ RunDeploy(a)
           \/ \E pl \in Places \cup {NoPlace} : Attach(pl)
           \/ \E pl, ports : EditRowRead(a, pl, ports)
    PROVE  UpdateFollows'
<1>1. RowsTyped /\ plugin \in PluginRow /\ app \in [Apps -> AppRow] /\ Owner \in Apps
  BY RouteConstants DEF RoutesTyped, RowsTyped
<1>2. ASSUME NEW b \in Apps, NEW r \in AppRow, NEW n \in RouteNodes, plugin' \in PluginRow,
             Dispatch(b, r, n)
      PROVE  \A c \in Apps : ship[c].step = "noted" => ship'[c].step = "noted"
  <2>1. ship[b].step = "none" /\ \E s : ship' = [ship EXCEPT ![b] = s]
    BY <1>1, <1>2, DispatchDoes
  <2>2. QED
    BY <1>1, <2>1 DEF RowsTyped
<1>3. ASSUME UNCHANGED app
      PROVE  AppRoutes' = AppRoutes /\ Homes' = Homes
  BY <1>1, <1>3, SameRoutes DEF HomeOf
<1>4. ASSUME UNCHANGED <<app, plugin, nginxVars>>,
             \A c \in Apps : ship[c].step = "noted" => ship'[c].step = "noted"
      PROVE  UpdateFollows'
  BY <1>3, <1>4, SameCurrent, QuietStep
<1>5. ASSUME NEW n \in RouteNodes, NEW pl \in Places \cup {NoPlace}, NEW port \in {NoPort, 1},
             CreateProject(a, n, pl, port)
      PROVE  UpdateFollows'
  <2> DEFINE r == [status |-> "deploying", node |-> NoNode, port |-> port,
                   auto |-> port = NoPort, place |-> pl]
  <2>1. r \in AppRow /\ r.status # "running"
    BY PortsOfRows DEF AppRow, Statuses, SomeNode, SomePlace
  <2>2. /\ app' = [app EXCEPT ![a] = r] /\ Dispatch(a, app'[a], n)
        /\ UNCHANGED <<plugin, nginxVars>> /\ app[a].status = "none"
    BY <1>5 DEF CreateProject
  <2> HIDE DEF r
  <2>3. app'[a] = r
    BY <1>1, <2>2
  <2>4. \A c \in Apps : HomeOf(c)' = HomeOf(c) /\ (HomeOf(c) # NoNode => app'[c] = app[c])
    BY <1>1, <2>1, <2>2 DEF HomeOf
  <2>5. AppRoutes' = AppRoutes /\ Homes' = Homes
    BY <1>1, <2>4, SameRoutes
  <2>6. Current' = Current
    BY <2>2, <2>5, SameCurrent
  <2>7. plugin' \in PluginRow
    BY <1>1, <2>2
  <2>8. QED
    BY <1>2, <2>1, <2>2, <2>3, <2>5, <2>6, <2>7, QuietStep
<1>6. ASSUME NEW n \in RouteNodes, Redispatch(a, n)
      PROVE  UpdateFollows'
  <2>1. UNCHANGED <<app, plugin, nginxVars>> /\ Dispatch(a, app[a], n)
    BY <1>6 DEF Redispatch, routeRowVars
  <2>2. QED
    BY <1>1, <1>2, <1>4, <2>1
<1>7. ASSUME NEW n \in RouteNodes, RemoveContainer(n, a)
      PROVE  UpdateFollows'
  BY <1>4, <1>7 DEF RemoveContainer, routeRowVars
<1>8. ASSUME RunDeploy(a)
      PROVE  UpdateFollows'
  <2>1. UNCHANGED <<app, plugin, nginxVars>>
    BY <1>8 DEF RunDeploy, routeRowVars
  <2>2. ship[a].step = "queued" /\ \A c \in Apps \ {a} : ship'[c] = ship[c]
    <3>1. ship[a].step = "queued" /\ ship \in [Apps -> ShipRow]
      BY <1>1, <1>8, RunDeployDoes DEF RowsTyped
    <3>2. CASE ship' = [ship EXCEPT ![a].step = "ran"]
      BY <3>1, <3>2
    <3>3. ASSUME NEW ok, NEW port, NEW plugPort,
                 ship' = [ship EXCEPT ![a].step = "ran", ![a].ok = ok,
                                      ![a].port = port, ![a].plugPort = plugPort]
          PROVE  \A c \in Apps \ {a} : ship'[c] = ship[c]
      BY <3>1, <3>3
    <3>4. \/ ship' = [ship EXCEPT ![a].step = "ran"]
          \/ \E w, ok, port, plugPort :
                /\ Leaves(a, w, ok, port, plugPort)
                /\ bound' = [bound EXCEPT ![ship[a].node] = w]
                /\ ship' = [ship EXCEPT ![a].step = "ran", ![a].ok = ok,
                                        ![a].port = port, ![a].plugPort = plugPort]
      BY <1>8, RunDeployDoes
    <3>5. QED
      BY <3>1, <3>2, <3>3, <3>4
  <2>3. QED
    BY <1>4, <2>1, <2>2
<1>9. ASSUME NEW pl \in Places \cup {NoPlace}, Attach(pl)
      PROVE  UpdateFollows'
  <2>1. UNCHANGED <<app, nginxVars>> /\ ~plugin.attached
        /\ plugin' = [attached |-> TRUE, place |-> pl, port |-> NoPort]
    BY <1>9 DEF Attach
  <2>2. PICK n \in RouteNodes : Dispatch(Owner, app[Owner], n)
    BY <1>1, <1>9 DEF Attach, OwnersNodes, AppRow, SomeNode
  <2>3. plugin' \in PluginRow /\ plugin'.port = NoPort
    BY <2>1, PortsOfRows DEF PluginRow, SomePlace
  <2>4. AppRoutes' = AppRoutes /\ Homes' = Homes
    BY <1>3, <2>1
  <2>5. Current' = Current
    BY <2>1, <2>3, <2>4, SameCurrent
  <2>6. app[Owner] \in AppRow
    BY <1>1
  <2>7. QED
    BY <1>1, <1>2, <2>1, <2>2, <2>3, <2>4, <2>5, <2>6, QuietStep
<1>10. ASSUME NEW pl, NEW ports, EditRowRead(a, pl, ports)
      PROVE  UpdateFollows'
  BY <1>4, <1>10 DEF EditRowRead, portVars
<1>11. QED
  BY <1>5, <1>6, <1>7, <1>8, <1>9, <1>10

LEMMA UpdateSteps ==
    ASSUME RoutesTyped, UpdateFollows, UpdateBegin \/ WriteRoutes \/ IssueCerts
    PROVE  UpdateFollows'
<1>1. update \in UpdateRow /\ NoUpdate.step = "none"
  BY DEF RoutesTyped, NginxTyped, NoUpdate
<1>2. CASE UpdateBegin
  <2>1. update' = [step |-> "plugins", table |-> AppRoutes, homes |-> Homes]
        /\ UNCHANGED <<routeRowVars, portVars>>
    BY <1>2 DEF UpdateBegin, Homes
  <2>2. AppRoutes' = AppRoutes /\ Homes' = Homes
    BY <2>1 DEF AppRoutes, Homes, HomeOf, routeRowVars
  <2>3. update'.step = "plugins" /\ update'.table = AppRoutes' /\ update'.homes = Homes'
    BY <2>1, <2>2
  <2>4. QED
    BY <2>3 DEF UpdateFollows
<1>3. ASSUME UNCHANGED <<routeRowVars, portVars>>
      PROVE  /\ AppRoutes' = AppRoutes /\ Homes' = Homes /\ Current' = Current
             /\ UNCHANGED <<waiting, byHand>> => AllTold' = AllTold
  <2>1. AppRoutes' = AppRoutes /\ Homes' = Homes /\ UNCHANGED <<plugin, ship>>
    BY <1>3 DEF AppRoutes, Homes, HomeOf, routeRowVars, portVars
  <2>2. QED
    BY <2>1, SameCurrent DEF AllTold
<1>4. CASE WriteRoutes
  <2> DEFINE table == WithPlugin(update.table, update.homes)
  <2>1. /\ update.step = "plugins" /\ Apply(table, issued)
        /\ UNCHANGED <<routeRowVars, portVars, waiting, issued, byHand>>
        /\ update' = IF good' /\ DomainsOf(table) \ issued # {}
                     THEN [update EXCEPT !.step = "certs", !.table = table] ELSE NoUpdate
    BY <1>4 DEF WriteRoutes
  <2>2. AllTold => table = Current
    BY <2>1 DEF UpdateFollows, Current
  <2> HIDE DEF table
  <2>3. good' => nginx' = table /\ secure' = issued' \cap DomainsOf(table)
    BY <2>1 DEF Apply
  <2>4. Current' = Current /\ AllTold' = AllTold
    BY <1>3, <2>1
  <2>5. CASE update' = [update EXCEPT !.step = "certs", !.table = table] /\ good'
    <3>1. update'.step = "certs" /\ update'.table = table
      BY <1>1, <2>5 DEF UpdateRow
    <3>2. QED
      BY <2>2, <2>3, <2>4, <2>5, <3>1 DEF UpdateFollows
  <2>6. CASE update' = NoUpdate
    BY <1>1, <2>2, <2>3, <2>4, <2>6 DEF UpdateFollows
  <2>7. QED
    BY <2>1, <2>5, <2>6
<1>5. CASE IssueCerts
  <2>1. PICK got : /\ issued' = issued \cup got
                   /\ IF got = {} THEN UNCHANGED <<nginx, secure, good>>
                      ELSE Apply(update.table, issued')
    BY <1>5 DEF IssueCerts
  <2>2. update.step = "certs" /\ update' = NoUpdate
        /\ UNCHANGED <<routeRowVars, portVars, waiting, byHand>>
    BY <1>5 DEF IssueCerts
  <2>3. good' => nginx' = update.table /\ secure' = issued' \cap DomainsOf(update.table)
    BY <2>1, <2>2 DEF UpdateFollows, Apply
  <2>4. Current' = Current /\ AllTold' = AllTold
    BY <1>3, <2>2
  <2>5. QED
    BY <1>1, <2>2, <2>3, <2>4 DEF UpdateFollows
<1>6. QED
  BY <1>2, <1>4, <1>5

LEMMA UpdateFollowsStep ==
    ASSUME RoutesTyped, UpdateFollows, [RoutesNext]_routeVars
    PROVE  UpdateFollows'
<1>1. CASE RoutesNext
  <2>1. CASE UpdateBegin \/ WriteRoutes \/ IssueCerts
    BY <2>1, UpdateSteps
  <2>2. CASE \E a \in Apps :
                \/ DeleteProjectRow(a) \/ JudgeHealth(a) \/ RecordFailedDeploy(a) \/ RecordNode(a)
                \/ RecordPorts(a)
                \/ \E status \in {"running", "stopped"} : UpdateProjectStatus(a, status)
    BY <2>2, ToldSteps
  <2>3. CASE EditRowSave \/ Detach \/ \E pl \in Places \cup {NoPlace} : MovePlugin(pl)
    BY <2>3, ToldSteps, RouteConstants
  <2>4. CASE \E a \in Apps :
                \/ \E n \in RouteNodes, pl \in Places \cup {NoPlace}, port \in {NoPort, 1} :
                      CreateProject(a, n, pl, port)
                \/ \E n \in RouteNodes : Redispatch(a, n) \/ RemoveContainer(n, a)
                \/ RunDeploy(a)
                \/ \E pl, ports : EditRowRead(a, pl, ports)
    BY <2>4, QuietSteps
  <2>5. CASE \E pl \in Places \cup {NoPlace} : Attach(pl)
    BY <2>5, QuietSteps, RouteConstants
  <2>6. QED
    BY <1>1, <2>1, <2>2, <2>3, <2>4, <2>5 DEF RoutesNext
<1>2. CASE UNCHANGED routeVars
  <2>1. UNCHANGED <<app, plugin, ship, nginxVars>>
    BY <1>2 DEF routeVars, routeRowVars, portVars
  <2>2. AppRoutes' = AppRoutes /\ Homes' = Homes
    BY <2>1 DEF AppRoutes, Homes, HomeOf
  <2>3. QED
    BY <2>1, <2>2, SameCurrent, QuietStep
<1>3. QED
  BY <1>1, <1>2

\* The first app is the only one that runs, and it is routed to.
LEMMA UpdateFollowsInit == RoutesInit => UpdateFollows
<1> SUFFICES ASSUME RoutesInit PROVE UpdateFollows
  OBVIOUS
<1> DEFINE n == CHOOSE n \in RouteNodes : TRUE
           pl == CHOOSE pl \in Places : TRUE
           first(p) == [status |-> "running", node |-> n, port |-> p, auto |-> TRUE, place |-> pl]
           here(k) == {a \in Apps : /\ HomeOf(a) # NoNode /\ app[a].place # NoPlace
                                    /\ Place(app[a].place) = k}
<1>1. n \in RouteNodes /\ pl \in Places /\ n # NoNode /\ pl # NoPlace /\ Owner \in Apps
  BY RoutesAssumption, RouteConstants
<1>2. PICK p \in {1, 2} :
        /\ app = [a \in Apps |-> IF a = Owner THEN first(p) ELSE NoApp]
        /\ nginx = [k \in Served |-> IF k = Place(pl) THEN [node |-> n, port |-> p] ELSE NoTarget]
        /\ plugin = NoPlugin /\ update = NoUpdate /\ secure = {} /\ issued = {}
  BY DEF RoutesInit
<1> HIDE DEF n, pl
<1>3. /\ app[Owner] = first(p) /\ HomeOf(Owner) = n
      /\ \A a \in Apps : a # Owner => HomeOf(a) = NoNode
  BY <1>1, <1>2 DEF HomeOf, NoApp
<1>4. \A k : here(k) = IF k = Place(pl) THEN {Owner} ELSE {}
  BY <1>1, <1>3
<1>5. Min({Owner}) = Owner
  BY MinOf DEF Owner
<1>6. HostPort(app[Owner]) = p /\ app[Owner].node = n
  BY <1>3 DEF HostPort, NoPort
<1>7. AppRoutes = [k \in Served |-> IF here(k) = {} THEN NoTarget
                                    ELSE [node |-> app[Min(here(k))].node,
                                          port |-> HostPort(app[Min(here(k))])]]
  BY DEF AppRoutes
<1> HIDE DEF here
<1>8. AppRoutes = nginx
  BY <1>2, <1>4, <1>5, <1>6, <1>7
<1>9. Current = AppRoutes
  <2>1. ~plugin.attached
    BY <1>2 DEF NoPlugin
  <2>2. Current = [k \in Served |-> AppRoutes[k]]
    BY <2>1 DEF Current, WithPlugin
  <2>3. QED
    BY <1>2, <1>8, <2>2
<1>10. update.step = "none"
  BY <1>2 DEF NoUpdate
<1>11. QED
  BY <1>2, <1>8, <1>9, <1>10 DEF UpdateFollows

\* Whatever changes while an update is reading the rows, reloading nginx or
\* waiting for certificates: once no update is left, nginx serves exactly what
\* the rows say, over HTTPS where there is a certificate.
THEOREM NginxServesTheRows == RoutesSpec => []RoutesCurrent
<1>1. RoutesTyped /\ UpdateFollows => RoutesCurrent
  BY DEF UpdateFollows, RoutesCurrent, RoutesQuiet, AllTold, Current, Homes
<1>2. RoutesSpec => []UpdateFollows
  BY RoutesTypes, UpdateFollowsInit, UpdateFollowsStep, PTL DEF RoutesSpec
<1>3. QED
  BY <1>1, <1>2, RoutesTypes, PTL

-----------------------------------------------------------------------------
(* An edit under way *)

LEMMA EditFollowsStep ==
    ASSUME RoutesTyped, EditFollows, RoutesNext
    PROVE  EditFollows'
<1>1. app \in [Apps -> AppRow] /\ edit \in EditRow /\ NoEdit.app = 0 /\ edit.app \in {0} \cup Apps
  BY DEF RoutesTyped, RowsTyped, NoEdit, EditRow
<1>2. ASSUME NEW a \in Apps, UNCHANGED edit, \A b \in Apps \ {a} : app'[b] = app[b],
             \/ app'[a].port = app[a].port /\ app'[a].auto = app[a].auto
             \/ app[a].auto /\ app'[a].auto,
             app'[a].status # "none"
      PROVE  EditFollows'
  BY <1>1, <1>2 DEF EditFollows, SamePorts, Fixed
<1>3. CASE UNCHANGED <<app, edit>>
  BY <1>3 DEF EditFollows
<1>4. ASSUME NEW a \in Apps, NEW n \in RouteNodes, NEW pl \in Places \cup {NoPlace},
             NEW port \in {NoPort, 1}, CreateProject(a, n, pl, port)
      PROVE  EditFollows'
  <2> DEFINE r == [status |-> "deploying", node |-> NoNode, port |-> port,
                   auto |-> port = NoPort, place |-> pl]
  <2>1. app' = [app EXCEPT ![a] = r] /\ UNCHANGED edit /\ app[a].status = "none"
    BY <1>4 DEF CreateProject
  <2>2. r.auto \/ r.port # NoPort
    OBVIOUS
  <2> HIDE DEF r
  <2>3. app'[a] = r /\ \A b \in Apps \ {a} : app'[b] = app[b]
    BY <1>1, <2>1
  <2>4. edit.app # a
    BY <1>1, <2>1, RouteConstants DEF EditFollows
  <2>5. QED
    BY <1>1, <2>1, <2>2, <2>3, <2>4 DEF EditFollows
<1>5. ASSUME NEW a \in Apps, NEW pl \in Places \cup {NoPlace},
             NEW ports \in {<<app[a].port, app[a].auto>>, <<NoPort, TRUE>>, <<2, FALSE>>},
             EditRowRead(a, pl, ports)
      PROVE  EditFollows'
  <2>1. ports[2] \/ ports[1] # NoPort
    <3>1. CASE ports = <<app[a].port, app[a].auto>>
      BY <3>1 DEF EditFollows
    <3>2. CASE ports = <<NoPort, TRUE>>
      BY <3>2
    <3>3. CASE ports = <<2, FALSE>>
      BY <3>3 DEF NoPort
    <3>4. QED
      BY <3>1, <3>2, <3>3
  <2> DEFINE new == [app[a] EXCEPT !.place = pl, !.port = ports[1], !.auto = ports[2]]
  <2>2. edit' = [app |-> a, old |-> app[a], new |-> new] /\ UNCHANGED app /\ Exists(a)
    BY <1>5 DEF EditRowRead
  <2>3. new.port = ports[1] /\ new.auto = ports[2] /\ new.node = app[a].node
    BY <1>1 DEF AppRow
  <2> HIDE DEF new
  <2>4. edit'.app = a /\ edit'.old = app[a] /\ edit'.new = new
    BY <2>2
  <2>5. QED
    BY <2>1, <2>2, <2>3, <2>4 DEF EditFollows, SamePorts, Exists
<1>6. ASSUME NEW a \in Apps, NEW status \in {"running", "stopped"}, UpdateProjectStatus(a, status)
      PROVE  EditFollows'
  BY <1>1, <1>2, <1>6 DEF UpdateProjectStatus, AppRow
<1>7. ASSUME NEW a \in Apps, DeleteProjectRow(a)
      PROVE  EditFollows'
  <2>1. app' = [app EXCEPT ![a] = [NoApp EXCEPT !.status = "deleted"]] /\ UNCHANGED edit /\ edit.app # a
    BY <1>7 DEF DeleteProjectRow
  <2>2. app'[a].auto /\ \A b \in Apps \ {a} : app'[b] = app[b]
    BY <1>1, <2>1 DEF NoApp
  <2>3. QED
    BY <1>1, <2>1, <2>2 DEF EditFollows
<1>8. ASSUME NEW a \in Apps, JudgeHealth(a) \/ RecordFailedDeploy(a) \/ RecordNode(a)
      PROVE  EditFollows'
  <2>1. UNCHANGED edit /\ (\A b \in Apps \ {a} : app'[b] = app[b]) /\ app'[a].port = app[a].port
        /\ app'[a].auto = app[a].auto /\ app'[a].status # "none"
    BY <1>1, <1>8 DEF JudgeHealth, RecordFailedDeploy, RecordNode, AppRow
  <2>2. QED
    BY <1>2, <2>1
<1>9. ASSUME NEW a \in Apps, RecordPorts(a)
      PROVE  EditFollows'
  <2>1. UNCHANGED edit /\ app' = [app EXCEPT ![a] = RowWithPort(app[a], ship[a])]
    BY <1>9 DEF RecordPorts
  <2>2. CASE app[a].status # "none"
    <3>1. app[a].auto \/ app[a].port # NoPort
      BY DEF EditFollows
    <3>2. (\A b \in Apps \ {a} : app'[b] = app[b]) /\ app'[a].status # "none"
          /\ \/ app'[a].port = app[a].port /\ app'[a].auto = app[a].auto
             \/ app[a].auto /\ app'[a].auto
      BY <1>1, <2>1, <2>2, <3>1 DEF RowWithPort, AppRow
    <3>3. QED
      BY <1>2, <2>1, <3>2
  <2>3. CASE app[a].status = "none"
    <3>1. edit.app # a /\ (\A b \in Apps \ {a} : app'[b] = app[b])
          /\ (app'[a].auto \/ app'[a].port # NoPort)
      BY <1>1, <2>1, <2>3, RouteConstants DEF EditFollows, RowWithPort, AppRow
    <3>2. QED
      BY <1>1, <2>1, <3>1 DEF EditFollows
  <2>4. QED
    BY <2>2, <2>3
<1>10. ASSUME EditRowSave
      PROVE  EditFollows'
  <2>1. app' = [app EXCEPT ![edit.app] = edit.new] /\ edit' = NoEdit /\ edit.app \in Apps
    BY <1>1, <1>10 DEF EditRowSave
  <2>2. QED
    BY <1>1, <2>1, RouteConstants DEF EditFollows
<1>11. QED
  BY <1>3, <1>4, <1>5, <1>6, <1>7, <1>8, <1>9, <1>10 DEF RoutesNext, Redispatch, RemoveContainer,
     RunDeploy, Attach, MovePlugin, Detach, UpdateBegin, WriteRoutes, IssueCerts, routeRowVars

-----------------------------------------------------------------------------
(* Where the containers are *)

\* What the app b rests on stays as it is.
Untouched(b) ==
    /\ ship'[b] = ship[b] /\ settled'[b] = settled[b]
    /\ app'[b].node = app[b].node /\ app'[b].port = app[b].port /\ app'[b].auto = app[b].auto
    /\ \A n : <<n, b>> \in leaving' => <<n, b>> \in leaving
    /\ \A n \in RouteNodes, p \in HostPorts, x \in Own(b) : bound[n][p] = x => bound'[n][p] = x
    /\ b = Owner => plugin'.attached = plugin.attached /\ plugin'.port = plugin.port

Placed(b) == ShipFollows(b) /\ SettledHolds(b)

LEMMA UntouchedStays ==
    ASSUME NEW b \in Apps, Placed(b), Untouched(b)
    PROVE  Placed(b)'
<1>1. ASSUME NEW n, NEW p, NEW x \in Own(b), Holds(n, b, x, p)
      PROVE  Holds(n, b, x, p)'
  BY <1>1 DEF Untouched, Holds
<1>2. b \in Own(b) /\ (b = Owner => Plug \in Own(b))
  BY DEF Own
<1>3. ShipFollows(b)'
  <2>1. Fixed(app'[b]) = Fixed(app[b])
    BY DEF Untouched, Fixed
  <2>2. ship[b].plug => b = Owner \/ ship[b].step = "none"
    BY DEF Placed, ShipFollows
  <2>3. ship'[b] = ship[b] /\ settled'[b] = settled[b] /\ app'[b].port = app[b].port
        /\ (b = Owner => plugin'.attached = plugin.attached)
    BY DEF Untouched
  <2>4. QED
    BY <1>1, <1>2, <2>1, <2>2, <2>3 DEF Placed, ShipFollows
<1>4. SettledHolds(b)'
  <2>1. settled'[b] = settled[b] /\ app'[b].port = app[b].port /\ app'[b].node = app[b].node
        /\ (b = Owner => plugin'.attached = plugin.attached /\ plugin'.port = plugin.port)
    BY DEF Untouched
  <2>2. QED
    BY <1>1, <1>2, <2>1 DEF Placed, SettledHolds
<1>5. QED
  BY <1>3, <1>4 DEF Placed

\* A deploy that is only queued asks nothing of the node yet.
LEMMA DispatchPlaces ==
    ASSUME RoutesTyped, plugin' \in PluginRow, NEW a \in Apps, NEW r \in AppRow,
           NEW n \in RouteNodes, Dispatch(a, r, n),
           app'[a].port = r.port, app'[a].auto = r.auto
    PROVE  /\ ship[a].step = "none" /\ Placed(a)' /\ ~settled'[a]
           /\ \A b \in Apps \ {a} : ship'[b] = ship[b] /\ settled'[b] = settled[b]
<1>1. RowsTyped
  BY DEF RoutesTyped
<1>2. /\ ship[a].step = "none" /\ settled' = [settled EXCEPT ![a] = FALSE]
      /\ \E s : Orders(a, r, n, s) /\ ship' = [ship EXCEPT ![a] = s]
  BY <1>1, DispatchDoes
<1>3. Orders(a, r, n, ship'[a]) /\ (\A b \in Apps \ {a} : ship'[b] = ship[b])
  BY <1>1, <1>2 DEF RowsTyped
<1>4. ~settled'[a] /\ (\A b \in Apps \ {a} : settled'[b] = settled[b])
  BY <1>1, <1>2, Zenon DEF RowsTyped
<1>5. Fixed(app'[a]) = Fixed(r)
  BY DEF Fixed
<1>6. ShipFollows(a)'
  BY <1>3, <1>4, <1>5 DEF ShipFollows, Orders
<1>7. SettledHolds(a)'
  BY <1>4 DEF SettledHolds
<1>8. QED
  BY <1>2, <1>3, <1>4, <1>6, <1>7 DEF Placed

\* A step of a's deploy, or of a's row, that leaves the ports alone: the other
\* apps are where they were.
LEMMA OthersUntouched ==
    ASSUME RoutesTyped, NEW a \in Apps, \A b \in Apps : Placed(b),
           \A b \in Apps \ {a} : ship'[b] = ship[b] /\ settled'[b] = settled[b] /\ app'[b] = app[b],
           UNCHANGED bound,
           \A b \in Apps \ {a} : \A n : <<n, b>> \in leaving' => <<n, b>> \in leaving,
           a = Owner \/ UNCHANGED plugin
    PROVE  \A b \in Apps \ {a} : Placed(b)'
<1>1. ASSUME NEW b \in Apps \ {a}
      PROVE  Untouched(b)
  BY DEF Untouched
<1>2. QED
  BY <1>1, UntouchedStays

LEMMA PlacedByDispatch ==
    ASSUME RoutesTyped, EditFollows, \A b \in Apps : Placed(b), NEW a \in Apps,
           \/ \E n \in RouteNodes, pl \in Places \cup {NoPlace}, port \in {NoPort, 1} :
                 CreateProject(a, n, pl, port)
           \/ \E n \in RouteNodes : Redispatch(a, n)
           \/ DeleteProjectRow(a)
           \/ a = Owner /\ Detach
           \/ a = Owner /\ \E pl \in Places \cup {NoPlace} : Attach(pl)
    PROVE  \A b \in Apps : Placed(b)'
<1>1. RowsTyped /\ app \in [Apps -> AppRow] /\ plugin \in PluginRow /\ app[a] \in AppRow
  BY DEF RoutesTyped, RowsTyped
<1>2. ASSUME NEW r \in AppRow, NEW n \in RouteNodes, plugin' \in PluginRow, Dispatch(a, r, n),
             app' = [app EXCEPT ![a] = r], UNCHANGED <<bound, leaving>>, a = Owner \/ UNCHANGED plugin
      PROVE  \A b \in Apps : Placed(b)'
  <2>1. app'[a] = r /\ \A b \in Apps \ {a} : app'[b] = app[b]
    BY <1>1, <1>2
  <2>2. Placed(a)' /\ \A b \in Apps \ {a} : ship'[b] = ship[b] /\ settled'[b] = settled[b]
    BY <1>2, <2>1, DispatchPlaces
  <2>3. \A b \in Apps \ {a} : Placed(b)'
    BY <1>2, <2>1, <2>2, OthersUntouched
  <2>4. QED
    BY <2>2, <2>3
<1>3. ASSUME UNCHANGED app
      PROVE  app' = [app EXCEPT ![a] = app[a]]
  BY <1>1, <1>3
<1>4. ASSUME NEW n \in RouteNodes, NEW pl \in Places \cup {NoPlace}, NEW port \in {NoPort, 1},
             CreateProject(a, n, pl, port)
      PROVE  \A b \in Apps : Placed(b)'
  <2> DEFINE r == [status |-> "deploying", node |-> NoNode, port |-> port,
                   auto |-> port = NoPort, place |-> pl]
  <2>1. r \in AppRow
    BY PortsOfRows DEF AppRow, Statuses, SomeNode, SomePlace
  <2>2. /\ app' = [app EXCEPT ![a] = r] /\ Dispatch(a, app'[a], n)
        /\ UNCHANGED <<plugin, bound, leaving>>
    BY <1>4 DEF CreateProject
  <2> HIDE DEF r
  <2>3. app'[a] = r
    BY <1>1, <2>2
  <2>4. QED
    BY <1>1, <1>2, <2>1, <2>2, <2>3
<1>5. ASSUME NEW n \in RouteNodes, Redispatch(a, n)
      PROVE  \A b \in Apps : Placed(b)'
  <2>1. UNCHANGED <<app, plugin, bound, leaving>> /\ Dispatch(a, app[a], n)
    BY <1>5 DEF Redispatch, routeRowVars
  <2>2. QED
    BY <1>1, <1>2, <1>3, <2>1
<1>6. ASSUME DeleteProjectRow(a)
      PROVE  \A b \in Apps : Placed(b)'
  <2>1. /\ ship[a].step = "none" /\ UNCHANGED <<bound, ship>>
        /\ settled' = [settled EXCEPT ![a] = FALSE]
        /\ app' = [app EXCEPT ![a] = [NoApp EXCEPT !.status = "deleted"]]
        /\ plugin' = IF a = Owner THEN NoPlugin ELSE plugin
        /\ leaving' \subseteq leaving \cup {<<app[a].node, a>>}
    BY <1>6 DEF DeleteProjectRow
  <2>2. ~settled'[a] /\ \A b \in Apps \ {a} : settled'[b] = settled[b]
    BY <1>1, <2>1, Zenon DEF RowsTyped
  <2>3. \A b \in Apps \ {a} : app'[b] = app[b]
    BY <1>1, <2>1
  <2>4. \A b \in Apps \ {a} : Placed(b)'
    BY <2>1, <2>2, <2>3, OthersUntouched
  <2>5. Placed(a)'
    BY <2>1, <2>2 DEF Placed, ShipFollows, SettledHolds
  <2>6. QED
    BY <2>4, <2>5
<1>7. ASSUME a = Owner, NEW n \in RouteNodes, Dispatch(Owner, app[Owner], n), plugin' \in PluginRow,
             UNCHANGED <<app, bound, leaving>>
      PROVE  \A b \in Apps : Placed(b)'
  BY <1>1, <1>2, <1>3, <1>7
<1>8. OwnersNodes \subseteq RouteNodes
  BY <1>1, RouteConstants DEF OwnersNodes, AppRow, SomeNode
<1>9. ASSUME a = Owner, Detach
      PROVE  \A b \in Apps : Placed(b)'
  <2>1. plugin' = NoPlugin /\ UNCHANGED <<app, bound, leaving>>
        /\ \E n \in OwnersNodes : Dispatch(Owner, app[Owner], n)
    BY <1>9 DEF Detach
  <2>2. QED
    BY <1>7, <1>8, <1>9, <2>1, RowsOf
<1>10. ASSUME a = Owner, NEW pl \in Places \cup {NoPlace}, Attach(pl)
      PROVE  \A b \in Apps : Placed(b)'
  <2>1. plugin' = [attached |-> TRUE, place |-> pl, port |-> NoPort] /\ UNCHANGED <<app, bound, leaving>>
        /\ \E n \in OwnersNodes : Dispatch(Owner, app[Owner], n)
    BY <1>10 DEF Attach
  <2>2. plugin' \in PluginRow
    BY <2>1, PortsOfRows DEF PluginRow, SomePlace
  <2>3. QED
    BY <1>7, <1>8, <1>10, <2>1, <2>2
<1>11. QED
  BY <1>4, <1>5, <1>6, <1>9, <1>10

LEMMA PlacedByReports ==
    ASSUME RoutesTyped, \A b \in Apps : Placed(b), NEW a \in Apps,
           RecordFailedDeploy(a) \/ RecordNode(a) \/ RecordPorts(a)
    PROVE  \A b \in Apps : Placed(b)'
<1>1. /\ RowsTyped /\ app \in [Apps -> AppRow] /\ plugin \in PluginRow /\ app[a] \in AppRow
      /\ ship \in [Apps -> ShipRow] /\ ship[a] \in ShipRow /\ settled \in [Apps -> BOOLEAN]
  BY DEF RoutesTyped, RowsTyped
<1>2. Placed(a) /\ NoShip.step = "none"
  BY DEF NoShip
<1>3. CASE RecordFailedDeploy(a)
  <2>1. /\ ship[a].step = "ran" /\ ship'[a].step = "none" /\ UNCHANGED <<plugin, bound, leaving, settled>>
        /\ \A b \in Apps \ {a} : ship'[b] = ship[b] /\ app'[b] = app[b]
    BY <1>1, <1>2, <1>3 DEF RecordFailedDeploy
  <2>2. \A b \in Apps \ {a} : Placed(b)'
    BY <2>1, OthersUntouched
  <2>3. Placed(a)'
    BY <1>2, <2>1 DEF Placed, ShipFollows, SettledHolds
  <2>4. QED
    BY <2>2, <2>3
<1>4. CASE RecordNode(a)
  <2> DEFINE s == ship[a]
  <2>1. /\ s.step = "ran" /\ s.ok /\ UNCHANGED <<plugin, bound, settled>>
        /\ leaving' \subseteq leaving \cup {<<app[a].node, a>>}
        /\ <<s.node, a>> \in leaving' => <<s.node, a>> \in leaving
        /\ ship' = [ship EXCEPT ![a].step = "noted"]
        /\ app' = [app EXCEPT ![a].status = "running", ![a].node = ship[a].node]
    BY <1>4 DEF RecordNode
  <2>2. /\ ship'[a] = [s EXCEPT !.step = "noted"]
        /\ \A b \in Apps \ {a} : ship'[b] = ship[b] /\ app'[b] = app[b]
        /\ app'[a].port = app[a].port /\ app'[a].auto = app[a].auto
    BY <1>1, <2>1 DEF AppRow
  <2>3. \A b \in Apps \ {a} : Placed(b)'
    BY <2>1, <2>2, OthersUntouched
  <2>4. /\ ship'[a].step = "noted" /\ ship'[a].node = s.node /\ ship'[a].auto = s.auto
        /\ ship'[a].from = s.from /\ ship'[a].plug = s.plug /\ ship'[a].ok = s.ok
        /\ ship'[a].port = s.port /\ ship'[a].plugPort = s.plugPort
    BY <1>1, <2>2 DEF ShipRow
  <2> HIDE DEF s
  <2>5. \A x, p : Holds(s.node, a, x, p) => Holds(s.node, a, x, p)'
    BY <2>1 DEF Holds, s
  <2>6. Fixed(app'[a]) = Fixed(app[a])
    BY <2>2 DEF Fixed
  <2>7. ~settled[a]
    BY <1>2, <2>1 DEF Placed, ShipFollows, s
  <2>8. ShipFollows(a)'
    BY <1>2, <2>1, <2>2, <2>4, <2>5, <2>6 DEF Placed, ShipFollows, s
  <2>9. SettledHolds(a)'
    BY <2>1, <2>7 DEF SettledHolds
  <2>10. QED
    BY <2>3, <2>8, <2>9 DEF Placed
<1>5. CASE RecordPorts(a)
  <2> DEFINE s == ship[a]
  <2>1. /\ s.step = "noted" /\ UNCHANGED <<bound, leaving>>
        /\ app' = [app EXCEPT ![a] = RowWithPort(app[a], s)]
        /\ ship' = [ship EXCEPT ![a] = NoShip]
        /\ settled' = [settled EXCEPT ![a] = app[a].node = s.node]
        /\ plugin' = IF s.plugPort # NoPort /\ plugin.attached THEN [plugin EXCEPT !.port = s.plugPort]
                     ELSE plugin
    BY <1>5 DEF RecordPorts
  <2>2. /\ ship'[a].step = "none" /\ app'[a] = RowWithPort(app[a], s)
        /\ \A b \in Apps \ {a} : ship'[b] = ship[b] /\ app'[b] = app[b]
    BY <1>1, <1>2, <2>1
  <2>3. settled'[a] = (app[a].node = s.node) /\ \A b \in Apps \ {a} : settled'[b] = settled[b]
    BY <1>1, <2>1, Zenon
  <2> HIDE DEF s
  <2>4. /\ s.ok /\ (a # Owner => s.plugPort = NoPort)
        /\ s.auto = ~Fixed(app[a]) /\ (~s.auto => s.from = app[a].port /\ s.port = s.from)
        /\ s.plug = (a = Owner /\ plugin.attached)
        /\ Holds(s.node, a, a, s.port) /\ (s.plug => Holds(s.node, a, Plug, s.plugPort))
    BY <1>2, <2>1 DEF Placed, ShipFollows, s
  <2>5. a # Owner => UNCHANGED plugin
    BY <2>1, <2>4
  <2>6. \A b \in Apps \ {a} : Placed(b)'
    BY <2>1, <2>2, <2>3, <2>5, OthersUntouched
  <2>7. app'[a].node = app[a].node /\ app'[a].port = s.port
    BY <1>1, <2>2, <2>4 DEF RowWithPort, Fixed, AppRow
  <2>8. a = Owner /\ plugin'.attached => plugin.attached /\ plugin'.port = s.plugPort
    <3>1. Holds(s.node, a, Plug, s.plugPort) => s.plugPort # NoPort
      BY PortsOfRows DEF Holds
    <3>2. QED
      BY <1>1, <2>1, <2>4, <3>1 DEF PluginRow
  <2>9. /\ Holds(s.node, a, a, s.port) => /\ s.node \in RouteNodes /\ s.port \in HostPorts
                                          /\ bound'[s.node][s.port] = a /\ <<s.node, a>> \notin leaving'
        /\ Holds(s.node, a, Plug, s.plugPort) => /\ s.plugPort \in HostPorts
                                                 /\ bound'[s.node][s.plugPort] = Plug
    BY <2>1 DEF Holds
  <2>10. SettledHolds(a)'
    <3>1. CASE ~settled'[a]
      BY <3>1 DEF SettledHolds
    <3>2. CASE app[a].node = s.node
      BY <2>4, <2>7, <2>8, <2>9, <3>2 DEF SettledHolds, Holds
    <3>3. QED
      BY <2>3, <3>1, <3>2
  <2>11. ShipFollows(a)'
    BY <2>2 DEF ShipFollows
  <2>12. QED
    BY <2>6, <2>10, <2>11 DEF Placed
<1>6. QED
  BY <1>3, <1>4, <1>5

LEMMA OwnContainers ==
    \A a \in Apps : /\ Own(a) \subseteq Containers /\ a \in Own(a)
                    /\ \A b \in Apps \ {a} : Own(a) \cap Own(b) = {}
BY RouteConstants DEF Own, Containers

LEMMA PlacedByRemoval ==
    ASSUME RoutesTyped, \A b \in Apps : Placed(b), NEW a \in Apps, NEW n \in RouteNodes,
           RemoveContainer(n, a)
    PROVE  \A b \in Apps : Placed(b)'
<1> DEFINE w == IF a = Owner THEN Without(Without(bound[n], a), Plug) ELSE Without(bound[n], a)
<1>1. /\ UNCHANGED <<app, plugin, ship, settled>> /\ <<n, a>> \in leaving
      /\ leaving' = leaving \ {<<n, a>>} /\ bound' = [bound EXCEPT ![n] = w]
  BY DEF RemoveContainer, routeRowVars
<1>2. bound \in [RouteNodes -> PortMap]
  BY DEF RoutesTyped, BoundTyped
<1>3. \A p \in HostPorts : bound[n][p] \notin Own(a) => w[p] = bound[n][p]
  BY DEF Without, Own
<1> HIDE DEF w
<1>4. bound'[n] = w /\ \A k \in RouteNodes \ {n} : bound'[k] = bound[k]
  BY <1>1, <1>2
<1>5. ASSUME NEW b \in Apps \ {a}
      PROVE  Untouched(b)
  <2>1. \A k \in RouteNodes, p \in HostPorts, x \in Own(b) : bound[k][p] = x => bound'[k][p] = x
    BY <1>3, <1>4, OwnContainers
  <2>2. QED
    BY <1>1, <2>1 DEF Untouched
<1>6. \A k, x, p : Holds(k, a, x, p) => Holds(k, a, x, p)'
  BY <1>1, <1>4 DEF Holds
<1>7. Placed(a)'
  <2>1. ShipFollows(a)'
    BY <1>1, <1>6 DEF Placed, ShipFollows, Fixed
  <2>2. SettledHolds(a)'
    BY <1>1, <1>6 DEF Placed, SettledHolds
  <2>3. QED
    BY <2>1, <2>2 DEF Placed
<1>8. QED
  BY <1>5, <1>7, UntouchedStays

LEMMA PlacedByDeploy ==
    ASSUME RoutesTyped, \A b \in Apps : Placed(b), NEW a \in Apps, RunDeploy(a)
    PROVE  \A b \in Apps : Placed(b)'
<1> DEFINE s == ship[a]
<1>1. /\ UNCHANGED <<app, plugin, leaving, settled>> /\ s.step = "queued" /\ <<s.node, a>> \notin leaving
      /\ s.node \in RouteNodes
  BY RunDeployDoes DEF RunDeploy, routeRowVars
<1>2. /\ bound \in [RouteNodes -> PortMap] /\ ship \in [Apps -> ShipRow] /\ s \in ShipRow
  BY DEF RoutesTyped, BoundTyped, RowsTyped
<1>3. /\ ~settled[a] /\ s.from \in HostPorts /\ s.auto = ~Fixed(app[a])
      /\ ~s.auto => s.from = app[a].port
      /\ s.plug = (a = Owner /\ plugin.attached) /\ (a # Owner => s.plugPort = NoPort) /\ ~s.ok
  BY <1>1 DEF Placed, ShipFollows
<1>4. Fixed(app'[a]) = Fixed(app[a])
  BY <1>1
<1> HIDE DEF s
<1>5. SettledHolds(a)'
  BY <1>1, <1>3 DEF SettledHolds
<1>6. CASE ship' = [ship EXCEPT ![a].step = "ran"] /\ UNCHANGED bound
  <2>1. ship'[a] = [s EXCEPT !.step = "ran"] /\ \A b \in Apps \ {a} : ship'[b] = ship[b]
    BY <1>2, <1>6 DEF s
  <2>2. /\ ship'[a].step = "ran" /\ ship'[a].auto = s.auto /\ ship'[a].from = s.from
        /\ ship'[a].plug = s.plug /\ ship'[a].ok = s.ok /\ ship'[a].plugPort = s.plugPort
    BY <1>2, <2>1 DEF ShipRow
  <2>3. ShipFollows(a)'
    BY <1>1, <1>3, <1>4, <2>2 DEF ShipFollows
  <2>4. \A b \in Apps \ {a} : Placed(b)'
    BY <1>1, <1>6, <2>1, OthersUntouched
  <2>5. QED
    BY <1>5, <2>3, <2>4 DEF Placed
<1>7. ASSUME NEW w, NEW ok, NEW port, NEW plugPort, Leaves(a, w, ok, port, plugPort),
             bound' = [bound EXCEPT ![s.node] = w],
             ship' = [ship EXCEPT ![a].step = "ran", ![a].ok = ok,
                                  ![a].port = port, ![a].plugPort = plugPort]
      PROVE  \A b \in Apps : Placed(b)'
  <2>1. /\ ship'[a] = [s EXCEPT !.step = "ran", !.ok = ok, !.port = port, !.plugPort = plugPort]
        /\ \A b \in Apps \ {a} : ship'[b] = ship[b]
    BY <1>2, <1>7 DEF s
  <2>2. /\ ship'[a].step = "ran" /\ ship'[a].auto = s.auto /\ ship'[a].from = s.from
        /\ ship'[a].plug = s.plug /\ ship'[a].ok = ok /\ ship'[a].port = port
        /\ ship'[a].plugPort = plugPort /\ ship'[a].node = s.node
    BY <1>2, <2>1 DEF ShipRow
  <2>3. bound'[s.node] = w /\ \A k \in RouteNodes \ {s.node} : bound'[k] = bound[k]
    BY <1>1, <1>2, <1>7
  <2>4. /\ \A y \in Containers \ Own(a), p \in HostPorts : (w[p] = y) = (bound[s.node][p] = y)
        /\ a # Owner => plugPort = NoPort
        /\ ok => /\ port \in HostPorts /\ w[port] = a
                 /\ ~s.auto => port = s.from
                 /\ a = Owner /\ s.plug => plugPort \in HostPorts /\ w[plugPort] = Plug
    BY <1>7 DEF Leaves, s
  <2>5. ASSUME NEW b \in Apps \ {a}
        PROVE  Untouched(b)
    <3>1. \A k \in RouteNodes, p \in HostPorts, x \in Own(b) : bound[k][p] = x => bound'[k][p] = x
      BY <2>3, <2>4, OwnContainers
    <3>2. QED
      BY <1>1, <2>1, <3>1 DEF Untouched
  <2>6. ShipFollows(a)'
    <3>1. ok => /\ s.node \in RouteNodes /\ port \in HostPorts /\ bound'[s.node][port] = a
                /\ <<s.node, a>> \notin leaving' /\ (~s.auto => port = s.from)
                /\ s.plug => plugPort \in HostPorts /\ bound'[s.node][plugPort] = Plug
      BY <1>1, <1>3, <2>3, <2>4
    <3>2. QED
      BY <1>1, <1>3, <1>4, <2>2, <2>4, <3>1 DEF ShipFollows, Holds
  <2>7. QED
    BY <1>5, <2>5, <2>6, UntouchedStays DEF Placed
<1>8. QED
  BY <1>6, <1>7, RunDeployDoes DEF s

LEMMA PlacedByEdit ==
    ASSUME RoutesTyped, EditFollows, \A b \in Apps : Placed(b), EditRowSave
    PROVE  \A b \in Apps : Placed(b)'
<1> DEFINE edited(old, new) == <<new.port, new.auto>> # <<old.port, old.auto>>
<1>1. /\ app \in [Apps -> AppRow] /\ plugin \in PluginRow /\ settled \in [Apps -> BOOLEAN]
      /\ edit.app \in Apps /\ edit.app # 0 /\ edit.old \in AppRow /\ edit.new \in AppRow
  BY DEF RoutesTyped, RowsTyped, EditRow, EditRowSave
<1>2. PICK a \in Apps, old \in AppRow, new \in AppRow : a = edit.app /\ old = edit.old /\ new = edit.new
  BY <1>1
<1>3. /\ app' = [app EXCEPT ![a] = new] /\ UNCHANGED <<plugin, bound, leaving>>
      /\ \/ /\ edited(old, new)
            /\ \E n \in IF new.node = NoNode THEN RouteNodes ELSE {new.node} : Dispatch(a, new, n)
         \/ /\ ~edited(old, new)
            /\ settled' = [settled EXCEPT ![a] = @ /\ app[a] = old]
            /\ UNCHANGED ship
  BY <1>2 DEF EditRowSave
<1>4. SamePorts(old, app[a]) /\ new.node = old.node
  BY <1>1, <1>2 DEF EditFollows
<1>5. app'[a] = new /\ \A b \in Apps \ {a} : app'[b] = app[b]
  BY <1>1, <1>3
<1>6. CASE edited(old, new)
  <2>1. PICK n \in RouteNodes : Dispatch(a, new, n)
    BY <1>1, <1>3, <1>6 DEF AppRow, SomeNode
  <2>2. Placed(a)' /\ \A b \in Apps \ {a} : ship'[b] = ship[b] /\ settled'[b] = settled[b]
    BY <1>1, <1>3, <1>5, <2>1, DispatchPlaces
  <2>3. \A b \in Apps \ {a} : Placed(b)'
    BY <1>1, <1>3, <1>5, <2>2, OthersUntouched
  <2>4. QED
    BY <2>2, <2>3
<1>7. CASE ~edited(old, new)
  <2>1. new.port = old.port /\ new.auto = old.auto
    BY <1>7
  <2>2. /\ settled' = [settled EXCEPT ![a] = settled[a] /\ app[a] = old] /\ UNCHANGED ship
    BY <1>3, <1>7
  <2>3. settled'[a] = (settled[a] /\ app[a] = old)
        /\ \A b \in Apps \ {a} : settled'[b] = settled[b]
    BY <1>1, <2>2, Zenon
  <2>4. \A b \in Apps \ {a} : Placed(b)'
    BY <1>1, <1>3, <1>5, <2>2, <2>3, OthersUntouched
  <2>5. Fixed(app'[a]) = Fixed(app[a]) /\ (Fixed(app[a]) => app'[a].port = app[a].port)
    BY <1>4, <1>5, <2>1 DEF SamePorts, Fixed
  <2>6. ShipFollows(a)'
    BY <1>1, <1>3, <2>2, <2>3, <2>5 DEF Placed, ShipFollows, Holds
  <2>7. SettledHolds(a)'
    <3>1. CASE ~settled'[a]
      BY <3>1 DEF SettledHolds
    <3>2. CASE settled[a] /\ app[a] = old
      BY <1>1, <1>3, <1>4, <1>5, <2>1, <3>2 DEF Placed, SettledHolds, Holds
    <3>3. QED
      BY <2>3, <3>1, <3>2
  <2>8. QED
    BY <2>4, <2>6, <2>7 DEF Placed
<1>8. QED
  BY <1>6, <1>7

\* Steps that move no container and change nothing a deploy goes by.
LEMMA PlacedByTheRest ==
    ASSUME RoutesTyped, \A b \in Apps : Placed(b), NEW a \in Apps,
           \/ \E status \in {"running", "stopped"} : UpdateProjectStatus(a, status)
           \/ JudgeHealth(a)
           \/ \E pl, ports : EditRowRead(a, pl, ports)
           \/ \E pl : MovePlugin(pl)
           \/ UpdateBegin \/ WriteRoutes \/ IssueCerts
    PROVE  \A b \in Apps : Placed(b)'
<1>1. app \in [Apps -> AppRow] /\ plugin \in PluginRow
  BY DEF RoutesTyped, RowsTyped
<1>2. UNCHANGED <<portVars, settled>>
  BY DEF UpdateProjectStatus, JudgeHealth, EditRowRead, MovePlugin, UpdateBegin, WriteRoutes, IssueCerts
<1>3. \A b \in Apps : app'[b].node = app[b].node /\ app'[b].port = app[b].port /\ app'[b].auto = app[b].auto
  <2>1. \/ UNCHANGED app
        \/ \E st : app' = [app EXCEPT ![a].status = st]
    BY DEF UpdateProjectStatus, JudgeHealth, EditRowRead, MovePlugin, UpdateBegin, WriteRoutes,
       IssueCerts, routeRowVars
  <2>2. QED
    BY <1>1, <2>1 DEF AppRow
<1>4. plugin'.attached = plugin.attached /\ plugin'.port = plugin.port
  BY <1>1 DEF UpdateProjectStatus, JudgeHealth, EditRowRead, MovePlugin, UpdateBegin, WriteRoutes,
     IssueCerts, PluginRow, routeRowVars
<1>5. \A b \in Apps : Untouched(b)
  BY <1>2, <1>3, <1>4 DEF Untouched, portVars
<1>6. QED
  BY <1>5, UntouchedStays

\* An edit, the deploys and where their containers are fit together.
RoutesPlaced == EditFollows /\ \A b \in Apps : Placed(b)

LEMMA RoutesPlacedStep ==
    ASSUME RoutesTyped, RoutesPlaced, [RoutesNext]_routeVars
    PROVE  RoutesPlaced'
<1>1. EditFollows /\ \A b \in Apps : Placed(b)
  BY DEF RoutesPlaced
<1>2. CASE RoutesNext
  <2>1. EditFollows'
    BY <1>1, <1>2, EditFollowsStep
  <2>2. \A b \in Apps : Placed(b)'
    <3>1. CASE \E a \in Apps :
                  \/ \E n \in RouteNodes, pl \in Places \cup {NoPlace}, port \in {NoPort, 1} :
                        CreateProject(a, n, pl, port)
                  \/ \E n \in RouteNodes : Redispatch(a, n)
                  \/ DeleteProjectRow(a)
      BY <1>1, <3>1, PlacedByDispatch
    <3>2. CASE Detach \/ \E pl \in Places \cup {NoPlace} : Attach(pl)
      BY <1>1, <3>2, PlacedByDispatch, RouteConstants
    <3>3. CASE \E a \in Apps : RecordFailedDeploy(a) \/ RecordNode(a) \/ RecordPorts(a)
      BY <1>1, <3>3, PlacedByReports
    <3>4. CASE \E a \in Apps : RunDeploy(a) \/ \E n \in RouteNodes : RemoveContainer(n, a)
      BY <1>1, <3>4, PlacedByDeploy, PlacedByRemoval
    <3>5. CASE EditRowSave
      BY <1>1, <3>5, PlacedByEdit
    <3>6. CASE \E a \in Apps :
                  \/ \E status \in {"running", "stopped"} : UpdateProjectStatus(a, status)
                  \/ JudgeHealth(a)
                  \/ \E pl, ports : EditRowRead(a, pl, ports)
      BY <1>1, <3>6, PlacedByTheRest
    <3>7. CASE UpdateBegin \/ WriteRoutes \/ IssueCerts \/ \E pl \in Places \cup {NoPlace} : MovePlugin(pl)
      BY <1>1, <3>7, PlacedByTheRest, RouteConstants
    <3>8. QED
      BY <1>2, <3>1, <3>2, <3>3, <3>4, <3>5, <3>6, <3>7 DEF RoutesNext
  <2>3. QED
    BY <2>1, <2>2 DEF RoutesPlaced
<1>3. CASE UNCHANGED routeVars
  BY <1>1, <1>3 DEF RoutesPlaced, EditFollows, Placed, ShipFollows, SettledHolds, Holds, routeVars,
     routeRowVars, portVars
<1>4. QED
  BY <1>2, <1>3

LEMMA RoutesPlacedInit == RoutesInit => RoutesPlaced
<1> SUFFICES ASSUME RoutesInit PROVE RoutesPlaced
  OBVIOUS
<1> DEFINE n == CHOOSE n \in RouteNodes : TRUE
           pl == CHOOSE pl \in Places : TRUE
<1>1. n \in RouteNodes /\ Owner \in Apps /\ {1, 2} \subseteq HostPorts
  BY RoutesAssumption, RouteConstants
<1>2. PICK p \in {1, 2} :
        /\ app = [a \in Apps |-> IF a = Owner THEN [status |-> "running", node |-> n, port |-> p,
                                                    auto |-> TRUE, place |-> pl] ELSE NoApp]
        /\ bound = [m \in RouteNodes |-> [q \in HostPorts |->
                      IF m = n /\ q = p THEN Owner
                      ELSE IF (m = n) = (p = 2) /\ q = 1 THEN Foreign ELSE Free]]
        /\ plugin = NoPlugin /\ edit = NoEdit
        /\ ship = [a \in Apps |-> NoShip] /\ leaving = {}
        /\ settled = [a \in Apps |-> a = Owner]
  BY DEF RoutesInit
<1> HIDE DEF n, pl
<1>3. EditFollows
  BY <1>1, <1>2 DEF EditFollows, NoEdit, NoApp
<1>4. ~plugin.attached /\ \A a \in Apps : ship[a].step = "none"
  BY <1>2 DEF NoPlugin, NoShip
<1>5. \A a \in Apps : settled[a] => a = Owner
  BY <1>2, Zenon
<1>6. Holds(n, Owner, Owner, p) /\ app[Owner].node = n /\ app[Owner].port = p
  BY <1>1, <1>2 DEF Holds
<1>7. \A a \in Apps : Placed(a)
  BY <1>4, <1>5, <1>6 DEF Placed, ShipFollows, SettledHolds
<1>8. QED
  BY <1>3, <1>7 DEF RoutesPlaced

\* What the routes say of one place.
LEMMA RouteOf ==
    ASSUME RowsTyped, NEW k \in Served
    PROVE  LET here == {a \in Apps : /\ HomeOf(a) # NoNode /\ app[a].place # NoPlace
                                     /\ Place(app[a].place) = k}
           IN /\ here = {} => AppRoutes[k] = NoTarget
              /\ \A a \in here : (\A b \in here : ~(b < a)) =>
                    AppRoutes[k] = [node |-> app[a].node, port |-> HostPort(app[a])]
<1> DEFINE here == {a \in Apps : /\ HomeOf(a) # NoNode /\ app[a].place # NoPlace
                                 /\ Place(app[a].place) = k}
<1>1. AppRoutes[k] = IF here = {} THEN NoTarget
                     ELSE [node |-> app[Min(here)].node, port |-> HostPort(app[Min(here)])]
  BY DEF AppRoutes
<1>2. here \subseteq Nat
  BY RouteConstants
<1> HIDE DEF here
<1>3. ASSUME NEW a \in here, \A b \in here : ~(b < a)
      PROVE  Min(here) = a
  <2>1. Min(here) \in here /\ Min(here) <= a
    BY <1>2, MinOf
  <2>2. a \in Nat /\ Min(here) \in Nat /\ ~(Min(here) < a)
    BY <1>2, <1>3, <2>1
  <2>3. QED
    BY <2>1, <2>2
<1>4. QED
  BY <1>1, <1>3 DEF here

\* An app whose newest deploy succeeded is reached at its domain, on the port its
\* container got on the node it got to, and so is its public plugin: no deploy of
\* another app takes the port, no late removal takes the container, and no edit
\* that was under way puts the row back to another port.
THEOREM AppsReached == RoutesSpec => []AppsAreReached
<1>1. ASSUME RoutesTyped, RoutesCurrent, RoutesPlaced
      PROVE  AppsAreReached
  <2> SUFFICES ASSUME RoutesQuiet, ~byHand
               PROVE  /\ \A a \in Apps : settled[a] /\ FirstThere(a) => Reaches(app[a].place, a)
                      /\ (/\ plugin.attached /\ plugin.place # NoPlace /\ settled[Owner]
                          /\ HomeOf(Owner) # NoNode
                          /\ \A a \in Apps : HomeOf(a) = NoNode \/ app[a].place = NoPlace
                                                \/ Place(app[a].place) # Place(plugin.place))
                             => Reaches(plugin.place, Plug)
    BY DEF AppsAreReached
  <2>1. nginx = WithPlugin(AppRoutes, Homes)
    BY <1>1 DEF RoutesCurrent, Homes
  <2>2. RowsTyped /\ plugin \in PluginRow /\ app \in [Apps -> AppRow] /\ Owner \in Apps
    BY <1>1, RouteConstants DEF RoutesTyped, RowsTyped
  <2>3. \A a \in Apps : HomeOf(a) # NoNode => HomeOf(a) = app[a].node
    BY DEF HomeOf
  <2>4. ASSUME NEW a \in Apps, settled[a], FirstThere(a)
        PROVE  Reaches(app[a].place, a)
    <3> DEFINE k == Place(app[a].place)
    <3>1. Holds(app[a].node, a, a, app[a].port)
      BY <1>1, <2>4 DEF RoutesPlaced, Placed, SettledHolds
    <3>2. app[a].place \in Places /\ HomeOf(a) # NoNode
      BY <2>2, <2>4 DEF FirstThere, AppRow, SomePlace
    <3>3. k \in Served
      BY <3>2 DEF Served
    <3>4. AppRoutes[k] = [node |-> app[a].node, port |-> HostPort(app[a])]
      BY <2>2, <2>4, <3>2, <3>3, RouteOf DEF FirstThere
    <3>5. HostPort(app[a]) = app[a].port /\ app[a].node # NoNode
      BY <3>1, PortsOfRows, RouteConstants DEF HostPort, Holds
    <3>6. AppRoutes[k] # NoTarget
      BY <3>4, <3>5 DEF NoTarget
    <3>7. nginx[k] = [node |-> app[a].node, port |-> app[a].port]
      BY <2>1, <3>3, <3>4, <3>5, <3>6 DEF WithPlugin
    <3>8. QED
      BY <3>1, <3>5, <3>7 DEF Reaches, Holds
  <2>5. ASSUME plugin.attached, plugin.place # NoPlace, settled[Owner], HomeOf(Owner) # NoNode,
               \A a \in Apps : HomeOf(a) = NoNode \/ app[a].place = NoPlace
                                  \/ Place(app[a].place) # Place(plugin.place)
        PROVE  Reaches(plugin.place, Plug)
    <3> DEFINE k == Place(plugin.place)
    <3>1. Holds(app[Owner].node, Owner, Plug, plugin.port)
      BY <1>1, <2>2, <2>5 DEF RoutesPlaced, Placed, SettledHolds
    <3>2. k \in Served
      BY <2>2, <2>5 DEF Served, PluginRow, SomePlace
    <3>3. AppRoutes[k] = NoTarget
      BY <2>2, <2>5, <3>2, RouteOf
    <3>4. Homes[Owner] = app[Owner].node /\ Homes[Owner] # NoNode /\ plugin.port # NoPort
      BY <2>2, <2>3, <2>5, <3>1, PortsOfRows DEF Homes, Holds
    <3>5. nginx[k] = [node |-> app[Owner].node, port |-> plugin.port]
      BY <2>1, <2>5, <3>2, <3>3, <3>4 DEF WithPlugin
    <3>6. QED
      BY <3>1, <3>4, <3>5 DEF Reaches, Holds
  <2>6. QED
    BY <2>4, <2>5
<1>2. RoutesSpec => []RoutesPlaced
  BY RoutesTypes, RoutesPlacedInit, RoutesPlacedStep, PTL DEF RoutesSpec
<1>3. QED
  BY <1>1, <1>2, RoutesTypes, NginxServesTheRows, PTL
=============================================================================
