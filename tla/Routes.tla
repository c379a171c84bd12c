------------------------------- MODULE Routes -------------------------------
(***************************************************************************)
(* How a request for a domain finds an app: the apps' rows, the node ports *)
(* their containers and public plugins are published on, and the routes    *)
(* nginx is given (nginx_service.go).  A deploy looks for a free port on   *)
(* the node itself (deploy_command.go) and reports the one it took; every  *)
(* change of a row starts an update of the routes in the background, and   *)
(* the updates, which take their time over certificates, wait for one      *)
(* another.                                                                *)
(*                                                                         *)
(* The deploys of one app follow each other here; those that overtake each *)
(* other are in Deployments.                                               *)
(***************************************************************************)
EXTENDS Integers, FiniteSetsExt

CONSTANTS
    NumApps,     \* the apps, numbered in the order of their names
    RouteNodes,  \* the nodes
    Places,      \* the domains with a path that apps may be given, as typed
    LastPort,    \* bound: the Hub hands out the ports up to this one
    Tries,       \* how many ports a deploy tries (autoPortAttempts)
    MaxEvents    \* bound: how often something is asked of the Hub

Apps == 1 .. NumApps
Owner == 1                 \* the app that may have a public plugin
Plug == NumApps + 1        \* the plugin, served after all apps
HostPorts == 1 .. LastPort + Tries - 1   \* from firstAutoPort on
Free == 0
Foreign == -1              \* a container the Hub did not start

NoPort == 0
DefaultPort == 8000
NoNode == "none"
NoPlace == <<"", "">>

\* Project.Path: no path and "/" are one place.
Place(pl) == <<pl[1], IF pl[2] = "" THEN "/" ELSE pl[2]>>
Served == {Place(pl) : pl \in Places}
NoTarget == [node |-> NoNode, port |-> NoPort]

ASSUME RoutesAssumption ==
    /\ {NumApps, Tries} \subseteq Nat \ {0} /\ LastPort \in Nat \ {0, 1}
    /\ RouteNodes # {} /\ NoNode \notin RouteNodes
    /\ Places # {} /\ NoPlace \notin Places

VARIABLES
    app,       \* app[a]: the row of the projects table
    plugin,    \* the row of the plugin's attachment
    edit,      \* the row UpdateProject has read, and what it will save
    bound,     \* bound[n][p]: whose container is published on port p of n
    ship,      \* ship[a]: the app's deploy
    leaving,   \* queued removals: a node and the app
    settled,   \* settled[a]: its newest deploy succeeded and no edit saved an
               \* older row over the record of it
    waiting,   \* how many updates of the routes have not begun
    update,    \* the one that has
    nginx,     \* nginx[k]: where nginx sends the requests for k
    secure,    \* the domains it serves over HTTPS
    issued,    \* the domains with a certificate
    good,      \* the last update got through
    byHand,    \* a status was set that no update has read
    events

routeRowVars == <<app, plugin, edit>>
portVars == <<bound, ship, leaving>>
nginxVars == <<waiting, update, nginx, secure, issued, good, byHand>>
routeVars == <<routeRowVars, portVars, nginxVars, settled, events>>

NoApp == [status |-> "none", node |-> NoNode, port |-> NoPort, auto |-> TRUE, place |-> NoPlace]
NoPlugin == [attached |-> FALSE, place |-> NoPlace, port |-> NoPort]
NoEdit == [app |-> 0, old |-> NoApp, new |-> NoApp]
NoShip == [step |-> "none", node |-> NoNode, auto |-> TRUE, from |-> NoPort, plug |-> FALSE,
           plugFrom |-> NoPort, ok |-> FALSE, port |-> NoPort, plugPort |-> NoPort]
NoRoutes == [k \in Served |-> NoTarget]
NoUpdate == [step |-> "none", table |-> NoRoutes, homes |-> [a \in Apps |-> NoNode]]

\* The first app runs on a node, which one matters no more than which place it
\* has, and is routed to.  A container the Hub did not start has the first port
\* there or on the other nodes.
RoutesInit ==
    LET n == CHOOSE n \in RouteNodes : TRUE
        pl == CHOOSE pl \in Places : TRUE
    IN
    \E p \in {1, 2} :
        /\ app = [a \in Apps |-> IF a = Owner THEN [status |-> "running", node |-> n, port |-> p,
                                                    auto |-> TRUE, place |-> pl] ELSE NoApp]
        /\ bound = [m \in RouteNodes |-> [q \in HostPorts |->
                      IF m = n /\ q = p THEN Owner
                      ELSE IF (m = n) = (p = 2) /\ q = 1 THEN Foreign ELSE Free]]
        /\ nginx = [k \in Served |-> IF k = Place(pl) THEN [node |-> n, port |-> p] ELSE NoTarget]
        /\ plugin = NoPlugin /\ edit = NoEdit
        /\ ship = [a \in Apps |-> NoShip] /\ leaving = {}
        /\ settled = [a \in Apps |-> a = Owner]
        /\ waiting = 0 /\ update = NoUpdate
        /\ secure = {} /\ issued = {}
        /\ good = TRUE /\ byHand = FALSE
        /\ events = 0

\* Something is asked of the Hub.
Asked == events < MaxEvents /\ events' = events + 1

-----------------------------------------------------------------------------
(* Ports: usedHostPorts, preferredHostPort, the deploy's script *)

\* The row r puts its app on the node's port.
Fixed(r) == ~r.auto /\ r.port # NoPort

Own(a) == IF a = Owner THEN {a, Plug} ELSE {a}

\* What the Hub knows to be taken on n by others than a; heard is whether the
\* agent's last report has what runs now, or is from before all that.
UsedHostPorts(a, n, heard) ==
    {app[b].port : b \in {c \in Apps \ {a} : app[c].node = n}}
        \cup {p \in HostPorts : heard /\ bound[n][p] \notin {Free} \cup Own(a)}

\* preferredHostPort: the port it has there already, or the lowest nobody uses.
Preferred(a, r, n, heard) ==
    LET used == UsedHostPorts(a, n, heard)
        open == (1 .. LastPort) \ used
    IN IF r.node = n /\ r.port \in HostPorts \ used THEN r.port
       ELSE IF open = {} THEN NoPort ELSE Min(open)

\* The job Dispatch queues for the row r of a.
Shipment(a, r, n, heard) ==
    [NoShip EXCEPT !.step = "queued", !.node = n, !.auto = ~Fixed(r),
        !.from = IF Fixed(r) THEN r.port ELSE Preferred(a, r, n, heard),
        !.plug = a = Owner /\ plugin'.attached,
        !.plugFrom = IF plugin'.port = NoPort THEN 1 ELSE plugin'.port]

\* The row r of a is deployed to n.
Dispatch(a, r, n) ==
    /\ ship[a].step = "none"
    /\ \E heard \in BOOLEAN : ship' = [ship EXCEPT ![a] = Shipment(a, r, n, heard)]
    /\ ship'[a].from # NoPort
    /\ settled' = [settled EXCEPT ![a] = FALSE]

Without(m, x) == [p \in HostPorts |-> IF m[p] = x THEN Free ELSE m[p]]
With(m, x, p) == [m EXCEPT ![p] = x]
PortsOf(m, x) == {p \in HostPorts : m[p] = x}

\* Where a container that may be published from port from on gets to.
FreePorts(m, from, tries) == {p \in from .. from + tries - 1 : p \in HostPorts /\ m[p] = Free}

\* writePublishRun: x is run anew on the ports m; it may find none.
Published(m, x, from, tries) ==
    LET w == Without(m, x)
        open == FreePorts(w, from, tries)
    IN IF open = {} THEN [on |-> w, ok |-> FALSE, port |-> NoPort]
       ELSE [on |-> With(w, x, Min(open)), ok |-> TRUE, port |-> Min(open)]

\* writePlugins: a plugin that is no longer attached is removed, one that runs
\* unchanged is left alone and reports its port.
PluginRun(a, s, m, anew) ==
    IF a # Owner THEN [on |-> m, ok |-> TRUE, port |-> NoPort]
    ELSE IF ~s.plug THEN [on |-> Without(m, Plug), ok |-> TRUE, port |-> NoPort]
    ELSE IF PortsOf(m, Plug) # {} /\ ~anew THEN [on |-> m, ok |-> TRUE, port |-> Min(PortsOf(m, Plug))]
    ELSE Published(m, Plug, Min({s.plugFrom, LastPort}), Tries)

\* The script: pull, the plugin, then the app, which may exit at once.  A pull
\* that fails leaves everything as it was.
RunDeploy(a) ==
    LET s == ship[a] IN
    /\ s.step = "queued" /\ <<s.node, a>> \notin leaving
    /\ \/ ship' = [ship EXCEPT ![a].step = "ran"] /\ UNCHANGED bound
       \/ \E anew, exits \in BOOLEAN :
             LET pl == PluginRun(a, s, bound[s.node], anew)
                 run == IF pl.ok THEN Published(pl.on, a, s.from, IF s.auto THEN Tries ELSE 1) ELSE pl
             IN /\ bound' = [bound EXCEPT ![s.node] = run.on]
                /\ ship' = [ship EXCEPT ![a].step = "ran", ![a].ok = run.ok /\ ~exits,
                                        ![a].port = run.port, ![a].plugPort = pl.port]
    /\ UNCHANGED <<routeRowVars, leaving, nginxVars, settled, events>>

\* BuildRemoveProjectCommand
RemoveContainer(n, a) ==
    /\ <<n, a>> \in leaving
    /\ leaving' = leaving \ {<<n, a>>}
    /\ bound' = [bound EXCEPT ![n] = IF a = Owner THEN Without(Without(@, a), Plug) ELSE Without(@, a)]
    /\ UNCHANGED <<routeRowVars, ship, nginxVars, settled, events>>

-----------------------------------------------------------------------------
(* The rows: who writes them, and asks for an update *)

\* Mutant: no update while one is under way.
RoutesChangedUnlessBusy ==
    waiting' = IF update.step = "none" THEN waiting + 1 ELSE waiting

\* go s.onRoutesChanged()
RoutesChanged == waiting' = waiting + 1

otherNginxVars == <<update, nginx, secure, issued, good, byHand>>

\* completeDeploy after a failure: an app that never ran has failed, another
\* still points at its previous node.
RecordFailedDeploy(a) ==
    /\ ship[a].step = "ran" /\ ~ship[a].ok
    /\ app' = [app EXCEPT ![a].status = IF app[a].node = NoNode THEN "failed" ELSE "running"]
    /\ ship' = [ship EXCEPT ![a] = NoShip]
    /\ RoutesChanged
    /\ UNCHANGED <<plugin, edit, bound, leaving, otherNginxVars, settled, events>>

\* ... after a success: the node first ...
RecordNode(a) ==
    /\ ship[a].step = "ran" /\ ship[a].ok
    /\ app' = [app EXCEPT ![a].status = "running", ![a].node = ship[a].node]
    /\ leaving' = IF app[a].node \in {NoNode, ship[a].node} THEN leaving
                  ELSE leaving \cup {<<app[a].node, a>>}
    /\ ship' = [ship EXCEPT ![a].step = "noted"]
    /\ UNCHANGED <<plugin, edit, bound, nginxVars, settled, events>>

\* Mutant: an app that has a port keeps it.
RowWithPortKept(r, s) == IF s.auto /\ r.port = NoPort THEN [r EXCEPT !.port = s.port, !.auto = TRUE] ELSE r

\* The port the deploy reported (ParsePortMarker).
RowWithPort(r, s) ==
    IF s.auto /\ (r.auto \/ r.port = NoPort) THEN [r EXCEPT !.port = s.port, !.auto = TRUE] ELSE r

\* ... then the ports the deploy reported for the app and its plugins.
RecordPorts(a) ==
    LET s == ship[a] IN
    /\ s.step = "noted"
    /\ app' = [app EXCEPT ![a] = RowWithPort(@, s)]
    /\ plugin' = IF s.plugPort # NoPort /\ plugin.attached THEN [plugin EXCEPT !.port = s.plugPort] ELSE plugin
    /\ ship' = [ship EXCEPT ![a] = NoShip]
    /\ settled' = [settled EXCEPT ![a] = app[a].node = s.node]
    /\ RoutesChanged
    /\ UNCHANGED <<edit, bound, leaving, otherNginxVars, events>>

\* routeTakenBy, for the app or plugin x: compared as typed.
RouteTakenBy(x, pl) ==
    /\ pl # NoPlace
    /\ \/ \E b \in Apps \ {x} : app[b].place = pl
       \/ x # Plug /\ plugin.attached /\ plugin.place = pl

CreateProject(a, n, pl, port) ==
    /\ Asked
    /\ app[a].status = "none"
    /\ ~RouteTakenBy(a, pl)
    /\ app' = [app EXCEPT ![a] = [status |-> "deploying", node |-> NoNode, port |-> port,
                                  auto |-> port = NoPort, place |-> pl]]
    /\ UNCHANGED <<plugin, edit, bound, leaving, nginxVars>>
    /\ Dispatch(a, app'[a], n)

\* A push, a redeploy, a move or a failover.
Redispatch(a, n) ==
    /\ Asked
    /\ app[a].status \notin {"none", "deleted"}
    /\ UNCHANGED <<routeRowVars, bound, leaving, nginxVars>>
    /\ Dispatch(a, app[a], n)

Exists(a) == app[a].status \notin {"none", "deleted"}

\* UpdateProject reads the row and checks the new place ...
EditRowRead(a, pl, ports) ==
    /\ Asked
    /\ edit = NoEdit /\ Exists(a)
    /\ ~RouteTakenBy(a, pl)
    /\ edit' = [app |-> a, old |-> app[a],
                new |-> [app[a] EXCEPT !.place = pl, !.port = ports[1], !.auto = ports[2]]]
    /\ UNCHANGED <<app, plugin, portVars, nginxVars, settled>>

\* ... and saves all of it; changed ports are deployed at once.
EditRowSave ==
    LET a == edit.app
        ports == <<edit.new.port, edit.new.auto>> # <<edit.old.port, edit.old.auto>>
    IN
    /\ a # 0
    /\ app' = [app EXCEPT ![a] = edit.new]
    /\ edit' = NoEdit
    /\ RoutesChanged
    /\ UNCHANGED <<plugin, bound, leaving, otherNginxVars, events>>
    /\ \/ /\ ports
          /\ \E n \in IF edit.new.node = NoNode THEN RouteNodes ELSE {edit.new.node} :
                Dispatch(a, edit.new, n)
       \/ /\ ~ports
          /\ settled' = [settled EXCEPT ![a] = @ /\ app[a] = edit.old]
          /\ UNCHANGED ship

\* UpdateProjectStatus asks for no update.
UpdateProjectStatus(a, status) ==
    /\ Asked
    /\ Exists(a)
    /\ app' = [app EXCEPT ![a].status = status]
    /\ byHand' = TRUE
    /\ UNCHANGED <<plugin, edit, portVars, waiting, update, nginx, secure, issued, good, settled>>

DeleteProjectRow(a) ==
    /\ Asked
    /\ Exists(a) /\ ship[a].step = "none" /\ edit.app # a
    /\ app' = [app EXCEPT ![a] = [NoApp EXCEPT !.status = "deleted"]]
    /\ plugin' = IF a = Owner THEN NoPlugin ELSE plugin
    /\ leaving' = IF app[a].node = NoNode THEN leaving ELSE leaving \cup {<<app[a].node, a>>}
    /\ settled' = [settled EXCEPT ![a] = FALSE]
    /\ RoutesChanged
    /\ UNCHANGED <<edit, bound, ship, otherNginxVars>>

\* markFailed, and recoverFailed
JudgeHealth(a) ==
    /\ Asked
    /\ app[a].status \in {"running", "failed"}
    /\ app' = [app EXCEPT ![a].status = IF @ = "running" THEN "failed" ELSE "running"]
    /\ RoutesChanged
    /\ UNCHANGED <<plugin, edit, portVars, otherNginxVars, settled>>

\* Where a redeploy of the owner goes: its own node, or the best one.
OwnersNodes == IF app[Owner].node = NoNode THEN RouteNodes ELSE {app[Owner].node}

\* PluginService.Attach: the plugin comes up with the next deploy.
Attach(pl) ==
    /\ Asked
    /\ Exists(Owner) /\ ~plugin.attached
    /\ ~RouteTakenBy(Plug, pl)
    /\ plugin' = [attached |-> TRUE, place |-> pl, port |-> NoPort]
    /\ \E n \in OwnersNodes : Dispatch(Owner, app[Owner], n)
    /\ UNCHANGED <<app, edit, bound, leaving, nginxVars>>

\* PluginService.Update, of the route alone.
MovePlugin(pl) ==
    /\ Asked
    /\ plugin.attached /\ plugin.place # pl /\ ~RouteTakenBy(Plug, pl)
    /\ plugin' = [plugin EXCEPT !.place = pl]
    /\ RoutesChanged
    /\ UNCHANGED <<app, edit, portVars, otherNginxVars, settled>>

\* PluginService.Detach
Detach ==
    /\ Asked
    /\ plugin.attached
    /\ plugin' = NoPlugin
    /\ RoutesChanged
    /\ \E n \in OwnersNodes : Dispatch(Owner, app[Owner], n)
    /\ UNCHANGED <<app, edit, bound, leaving, otherNginxVars>>

-----------------------------------------------------------------------------
(* UpdateNginxConfig: one at a time, under its lock *)

\* Project.HostPort
HostPort(r) == IF r.port = NoPort THEN DefaultPort ELSE r.port

HomeOf(a) == IF app[a].status = "running" THEN app[a].node ELSE NoNode

\* The running apps, in the order of their names: the first at a place has it.
AppRoutes ==
    [k \in Served |->
        LET here == {a \in Apps : /\ HomeOf(a) # NoNode /\ app[a].place # NoPlace
                                  /\ Place(app[a].place) = k}
        IN IF here = {} THEN NoTarget
           ELSE [node |-> app[Min(here)].node, port |-> HostPort(app[Min(here)])]]

\* Public plugins are served where their app runs, after all apps.
WithPlugin(table, homes) ==
    [k \in Served |->
        IF /\ table[k] = NoTarget
           /\ plugin.attached /\ plugin.port # NoPort /\ plugin.place # NoPlace
           /\ Place(plugin.place) = k /\ homes[Owner] # NoNode
        THEN [node |-> homes[Owner], port |-> plugin.port]
        ELSE table[k]]

DomainsOf(table) == {k[1] : k \in {j \in Served : table[j] # NoTarget}}

\* The lock is taken and the apps are read ...
UpdateBegin ==
    /\ waiting > 0 /\ update.step = "none"
    /\ waiting' = waiting - 1
    /\ update' = [step |-> "plugins", table |-> AppRoutes, homes |-> [a \in Apps |-> HomeOf(a)]]
    /\ byHand' = FALSE
    /\ UNCHANGED <<routeRowVars, portVars, nginx, secure, issued, good, settled, events>>

\* nginx takes the routes, or they are taken back or not loaded (apply).
Apply(table, certs) ==
    \/ nginx' = table /\ secure' = certs \cap DomainsOf(table) /\ good' = TRUE
    \/ good' = FALSE /\ UNCHANGED <<nginx, secure>>

\* ... then the plugins, and the routes are written.
WriteRoutes ==
    LET table == WithPlugin(update.table, update.homes) IN
    /\ update.step = "plugins"
    /\ Apply(table, issued)
    /\ update' = IF good' /\ DomainsOf(table) \ issued # {}
                 THEN [update EXCEPT !.step = "certs", !.table = table] ELSE NoUpdate
    /\ UNCHANGED <<routeRowVars, portVars, waiting, issued, byHand, settled, events>>

\* issueCert, for each domain without a certificate: it may be refused, or have
\* been refused less than certRetryInterval ago.  With new ones the routes that
\* were read are written again.
IssueCerts ==
    /\ update.step = "certs"
    /\ \E got \in SUBSET (DomainsOf(update.table) \ issued) :
          /\ issued' = issued \cup got
          /\ IF got = {} THEN UNCHANGED <<nginx, secure, good>> ELSE Apply(update.table, issued')
    /\ update' = NoUpdate
    /\ UNCHANGED <<routeRowVars, portVars, waiting, byHand, settled, events>>

-----------------------------------------------------------------------------
RoutesNext ==
    \/ \E a \in Apps :
          \/ \E n \in RouteNodes, pl \in Places \cup {NoPlace}, port \in {NoPort, 1} :
                CreateProject(a, n, pl, port)
          \/ \E n \in RouteNodes : Redispatch(a, n) \/ RemoveContainer(n, a)
          \/ \E pl \in Places \cup {NoPlace}, ports \in {<<app[a].port, app[a].auto>>, <<NoPort, TRUE>>, <<2, FALSE>>} :
                EditRowRead(a, pl, ports)
          \/ \E status \in {"running", "stopped"} : UpdateProjectStatus(a, status)
          \/ DeleteProjectRow(a) \/ JudgeHealth(a)
          \/ RunDeploy(a) \/ RecordFailedDeploy(a) \/ RecordNode(a) \/ RecordPorts(a)
    \/ EditRowSave
    \/ \E pl \in Places \cup {NoPlace} : Attach(pl) \/ MovePlugin(pl)
    \/ Detach
    \/ UpdateBegin \/ WriteRoutes \/ IssueCerts

RoutesSpec == RoutesInit /\ [][RoutesNext]_routeVars

-----------------------------------------------------------------------------
(* Properties *)

RoutesTypeOK ==
    /\ app \in [Apps -> [status : {"none", "deploying", "running", "stopped", "failed", "deleted"},
                         node : RouteNodes \cup {NoNode}, port : {NoPort} \cup HostPorts,
                         auto : BOOLEAN, place : Places \cup {NoPlace}]]
    /\ plugin \in [attached : BOOLEAN, place : Places \cup {NoPlace}, port : {NoPort} \cup HostPorts]
    /\ bound \in [RouteNodes -> [HostPorts -> {Free, Foreign, Plug} \cup Apps]]
    /\ leaving \subseteq RouteNodes \X Apps
    /\ waiting \in Nat /\ secure \subseteq issued
    /\ \A n \in RouteNodes, x \in Apps \cup {Plug}, p, q \in HostPorts :
          bound[n][p] = x /\ bound[n][q] = x => p = q

\* No update is waiting or under way, and the last one got through.
RoutesQuiet ==
    /\ waiting = 0 /\ update.step = "none" /\ good
    /\ \A a \in Apps : ship[a].step # "noted"

\* Whatever changed while an update was reading rows, reloading nginx or
\* waiting for certificates: once no update is left, nginx serves exactly what
\* the rows say, over HTTPS where there is a certificate.
RoutesCurrent ==
    RoutesQuiet /\ ~byHand =>
        /\ nginx = WithPlugin(AppRoutes, [a \in Apps |-> HomeOf(a)])
        /\ secure = issued \cap DomainsOf(nginx)

\* The container of the app or plugin x gets what nginx sends to place pl.
Reaches(pl, x) ==
    LET t == nginx[Place(pl)] IN
    t.node # NoNode /\ t.port \in HostPorts /\ bound[t.node][t.port] = x

\* The first app at its place, in the order of their names.
FirstThere(a) ==
    app[a].place # NoPlace /\ HomeOf(a) # NoNode
        /\ \A b \in Apps : b < a /\ HomeOf(b) # NoNode /\ app[b].place # NoPlace
                              => Place(app[b].place) # Place(app[a].place)

\* An app whose newest deploy succeeded is reached at its domain, on the port
\* its container got on the node it got to, and so is its public plugin.
AppsAreReached ==
    RoutesQuiet /\ ~byHand =>
        /\ \A a \in Apps : settled[a] /\ FirstThere(a) => Reaches(app[a].place, a)
        /\ (/\ plugin.attached /\ plugin.place # NoPlace /\ settled[Owner] /\ HomeOf(Owner) # NoNode
            /\ \A a \in Apps : HomeOf(a) = NoNode \/ app[a].place = NoPlace
                                  \/ Place(app[a].place) # Place(plugin.place))
               => Reaches(plugin.place, Plug)
=============================================================================
