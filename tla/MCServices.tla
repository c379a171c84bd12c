----------------------------- MODULE MCServices -----------------------------
(* The smaller parts of the Hub, which share no state: each behaviour is one  *)
(* part's.                                                                    *)
EXTENDS LoginLimiter, Snapshots, JobLogs, HubUpdate, Routes

CONSTANTS a1, a2, m1, t1, t2, n1, n2, w1, w2, p1, p2, j1, b1, b2

TwoAddresses == {a1, a2}
OneName == {m1}
TwoAttempts == {t1, t2}
TwoSnapNodes == {n1, n2}
TwoWatchers == {w1, w2}
TwoPresses == {p1, p2}
OneTask == {j1}
TwoRouteNodes == {b1, b2}
\* The whole of a domain, asked for in both ways.
OnePlaceTwice == {<<"d", "">>, <<"d", "/">>}

VARIABLE part

ServicesInit ==
    /\ part \in {"limiter", "snapshots", "logs", "update", "routes"}
    /\ LimiterInit /\ SnapshotInit /\ LogInit /\ UpdateInit /\ RoutesInit
    /\ part # "routes" => bound[CHOOSE n \in RouteNodes : TRUE][1] = Owner

ServicesNext ==
    \/ part = "limiter" /\ LimiterNext /\ UNCHANGED <<snapshotVars, logVars, updateVars, routeVars, part>>
    \/ part = "snapshots" /\ SnapshotNext /\ UNCHANGED <<limiterVars, logVars, updateVars, routeVars, part>>
    \/ part = "logs" /\ LogNext /\ UNCHANGED <<limiterVars, snapshotVars, updateVars, routeVars, part>>
    \/ part = "update" /\ UpdateNext /\ UNCHANGED <<limiterVars, snapshotVars, logVars, routeVars, part>>
    \/ part = "routes" /\ RoutesNext /\ UNCHANGED <<limiterVars, snapshotVars, logVars, updateVars, part>>

serviceVars == <<limiterVars, snapshotVars, logVars, updateVars, routeVars, part>>

ServicesSpec ==
    /\ ServicesInit /\ [][ServicesNext]_serviceVars
    /\ \A n \in SnapNodes : WF_snapshotVars(part = "snapshots" /\ Asks(n))
    /\ WF_updateVars(part = "update" /\ \E p \in Presses : LookAtJobs(p))

\* Every variable of every part has its type.
ServicesTypeOK == SnapshotTypeOK /\ LogTypeOK /\ UpdateTypeOK /\ RoutesTypeOK
=============================================================================
