----------------------------- MODULE MCJobQueue -----------------------------
(* JobQueue with the kinds of jobs TLC creates. *)
EXTENDS JobQueue, TLC

CONSTANTS app, other, third

MCScopes == {app, other, third}
ScopeSymmetry == Permutations(MCScopes)

\* Restarts of three apps' containers, a job that runs alone and a log stream.
\* A restart is interactive: all that a deploy may do, and be found stale too.
MCKinds ==
    [type : {"interactive"}, scope : MCScopes]
        \cup [type : {"work", "logs_follow"}, scope : {NoScope}]

\* What starvation is about: one app's jobs and a job that needs the idle node.
MCFewKinds ==
    { [type |-> "work", scope |-> app],
      [type |-> "interactive", scope |-> NoScope] }
=============================================================================
