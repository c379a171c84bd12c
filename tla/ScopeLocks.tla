----------------------------- MODULE ScopeLocks -----------------------------
(***************************************************************************)
(* What the job queue of one node promises its callers, without how it     *)
(* keeps the promise: a job takes the lock of the scope it works on before *)
(* it starts and gives it back when it ends.  At most Limit locks are held *)
(* at once, no scope is held twice, and a job without a scope (NoScope)    *)
(* holds the whole node.  models/jobs.go:37-40 states the promise.         *)
(***************************************************************************)
EXTENDS Integers, FiniteSets

CONSTANTS Jobs, Scopes, NoScope, Limit

VARIABLE held   \* the locks held: a set of [job, scope] records

Locks == [job : Jobs, scope : Scopes \cup {NoScope}]

\* Two jobs on these scopes may run side by side.
Compatible(s, t) == s # NoScope /\ t # NoScope /\ s # t

Init == held = {}

Acquire(lock) ==
    /\ Cardinality(held) < Limit
    /\ \A h \in held : Compatible(h.scope, lock.scope)
    /\ held' = held \cup {lock}

\* Jobs end, are given up, or are forgotten together when the agent restarts.
Release(some) == held' = held \ some

Next ==
    \/ \E lock \in Locks : Acquire(lock)
    \/ \E some \in SUBSET held : Release(some)

Spec == Init /\ [][Next]_held
=============================================================================
