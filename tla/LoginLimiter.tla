---------------------------- MODULE LoginLimiter ----------------------------
(***************************************************************************)
(* How often a wrong password or code may be tried (loginlimit.go), and    *)
(* the handlers that ask the limiter before they check an answer and tell  *)
(* it afterwards (auth.go, twofactor.go, sessions.go, cli_auth.go).        *)
(*                                                                         *)
(* A failure is its age: the code keeps the moment it happened and forgets *)
(* it, when the key is next looked at, once it is a window old; here it is *)
(* forgotten as it gets that old, which nobody can tell apart.  The names  *)
(* stand for usernames and for what the handlers use in their place (a     *)
(* passkey's address, a command line's code).                              *)
(***************************************************************************)
EXTENDS Integers, FiniteSets, Sequences

CONSTANTS
    Addresses, Names,
    Attempts,        \* bound: requests being answered at the same time
    Window,          \* loginWindow, in ticks
    PerAddress, PerName  \* loginFailuresPerIP, loginFailuresPerUser

ASSUME LimiterAssumption ==
    /\ Addresses \cap Names = {} /\ IsFiniteSet(Attempts)
    /\ {Window, PerAddress, PerName} \subseteq Nat \ {0}

VARIABLES
    failures,  \* of a key, the ages of its failures, oldest first
    attempt,   \* what each request is checking, past the limiter
    guesses    \* history: wrong answers of an address within the window

limiterVars == <<failures, attempt, guesses>>

LimiterKeys == Addresses \cup Names
Resting == [from |-> {}, as |-> {}]
Limit(k) == IF k \in Addresses THEN PerAddress ELSE PerName

KeyBlocked(k) == Len(failures[k]) >= Limit(k)

Blocked(a, n) == KeyBlocked(a) \/ KeyBlocked(n)

\* A mutant: the wait is for the oldest failure to be forgotten.
WaitOldest(k) == Window - failures[k][1]

\* How long a blocked key has to wait: until the failure is forgotten that
\* leaves fewer than the limit.
Wait(k) == Window - failures[k][Len(failures[k]) - Limit(k) + 1]

-----------------------------------------------------------------------------

LimiterInit ==
    /\ failures = [k \in LimiterKeys |-> <<>>]
    /\ attempt = [r \in Attempts |-> Resting]
    /\ guesses = [a \in Addresses |-> <<>>]

\* A request the limiter lets through; its answer is checked meanwhile.
Ask(r, a, n) ==
    /\ attempt[r] = Resting /\ ~Blocked(a, n)
    /\ attempt' = [attempt EXCEPT ![r] = [from |-> {a}, as |-> {n}]]
    /\ UNCHANGED <<failures, guesses>>

Failed(r) ==
    LET keys == attempt[r].from \cup attempt[r].as IN
    /\ attempt[r] # Resting
    /\ attempt' = [attempt EXCEPT ![r] = Resting]
    /\ failures' = [k \in LimiterKeys |-> IF k \in keys THEN Append(failures[k], 0) ELSE failures[k]]
    /\ guesses' = [a \in Addresses |-> IF a \in keys THEN Append(guesses[a], 0) ELSE guesses[a]]

\* A mutant: signing in to an account buys more guesses at others.
ForgivenAll(r) == attempt[r].from \cup attempt[r].as

\* What a success clears: the name's count, never the address's.
Forgiven(r) == attempt[r].as

Succeeded(r) ==
    /\ attempt[r] # Resting
    /\ attempt' = [attempt EXCEPT ![r] = Resting]
    /\ failures' = [k \in LimiterKeys |-> IF k \in Forgiven(r) THEN <<>> ELSE failures[k]]
    /\ UNCHANGED guesses

\* The password was right but a code is needed, a passkey signed in, or a
\* setting was changed: neither a failure nor a success for the limiter.
Neither(r) ==
    /\ attempt[r] # Resting
    /\ attempt' = [attempt EXCEPT ![r] = Resting]
    /\ UNCHANGED <<failures, guesses>>

\* The counts live in memory: a restart clears them.
LimiterRestart ==
    /\ failures' = [k \in LimiterKeys |-> <<>>]
    /\ attempt' = [r \in Attempts |-> Resting]
    /\ guesses' = [a \in Addresses |-> <<>>]

\* Failures a window old are forgotten: those at the front, up to the first that
\* is younger.
Older(ages) ==
    LET aged == [i \in DOMAIN ages |-> ages[i] + 1]
        old == {i \in DOMAIN ages : \A j \in 1 .. i : aged[j] >= Window}
    IN SubSeq(aged, Cardinality(old) + 1, Len(ages))

LimiterTick ==
    /\ failures' = [k \in LimiterKeys |-> Older(failures[k])]
    /\ guesses' = [a \in Addresses |-> Older(guesses[a])]
    /\ UNCHANGED attempt

Answered(r) == Failed(r) \/ Succeeded(r) \/ Neither(r)

LimiterNext ==
    \/ \E r \in Attempts : \/ \E a \in Addresses, n \in Names : Ask(r, a, n)
                           \/ Answered(r)
    \/ LimiterRestart
    \/ LimiterTick

LimiterSpec == LimiterInit /\ [][LimiterNext]_limiterVars

-----------------------------------------------------------------------------

\* However the requests overlap and whoever signs in meanwhile, an address
\* gets no more wrong answers within a window than its limit and the requests
\* that were already being checked when it was reached (Blocked and Failed are
\* two calls).
GuessesPerWindow ==
    \A a \in Addresses : Len(guesses[a]) <= PerAddress + Cardinality(Attempts) - 1

\* The wait a blocked key is told is exact, also when requests that were being
\* checked together have taken it over its limit: it is free again after that
\* long, and no sooner.
RetryAfterIsExact ==
    \A k \in LimiterKeys : KeyBlocked(k) =>
        LET left(w) == Cardinality({i \in DOMAIN failures[k] : failures[k][i] + w < Window}) IN
        /\ left(Wait(k)) < Limit(k)
        /\ left(Wait(k) - 1) >= Limit(k)
=============================================================================
