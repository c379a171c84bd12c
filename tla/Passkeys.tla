------------------------------ MODULE Passkeys ------------------------------
(***************************************************************************)
(* Adding passkeys and signing in with them (passkey_service.go, the       *)
(* passkey handlers of sessions.go).  A ceremony is begun by one request,  *)
(* kept in memory while the browser asks its user, and finished by         *)
(* another, which takes it out first and writes to the database last.      *)
(* What the browser and the webauthn library do is external: an            *)
(* authenticator's answer carries the number of times it has been used.    *)
(***************************************************************************)
EXTENDS Integers, FiniteSets

CONSTANTS
    Owners,
    Keys,         \* authenticators; each can hold one passkey
    Ceremonies,   \* bound: ceremonies in all
    Finishers,    \* bound: requests that are finishing one at the same time
    CeremonyLife, \* in ticks
    MaxUses       \* bound: times an authenticator is used

ASSUME PasskeyAssumption == {CeremonyLife, MaxUses} \subseteq Nat \ {0} /\ IsFiniteSet(Finishers)

VARIABLES
    ceremony,  \* those begun and not taken; their state otherwise
    finishing, \* what each finishing request has taken and checked
    passkey,   \* the owner and stored count of each registered passkey
    uses,      \* how often each authenticator was really used
    outcome    \* history: what each ceremony led to

passkeyVars == <<ceremony, finishing, passkey, uses, outcome>>

NoKey == [owners |-> {}, count |-> 0]
NotBegun == [kind |-> "new", age |-> 0, by |-> {}]
Taken == [kind |-> "taken", age |-> 0, by |-> {}]
AtRest == [does |-> "nothing"]

\* Every variable has its type.
PasskeyTypeOK ==
    /\ ceremony \in [Ceremonies -> [kind : {"new", "register", "login", "taken"},
                                    age : 0 .. CeremonyLife + 1, by : SUBSET Owners]]
    /\ \A f \in Finishers : finishing[f].does \in {"nothing", "register", "login"}
    /\ passkey \in [Keys -> [owners : SUBSET Owners, count : 0 .. MaxUses]]
    /\ uses \in [Keys -> 0 .. MaxUses]
    /\ outcome \in [Ceremonies -> 0 .. Cardinality(Finishers)]

-----------------------------------------------------------------------------

PasskeyInit ==
    /\ ceremony = [c \in Ceremonies |-> NotBegun]
    /\ finishing = [f \in Finishers |-> AtRest]
    /\ passkey = [k \in Keys |-> NoKey]
    /\ uses = [k \in Keys |-> 0]
    /\ outcome = [c \in Ceremonies |-> 0]

\* Registration is begun after the password, and the code when two-factor is on,
\* were right; a sign-in by anyone.  Ceremonies that have run out go.
Put(c, kind, by) ==
    /\ ceremony[c] = NotBegun
    /\ ceremony' = [d \in Ceremonies |->
          IF d = c THEN [kind |-> kind, age |-> 0, by |-> by]
          ELSE IF ceremony[d].age > CeremonyLife THEN Taken ELSE ceremony[d]]
    /\ UNCHANGED <<finishing, passkey, uses, outcome>>

BeginRegistration(c, o) == Put(c, "register", {o})
BeginLogin(c) == Put(c, "login", {})

\* A mutant: a ceremony is looked up but stays.
TakenOutNot(c) == ceremony[c]

\* A ceremony is taken once, also when it is of another kind, or too old.
TakenOut(c) == Taken

Usable(c, kind) == ceremony[c].kind = kind /\ ceremony[c].age <= CeremonyLife

\* Finishing a registration: the ceremony is taken and must be the user's own;
\* then the passkey is to be saved, with the count its authenticator reports.
TakeRegistration(f, c, o, k) ==
    LET right == Usable(c, "register") /\ ceremony[c].by = {o} IN
    /\ finishing[f] = AtRest /\ ceremony[c].kind \notin {"new", "taken"}
    /\ ceremony' = [ceremony EXCEPT ![c] = TakenOut(c)]
    /\ finishing' = IF right THEN [finishing EXCEPT ![f] = [does |-> "register", from |-> c, key |-> k, count |-> uses[k],
                                                            owner |-> {o}]]
                    ELSE finishing
    /\ UNCHANGED <<passkey, uses, outcome>>

\* An authenticator that is already added is refused.
SaveRegistration(f) ==
    LET r == finishing[f] IN
    /\ r.does = "register"
    /\ IF passkey[r.key] = NoKey
       THEN /\ passkey' = [passkey EXCEPT ![r.key] = [owners |-> r.owner, count |-> r.count]]
            /\ outcome' = [outcome EXCEPT ![r.from] = @ + 1]
       ELSE UNCHANGED <<passkey, outcome>>
    /\ finishing' = [finishing EXCEPT ![f] = AtRest]
    /\ UNCHANGED <<ceremony, uses>>

\* The authenticator's count went on since it was last seen; one that keeps no
\* count reports 0 and is let through.
CountsOn(stored, reported) == reported > stored \/ (reported = 0 /\ stored = 0)

\* Finishing a sign-in: the ceremony is taken, the passkey is found, and its
\* count must have gone on.
TakeLogin(f, c, k) ==
    LET right == Usable(c, "login")
        known == right /\ passkey[k] # NoKey /\ CountsOn(passkey[k].count, uses[k] + 1) IN
    /\ finishing[f] = AtRest /\ ceremony[c].kind \notin {"new", "taken"} /\ uses[k] < MaxUses
    /\ ceremony' = [ceremony EXCEPT ![c] = TakenOut(c)]
    /\ uses' = IF right THEN [uses EXCEPT ![k] = @ + 1] ELSE uses
    /\ finishing' = IF known THEN [finishing EXCEPT ![f] = [does |-> "login", from |-> c, key |-> k, count |-> uses[k] + 1,
                                                            owner |-> passkey[k].owners]]
                    ELSE finishing
    /\ UNCHANGED <<passkey, outcome>>

\* The count is stored, if the passkey is still there, and the session made.
SaveLogin(f) ==
    LET r == finishing[f] IN
    /\ r.does = "login"
    /\ passkey' = IF passkey[r.key].owners = r.owner THEN [passkey EXCEPT ![r.key].count = r.count] ELSE passkey
    /\ outcome' = [outcome EXCEPT ![r.from] = @ + 1]
    /\ finishing' = [finishing EXCEPT ![f] = AtRest]
    /\ UNCHANGED <<ceremony, uses>>
DeletePasskey(k) ==
    /\ passkey[k] # NoKey
    /\ passkey' = [passkey EXCEPT ![k] = NoKey]
    /\ UNCHANGED <<ceremony, finishing, uses, outcome>>

\* Ceremonies, and what was being finished, do not outlive the Hub.
PasskeyRestart ==
    /\ ceremony' = [c \in Ceremonies |-> IF ceremony[c] = NotBegun THEN NotBegun ELSE Taken]
    /\ finishing' = [f \in Finishers |-> AtRest]
    /\ UNCHANGED <<passkey, uses, outcome>>

PasskeyTick ==
    /\ ceremony' = [c \in Ceremonies |-> IF ceremony[c].kind \in {"register", "login"} /\ ceremony[c].age <= CeremonyLife
                                         THEN [ceremony[c] EXCEPT !.age = @ + 1] ELSE ceremony[c]]
    /\ UNCHANGED <<finishing, passkey, uses, outcome>>

PasskeyNext ==
    \/ \E c \in Ceremonies : \/ BeginLogin(c)
                             \/ \E o \in Owners : BeginRegistration(c, o)
    \/ \E f \in Finishers : \/ SaveRegistration(f)
                            \/ SaveLogin(f)
                            \/ \E c \in Ceremonies, k \in Keys : \/ TakeLogin(f, c, k)
                                                                 \/ \E o \in Owners : TakeRegistration(f, c, o, k)
    \/ \E k \in Keys : DeletePasskey(k)
    \/ PasskeyRestart
    \/ PasskeyTick

PasskeySpec == PasskeyInit /\ [][PasskeyNext]_passkeyVars

-----------------------------------------------------------------------------

\* A ceremony signs in, or adds a passkey, at most once, however often and at the
\* same time it is finished; one that was never begun, or was begun by another
\* user, leads to nothing.
OncePerCeremony ==
    \A c \in Ceremonies :
        outcome[c] + Cardinality({f \in Finishers : finishing[f] # AtRest /\ finishing[f].from = c})
            <= IF ceremony[c] = Taken THEN 1 ELSE 0
=============================================================================
