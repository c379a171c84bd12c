----------------------------- MODULE CliLogins -----------------------------
(***************************************************************************)
(* Signing the command line in through the browser: the requests the Hub   *)
(* keeps in memory (cli_auth.go, handlers/cli_auth.go), the command that   *)
(* polls (login.go), and the credentials this leaves, with the role they   *)
(* act in while their owner's role changes (settings_service.go,           *)
(* auth_service.go).  A tick is cliStartsPerMin's minute.                  *)
(***************************************************************************)
EXTENDS Integers, FiniteSets

CONSTANTS
    People,       \* users who answer requests
    Clis,         \* command lines; each asks once, so it also names its request
    Answers,      \* bound: answers being given at the same time
    RequestLife,  \* cliRequestLife, in ticks
    StartsPerTick, MaxPending  \* cliStartsPerMin and cliMaxPending

ASSUME CliAssumption ==
    {RequestLife, StartsPerTick, MaxPending} \subseteq Nat \ {0} /\ "settings" \notin Clis

VARIABLES
    role,        \* of each person, in the database; "none" once deleted
    pending,     \* the requests in the Hub's memory
    starts,      \* how many were made in this minute
    cli,         \* what each command line is doing
    answer,      \* answers whose sender has been let in but that are not given yet
    credential   \* the tokens and sessions made by approvals, in the database

cliVars == <<role, pending, starts, cli, answer, credential>>

Rank == [none |-> 0, viewer |-> 1, operator |-> 2, admin |-> 3]
Roles == DOMAIN Rank
ScopeRole == [read |-> "viewer", operate |-> "operator", admin |-> "admin"]
Scopes == DOMAIN ScopeRole

\* The role a token acts in: its owner's, lowered to that of its scope.
CapRole(r, scope) ==
    IF scope \notin Scopes \/ Rank[ScopeRole[scope]] >= Rank[r] THEN r ELSE ScopeRole[scope]

NoPending == [status |-> "none", age |-> 0, of |-> {}]
Waiting == [doing |-> "polling", since |-> 0]
NoAnswer == [by |-> {}]

\* A mutant: requests never run out.
ExpiredNever(c) == FALSE

Expired(c) == pending[c].age > RequestLife

\* Every variable has its type; a request lives a tick longer than its answer
\* would count, at most.
CliTypeOK ==
    /\ role \in [People -> Roles]
    /\ pending \in [Clis -> [status : {"none", "pending", "approved", "denied"}, age : 0 .. RequestLife + 1,
                             of : SUBSET [for : Clis, owner : People, kind : {"permanent", "session"},
                                          scope : Scopes, nth : 1 .. 2]]]
    /\ starts \in 0 .. StartsPerTick
    /\ \A c \in Clis : cli[c].doing \in {"idle", "polling", "signed in", "failed", "signed out"}
    /\ \A x \in credential : x.owner \in People /\ x.scope \in Scopes

-----------------------------------------------------------------------------

CliInit ==
    /\ role \in [People -> {"admin", "operator"}]
    /\ pending = [c \in Clis |-> NoPending]
    /\ starts = 0
    /\ cli = [c \in Clis |-> [doing |-> "idle"]]
    /\ answer = [a \in Answers |-> NoAnswer]
    /\ credential = {}

Live(reqs) == {c \in Clis : reqs[c] # NoPending}
Pruned == [c \in Clis |-> IF Expired(c) THEN NoPending ELSE pending[c]]

\* asdl-hub login: the Hub forgets requests that have run out, refuses too many
\* in a minute or in all, and keeps the new one.
Start(c) ==
    /\ cli[c].doing = "idle"
    /\ IF starts < StartsPerTick /\ Cardinality(Live(Pruned)) < MaxPending
       THEN /\ pending' = [Pruned EXCEPT ![c] = [status |-> "pending", age |-> 0, of |-> {}]]
            /\ starts' = starts + 1
            /\ cli' = [cli EXCEPT ![c] = Waiting]
       ELSE /\ pending' = Pruned
            /\ cli' = [cli EXCEPT ![c] = [doing |-> "failed"]]
            /\ UNCHANGED starts
    /\ UNCHANGED <<role, answer, credential>>

\* A signed-in person answers the request they see: the middleware lets them in
\* with the role they have now ...
Answer(a, p, c) ==
    /\ answer[a] = NoAnswer /\ role[p] # "none"
    /\ answer' = [answer EXCEPT ![a] = [by |-> {p}, as |-> role[p], to |-> c]]
    /\ UNCHANGED <<role, pending, starts, cli, credential>>

\* A mutant: a request that was answered can be answered again.
AnswerableAgain(c) == pending[c].status # "none" /\ ~Expired(c)

Answerable(c) == pending[c].status = "pending" /\ ~Expired(c)

\* ... and then approve it, which makes an admin a permanent token and others a
\* session of a day ...
Approve(a) ==
    LET c == answer[a].to IN
    /\ answer[a] # NoAnswer
    /\ IF Answerable(c)
       THEN \E p \in answer[a].by :
            LET admin == answer[a].as = "admin"
                made == [for |-> c, owner |-> p, kind |-> IF admin THEN "permanent" ELSE "session",
                         scope |-> "admin",
                         nth |-> Cardinality({x \in credential : x.for = c}) + 1] IN
            /\ credential' = credential \cup {made}
            /\ pending' = [pending EXCEPT ![c].status = "approved", ![c].of = {made}]
       ELSE UNCHANGED <<credential, pending>>
    /\ answer' = [answer EXCEPT ![a] = NoAnswer]
    /\ UNCHANGED <<role, starts, cli>>

\* ... or turn it down.
Deny(a) ==
    LET c == answer[a].to IN
    /\ answer[a] # NoAnswer
    /\ pending' = IF Answerable(c) THEN [pending EXCEPT ![c].status = "denied"] ELSE pending
    /\ answer' = [answer EXCEPT ![a] = NoAnswer]
    /\ UNCHANGED <<role, starts, cli, credential>>

\* The command line asks.  An approved request hands its token over and is
\* forgotten, as is one that was denied or has run out; a request the Hub does
\* not know fails the login too.  The answer may be lost on the way back.
Poll(c) ==
    LET r == pending[c]
        fails == r.status = "none" \/ Expired(c) \/ r.status = "denied" IN
    /\ cli[c].doing = "polling"
    /\ \/ /\ r.status = "pending" /\ ~Expired(c)
          /\ UNCHANGED <<pending, cli>>
       \/ /\ fails
          /\ pending' = [pending EXCEPT ![c] = NoPending]
          /\ cli' = [cli EXCEPT ![c] = [doing |-> "failed"]]
       \/ /\ r.status = "approved" /\ ~Expired(c)
          /\ pending' = [pending EXCEPT ![c] = NoPending]
          /\ \E lost \in BOOLEAN :
               cli' = [cli EXCEPT ![c] = IF lost THEN [doing |-> "failed"]
                                         ELSE [doing |-> "signed in", with |-> r.of]]
    /\ UNCHANGED <<role, starts, answer, credential>>

\* Nobody approved the login in time.
GiveUp(c) ==
    /\ cli[c].doing = "polling" /\ cli[c].since >= RequestLife
    /\ cli' = [cli EXCEPT ![c] = [doing |-> "failed"]]
    /\ UNCHANGED <<role, pending, starts, answer, credential>>

-----------------------------------------------------------------------------

\* The role a credential acts in now, "none" when it is refused: a permanent
\* token's is its owner's within its scope, a session's its owner's.
ActsAs(x) ==
    IF x \notin credential \/ role[x.owner] = "none" THEN "none"
    ELSE IF x.kind = "permanent" THEN CapRole(role[x.owner], x.scope) ELSE role[x.owner]

\* asdl-hub logout: a permanent token that may list the tokens is revoked; the
\* saved login is forgotten either way.
Logout(c) ==
    /\ cli[c].doing = "signed in"
    /\ credential' = credential \ {x \in cli[c].with : x.kind = "permanent" /\ ActsAs(x) = "admin"}
    /\ cli' = [cli EXCEPT ![c] = [doing |-> "signed out"]]
    /\ UNCHANGED <<role, pending, starts, answer>>

\* An admin makes a token of some scope in Settings (bound: while there
\* is no other credential), which asks for the password again.
GenerateToken(p, scope) ==
    /\ role[p] = "admin" /\ credential = {}
    /\ credential' = credential \cup {[for |-> "settings", owner |-> p, kind |-> "permanent",
                                       scope |-> scope, nth |-> 1]}
    /\ UNCHANGED <<role, pending, starts, cli, answer>>

\* An admin revokes a token, or the owner signs the session out, in Settings.
RevokeCredential(x) ==
    /\ x \in credential
    /\ credential' = credential \ {x}
    /\ UNCHANGED <<role, pending, starts, cli, answer>>

\* Sessions go with their user; permanent tokens stay, without an owner.
DeletePerson(p) ==
    /\ role[p] # "none"
    /\ role' = [role EXCEPT ![p] = "none"]
    /\ credential' = {x \in credential : x.kind = "permanent" \/ x.owner # p}
    /\ UNCHANGED <<pending, starts, cli, answer>>

ChangeRole(p, r) ==
    /\ role[p] \notin {"none", r}
    /\ role' = [role EXCEPT ![p] = r]
    /\ UNCHANGED <<pending, starts, cli, answer, credential>>

\* Requests do not outlive the Hub, nor do answers that were being given.
CliRestart ==
    /\ pending' = [c \in Clis |-> NoPending]
    /\ starts' = 0
    /\ answer' = [a \in Answers |-> NoAnswer]
    /\ UNCHANGED <<role, cli, credential>>

CliTick ==
    /\ pending' = [c \in Clis |-> IF pending[c] # NoPending /\ ~Expired(c)
                                  THEN [pending[c] EXCEPT !.age = @ + 1] ELSE pending[c]]
    /\ starts' = 0
    /\ cli' = [c \in Clis |-> IF cli[c].doing = "polling" /\ cli[c].since < RequestLife
                              THEN [cli[c] EXCEPT !.since = @ + 1] ELSE cli[c]]
    /\ UNCHANGED <<role, answer, credential>>

CliNext ==
    \/ \E c \in Clis : Start(c) \/ Poll(c) \/ GiveUp(c) \/ Logout(c)
    \/ \E a \in Answers : \/ Approve(a)
                          \/ Deny(a)
                          \/ \E p \in People, c \in Clis : Answer(a, p, c)
    \/ \E p \in People : \/ DeletePerson(p)
                         \/ \E r \in Roles \ {"none"} : ChangeRole(p, r)
                         \/ \E scope \in Scopes : GenerateToken(p, scope)
    \/ \E x \in credential : RevokeCredential(x)
    \/ CliRestart
    \/ CliTick

CliSpec == CliInit /\ [][CliNext]_cliVars

-----------------------------------------------------------------------------

\* A request is answered once, however many answers are being given at the same
\* time: it makes one credential at most, and the command line that is signed in
\* with one is the one whose request it answers.
AnsweredOnce ==
    /\ \A x \in credential : x.nth = 1
    /\ \A c \in Clis : cli[c].doing = "signed in" => \A x \in cli[c].with : x.for = c
    /\ \A c \in Clis : pending[c].status \in {"pending", "denied"} => pending[c].of = {}
=============================================================================
