---------------------------- MODULE SignInProofs ----------------------------
(***************************************************************************)
(* Theorems about Passkeys, CliLogins and Accounts, and about these and    *)
(* Enrollment together, for any people, requests, lifetimes and bounds,    *)
(* and any order of their steps.                                           *)
(***************************************************************************)
EXTENDS MCSignIn, EnrollmentProofs

Alone(S) == \A x, y \in S : x = y

LEMMA CardinalityOfAlone ==
    ASSUME NEW S, Alone(S)
    PROVE  Cardinality(S) \in {0, 1} /\ (S = {} => Cardinality(S) = 0)
<1>1. CASE S = {}
  BY <1>1, FS_EmptySet
<1>2. CASE S # {}
  <2>1. PICK x : S = {x}
    BY <1>2 DEF Alone
  <2>2. QED
    BY <1>2, <2>1, FS_Singleton
<1>3. QED
  BY <1>1, <1>2

-----------------------------------------------------------------------------
(* Passkeys: a ceremony leads to one thing.                                  *)

CeremonyRow == [kind : {"new", "register", "login", "taken"}, age : 0 .. CeremonyLife + 1, by : SUBSET Owners]
InHand == [does : {"register", "login"}, from : Ceremonies, key : Keys, count : 0 .. MaxUses,
           owner : SUBSET Owners]
From(c) == {f \in Finishers : finishing[f] # AtRest /\ finishing[f].from = c}

PasskeyTyped ==
    /\ ceremony \in [Ceremonies -> CeremonyRow]
    /\ finishing \in [Finishers -> InHand \cup {AtRest}]
    /\ passkey \in [Keys -> [owners : SUBSET Owners, count : 0 .. MaxUses]]
    /\ uses \in [Keys -> 0 .. MaxUses]
    /\ outcome \in [Ceremonies -> 0 .. 1]

\* What came of a ceremony, or is being finished, took it: one thing, ever.
LedOnce(c) ==
    /\ ceremony[c] # Taken => outcome[c] = 0 /\ From(c) = {}
    /\ Alone(From(c))
    /\ outcome[c] = 1 => From(c) = {}
PasskeyInv ==
    /\ PasskeyTyped
    /\ \A c \in Ceremonies : LedOnce(c)
    /\ \A c \in Ceremonies : outcome[c] = 1 => Finishers # {}

LEMMA PasskeyBounds == CeremonyLife \in Nat \ {0} /\ MaxUses \in Nat \ {0} /\ IsFiniteSet(Finishers)
BY PasskeyAssumption

LEMMA PasskeyInvInit == PasskeyInit => PasskeyInv
<1> SUFFICES ASSUME PasskeyInit PROVE PasskeyInv
  OBVIOUS
<1>1. PasskeyTyped
  BY PasskeyBounds DEF PasskeyInit, PasskeyTyped, CeremonyRow, NotBegun, NoKey
<1>2. \A c \in Ceremonies : From(c) = {} /\ outcome[c] = 0
  BY DEF PasskeyInit, From
<1>3. QED
  BY <1>1, <1>2 DEF PasskeyInv, LedOnce, Alone

\* A ceremony is taken by one finisher, which may go on with it.
LEMMA TakeKeeps ==
    ASSUME PasskeyInv, NEW f \in Finishers, NEW c \in Ceremonies,
           finishing[f] = AtRest, ceremony[c].kind \notin {"new", "taken"},
           ceremony' = [ceremony EXCEPT ![c] = TakenOut(c)],
           \/ finishing' = finishing
           \/ \E h \in InHand : h.from = c /\ finishing' = [finishing EXCEPT ![f] = h],
           uses' \in [Keys -> 0 .. MaxUses], UNCHANGED <<passkey, outcome>>
    PROVE  PasskeyInv'
<1>1. Taken \in CeremonyRow /\ ceremony[c] # Taken /\ ceremony'[c] = Taken
  BY PasskeyBounds DEF PasskeyInv, PasskeyTyped, CeremonyRow, Taken, TakenOut
<1>2. PasskeyTyped'
  BY <1>1 DEF PasskeyInv, PasskeyTyped, TakenOut
<1>3. From(c) = {} /\ outcome[c] = 0
  BY <1>1 DEF PasskeyInv, LedOnce
<1>4. From(c)' \subseteq {f}
  BY <1>3 DEF From, PasskeyInv, PasskeyTyped
<1>5. LedOnce(c)'
  BY <1>1, <1>3, <1>4 DEF LedOnce, Alone
<1>6. ASSUME NEW d \in Ceremonies, d # c PROVE LedOnce(d)'
  <2>1. From(d)' = From(d)
    BY <1>6 DEF From, PasskeyInv, PasskeyTyped
  <2>2. ceremony'[d] = ceremony[d] /\ outcome'[d] = outcome[d]
    BY <1>6 DEF PasskeyInv, PasskeyTyped
  <2>3. QED
    BY <2>1, <2>2 DEF PasskeyInv, LedOnce
<1>7. QED
  BY <1>2, <1>5, <1>6 DEF PasskeyInv

\* What is finished is no longer in hand, and comes of its ceremony or does not.
LEMMA SaveKeeps ==
    ASSUME PasskeyInv, NEW f \in Finishers, finishing[f] # AtRest,
           finishing' = [finishing EXCEPT ![f] = AtRest],
           \/ outcome' = outcome
           \/ outcome' = [outcome EXCEPT ![finishing[f].from] = @ + 1],
           passkey' \in [Keys -> [owners : SUBSET Owners, count : 0 .. MaxUses]],
           UNCHANGED <<ceremony, uses>>
    PROVE  PasskeyInv'
<1>1. PICK c \in Ceremonies : c = finishing[f].from /\ f \in From(c)
  BY DEF PasskeyInv, PasskeyTyped, InHand, From
<1>2. From(c) = {f} /\ ceremony[c] = Taken /\ outcome[c] = 0
  BY <1>1 DEF PasskeyInv, LedOnce, Alone, PasskeyTyped
<1>3. /\ outcome' \in [Ceremonies -> 0 .. 1]
      /\ \A d \in Ceremonies \ {c} : outcome'[d] = outcome[d]
  BY <1>1, <1>2 DEF PasskeyInv, PasskeyTyped
<1>4. PasskeyTyped'
  BY <1>3 DEF PasskeyInv, PasskeyTyped
<1>5. From(c)' = {}
  BY <1>1, <1>2 DEF From, PasskeyInv, PasskeyTyped
<1>6. LedOnce(c)'
  BY <1>2, <1>5 DEF LedOnce, Alone
<1>7. ASSUME NEW d \in Ceremonies, d # c PROVE LedOnce(d)'
  <2>1. From(d)' = From(d)
    BY <1>1, <1>7 DEF From, PasskeyInv, PasskeyTyped
  <2>2. QED
    BY <1>3, <1>7, <2>1 DEF PasskeyInv, LedOnce
<1>8. QED
  BY <1>4, <1>6, <1>7 DEF PasskeyInv

\* Nothing that was taken comes back, and nothing is finished.
LEMMA CeremoniesKeep ==
    ASSUME PasskeyInv, ceremony' \in [Ceremonies -> CeremonyRow],
           \A c \in Ceremonies : ceremony'[c] # Taken => ceremony[c] # Taken,
           passkey' \in [Keys -> [owners : SUBSET Owners, count : 0 .. MaxUses]],
           finishing' = finishing \/ finishing' = [f \in Finishers |-> AtRest],
           UNCHANGED <<uses, outcome>>
    PROVE  PasskeyInv'
<1>1. PasskeyTyped'
  BY DEF PasskeyInv, PasskeyTyped
<1>2. \A c \in Ceremonies : From(c)' \subseteq From(c)
  BY DEF From
<1>3. QED
  BY <1>1, <1>2 DEF PasskeyInv, LedOnce, Alone

LEMMA PasskeyInvStep == PasskeyInv /\ [PasskeyNext]_passkeyVars => PasskeyInv'
<1> SUFFICES ASSUME PasskeyInv, [PasskeyNext]_passkeyVars PROVE PasskeyInv'
  OBVIOUS
<1>1. /\ PasskeyTyped /\ Taken \in CeremonyRow /\ NotBegun \in CeremonyRow
      /\ NoKey \in [owners : SUBSET Owners, count : 0 .. MaxUses]
      /\ NotBegun # Taken /\ Taken.age = 0
  BY PasskeyBounds DEF PasskeyInv, CeremonyRow, Taken, NotBegun, NoKey
<1>2. ASSUME NEW c \in Ceremonies, BeginLogin(c) \/ \E o \in Owners : BeginRegistration(c, o)
      PROVE  PasskeyInv'
  <2>1. PICK row \in CeremonyRow :
           /\ row.kind # "taken"
           /\ ceremony' = [d \in Ceremonies |-> IF d = c THEN row
                              ELSE IF ceremony[d].age > CeremonyLife THEN Taken ELSE ceremony[d]]
           /\ ceremony[c] = NotBegun /\ UNCHANGED <<finishing, passkey, uses, outcome>>
    <3>1. ASSUME NEW kind \in {"register", "login"}, NEW by \in SUBSET Owners, Put(c, kind, by)
          PROVE  \E row \in CeremonyRow :
                   /\ row.kind # "taken"
                   /\ ceremony' = [d \in Ceremonies |-> IF d = c THEN row
                                      ELSE IF ceremony[d].age > CeremonyLife THEN Taken ELSE ceremony[d]]
                   /\ ceremony[c] = NotBegun /\ UNCHANGED <<finishing, passkey, uses, outcome>>
      <4>1. [kind |-> kind, age |-> 0, by |-> by] \in CeremonyRow
        BY PasskeyBounds DEF CeremonyRow
      <4>2. QED
        BY <3>1, <4>1 DEF Put
    <3>2. CASE BeginLogin(c)
      <4>1. Put(c, "login", {}) /\ {} \in SUBSET Owners
        BY <3>2 DEF BeginLogin
      <4>2. QED
        BY <3>1, <4>1
    <3>3. ASSUME NEW o \in Owners, BeginRegistration(c, o) PROVE Put(c, "register", {o}) /\ {o} \in SUBSET Owners
      BY <3>3 DEF BeginRegistration
    <3>4. QED
      BY <1>2, <3>1, <3>2, <3>3
  <2>2. ceremony' \in [Ceremonies -> CeremonyRow] /\ row # Taken
    BY <1>1, <2>1 DEF PasskeyTyped, Taken
  <2>3. \A d \in Ceremonies : ceremony'[d] # Taken => ceremony[d] # Taken
    BY <1>1, <2>1, <2>2
  <2>4. QED
    BY <1>1, <2>1, <2>2, <2>3, CeremoniesKeep DEF PasskeyTyped
<1>3. ASSUME NEW f \in Finishers, SaveRegistration(f) \/ SaveLogin(f) PROVE PasskeyInv'
  <2>1. finishing[f] # AtRest /\ finishing[f] \in InHand
    BY <1>1, <1>3 DEF SaveRegistration, SaveLogin, AtRest, PasskeyTyped
  <2>2. passkey' \in [Keys -> [owners : SUBSET Owners, count : 0 .. MaxUses]]
    <3>1. CASE SaveRegistration(f)
      <4>1. [owners |-> finishing[f].owner, count |-> finishing[f].count]
               \in [owners : SUBSET Owners, count : 0 .. MaxUses]
        BY <2>1 DEF InHand
      <4>2. QED
        BY <1>1, <3>1, <4>1 DEF SaveRegistration, PasskeyTyped
    <3>2. CASE SaveLogin(f)
      <4>1. finishing[f].key \in Keys /\ finishing[f].count \in 0 .. MaxUses
        BY <2>1 DEF InHand
      <4>2. QED
        BY <1>1, <3>2, <4>1 DEF SaveLogin, PasskeyTyped
    <3>3. QED
      BY <1>3, <3>1, <3>2
  <2>3. QED
    BY <1>3, <2>1, <2>2, SaveKeeps DEF SaveRegistration, SaveLogin
<1>4. ASSUME NEW f \in Finishers, NEW c \in Ceremonies, NEW k \in Keys,
             TakeLogin(f, c, k) \/ \E o \in Owners : TakeRegistration(f, c, o, k)
      PROVE  PasskeyInv'
  <2>1. /\ finishing[f] = AtRest /\ ceremony[c].kind \notin {"new", "taken"}
        /\ ceremony' = [ceremony EXCEPT ![c] = TakenOut(c)] /\ UNCHANGED <<passkey, outcome>>
    BY <1>4 DEF TakeLogin, TakeRegistration
  <2>2. uses' \in [Keys -> 0 .. MaxUses]
    BY <1>1, <1>4, PasskeyBounds DEF TakeLogin, TakeRegistration, PasskeyTyped
  <2>3. \/ finishing' = finishing
        \/ \E h \in InHand : h.from = c /\ finishing' = [finishing EXCEPT ![f] = h]
    <3>1. CASE TakeLogin(f, c, k)
      <4> DEFINE h == [does |-> "login", from |-> c, key |-> k, count |-> uses[k] + 1,
                       owner |-> passkey[k].owners]
      <4>1. uses[k] + 1 \in 0 .. MaxUses
        BY <1>1, <3>1, PasskeyBounds DEF TakeLogin, PasskeyTyped
      <4>2. h \in InHand /\ h.from = c
        BY <1>1, <4>1 DEF InHand, PasskeyTyped
      <4>3. finishing' = finishing \/ finishing' = [finishing EXCEPT ![f] = h]
        BY <3>1 DEF TakeLogin
      <4>4. QED
        BY <4>2, <4>3
    <3>2. ASSUME NEW o \in Owners, TakeRegistration(f, c, o, k)
          PROVE  \/ finishing' = finishing
                 \/ \E h \in InHand : h.from = c /\ finishing' = [finishing EXCEPT ![f] = h]
      <4> DEFINE h == [does |-> "register", from |-> c, key |-> k, count |-> uses[k], owner |-> {o}]
      <4>1. h \in InHand /\ h.from = c
        BY <1>1 DEF InHand, PasskeyTyped
      <4>2. finishing' = finishing \/ finishing' = [finishing EXCEPT ![f] = h]
        BY <3>2 DEF TakeRegistration
      <4>3. QED
        BY <4>1, <4>2
    <3>3. QED
      BY <1>4, <3>1, <3>2
  <2>4. QED
    BY <2>1, <2>2, <2>3, TakeKeeps
<1>5. ASSUME NEW k \in Keys, DeletePasskey(k) PROVE PasskeyInv'
  <2>1. passkey' \in [Keys -> [owners : SUBSET Owners, count : 0 .. MaxUses]]
    BY <1>1, <1>5 DEF DeletePasskey, PasskeyTyped
  <2>2. QED
    BY <1>1, <1>5, <2>1, CeremoniesKeep DEF DeletePasskey, PasskeyTyped
<1>6. CASE PasskeyRestart
  BY <1>1, <1>6, CeremoniesKeep DEF PasskeyRestart, PasskeyTyped
<1>7. CASE PasskeyTick
  <2>1. \A c \in Ceremonies :
           /\ ceremony'[c] \in CeremonyRow
           /\ ceremony'[c] = ceremony[c] \/ ceremony[c].kind \in {"register", "login"}
    <3>1. ASSUME NEW c \in Ceremonies, ceremony[c].age <= CeremonyLife
          PROVE  [ceremony[c] EXCEPT !.age = @ + 1] \in CeremonyRow
      BY <1>1, <3>1, PasskeyBounds DEF PasskeyTyped, CeremonyRow
    <3>2. QED
      BY <1>1, <1>7, <3>1 DEF PasskeyTick, PasskeyTyped
  <2>2. ceremony' \in [Ceremonies -> CeremonyRow] /\ UNCHANGED <<finishing, passkey, uses, outcome>>
    BY <1>7, <2>1 DEF PasskeyTick
  <2>3. \A c \in Ceremonies : ceremony'[c] # Taken => ceremony[c] # Taken
    BY <2>1 DEF Taken
  <2>4. QED
    BY <1>1, <2>2, <2>3, CeremoniesKeep DEF PasskeyTyped
<1>8. CASE UNCHANGED passkeyVars
  BY <1>1, <1>8, CeremoniesKeep DEF passkeyVars, PasskeyTyped
<1>9. CASE PasskeyNext
  BY <1>2, <1>3, <1>4, <1>5, <1>6, <1>7, <1>9 DEF PasskeyNext
<1>10. QED
  BY <1>8, <1>9

LEMMA PasskeyInvHolds == PasskeySpec => []PasskeyInv
<1>1. PasskeyInv /\ [PasskeyNext]_passkeyVars => PasskeyInv'
  BY PasskeyInvStep
<1>2. QED
  BY <1>1, PasskeyInvInit, PTL DEF PasskeySpec

\* A ceremony is taken out once, by one request: whatever the two requests that
\* finish it at the same time, a restart or a deleted passkey do, it signs in or
\* adds a passkey at most once (passkey_service.go).
THEOREM CeremoniesOnce == PasskeySpec => []OncePerCeremony
<1>1. ASSUME PasskeyInv PROVE OncePerCeremony
  <2>1. ASSUME NEW c \in Ceremonies
        PROVE  outcome[c] + Cardinality(From(c)) <= IF ceremony[c] = Taken THEN 1 ELSE 0
    <3>1. /\ LedOnce(c) /\ outcome[c] \in 0 .. 1 /\ Cardinality(From(c)) \in {0, 1}
          /\ (From(c) = {} => Cardinality(From(c)) = 0)
      BY <1>1, CardinalityOfAlone DEF PasskeyInv, PasskeyTyped, LedOnce
    <3>2. QED
      BY <3>1 DEF LedOnce
  <2>2. QED
    BY <2>1 DEF OncePerCeremony, From
<1>2. PasskeyInv => OncePerCeremony
  BY <1>1
<1>3. QED
  BY <1>2, PasskeyInvHolds, PTL

-----------------------------------------------------------------------------
(* Command line logins: a request is answered once.                          *)

Made == [for : Clis, owner : People, kind : {"permanent", "session"}, scope : Scopes, nth : {1}]
Generated == [for : {"settings"}, owner : People, kind : {"permanent"}, scope : Scopes, nth : {1}]
PendingRow == [status : {"none", "pending", "approved", "denied"}, age : 0 .. RequestLife + 1,
               of : SUBSET Made]
CliRow == [doing : {"idle", "failed", "signed out"}] \cup [doing : {"polling"}, since : 0 .. RequestLife]
            \cup [doing : {"signed in"}, with : SUBSET Made]
AnswerRow == [by : {{p} : p \in People}, as : Roles, to : Clis]

CliTyped ==
    /\ role \in [People -> Roles]
    /\ pending \in [Clis -> PendingRow]
    /\ starts \in 0 .. StartsPerTick
    /\ cli \in [Clis -> CliRow]
    /\ answer \in [Answers -> AnswerRow \cup {NoAnswer}]
    /\ credential \subseteq Made \cup Generated

MadeFor(c) == {x \in credential : x.for = c}

\* A request that may still be answered, or made, has led to no credential, and
\* what a request or a command line has in hand was made for it.
AnsweredFor(c) ==
    /\ cli[c].doing = "idle" => pending[c].status = "none" /\ MadeFor(c) = {}
    /\ pending[c].status = "pending" => MadeFor(c) = {}
    /\ pending[c].status # "approved" => pending[c].of = {}
    /\ \A x \in pending[c].of : x.for = c
    /\ cli[c].doing = "signed in" => \A x \in cli[c].with : x.for = c
CliInv == CliTyped /\ \A c \in Clis : AnsweredFor(c)

LEMMA CliBounds ==
    /\ RequestLife \in Nat \ {0} /\ StartsPerTick \in Nat \ {0} /\ MaxPending \in Nat \ {0}
    /\ "settings" \notin Clis
BY CliAssumption

LEMMA CliNames ==
    /\ Roles = {"none", "viewer", "operator", "admin"} /\ Scopes = {"read", "operate", "admin"}
    /\ NoPending \in PendingRow /\ NoPending.status = "none" /\ NoPending.of = {}
    /\ \A d \in {"idle", "failed", "signed out"} : [doing |-> d] \in CliRow
    /\ Waiting \in CliRow
<1>1. Roles = {"none", "viewer", "operator", "admin"}
  BY DEF Roles, Rank
<1>2. Scopes = {"read", "operate", "admin"}
  BY DEF Scopes, ScopeRole
<1>3. NoPending \in PendingRow /\ NoPending.status = "none" /\ NoPending.of = {}
  BY CliBounds DEF NoPending, PendingRow
<1>4. \A d \in {"idle", "failed", "signed out"} : [doing |-> d] \in CliRow
  BY DEF CliRow
<1>5. Waiting \in CliRow
  <2>1. 0 \in 0 .. RequestLife
    BY CliBounds
  <2>2. QED
    BY <2>1 DEF CliRow, Waiting
<1>6. QED
  BY <1>1, <1>2, <1>3, <1>4, <1>5

LEMMA CliInvInit == CliInit => CliInv
<1> SUFFICES ASSUME CliInit PROVE CliInv
  OBVIOUS
<1>1. CliTyped
  <2>1. role \in [People -> Roles] /\ credential = {}
    BY CliNames DEF CliInit
  <2>2. starts \in 0 .. StartsPerTick
    BY CliBounds DEF CliInit
  <2>3. pending \in [Clis -> PendingRow] /\ cli \in [Clis -> CliRow]
    BY CliNames DEF CliInit
  <2>4. answer \in [Answers -> AnswerRow \cup {NoAnswer}]
    BY DEF CliInit
  <2>5. QED
    BY <2>1, <2>2, <2>3, <2>4 DEF CliTyped
<1>2. \A c \in Clis : AnsweredFor(c)
  BY DEF CliInit, AnsweredFor, NoPending, MadeFor
<1>3. QED
  BY <1>1, <1>2 DEF CliInv

\* No request is approved: requests are made, denied, forgotten or get older, and
\* credentials are taken back.
LEMMA RequestsKeep ==
    ASSUME CliInv, CliTyped', {x \in credential' : x.for \in Clis} \subseteq credential,
           \A c \in Clis :
              \/ /\ \/ pending'[c] = NoPending
                    \/ pending'[c].status = pending[c].status /\ pending'[c].of = pending[c].of
                    \/ pending[c].status = "pending" /\ pending'[c].status = "denied"
                          /\ pending'[c].of = pending[c].of
                 /\ cli'[c].doing = "idle" => cli[c].doing = "idle"
                 /\ cli'[c].doing = "signed in" =>
                       \/ cli[c].doing = "signed in" /\ cli'[c].with = cli[c].with
                       \/ cli'[c].with = pending[c].of
              \/ /\ cli[c].doing = "idle" /\ cli'[c].doing = "polling"
                 /\ pending'[c].status = "pending" /\ pending'[c].of = {}
    PROVE  CliInv'
<1>1. ASSUME NEW c \in Clis PROVE AnsweredFor(c)'
  <2>1. MadeFor(c)' \subseteq MadeFor(c)
    BY DEF MadeFor
  <2>2. AnsweredFor(c)
    BY DEF CliInv
  <2>3. CASE /\ cli[c].doing = "idle" /\ cli'[c].doing = "polling"
             /\ pending'[c].status = "pending" /\ pending'[c].of = {}
    BY <2>1, <2>2, <2>3 DEF AnsweredFor
  <2>4. CASE /\ \/ pending'[c] = NoPending
                \/ pending'[c].status = pending[c].status /\ pending'[c].of = pending[c].of
                \/ pending[c].status = "pending" /\ pending'[c].status = "denied"
                      /\ pending'[c].of = pending[c].of
             /\ cli'[c].doing = "idle" => cli[c].doing = "idle"
             /\ cli'[c].doing = "signed in" =>
                   \/ cli[c].doing = "signed in" /\ cli'[c].with = cli[c].with
                   \/ cli'[c].with = pending[c].of
    <3>1. \A x \in pending'[c].of : x.for = c
      BY <2>2, <2>4, CliNames DEF AnsweredFor
    <3>2. pending'[c].status # "approved" => pending'[c].of = {}
      BY <2>2, <2>4, CliNames DEF AnsweredFor
    <3>3. pending'[c].status = "pending" => pending[c].status = "pending"
      BY <2>4, CliNames
    <3>4. cli'[c].doing = "idle" => pending'[c].status = "none" /\ MadeFor(c) = {}
      BY <2>2, <2>4, CliNames DEF AnsweredFor
    <3>5. cli'[c].doing = "signed in" => \A x \in cli'[c].with : x.for = c
      BY <2>2, <2>4 DEF AnsweredFor
    <3>6. MadeFor(c)' = {} \/ MadeFor(c) # {}
      BY <2>1
    <3>7. pending[c].status = "pending" => MadeFor(c)' = {}
      BY <2>2, <3>6 DEF AnsweredFor
    <3>8. QED
      BY <3>1, <3>2, <3>3, <3>4, <3>5, <3>6, <3>7 DEF AnsweredFor
  <2>5. QED
    BY <2>3, <2>4
<1>2. QED
  BY <1>1 DEF CliInv

LEMMA StartKeeps ==
    ASSUME CliInv, NEW c \in Clis, Start(c)
    PROVE  CliInv'
<1>1. /\ cli[c].doing = "idle" /\ UNCHANGED <<role, answer, credential>>
      /\ pending \in [Clis -> PendingRow] /\ cli \in [Clis -> CliRow]
  BY DEF Start, CliInv, CliTyped
<1>2. Pruned \in [Clis -> PendingRow] /\ \A d \in Clis : Pruned[d] = NoPending \/ Pruned[d] = pending[d]
  BY <1>1, CliNames DEF Pruned
<1>3. CASE /\ pending' = [Pruned EXCEPT ![c] = [status |-> "pending", age |-> 0, of |-> {}]]
           /\ starts < StartsPerTick /\ starts' = starts + 1
           /\ cli' = [cli EXCEPT ![c] = Waiting]
  <2>1. [status |-> "pending", age |-> 0, of |-> {}] \in PendingRow
    BY CliBounds DEF PendingRow
  <2>2. /\ pending' \in [Clis -> PendingRow] /\ cli' \in [Clis -> CliRow]
        /\ pending'[c].status = "pending" /\ pending'[c].of = {} /\ cli'[c].doing = "polling"
        /\ \A d \in Clis \ {c} : pending'[d] = Pruned[d] /\ cli'[d] = cli[d]
    BY <1>1, <1>2, <1>3, <2>1, CliNames DEF Waiting
  <2>3. starts' \in 0 .. StartsPerTick
    BY <1>3, CliBounds DEF CliInv, CliTyped
  <2>4. CliTyped'
    BY <1>1, <2>2, <2>3 DEF CliInv, CliTyped
  <2>5. QED
    BY <1>1, <1>2, <2>2, <2>4, RequestsKeep
<1>4. CASE pending' = Pruned /\ cli' = [cli EXCEPT ![c] = [doing |-> "failed"]] /\ UNCHANGED starts
  <2>1. /\ cli' \in [Clis -> CliRow] /\ cli'[c].doing = "failed"
        /\ \A d \in Clis \ {c} : cli'[d] = cli[d]
    BY <1>1, <1>4, CliNames
  <2>2. CliTyped'
    BY <1>1, <1>2, <1>4, <2>1 DEF CliInv, CliTyped
  <2>3. QED
    BY <1>1, <1>2, <1>4, <2>1, <2>2, RequestsKeep
<1>5. QED
  BY <1>3, <1>4 DEF Start

\* Only the first answer finds the request unanswered, and makes its credential.
LEMMA ApproveKeeps ==
    ASSUME CliInv, NEW a \in Answers, Approve(a)
    PROVE  CliInv'
<1>1. /\ answer[a] \in AnswerRow /\ answer' = [answer EXCEPT ![a] = NoAnswer]
      /\ UNCHANGED <<role, starts, cli>> /\ CliTyped
  BY DEF Approve, CliInv, CliTyped
<1>2. PICK c \in Clis : c = answer[a].to
  BY <1>1 DEF AnswerRow
<1>3. answer' \in [Answers -> AnswerRow \cup {NoAnswer}]
  BY <1>1 DEF CliTyped
<1>4. CASE UNCHANGED <<credential, pending>>
  <2>1. CliTyped'
    BY <1>1, <1>3, <1>4 DEF CliTyped
  <2>2. QED
    BY <1>1, <1>4, <2>1, RequestsKeep
<1>5. ASSUME Answerable(c), NEW p \in answer[a].by, NEW kind \in {"permanent", "session"},
             NEW made,
             made = [for |-> c, owner |-> p, kind |-> kind, scope |-> "admin",
                     nth |-> Cardinality(MadeFor(c)) + 1],
             credential' = credential \cup {made},
             pending' = [pending EXCEPT ![c].status = "approved", ![c].of = {made}]
      PROVE  CliInv'
  <2>1. pending[c].status = "pending" /\ MadeFor(c) = {} /\ cli[c].doing # "idle"
    BY <1>5 DEF Answerable, CliInv, AnsweredFor
  <2>2. made.nth = 1
    <3>1. Cardinality(MadeFor(c)) = 0
      BY <2>1, FS_EmptySet
    <3>2. QED
      BY <1>5, <3>1
  <2>3. made \in Made /\ made.for = c
    BY <1>1, <1>5, <2>2, CliNames DEF Made, AnswerRow
  <2>4. /\ pending' \in [Clis -> PendingRow]
        /\ pending'[c].status = "approved" /\ pending'[c].of = {made}
        /\ \A d \in Clis \ {c} : pending'[d] = pending[d]
    BY <1>1, <1>5, <2>3 DEF CliTyped, PendingRow
  <2>5. CliTyped'
    BY <1>1, <1>3, <1>5, <2>3, <2>4 DEF CliTyped
  <2>6. AnsweredFor(c)'
    BY <1>1, <2>1, <2>3, <2>4 DEF CliInv, AnsweredFor
  <2>7. ASSUME NEW d \in Clis, d # c PROVE AnsweredFor(d)'
    <3>1. MadeFor(d)' = MadeFor(d)
      BY <1>5, <2>3, <2>7 DEF MadeFor
    <3>2. QED
      BY <1>1, <2>4, <2>7, <3>1 DEF CliInv, AnsweredFor
  <2>8. QED
    BY <2>5, <2>6, <2>7 DEF CliInv
<1>6. QED
  BY <1>2, <1>4, <1>5 DEF Approve, MadeFor

LEMMA CliInvStep == CliInv /\ [CliNext]_cliVars => CliInv'
<1> SUFFICES ASSUME CliInv, [CliNext]_cliVars PROVE CliInv'
  OBVIOUS
<1>1. /\ CliTyped /\ pending \in [Clis -> PendingRow] /\ cli \in [Clis -> CliRow]
      /\ answer \in [Answers -> AnswerRow \cup {NoAnswer}]
  BY DEF CliInv, CliTyped
<1>2. ASSUME NEW c \in Clis, Poll(c) PROVE CliInv'
  <2>1. /\ UNCHANGED <<role, starts, answer, credential>> /\ cli[c].doing = "polling"
        /\ \/ UNCHANGED <<pending, cli>>
           \/ /\ pending' = [pending EXCEPT ![c] = NoPending]
              /\ \E row \in {[doing |-> "failed"], [doing |-> "signed in", with |-> pending[c].of]} :
                    cli' = [cli EXCEPT ![c] = row]
    BY <1>2 DEF Poll
  <2>2. CASE UNCHANGED <<pending, cli>>
    <3>1. CliTyped'
      BY <1>1, <2>1, <2>2 DEF CliTyped
    <3>2. QED
      BY <2>1, <2>2, <3>1, RequestsKeep
  <2>3. ASSUME NEW row \in {[doing |-> "failed"], [doing |-> "signed in", with |-> pending[c].of]},
               pending' = [pending EXCEPT ![c] = NoPending], cli' = [cli EXCEPT ![c] = row]
        PROVE  CliInv'
    <3>1. /\ row \in CliRow /\ row.doing # "idle"
          /\ row.doing = "signed in" => row.with = pending[c].of
      <4>1. CASE row = [doing |-> "failed"]
        BY <4>1, CliNames
      <4>2. CASE row = [doing |-> "signed in", with |-> pending[c].of]
        <5>1. pending[c].of \in SUBSET Made
          BY <1>1 DEF PendingRow
        <5>2. row \in [doing : {"signed in"}, with : SUBSET Made]
          BY <4>2, <5>1
        <5>3. QED
          BY <4>2, <5>2 DEF CliRow
      <4>3. QED
        BY <2>3, <4>1, <4>2
    <3>2. /\ cli' \in [Clis -> CliRow] /\ pending' \in [Clis -> PendingRow]
          /\ pending'[c] = NoPending /\ cli'[c] = row
          /\ \A d \in Clis \ {c} : pending'[d] = pending[d] /\ cli'[d] = cli[d]
      BY <1>1, <2>3, <3>1, CliNames
    <3>3. CliTyped'
      BY <1>1, <2>1, <3>2 DEF CliTyped
    <3>4. QED
      BY <2>1, <3>1, <3>2, <3>3, RequestsKeep
  <2>4. QED
    BY <2>1, <2>2, <2>3
<1>3. ASSUME NEW c \in Clis, GiveUp(c) \/ Logout(c) PROVE CliInv'
  <2>1. PICK d \in {"failed", "signed out"} :
           /\ cli' = [cli EXCEPT ![c] = [doing |-> d]] /\ credential' \subseteq credential
           /\ UNCHANGED <<role, pending, starts, answer>>
    BY <1>3 DEF GiveUp, Logout
  <2>2. /\ cli' \in [Clis -> CliRow] /\ cli'[c].doing \in {"failed", "signed out"}
        /\ \A e \in Clis \ {c} : cli'[e] = cli[e]
    BY <1>1, <2>1, CliNames
  <2>3. CliTyped'
    BY <1>1, <2>1, <2>2 DEF CliTyped
  <2>4. QED
    BY <2>1, <2>2, <2>3, RequestsKeep
<1>4. ASSUME NEW a \in Answers, Deny(a) PROVE CliInv'
  <2>1. /\ answer[a] \in AnswerRow /\ answer' = [answer EXCEPT ![a] = NoAnswer]
        /\ UNCHANGED <<role, starts, cli, credential>>
    BY <1>1, <1>4 DEF Deny
  <2>2. PICK c \in Clis : c = answer[a].to
    BY <2>1 DEF AnswerRow
  <2>3. \/ pending' = pending
        \/ /\ pending[c].status = "pending"
           /\ pending' = [pending EXCEPT ![c].status = "denied"]
    BY <1>4, <2>2 DEF Deny, Answerable
  <2>4. /\ pending' \in [Clis -> PendingRow]
        /\ \A d \in Clis : /\ pending'[d].of = pending[d].of
                           /\ \/ pending'[d].status = pending[d].status
                              \/ pending[d].status = "pending" /\ pending'[d].status = "denied"
    BY <1>1, <2>3 DEF PendingRow
  <2>5. CliTyped'
    BY <1>1, <2>1, <2>4 DEF CliTyped
  <2>6. QED
    BY <2>1, <2>4, <2>5, RequestsKeep
<1>5. ASSUME NEW a \in Answers, NEW p \in People, NEW c \in Clis, Answer(a, p, c) PROVE CliInv'
  <2>1. /\ answer' = [answer EXCEPT ![a] = [by |-> {p}, as |-> role[p], to |-> c]]
        /\ UNCHANGED <<role, pending, starts, cli, credential>>
    BY <1>5 DEF Answer
  <2>2. [by |-> {p}, as |-> role[p], to |-> c] \in AnswerRow
    BY <1>1 DEF CliTyped, AnswerRow
  <2>3. CliTyped'
    BY <1>1, <2>1, <2>2 DEF CliTyped
  <2>4. QED
    BY <2>1, <2>3, RequestsKeep
<1>6. ASSUME NEW p \in People,
             \/ DeletePerson(p) \/ \E r \in Roles \ {"none"} : ChangeRole(p, r)
             \/ \E scope \in Scopes : GenerateToken(p, scope)
      PROVE  CliInv'
  <2>1. role' \in [People -> Roles] /\ UNCHANGED <<pending, starts, cli, answer>>
    BY <1>1, <1>6, CliNames DEF DeletePerson, ChangeRole, GenerateToken, CliTyped
  <2>2. /\ credential' \subseteq Made \cup Generated
        /\ {x \in credential' : x.for \in Clis} \subseteq credential
    <3>1. CASE DeletePerson(p) \/ \E r \in Roles \ {"none"} : ChangeRole(p, r)
      BY <1>1, <3>1 DEF DeletePerson, ChangeRole, CliTyped
    <3>2. ASSUME NEW scope \in Scopes, GenerateToken(p, scope)
          PROVE  /\ credential' \subseteq Made \cup Generated
                 /\ {x \in credential' : x.for \in Clis} \subseteq credential
      BY <1>1, <3>2, CliBounds DEF GenerateToken, CliTyped, Generated
    <3>3. QED
      BY <1>6, <3>1, <3>2
  <2>3. CliTyped'
    BY <1>1, <2>1, <2>2 DEF CliTyped
  <2>4. QED
    BY <2>1, <2>2, <2>3, RequestsKeep
<1>7. CASE \/ \E x \in credential : RevokeCredential(x)
           \/ UNCHANGED cliVars
  <2>1. UNCHANGED <<role, pending, starts, cli, answer>> /\ credential' \subseteq credential
    BY <1>7 DEF RevokeCredential, cliVars
  <2>2. CliTyped'
    BY <1>1, <2>1 DEF CliTyped
  <2>3. QED
    BY <2>1, <2>2, RequestsKeep
<1>8. CASE CliRestart
  <2>1. CliTyped'
    <3>1. starts' \in 0 .. StartsPerTick
      BY <1>8, CliBounds DEF CliRestart
    <3>2. pending' \in [Clis -> PendingRow]
      BY <1>8, CliNames DEF CliRestart
    <3>3. answer' \in [Answers -> AnswerRow \cup {NoAnswer}]
      BY <1>8 DEF CliRestart
    <3>4. QED
      BY <1>1, <1>8, <3>1, <3>2, <3>3 DEF CliTyped, CliRestart
  <2>2. QED
    BY <1>8, <2>1, RequestsKeep DEF CliRestart
<1>9. CASE CliTick
  <2>1. \A c \in Clis : /\ pending'[c] \in PendingRow
                        /\ pending'[c].status = pending[c].status /\ pending'[c].of = pending[c].of
    <3>1. ASSUME NEW c \in Clis, ~Expired(c)
          PROVE  [pending[c] EXCEPT !.age = @ + 1] \in PendingRow
      BY <1>1, <3>1, CliBounds DEF Expired, PendingRow
    <3>2. QED
      BY <1>1, <1>9, <3>1 DEF CliTick, PendingRow
  <2>2. \A c \in Clis : /\ cli'[c] \in CliRow
                        /\ cli'[c].doing = cli[c].doing
                        /\ cli[c].doing # "polling" => cli'[c] = cli[c]
    <3>1. ASSUME NEW c \in Clis, cli[c].doing = "polling", cli[c].since < RequestLife
          PROVE  /\ [cli[c] EXCEPT !.since = @ + 1] \in [doing : {"polling"}, since : 0 .. RequestLife]
                 /\ [cli[c] EXCEPT !.since = @ + 1].doing = "polling"
      <4>1. cli[c] \in [doing : {"polling"}, since : 0 .. RequestLife]
        BY <1>1, <3>1 DEF CliRow
      <4>2. QED
        BY <3>1, <4>1, CliBounds
    <3>2. QED
      BY <1>1, <1>9, <3>1 DEF CliTick, CliRow
  <2>3. CliTyped'
    BY <1>1, <1>9, <2>1, <2>2, CliBounds DEF CliTyped, CliTick
  <2>4. QED
    BY <1>9, <2>1, <2>2, <2>3, RequestsKeep DEF CliTick
<1>10. CASE CliNext
  BY <1>2, <1>3, <1>4, <1>5, <1>6, <1>7, <1>8, <1>9, <1>10, StartKeeps, ApproveKeeps DEF CliNext
<1>11. QED
  BY <1>7, <1>10

LEMMA CliInvHolds == CliSpec => []CliInv
<1>1. CliInv /\ [CliNext]_cliVars => CliInv'
  BY CliInvStep
<1>2. QED
  BY <1>1, CliInvInit, PTL DEF CliSpec

\* However many people answer a login request at the same time, whatever is
\* revoked or forgotten meanwhile, it makes one token or session, and a command
\* line is handed what was made for it (cli_auth.go).
THEOREM RequestsAnsweredOnce == CliSpec => []AnsweredOnce
<1>1. CliInv => AnsweredOnce
  BY DEF CliInv, CliTyped, AnsweredFor, AnsweredOnce, Made, Generated
<1>2. QED
  BY <1>1, CliInvHolds, PTL

-----------------------------------------------------------------------------
(* Accounts: codes are accepted once, and old sign-ins end.                  *)

Codes == (1 .. MaxSwitches) \X RecoveryCodes

\* What requests hold between their checks and their writes.  A code being spent
\* is of the user who sent it, and a recovery code is one of those that were read.
Going == [op : {"issue", "setup", "reset", "delete"}, owner : Users]
Spending == {r \in [op : {"spend"}, owner : Users, purpose : {"login", "disable", "passkey"},
                    seen : SUBSET Codes, code : AppCode \cup RecoveryCode] :
               r.code.owner = r.owner /\ (r.code.kind = "recovery" => r.code.code \in r.seen)}
Enabling == [op : {"enable"}, owner : Users, code : 0 .. MaxTime + 1]
Touching == [op : {"touch"}, owner : Users, of : Sessions, row : SessionRow]
Changing == [op : {"change"}, owner : Users, keep : SUBSET Sessions]
RequestRow == {Idle} \cup Going \cup Spending \cup Enabling \cup Touching \cup Changing

AccountsTyped ==
    /\ user \in [Users -> Row \cup {Gone}]
    /\ session \in [Sessions -> SessionRow \cup {Unused, Ended}]
    /\ mfa \subseteq [owner : Users, until : Nat]
    /\ request \in [Requests -> RequestRow]
    /\ time \in Ticks
    /\ begun \in 0 .. MaxRequests
    /\ won \subseteq [code : AppCode \cup RecoveryCode, settings : Nat, nth : Nat] /\ IsFiniteSet(won)
    /\ cut \subseteq Users

Settings(u) == user[u].setups + user[u].switched

\* A code that was accepted under the settings its user still has cannot be
\* accepted again: a later one of the app was used, or it is off the list.
Spent(w) ==
    Exists(w.code.owner) =>
        /\ w.settings <= Settings(w.code.owner)
        /\ w.settings = Settings(w.code.owner) =>
              IF w.code.kind = "app" THEN w.code.code <= user[w.code.owner].last
              ELSE w.code.code \notin user[w.code.owner].codes

\* A session older than its user's password or row, which a change or a delete
\* still has to end; a change may leave one it keeps only to a delete.
Behind(s) == Signed(s) /\ session[s].under # user[session[s].owner].password
Ending(u) == u \in cut \/ \E q \in Requests : request[q].op \in {"change", "delete"} /\ request[q].owner = u
Deleting(u) == u \in cut \/ \E q \in Requests : request[q].op = "delete" /\ request[q].owner = u
OldEnds(s) == Behind(s) => Ending(session[s].owner)
KeptGoOn(q) == request[q].op = "change" =>
                 \A s \in request[q].keep :
                    (Behind(s) /\ session[s].owner = request[q].owner) => Deleting(request[q].owner)

AccountsInv ==
    /\ AccountsTyped
    /\ \A w \in won : Spent(w)
    /\ EveryCodeOnce
    /\ \A s \in Sessions : OldEnds(s)
    /\ \A q \in Requests : KeptGoOn(q)

LEMMA AccountsBounds ==
    /\ MfaLife \in Nat \ {0} /\ SessionLife \in Nat \ {0} /\ MaxTime \in Nat \ {0}
    /\ MaxPasswords \in Nat \ {0} /\ MaxSwitches \in Nat \ {0} /\ MaxRequests \in Nat \ {0}
BY AccountsAssumption

LEMMA AccountsInvInit == AccountsInit => AccountsInv
<1> SUFFICES ASSUME AccountsInit PROVE AccountsInv
  OBVIOUS
<1>1. user \in [Users -> Row \cup {Gone}]
  <2> DEFINE off == [password |-> 1, totp |-> FALSE, secret |-> 0, last |-> 0, codes |-> {}, setups |-> 0,
                     switched |-> 0]
             on == [password |-> 1, totp |-> TRUE, secret |-> 1, last |-> 0, codes |-> {1} \X RecoveryCodes,
                    setups |-> 1, switched |-> 1]
  <2>1. 1 \in 1 .. MaxPasswords /\ {0, 1} \subseteq 0 .. MaxSwitches /\ 0 \in 0 .. MaxTime + 1
    BY AccountsBounds
  <2>2. {1} \X RecoveryCodes \subseteq Codes
    <3>1. 1 \in 1 .. MaxSwitches
      BY AccountsBounds
    <3>2. QED
      BY <3>1 DEF Codes
  <2>3. off \in Row
    BY <2>1 DEF Row
  <2>4. on \in Row
    BY <2>1, <2>2 DEF Row, Codes
  <2>5. user \in [Users -> {off, on}]
    BY DEF AccountsInit
  <2>6. QED
    BY <2>3, <2>4, <2>5
<1>2. request \in [Requests -> RequestRow] /\ \A q \in Requests : request[q].op = "idle"
  BY DEF AccountsInit, RequestRow, Idle
<1>3. session \in [Sessions -> SessionRow \cup {Unused, Ended}] /\ \A s \in Sessions : ~Signed(s)
  BY DEF AccountsInit, Unused, Signed
<1>4. time \in Ticks /\ begun \in 0 .. MaxRequests /\ won = {} /\ cut = {} /\ mfa = {} /\ IsFiniteSet(won)
  BY AccountsBounds, FS_EmptySet DEF AccountsInit, Ticks
<1>5. AccountsTyped
  BY <1>1, <1>2, <1>3, <1>4 DEF AccountsTyped
<1>6. QED
  BY <1>2, <1>3, <1>4, <1>5 DEF AccountsInv, EveryCodeOnce, OldEnds, Behind, KeptGoOn

\* Codes stay spent in a step that accepts none: a row that changes is gone, or
\* under later settings, or as to its codes the same.
LEMMA CodesKeep ==
    ASSUME AccountsInv, won' = won,
           \A u \in Users :
              \/ user'[u] = Gone
              \/ Exists(u) /\ Settings(u)' \in Nat /\ Settings(u)' > Settings(u)
              \/ /\ Exists(u) /\ Settings(u)' = Settings(u)
                 /\ user'[u].last = user[u].last /\ user'[u].codes = user[u].codes
    PROVE  (\A w \in won : Spent(w))' /\ EveryCodeOnce'
<1>1. ASSUME NEW w \in won PROVE Spent(w)'
  <2>1. w.code.owner \in Users /\ w.settings \in Nat /\ Spent(w)
    BY DEF AccountsInv, AccountsTyped, AppCode, RecoveryCode
  <2>2. PICK u \in Users : u = w.code.owner
    BY <2>1
  <2>3. Exists(u) => user[u] \in Row /\ Settings(u) \in Nat
    BY AccountsBounds DEF AccountsInv, AccountsTyped, Exists, Row, Settings
  <2>4. CASE user'[u] = Gone
    BY <2>2, <2>4 DEF Spent, Exists
  <2>5. CASE Exists(u) /\ Settings(u)' \in Nat /\ Settings(u)' > Settings(u)
    BY <2>1, <2>2, <2>3, <2>5 DEF Spent
  <2>6. CASE /\ Exists(u) /\ Settings(u)' = Settings(u)
             /\ user'[u].last = user[u].last /\ user'[u].codes = user[u].codes
    BY <2>1, <2>2, <2>6 DEF Spent
  <2>7. QED
    BY <2>4, <2>5, <2>6
<1>2. QED
  BY <1>1 DEF AccountsInv, EveryCodeOnce

\* Old sign-ins stay about to end in a step that changes no password: a session
\* it does not end is the same as to its user, or of the password there is now.
LEMMA SignInsKeep ==
    ASSUME AccountsInv, cut' = cut,
           \A u \in Users : user'[u].password = user[u].password,
           \A q \in Requests :
              \/ request'[q] = request[q]
              \/ request[q].op \notin {"change", "delete"} /\ request'[q].op \notin {"change", "delete"},
           \A s \in Sessions : Signed(s)' =>
              \/ Signed(s) /\ session'[s].owner = session[s].owner /\ session'[s].under = session[s].under
              \/ session'[s].under = user'[session'[s].owner].password
    PROVE  (\A s \in Sessions : OldEnds(s))' /\ (\A q \in Requests : KeptGoOn(q))'
<1>1. \A u : (Ending(u) => Ending(u)') /\ (Deleting(u) => Deleting(u)')
  BY DEF Ending, Deleting
<1>2. \A s \in Sessions : Behind(s)' => Behind(s) /\ session'[s].owner = session[s].owner
  <2>1. ASSUME NEW s \in Sessions, Behind(s)'
        PROVE  Behind(s) /\ session'[s].owner = session[s].owner
    <3>1. Signed(s) /\ session'[s].owner = session[s].owner /\ session'[s].under = session[s].under
      BY <2>1 DEF Behind
    <3>2. session[s].owner \in Users
      BY <3>1 DEF AccountsInv, AccountsTyped, Signed, SessionRow, Unused, Ended
    <3>3. QED
      BY <2>1, <3>1, <3>2 DEF Behind
  <2>2. QED
    BY <2>1
<1>3. ASSUME NEW s \in Sessions PROVE OldEnds(s)'
  BY <1>1, <1>2 DEF OldEnds, AccountsInv
<1>4. ASSUME NEW q \in Requests PROVE KeptGoOn(q)'
  <2>1. SUFFICES ASSUME request'[q].op = "change" PROVE KeptGoOn(q)'
    BY DEF KeptGoOn
  <2>2. request'[q] = request[q]
    BY <2>1
  <2>3. KeptGoOn(q) /\ request[q].keep \subseteq Sessions
    BY <2>1, <2>2 DEF AccountsInv, AccountsTyped, RequestRow, Idle, Going, Spending, Enabling, Touching, Changing
  <2>4. QED
    BY <1>1, <1>2, <2>2, <2>3 DEF KeptGoOn
<1>5. QED
  BY <1>3, <1>4

\* A request that comes has only read: what it holds is its own.
LEMMA OpensKeep ==
    ASSUME AccountsInv, NEW q \in Requests, NEW row \in RequestRow, row.op \notin {"change", "delete"}, Comes(q),
           request' = request \/ Now(q, row), mfa' \subseteq [owner : Users, until : Nat],
           UNCHANGED <<user, session, time, won, cut>>
    PROVE  AccountsInv'
<1>1. request[q].op = "idle" /\ begun' \in 0 .. MaxRequests
  BY AccountsBounds DEF Comes, Idle, AccountsInv, AccountsTyped
<1>2. request' \in [Requests -> RequestRow]
  BY DEF Now, AccountsInv, AccountsTyped
<1>3. AccountsTyped'
  BY <1>1, <1>2 DEF AccountsInv, AccountsTyped
<1>4. \A p \in Requests : \/ request'[p] = request[p]
                          \/ request[p].op \notin {"change", "delete"} /\ request'[p].op \notin {"change", "delete"}
  BY <1>1 DEF Now, AccountsInv, AccountsTyped
<1>5. (\A s \in Sessions : OldEnds(s))' /\ (\A p \in Requests : KeptGoOn(p))'
  BY <1>4, SignInsKeep DEF Signed
<1>6. (\A w \in won : Spent(w))' /\ EveryCodeOnce'
  BY CodesKeep DEF Exists, Settings, AccountsInv, AccountsTyped
<1>7. QED
  BY <1>3, <1>5, <1>6 DEF AccountsInv

\* A request that ends, or stays, while sessions end or are recorded.
LEMMA SessionsKeep ==
    ASSUME AccountsInv, UNCHANGED <<begun, user, mfa, time, won, cut>>,
           request' \in [Requests -> RequestRow],
           \A q \in Requests :
              \/ request'[q] = request[q]
              \/ request[q].op \notin {"change", "delete"} /\ request'[q].op \notin {"change", "delete"},
           session' \in [Sessions -> SessionRow \cup {Unused, Ended}],
           \A s \in Sessions : Signed(s)' =>
              \/ Signed(s) /\ session'[s].owner = session[s].owner /\ session'[s].under = session[s].under
              \/ session'[s].under = user[session'[s].owner].password
    PROVE  AccountsInv'
<1>1. AccountsTyped'
  BY DEF AccountsInv, AccountsTyped
<1>2. (\A s \in Sessions : OldEnds(s))' /\ (\A p \in Requests : KeptGoOn(p))'
  BY SignInsKeep
<1>3. (\A w \in won : Spent(w))' /\ EveryCodeOnce'
  BY CodesKeep DEF Exists, Settings, AccountsInv, AccountsTyped
<1>4. QED
  BY <1>1, <1>2, <1>3 DEF AccountsInv

\* Two-factor is set up, turned on or off: the row is under later settings.
LEMMA SettingsKeep ==
    ASSUME AccountsInv, UNCHANGED <<begun, session, mfa, time, won, cut>>,
           request' \in [Requests -> RequestRow],
           \A q \in Requests :
              \/ request'[q] = request[q]
              \/ request[q].op \notin {"change", "delete"} /\ request'[q].op \notin {"change", "delete"},
           NEW u \in Users, NEW row \in Row, Exists(u), Write(u, row), row.password = user[u].password,
           row.setups + row.switched > Settings(u)
    PROVE  AccountsInv'
<1>1. /\ user' \in [Users -> Row \cup {Gone}] /\ user'[u] = row
      /\ \A v \in Users \ {u} : user'[v] = user[v]
  BY DEF Write, AccountsInv, AccountsTyped
<1>2. AccountsTyped'
  BY <1>1 DEF AccountsInv, AccountsTyped
<1>3. Settings(u)' \in Nat /\ Settings(u)' > Settings(u)
  BY <1>1, AccountsBounds DEF Settings, Row
<1>4. (\A w \in won : Spent(w))' /\ EveryCodeOnce'
  <2>1. \A v \in Users : \/ user'[v] = Gone
                         \/ Exists(v) /\ Settings(v)' \in Nat /\ Settings(v)' > Settings(v)
                         \/ /\ Exists(v) /\ Settings(v)' = Settings(v)
                            /\ user'[v].last = user[v].last /\ user'[v].codes = user[v].codes
    BY <1>1, <1>3 DEF Exists, Settings
  <2>2. QED
    BY <2>1, CodesKeep
<1>5. (\A s \in Sessions : OldEnds(s))' /\ (\A p \in Requests : KeptGoOn(p))'
  BY <1>1, SignInsKeep DEF Signed
<1>6. QED
  BY <1>2, <1>4, <1>5 DEF AccountsInv

\* A request of one of these kinds ends.
LEMMA RequestEnds ==
    ASSUME AccountsInv, NEW q \in Requests, request[q].op \notin {"change", "delete"}, Now(q, Idle)
    PROVE  /\ request' \in [Requests -> RequestRow]
           /\ \A p \in Requests :
                 \/ request'[p] = request[p]
                 \/ request[p].op \notin {"change", "delete"} /\ request'[p].op \notin {"change", "delete"}
BY DEF Now, AccountsInv, AccountsTyped, RequestRow, Idle

\* Of two uses of a code the second finds it spent.
LEMMA SpendKeeps ==
    ASSUME AccountsInv, NEW q \in Requests, Spend(q)
    PROVE  AccountsInv'
<1>1. AccountsTyped /\ UNCHANGED <<begun, session, mfa, time, cut>> /\ request[q].op = "spend"
  BY DEF Spend, AccountsInv
<1>2. request[q] \in Spending
  BY <1>1 DEF AccountsTyped, RequestRow, Idle, Going, Enabling, Touching, Changing
<1>3. PICK r \in Spending : r = request[q]
  BY <1>2
<1>4. PICK u \in Users : u = r.owner
  BY <1>3 DEF Spending
<1>5. PICK code \in AppCode \cup RecoveryCode :
         code = r.code /\ code.owner = u /\ (code.kind = "recovery" => code.code \in r.seen)
  BY <1>3, <1>4 DEF Spending
<1>6. CASE ~StillFresh(r)
  <2>1. Now(q, Idle) /\ UNCHANGED <<user, won>>
    BY <1>3, <1>6 DEF Spend
  <2>2. QED
    BY <1>1, <2>1, RequestEnds, SessionsKeep DEF AccountsTyped, Signed
<1>7. CASE StillFresh(r)
  <2>1. user[u] \in Row /\ Exists(u)
    BY <1>1, <1>4, <1>7 DEF StillFresh, AccountsTyped, Exists
  <2>2. PICK row : /\ row = IF code.kind = "app" THEN [user[u] EXCEPT !.last = code.code]
                             ELSE [user[u] EXCEPT !.codes = r.seen \ {code.code}]
                   /\ Write(u, row)
    BY <1>3, <1>4, <1>5, <1>7 DEF Spend
  <2>3. PICK w : /\ w = [code |-> code, settings |-> Settings(u),
                         nth |-> Cardinality({x \in won : x.code = code}) + 1]
                 /\ won' = won \cup {w}
    BY <1>3, <1>4, <1>5, <1>7 DEF Spend, Settings
  <2>4. PICK next : /\ next \in Going \cup {Idle} /\ next.op \notin {"change", "delete"}
                    /\ Now(q, next)
    <3>1. [op |-> "issue", owner |-> u] \in Going /\ [op |-> "reset", owner |-> u] \in Going /\ Idle.op = "idle"
      BY DEF Going, Idle
    <3>2. QED
      BY <1>3, <1>4, <1>7, <3>1 DEF Spend
  <2>5. /\ row \in Row /\ row.password = user[u].password
        /\ row.setups = user[u].setups /\ row.switched = user[u].switched
        /\ row.setups + row.switched = Settings(u) /\ Settings(u) \in Nat
    <3>1. CASE code.kind = "app"
      <4>1. code.code \in 0 .. MaxTime + 1
        BY <3>1 DEF AppCode, RecoveryCode
      <4>2. QED
        BY <2>1, <2>2, <3>1, <4>1, AccountsBounds DEF Row, Settings
    <3>2. CASE code.kind # "app"
      <4>1. r.seen \ {code.code} \in SUBSET Codes
        BY <1>3 DEF Spending
      <4>2. QED
        BY <2>1, <2>2, <3>2, <4>1, AccountsBounds DEF Row, Settings, Codes
    <3>3. QED
      BY <3>1, <3>2
  <2>6. /\ user' \in [Users -> Row \cup {Gone}] /\ user'[u] = row
        /\ \A v \in Users \ {u} : user'[v] = user[v]
    BY <1>1, <2>2, <2>5 DEF Write, AccountsTyped
  <2>7. Settings(u)' = Settings(u) /\ Exists(u)'
    <3>1. row # Gone
      BY <2>5 DEF Row, Gone
    <3>2. QED
      BY <2>5, <2>6, <3>1 DEF Settings, Exists
  <2>8. w \in [code : AppCode \cup RecoveryCode, settings : Nat, nth : Nat]
    <3>1. IsFiniteSet({x \in won : x.code = code})
      BY <1>1, FS_Subset DEF AccountsTyped
    <3>2. Cardinality({x \in won : x.code = code}) + 1 \in Nat
      BY <3>1, FS_CardinalityType
    <3>3. QED
      BY <2>3, <2>5, <3>2
  <2>9. AccountsTyped'
    <3>1. IsFiniteSet(won')
      BY <1>1, <2>3, FS_AddElement DEF AccountsTyped
    <3>2. request' \in [Requests -> RequestRow]
      BY <1>1, <2>4 DEF AccountsTyped, RequestRow, Now
    <3>3. QED
      BY <1>1, <2>3, <2>6, <2>8, <3>1, <3>2 DEF AccountsTyped
  <2>10. ASSUME NEW v \in won PROVE Spent(v)' /\ ~(v.code = w.code /\ v.settings = w.settings)
    <3>1. Spent(v) /\ v.code \in AppCode \cup RecoveryCode
      BY <1>1 DEF AccountsInv, AccountsTyped
    <3>2. CASE v.code.owner # u
      <4>1. v.code.owner \in Users
        BY <3>1 DEF AppCode, RecoveryCode
      <4>2. QED
        BY <1>5, <2>3, <2>6, <3>1, <3>2, <4>1 DEF Spent, Exists, Settings
    <3>3. CASE v.code.owner = u /\ code.kind = "app"
      <4>1. row.last = code.code /\ row.codes = user[u].codes
        BY <2>1, <2>2, <3>3 DEF Row
      <4>2. user[u].last < code.code /\ user[u].last \in Int /\ code.code \in Int
        BY <1>3, <1>4, <1>5, <1>7, <2>1, <3>3, AccountsBounds DEF StillFresh, Row, AppCode, RecoveryCode
      <4>3. v.code.kind = "app" => v.code.code \in Int
        BY <3>1 DEF AppCode, RecoveryCode
      <4>4. Spent(v)'
        BY <2>1, <2>6, <2>7, <3>1, <3>3, <4>1, <4>2, <4>3 DEF Spent
      <4>5. QED
        BY <2>1, <2>3, <3>1, <3>3, <4>2, <4>4 DEF Spent
    <3>4. CASE v.code.owner = u /\ code.kind # "app"
      <4>1. row.codes = r.seen \ {code.code} /\ row.last = user[u].last /\ user[u].codes = r.seen
        BY <1>3, <1>4, <1>5, <1>7, <2>1, <2>2, <3>4 DEF Row, StillFresh
      <4>2. Spent(v)'
        BY <2>1, <2>6, <2>7, <3>1, <3>4, <4>1 DEF Spent
      <4>3. code.code \in r.seen
        BY <1>5, <3>4 DEF AppCode, RecoveryCode
      <4>4. QED
        BY <2>1, <2>3, <3>1, <3>4, <4>1, <4>2, <4>3 DEF Spent
    <3>5. QED
      BY <3>2, <3>3, <3>4
  <2>11. Spent(w)'
    <3>1. CASE code.kind = "app"
      <4>1. row.last = code.code /\ code.code \in Int
        BY <2>1, <2>2, <3>1, AccountsBounds DEF Row, AppCode, RecoveryCode
      <4>2. QED
        BY <1>5, <2>3, <2>5, <2>6, <2>7, <3>1, <4>1 DEF Spent
    <3>2. CASE code.kind # "app"
      <4>1. code.code \notin row.codes
        BY <2>1, <2>2, <3>2 DEF Row
      <4>2. QED
        BY <1>5, <2>3, <2>5, <2>6, <2>7, <3>2, <4>1 DEF Spent
    <3>3. QED
      BY <3>1, <3>2
  <2>12. (\A v \in won : Spent(v))'
    BY <2>3, <2>10, <2>11
  <2>13. EveryCodeOnce'
    BY <2>3, <2>10 DEF EveryCodeOnce, AccountsInv
  <2>14. \A p \in Requests : \/ request'[p] = request[p]
                             \/ request[p].op \notin {"change", "delete"} /\ request'[p].op \notin {"change", "delete"}
    BY <1>1, <2>4 DEF Now, AccountsTyped
  <2>15. (\A s \in Sessions : OldEnds(s))' /\ (\A p \in Requests : KeptGoOn(p))'
    BY <1>1, <2>5, <2>6, <2>14, SignInsKeep DEF Signed
  <2>16. QED
    BY <2>9, <2>12, <2>13, <2>15 DEF AccountsInv
<1>8. QED
  BY <1>6, <1>7

\* Requests that come: what each of them read, and will write from.
LEMMA RequestsCome ==
    ASSUME AccountsInv, NEW q \in Requests, NEW u \in Users,
           \/ BeginTwoFactor(q, u) \/ EnableTwoFactor(q, u) \/ Login(q, u)
           \/ CompleteLogin(q, u) \/ Disable(q, u) \/ BeginPasskey(q, u)
    PROVE  AccountsInv'
<1>1. AccountsTyped /\ time \in 1 .. MaxTime /\ mfa \subseteq [owner : Users, until : Nat]
  BY DEF AccountsInv, AccountsTyped, Ticks
<1>3. CASE BeginTwoFactor(q, u)
  <2>1. [op |-> "setup", owner |-> u] \in RequestRow
    BY DEF Going, RequestRow
  <2>2. QED
    BY <1>1, <1>3, <2>1, OpensKeep DEF BeginTwoFactor
<1>4. CASE EnableTwoFactor(q, u)
  <2>1. PICK c \in Fresh(0) : Now(q, [op |-> "enable", owner |-> u, code |-> c])
    BY <1>4 DEF EnableTwoFactor
  <2>2. c \in 0 .. MaxTime + 1
    BY <1>1, AccountsBounds DEF Fresh
  <2>3. [op |-> "enable", owner |-> u, code |-> c] \in RequestRow
    BY <2>2 DEF Enabling, RequestRow
  <2>4. QED
    BY <1>1, <1>4, <2>1, <2>3, OpensKeep DEF EnableTwoFactor
<1>5. CASE Login(q, u)
  <2>1. [op |-> "issue", owner |-> u] \in RequestRow
    BY DEF Going, RequestRow
  <2>2. time + MfaLife \in Nat
    BY <1>1, AccountsBounds
  <2>3. mfa' \subseteq [owner : Users, until : Nat]
    BY <1>1, <1>5, <2>2 DEF Login
  <2>4. QED
    BY <1>5, <2>1, <2>3, OpensKeep DEF Login
<1>7. ASSUME NEW purpose \in {"login", "disable", "passkey"}, Check(q, u, purpose)
      PROVE  AccountsInv'
  <2>1. user[u] \in Row /\ Comes(q) /\ UNCHANGED <<user, session, mfa, time, won, cut>>
    BY <1>1, <1>7 DEF Check, AccountsTyped, Exists
  <2>2. user[u].codes \in SUBSET Codes
    BY <2>1 DEF Row, Codes
  <2>3. PICK code : /\ Now(q, [op |-> "spend", owner |-> u, purpose |-> purpose, seen |-> user[u].codes,
                               code |-> code])
                    /\ code \in AppCode \cup RecoveryCode /\ code.owner = u
                    /\ code.kind = "recovery" => code.code \in user[u].codes
    <3>1. CASE \E c \in user[u].codes :
                  Now(q, [op |-> "spend", owner |-> u, purpose |-> purpose, seen |-> user[u].codes,
                          code |-> [kind |-> "recovery", owner |-> u, code |-> c]])
      BY <2>2, <3>1 DEF RecoveryCode, Codes
    <3>2. ASSUME user[u].secret # 0, NEW c \in Fresh(user[u].last),
                 Now(q, [op |-> "spend", owner |-> u, purpose |-> purpose, seen |-> user[u].codes,
                         code |-> [kind |-> "app", owner |-> u, secret |-> user[u].secret, code |-> c]])
          PROVE  \E code : /\ Now(q, [op |-> "spend", owner |-> u, purpose |-> purpose, seen |-> user[u].codes,
                                      code |-> code])
                           /\ code \in AppCode \cup RecoveryCode /\ code.owner = u
                           /\ code.kind = "recovery" => code.code \in user[u].codes
      <4>1. user[u].secret \in 1 .. MaxSwitches
        BY <2>1, <3>2, AccountsBounds DEF Row
      <4>2. c \in 0 .. MaxTime + 1
        BY <1>1, <3>2, AccountsBounds DEF Fresh
      <4>3. [kind |-> "app", owner |-> u, secret |-> user[u].secret, code |-> c] \in AppCode
        BY <4>1, <4>2 DEF AppCode
      <4>4. QED
        BY <3>2, <4>3
    <3>3. QED
      BY <1>7, <3>1, <3>2 DEF Check
  <2>4. [op |-> "spend", owner |-> u, purpose |-> purpose, seen |-> user[u].codes, code |-> code] \in Spending
    BY <2>2, <2>3 DEF Spending
  <2>5. QED
    BY <1>1, <2>1, <2>3, <2>4, OpensKeep DEF RequestRow
<1>8. QED
  BY <1>3, <1>4, <1>5, <1>7 DEF CompleteLogin, Disable, BeginPasskey

\* A session is presented: what was read of it is its row.
LEMMA SessionsPresented ==
    ASSUME AccountsInv, NEW q \in Requests, NEW s \in Sessions, Present(q, s)
    PROVE  AccountsInv'
<1>1. session[s] \in SessionRow
  BY DEF Present, Signed, AccountsInv, AccountsTyped, Unused, Ended
<1>2. session[s].owner \in Users
  BY <1>1 DEF SessionRow
<1>3. [op |-> "touch", owner |-> session[s].owner, of |-> s, row |-> session[s]] \in RequestRow
  BY <1>1, <1>2 DEF Touching, RequestRow
<1>4. QED
  BY <1>3, OpensKeep DEF Present, AccountsInv, AccountsTyped

\* Sessions are recorded, used and ended.
LEMMA SessionsMove ==
    ASSUME AccountsInv,
           \/ \E q \in Requests : IssueSession(q) \/ Touch(q)
           \/ \E s \in Sessions : \/ PresentElsewhere(s)
                                 \/ \E u \in Users : RevokeSession(u, s) \/ RevokeOtherSessions(u, s)
    PROVE  AccountsInv'
<1>1. /\ AccountsTyped /\ time \in Ticks /\ session \in [Sessions -> SessionRow \cup {Unused, Ended}]
      /\ request \in [Requests -> RequestRow]
      /\ \A t \in Sessions : Signed(t) => session[t] \in SessionRow
  BY DEF AccountsInv, AccountsTyped, Signed, Unused, Ended
<1>2. Ended.state # "row" /\ Unused.state # "row"
  BY DEF Ended, Unused
<1>3. ASSUME NEW q \in Requests, IssueSession(q) PROVE AccountsInv'
  <2>1. /\ request[q].op = "issue" /\ Now(q, Idle) /\ UNCHANGED <<begun, user, mfa, time, won, cut>>
    BY <1>3 DEF IssueSession
  <2>2. PICK v \in Users : v = request[q].owner
    BY <1>1, <2>1 DEF RequestRow, Idle, Going, Spending, Enabling, Touching, Changing
  <2>3. user[v].password \in 0 .. MaxPasswords
    BY <1>1, AccountsBounds DEF AccountsTyped, Row, Gone
  <2>4. time + SessionLife \in Int
    BY <1>1, AccountsBounds DEF Ticks
  <2>5. PICK new : /\ new = [state |-> "row", owner |-> v, expires |-> time + SessionLife, used |-> time,
                             under |-> user[v].password]
                   /\ new \in SessionRow
    <3>1. [state |-> "row", owner |-> v, expires |-> time + SessionLife, used |-> time,
           under |-> user[v].password] \in SessionRow
      BY <1>1, <2>3, <2>4 DEF SessionRow
    <3>2. QED
      BY <3>1
  <2>6. \E t \in Sessions : session' = [x \in Sessions |->
            IF x = t THEN new
            ELSE IF session[x].state = "row" /\ session[x].expires < time THEN Ended ELSE session[x]]
    BY <1>3, <2>2, <2>5 DEF IssueSession
  <2>7. /\ session' \in [Sessions -> SessionRow \cup {Unused, Ended}]
        /\ \A x \in Sessions : session'[x] \in {new, Ended, session[x]}
    BY <1>1, <2>5, <2>6
  <2>8. \A x \in Sessions : Signed(x)' =>
            \/ Signed(x) /\ session'[x].owner = session[x].owner /\ session'[x].under = session[x].under
            \/ session'[x].under = user[session'[x].owner].password
    BY <1>2, <2>5, <2>7 DEF Signed
  <2>9. QED
    BY <2>1, <2>7, <2>8, RequestEnds, SessionsKeep
<1>4. ASSUME NEW q \in Requests, Touch(q) PROVE AccountsInv'
  <2>1. /\ request[q].op = "touch" /\ Now(q, Idle) /\ UNCHANGED <<begun, user, mfa, time, won, cut>>
        /\ session' = [session EXCEPT ![request[q].of] = Touched(request[q].of, request[q].row)]
    BY <1>4 DEF Touch
  <2>2. PICK t \in Sessions : t = request[q].of
    BY <1>1, <2>1 DEF RequestRow, Idle, Going, Spending, Enabling, Touching, Changing
  <2>3. \/ session' = session
        \/ Signed(t) /\ session' = [session EXCEPT ![t] = [session[t] EXCEPT !.used = time]]
    BY <1>1, <2>1, <2>2 DEF Touched
  <2>4. Signed(t) => /\ [session[t] EXCEPT !.used = time] \in SessionRow
                     /\ [session[t] EXCEPT !.used = time].owner = session[t].owner
                     /\ [session[t] EXCEPT !.used = time].under = session[t].under
    BY <1>1 DEF SessionRow
  <2>5. session' \in [Sessions -> SessionRow \cup {Unused, Ended}]
    BY <1>1, <2>3, <2>4
  <2>6. \A x \in Sessions : Signed(x)' =>
            Signed(x) /\ session'[x].owner = session[x].owner /\ session'[x].under = session[x].under
    BY <1>1, <2>3, <2>4 DEF Signed
  <2>7. QED
    BY <2>1, <2>5, <2>6, RequestEnds, SessionsKeep
<1>5. ASSUME NEW s \in Sessions,
             \/ PresentElsewhere(s)
             \/ \E u \in Users : RevokeSession(u, s) \/ RevokeOtherSessions(u, s)
      PROVE  AccountsInv'
  <2>1. /\ session' \in [Sessions -> SessionRow \cup {Unused, Ended}]
        /\ \A x \in Sessions : session'[x] \in {Ended, session[x]}
        /\ UNCHANGED <<begun, user, mfa, request, time, won, cut>>
    BY <1>1, <1>5 DEF PresentElsewhere, RevokeSession, RevokeOtherSessions, EndSessions
  <2>2. \A x \in Sessions : Signed(x)' =>
            Signed(x) /\ session'[x].owner = session[x].owner /\ session'[x].under = session[x].under
    BY <1>2, <2>1 DEF Signed
  <2>3. QED
    BY <1>1, <2>1, <2>2, SessionsKeep
<1>6. QED
  BY <1>3, <1>4, <1>5

LEMMA ClearedIsLater ==
    ASSUME AccountsInv, NEW u \in Users, user[u] \in Row, user[u].switched < MaxSwitches
    PROVE  /\ Cleared(user[u]) \in Row /\ Cleared(user[u]).password = user[u].password
           /\ Cleared(user[u]).setups + Cleared(user[u]).switched > Settings(u)
<1>1. /\ user[u].switched + 1 \in 0 .. MaxSwitches /\ user[u].switched \in Int /\ user[u].setups \in Int
      /\ 0 \in 0 .. MaxSwitches /\ 0 \in 0 .. MaxTime + 1
  BY AccountsBounds DEF Row
<1>2. Cleared(user[u]) \in Row
  BY <1>1 DEF Cleared, Row
<1>3. /\ Cleared(user[u]).password = user[u].password /\ Cleared(user[u]).setups = user[u].setups
      /\ Cleared(user[u]).switched = user[u].switched + 1
  BY DEF Cleared, Row
<1>4. QED
  BY <1>1, <1>2, <1>3 DEF Settings

\* Setting two-factor up, turning it on and off.
LEMMA SettingsMove ==
    ASSUME AccountsInv,
           \/ \E q \in Requests : NewSecret(q) \/ TurnOn(q) \/ TurnOff(q)
           \/ \E a \in Users : AdminReset(a)
    PROVE  AccountsInv'
<1>1. AccountsTyped /\ request \in [Requests -> RequestRow]
  BY DEF AccountsInv, AccountsTyped
<1>2. ASSUME NEW a \in Users, AdminReset(a) PROVE AccountsInv'
  <2>1. user[a] \in Row /\ Exists(a) /\ user[a].switched < MaxSwitches /\ Write(a, Cleared(user[a]))
    BY <1>1, <1>2 DEF AdminReset, AccountsTyped, Exists
  <2>2. /\ Cleared(user[a]) \in Row /\ Cleared(user[a]).password = user[a].password
        /\ Cleared(user[a]).setups + Cleared(user[a]).switched > Settings(a)
    BY <2>1, ClearedIsLater
  <2>3. QED
    BY <1>1, <1>2, <2>1, <2>2, SettingsKeep DEF AdminReset
<1>3. ASSUME NEW q \in Requests, NewSecret(q) \/ TurnOn(q) \/ TurnOff(q) PROVE AccountsInv'
  <2>1. /\ request[q].op \in {"setup", "enable", "reset"} /\ Now(q, Idle)
        /\ UNCHANGED <<begun, session, mfa, time, won, cut>>
    BY <1>3 DEF NewSecret, TurnOn, TurnOff
  <2>2. PICK u \in Users : u = request[q].owner
    BY <1>1, <2>1 DEF RequestRow, Idle, Going, Spending, Enabling, Touching, Changing
  <2>3. CASE ~Exists(u)
    <3>1. user' = user
      BY <1>3, <2>2, <2>3 DEF NewSecret, TurnOn, TurnOff
    <3>2. QED
      BY <1>1, <2>1, <3>1, RequestEnds, SessionsKeep DEF AccountsTyped, Signed
  <2>4. CASE Exists(u)
    <3>1. user[u] \in Row
      BY <1>1, <2>4 DEF AccountsTyped, Exists
    <3>2. \E row \in Row : /\ Write(u, row) /\ row.password = user[u].password
                           /\ row.setups + row.switched > Settings(u)
      <4>1. CASE NewSecret(q)
        <5> DEFINE row == [user[u] EXCEPT !.secret = user[u].setups + 1, !.setups = @ + 1, !.last = 0]
        <5>1. user[u].setups < MaxSwitches /\ Write(u, row)
          BY <2>2, <2>4, <4>1 DEF NewSecret
        <5>2. row \in Row /\ row.password = user[u].password /\ row.setups + row.switched > Settings(u)
          <6>1. /\ user[u].setups + 1 \in 0 .. MaxSwitches /\ user[u].setups \in Int /\ user[u].switched \in Int
                /\ 0 \in 0 .. MaxTime + 1
            BY <3>1, <5>1, AccountsBounds DEF Row
          <6>2. row \in Row
            BY <3>1, <6>1 DEF Row
          <6>3. /\ row.password = user[u].password /\ row.setups = user[u].setups + 1
                /\ row.switched = user[u].switched
            BY <3>1 DEF Row
          <6>4. QED
            BY <6>1, <6>2, <6>3 DEF Settings
        <5>3. QED
          BY <5>1, <5>2
      <4>2. CASE TurnOn(q)
        <5> DEFINE row == [user[u] EXCEPT !.totp = TRUE, !.last = request[q].code, !.switched = @ + 1,
                                          !.codes = {user[u].switched + 1} \X RecoveryCodes]
        <5>1. user[u].switched < MaxSwitches /\ Write(u, row)
          BY <2>2, <2>4, <4>2 DEF TurnOn
        <5>2. request[q].code \in 0 .. MaxTime + 1
          <6>1. request[q].op = "enable"
            BY <4>2 DEF TurnOn
          <6>2. request[q] \in Enabling
            BY <1>1, <6>1 DEF RequestRow, Idle, Going, Spending, Enabling, Touching, Changing
          <6>3. QED
            BY <6>2 DEF Enabling
        <5>3. {user[u].switched + 1} \X RecoveryCodes \in SUBSET Codes
          <6>1. user[u].switched + 1 \in 1 .. MaxSwitches
            BY <3>1, <5>1, AccountsBounds DEF Row
          <6>2. QED
            BY <6>1 DEF Codes
        <5>4. row \in Row /\ row.password = user[u].password /\ row.setups + row.switched > Settings(u)
          <6>1. /\ user[u].switched + 1 \in 0 .. MaxSwitches /\ user[u].switched \in Int /\ user[u].setups \in Int
            BY <3>1, <5>1, AccountsBounds DEF Row
          <6>2. row \in Row
            BY <3>1, <5>2, <5>3, <6>1 DEF Row, Codes
          <6>3. /\ row.password = user[u].password /\ row.setups = user[u].setups
                /\ row.switched = user[u].switched + 1
            BY <3>1 DEF Row
          <6>4. QED
            BY <6>1, <6>2, <6>3 DEF Settings
        <5>5. QED
          BY <5>1, <5>4
      <4>3. CASE TurnOff(q)
        <5>1. user[u].switched < MaxSwitches /\ Write(u, Cleared(user[u]))
          BY <2>2, <2>4, <4>3 DEF TurnOff
        <5>2. /\ Cleared(user[u]) \in Row /\ Cleared(user[u]).password = user[u].password
              /\ Cleared(user[u]).setups + Cleared(user[u]).switched > Settings(u)
          BY <3>1, <5>1, ClearedIsLater
        <5>3. QED
          BY <5>1, <5>2
      <4>4. QED
        BY <1>3, <4>1, <4>2, <4>3
    <3>3. QED
      BY <1>1, <2>1, <2>4, <3>2, RequestEnds, SettingsKeep
  <2>5. QED
    BY <2>3, <2>4
<1>4. QED
  BY <1>2, <1>3

\* A new password: no session the change keeps is left behind, and none it does
\* not keep is left at all.
LEMMA PasswordsChange ==
    ASSUME AccountsInv, NEW q \in Requests, NEW u \in Users, ChangePassword(q, u)
    PROVE  AccountsInv'
<1>1. /\ AccountsTyped /\ user[u] \in Row /\ Comes(q) /\ user[u].password < MaxPasswords
      /\ \A p \in InUse(u) : request[p].op # "change"
      /\ UNCHANGED <<mfa, time, won, cut>> /\ request[q] = Idle
  BY DEF ChangePassword, Exists, AccountsInv, AccountsTyped, Comes
<1>2. PICK keep \in SUBSET Sessions :
         /\ Write(u, [user[u] EXCEPT !.password = @ + 1])
         /\ session' = [s \in Sessions |-> IF s \in keep /\ Signed(s)
                                           THEN [session[s] EXCEPT !.under = user[u].password + 1] ELSE session[s]]
         /\ Now(q, [op |-> "change", owner |-> u, keep |-> keep])
         /\ \A s \in keep : Signed(s) /\ session[s].owner = u
  BY DEF ChangePassword, ChangeWrite, ChangeOrder
<1>3. PICK row \in Row : /\ row.password = user[u].password + 1 /\ row.setups = user[u].setups
                         /\ row.switched = user[u].switched /\ row.last = user[u].last
                         /\ row.codes = user[u].codes /\ Write(u, row)
  <2> DEFINE new == [user[u] EXCEPT !.password = @ + 1]
  <2>1. user[u].password + 1 \in 1 .. MaxPasswords
    BY <1>1, AccountsBounds DEF Row
  <2>2. new \in Row
    BY <1>1, <2>1 DEF Row
  <2>3. /\ new.password = user[u].password + 1 /\ new.setups = user[u].setups
        /\ new.switched = user[u].switched /\ new.last = user[u].last /\ new.codes = user[u].codes
    BY <1>1 DEF Row
  <2>4. QED
    BY <1>2, <2>2, <2>3
<1>4. /\ user' \in [Users -> Row \cup {Gone}] /\ user'[u] = row
      /\ \A v \in Users \ {u} : user'[v] = user[v]
  BY <1>1, <1>3 DEF Write, AccountsTyped
<1>5. /\ session' \in [Sessions -> SessionRow \cup {Unused, Ended}]
      /\ \A s \in Sessions \ keep : session'[s] = session[s]
      /\ \A s \in keep : /\ Signed(s)' /\ session'[s].owner = u /\ session'[s].under = row.password
  <2>1. row.password \in 0 .. MaxPasswords
    BY <1>3, AccountsBounds DEF Row
  <2>2. ASSUME NEW s \in keep
        PROVE  /\ [session[s] EXCEPT !.under = row.password] \in SessionRow
               /\ [session[s] EXCEPT !.under = row.password].owner = u
               /\ [session[s] EXCEPT !.under = row.password].under = row.password
               /\ [session[s] EXCEPT !.under = row.password].state = "row"
    <3>1. session[s] \in SessionRow /\ session[s].owner = u
      BY <1>1, <1>2, <2>2 DEF AccountsTyped, Signed, Unused, Ended
    <3>2. QED
      BY <2>1, <3>1 DEF SessionRow
  <2>3. \A s \in Sessions : session'[s] = IF s \in keep THEN [session[s] EXCEPT !.under = row.password] ELSE session[s]
    BY <1>2, <1>3
  <2>4. session' \in [Sessions -> SessionRow \cup {Unused, Ended}]
    BY <1>1, <1>2, <1>3, <2>2 DEF AccountsTyped
  <2>5. QED
    BY <2>2, <2>3, <2>4 DEF Signed
<1>6. /\ request' \in [Requests -> RequestRow] /\ request'[q].op = "change" /\ request'[q].owner = u
      /\ request'[q].keep = keep /\ \A p \in Requests \ {q} : request'[p] = request[p]
  <2>1. [op |-> "change", owner |-> u, keep |-> keep] \in RequestRow
    BY <1>2 DEF Changing, RequestRow
  <2>2. QED
    BY <1>1, <1>2, <2>1 DEF Now, AccountsTyped
<1>7. begun' \in 0 .. MaxRequests
  BY <1>1, AccountsBounds DEF Comes, AccountsTyped
<1>8. AccountsTyped'
  BY <1>1, <1>4, <1>5, <1>6, <1>7 DEF AccountsTyped
<1>9. (\A w \in won : Spent(w))' /\ EveryCodeOnce'
  <2>1. Exists(u) /\ Settings(u)' = Settings(u)
    BY <1>1, <1>3, <1>4 DEF Settings, Exists, Row, Gone
  <2>2. QED
    BY <1>1, <1>3, <1>4, <2>1, CodesKeep DEF Exists, Settings
<1>10. \A v : (Ending(v) => Ending(v)') /\ (Deleting(v) => Deleting(v)')
  BY <1>1, <1>6 DEF Ending, Deleting, Idle
<1>11. Ending(u)'
  BY <1>6 DEF Ending
<1>12. ASSUME NEW s \in Sessions, Behind(s)', session'[s].owner # u
       PROVE  Behind(s) /\ session'[s] = session[s]
  <2>1. session'[s] = session[s] /\ Signed(s)
    BY <1>5, <1>12 DEF Behind, Signed
  <2>2. session[s].owner \in Users
    BY <1>1, <2>1 DEF AccountsTyped, Signed, SessionRow, Unused, Ended
  <2>3. QED
    BY <1>4, <1>12, <2>1, <2>2 DEF Behind
<1>13. ASSUME NEW s \in Sessions PROVE OldEnds(s)'
  BY <1>10, <1>11, <1>12 DEF OldEnds, AccountsInv
<1>14. ASSUME NEW p \in Requests PROVE KeptGoOn(p)'
  <2>1. CASE p = q
    <3>1. \A s \in keep : ~Behind(s)'
      BY <1>4, <1>5 DEF Behind
    <3>2. QED
      BY <1>6, <2>1, <3>1 DEF KeptGoOn
  <2>2. CASE p # q /\ request[p].op = "change"
    <3>1. request'[p] = request[p] /\ KeptGoOn(p)
      BY <1>6, <2>2 DEF AccountsInv
    <3>2. request[p].owner # u /\ request[p].keep \subseteq Sessions
      BY <1>1, <2>2 DEF InUse, Idle, AccountsTyped, RequestRow, Going, Spending, Enabling, Touching, Changing
    <3>3. QED
      BY <1>10, <1>12, <2>2, <3>1, <3>2 DEF KeptGoOn
  <2>3. QED
    BY <1>6, <2>1, <2>2 DEF KeptGoOn
<1>15. QED
  BY <1>8, <1>9, <1>13, <1>14 DEF AccountsInv

\* The second write of a change or a delete leaves none behind of its user's.
LEMMA ChangesEnd ==
    ASSUME AccountsInv, NEW q \in Requests, ChangePasswordEnds(q) \/ DeleteUserEnds(q)
    PROVE  AccountsInv'
<1>1. /\ AccountsTyped /\ request[q].op \in {"change", "delete"} /\ Now(q, Idle)
      /\ UNCHANGED <<begun, user, mfa, time, won, cut>>
  BY DEF ChangePasswordEnds, DeleteUserEnds, ChangeWrite, ChangeOrder, AccountsInv
<1>2. PICK u \in Users : u = request[q].owner
  BY <1>1 DEF AccountsTyped, RequestRow, Idle, Going, Spending, Enabling, Touching, Changing
<1>3. PICK which \in SUBSET Sessions :
         /\ EndSessions(u, which)
         /\ which = IF request[q].op = "change" THEN Sessions \ request[q].keep ELSE Sessions
  BY <1>1, <1>2 DEF ChangePasswordEnds, DeleteUserEnds, ChangeWrite, ChangeOrder
<1>4. /\ session' \in [Sessions -> SessionRow \cup {Unused, Ended}]
      /\ \A s \in Sessions : Signed(s)' =>
            session'[s] = session[s] /\ Signed(s) /\ (session[s].owner # u \/ s \notin which)
  <2>1. \A s \in Sessions : session'[s] = IF s \in which /\ Signed(s) /\ session[s].owner = u THEN Ended ELSE session[s]
    BY <1>3 DEF EndSessions
  <2>2. session' \in [Sessions -> SessionRow \cup {Unused, Ended}]
    BY <1>1, <1>3 DEF EndSessions, AccountsTyped
  <2>3. QED
    BY <2>1, <2>2 DEF Signed, Ended
<1>5. request' \in [Requests -> RequestRow] /\ request'[q] = Idle /\ \A p \in Requests \ {q} : request'[p] = request[p]
  BY <1>1 DEF Now, AccountsTyped, RequestRow
<1>6. AccountsTyped'
  BY <1>1, <1>4, <1>5 DEF AccountsTyped
<1>7. (\A w \in won : Spent(w))' /\ EveryCodeOnce'
  BY <1>1, CodesKeep DEF Exists, Settings, AccountsTyped
<1>8. \A v : v # u => (Ending(v) => Ending(v)') /\ (Deleting(v) => Deleting(v)')
  BY <1>1, <1>2, <1>5 DEF Ending, Deleting
<1>9. ASSUME NEW s \in Sessions, Behind(s)'
      PROVE  Behind(s) /\ session'[s] = session[s] /\ (session[s].owner # u \/ s \notin which)
  BY <1>1, <1>4, <1>9 DEF Behind
<1>10. ASSUME request[q].op = "change", Deleting(u)
       PROVE  Ending(u)' /\ Deleting(u)'
  BY <1>1, <1>5, <1>10 DEF Ending, Deleting
<1>11. ASSUME NEW s \in Sessions, Behind(s)', session[s].owner = u
       PROVE  request[q].op = "change" /\ Deleting(u)
  <2>1. s \notin which /\ Behind(s)
    BY <1>9, <1>11
  <2>2. request[q].op = "change" /\ s \in request[q].keep
    BY <1>3, <2>1
  <2>3. QED
    BY <1>2, <1>11, <2>1, <2>2 DEF KeptGoOn, AccountsInv
<1>12. ASSUME NEW s \in Sessions PROVE OldEnds(s)'
  BY <1>8, <1>9, <1>10, <1>11 DEF OldEnds, AccountsInv
<1>13. ASSUME NEW p \in Requests PROVE KeptGoOn(p)'
  <2>1. CASE p # q /\ request[p].op = "change"
    <3>1. request'[p] = request[p] /\ KeptGoOn(p) /\ request[p].keep \subseteq Sessions
      BY <1>1, <1>5, <2>1
         DEF AccountsInv, AccountsTyped, RequestRow, Idle, Going, Spending, Enabling, Touching, Changing
    <3>2. QED
      BY <1>8, <1>9, <1>10, <1>11, <2>1, <3>1 DEF KeptGoOn
  <2>2. QED
    BY <1>5, <2>1 DEF KeptGoOn, Idle
<1>14. QED
  BY <1>6, <1>7, <1>12, <1>13 DEF AccountsInv

\* A user's row goes: what it leaves is about to be ended.
LEMMA UsersGo ==
    ASSUME AccountsInv, NEW q \in Requests, NEW u \in Users, DeleteUser(q, u)
    PROVE  AccountsInv'
<1>1. /\ AccountsTyped /\ Comes(q) /\ Write(u, Gone) /\ Now(q, [op |-> "delete", owner |-> u])
      /\ UNCHANGED <<session, mfa, time, won, cut>> /\ request[q] = Idle
  BY DEF DeleteUser, Comes, AccountsInv
<1>2. /\ user' \in [Users -> Row \cup {Gone}] /\ user'[u] = Gone /\ \A v \in Users \ {u} : user'[v] = user[v]
  BY <1>1 DEF Write, AccountsTyped
<1>3. /\ request' \in [Requests -> RequestRow] /\ request'[q].op = "delete" /\ request'[q].owner = u
      /\ \A p \in Requests \ {q} : request'[p] = request[p]
  <2>1. [op |-> "delete", owner |-> u] \in RequestRow
    BY DEF Going, RequestRow
  <2>2. QED
    BY <1>1, <2>1 DEF Now, AccountsTyped
<1>4. begun' \in 0 .. MaxRequests
  BY <1>1, AccountsBounds DEF Comes, AccountsTyped
<1>5. AccountsTyped'
  BY <1>1, <1>2, <1>3, <1>4 DEF AccountsTyped
<1>6. (\A w \in won : Spent(w))' /\ EveryCodeOnce'
  BY <1>1, <1>2, CodesKeep DEF Exists, Settings
<1>7. \A v : (Ending(v) => Ending(v)') /\ (Deleting(v) => Deleting(v)')
  BY <1>1, <1>3 DEF Ending, Deleting, Idle
<1>8. Ending(u)' /\ Deleting(u)'
  BY <1>3 DEF Ending, Deleting
<1>9. ASSUME NEW s \in Sessions, Behind(s)', session[s].owner # u
      PROVE  Behind(s)
  <2>1. Signed(s) /\ session[s].owner \in Users
    BY <1>1, <1>9 DEF AccountsTyped, Behind, Signed, SessionRow, Unused, Ended
  <2>2. QED
    BY <1>1, <1>2, <1>9, <2>1 DEF Behind
<1>10. ASSUME NEW s \in Sessions PROVE OldEnds(s)'
  BY <1>1, <1>7, <1>8, <1>9 DEF OldEnds, AccountsInv
<1>11. ASSUME NEW p \in Requests PROVE KeptGoOn(p)'
  <2>1. CASE request'[p].op = "change"
    <3>1. p # q /\ request'[p] = request[p] /\ KeptGoOn(p) /\ request[p].keep \subseteq Sessions
      BY <1>1, <1>3, <2>1
         DEF AccountsInv, AccountsTyped, RequestRow, Idle, Going, Spending, Enabling, Touching, Changing
    <3>2. QED
      BY <1>1, <1>7, <1>8, <1>9, <2>1, <3>1 DEF KeptGoOn
  <2>2. QED
    BY <2>1 DEF KeptGoOn
<1>12. QED
  BY <1>5, <1>6, <1>10, <1>11 DEF AccountsInv

\* A stop cuts changes short, and remembers whose.
LEMMA StopKeeps == AccountsInv /\ AccountsStop => AccountsInv'
<1> SUFFICES ASSUME AccountsInv, AccountsStop PROVE AccountsInv'
  OBVIOUS
<1>1. /\ AccountsTyped /\ UNCHANGED <<begun, user, session, mfa, time, won>>
      /\ request' = [q \in Requests |-> Idle]
      /\ cut' = cut \cup {request[q].owner : q \in {p \in Requests : request[p].op \in {"change", "delete"}}}
  BY DEF AccountsStop, AccountsInv
<1>2. request' \in [Requests -> RequestRow] /\ \A q \in Requests : request'[q].op = "idle"
  BY <1>1 DEF RequestRow, Idle
<1>3. cut' \subseteq Users
  BY <1>1 DEF AccountsTyped, RequestRow, Idle, Going, Spending, Enabling, Touching, Changing
<1>4. AccountsTyped'
  BY <1>1, <1>2, <1>3 DEF AccountsTyped
<1>5. (\A w \in won : Spent(w))' /\ EveryCodeOnce'
  BY <1>1, CodesKeep DEF Exists, Settings, AccountsTyped
<1>6. \A v : Ending(v) => v \in cut'
  BY <1>1 DEF Ending
<1>7. ASSUME NEW s \in Sessions PROVE OldEnds(s)'
  BY <1>1, <1>6 DEF OldEnds, Behind, Signed, Ending, AccountsInv
<1>8. ASSUME NEW q \in Requests PROVE KeptGoOn(q)'
  BY <1>2 DEF KeptGoOn
<1>9. QED
  BY <1>4, <1>5, <1>7, <1>8 DEF AccountsInv

LEMMA AccountsInvStep == AccountsInv /\ [AccountsNext]_accountVars => AccountsInv'
<1> SUFFICES ASSUME AccountsInv, [AccountsNext]_accountVars PROVE AccountsInv'
  OBVIOUS
<1>1. AccountsTyped
  BY DEF AccountsInv
<1>2. CASE AccountsTick
  <2>1. time' \in Ticks /\ mfa' \subseteq mfa /\ UNCHANGED <<begun, user, session, request, won, cut>>
    BY <1>1, <1>2, AccountsBounds DEF AccountsTick, AccountsTyped, Ticks
  <2>2. AccountsTyped'
    BY <1>1, <2>1 DEF AccountsTyped
  <2>3. (\A w \in won : Spent(w))' /\ EveryCodeOnce'
    BY <1>1, <2>1, CodesKeep DEF Exists, Settings, AccountsTyped
  <2>4. (\A s \in Sessions : OldEnds(s))' /\ (\A q \in Requests : KeptGoOn(q))'
    BY <2>1, SignInsKeep DEF Signed
  <2>5. QED
    BY <2>2, <2>3, <2>4 DEF AccountsInv
<1>3. CASE UNCHANGED accountVars
  BY <1>1, <1>3, SessionsKeep DEF accountVars, AccountsTyped, Signed
<1>4. CASE AccountsNext
  BY <1>2, <1>4, StopKeeps, PasswordsChange, UsersGo, RequestsCome, SessionsPresented, SessionsMove, SettingsMove,
     ChangesEnd, SpendKeeps DEF AccountsNext
<1>5. QED
  BY <1>3, <1>4

LEMMA AccountsInvHolds == AccountsSpec => []AccountsInv
<1>1. AccountsInv /\ [AccountsNext]_accountVars => AccountsInv'
  BY AccountsInvStep
<1>2. QED
  BY <1>1, AccountsInvInit, PTL DEF AccountsSpec

\* Whatever requests are between their checks and their writes, a code signs in
\* (or turns two-factor off, or adds a passkey) once under the same settings
\* (twofactor_service.go).
THEOREM CodesSpentOnce == AccountsSpec => []EveryCodeOnce
<1>1. AccountsInv => EveryCodeOnce
  BY DEF AccountsInv
<1>2. QED
  BY <1>1, AccountsInvHolds, PTL

\* A session older than its user's password is gone once the change or delete is
\* complete, for any interleaving of its writes with sign-ins and stops
\* (settings_service.go, session_service.go).
THEOREM OldSignInsGone == AccountsSpec => []OldSignInsEnd
<1>1. ASSUME AccountsInv PROVE OldSignInsEnd
  <2>1. ASSUME NEW u, Ending(u) PROVE u \in cut \/ \E q \in InUse(u) : request[q].op \in {"change", "delete"}
    BY <2>1 DEF Ending, InUse, Idle
  <2>2. ASSUME NEW s \in Sessions, Signed(s), session[s].under # user[session[s].owner].password
        PROVE  Ending(session[s].owner)
    BY <1>1, <2>2 DEF AccountsInv, OldEnds, Behind
  <2>3. QED
    BY <2>1, <2>2 DEF OldSignInsEnd
<1>2. AccountsInv => OldSignInsEnd
  BY <1>1
<1>3. QED
  BY <1>2, AccountsInvHolds, PTL

\* A session that has ended stays ended: a sign-in takes a new row, and a use of
\* one that was being noted finds no row (session_service.go).
THEOREM NoSessionReturns == AccountsSpec => EndedStaysEnded
<1>1. ASSUME AccountsInv, [AccountsNext]_accountVars, NEW s \in Sessions, session[s] = Ended
      PROVE  session'[s] = Ended
  <2>1. session \in [Sessions -> SessionRow \cup {Unused, Ended}] /\ Ended # Unused /\ ~Signed(s)
    BY <1>1 DEF AccountsInv, AccountsTyped, Signed, Ended, Unused
  <2>2. CASE UNCHANGED session
    BY <1>1, <2>2
  <2>3. ASSUME NEW q \in Requests, IssueSession(q) PROVE session'[s] = Ended
    BY <1>1, <2>1, <2>3 DEF IssueSession
  <2>4. ASSUME NEW q \in Requests, Touch(q) PROVE session'[s] = Ended
    BY <1>1, <2>1, <2>4 DEF Touch, Touched
  <2>5. ASSUME NEW t \in Sessions,
               \/ PresentElsewhere(t)
               \/ \E u \in Users : RevokeSession(u, t) \/ RevokeOtherSessions(u, t)
        PROVE  session'[s] = Ended
    BY <1>1, <2>1, <2>5 DEF PresentElsewhere, RevokeSession, RevokeOtherSessions, EndSessions
  <2>6. ASSUME NEW q \in Requests, ChangePasswordEnds(q) \/ DeleteUserEnds(q) PROVE session'[s] = Ended
    BY <1>1, <2>1, <2>6 DEF ChangePasswordEnds, DeleteUserEnds, ChangeWrite, ChangeOrder, EndSessions
  <2>7. ASSUME NEW q \in Requests, NEW u \in Users, ChangePassword(q, u) PROVE session'[s] = Ended
    BY <1>1, <2>1, <2>7 DEF ChangePassword, ChangeWrite, ChangeOrder
  <2>8. ASSUME NEW q \in Requests,
               \/ Spend(q) \/ NewSecret(q) \/ TurnOn(q) \/ TurnOff(q)
               \/ \E u \in Users : \/ BeginTwoFactor(q, u) \/ EnableTwoFactor(q, u) \/ DeleteUser(q, u)
                                  \/ Login(q, u) \/ CompleteLogin(q, u) \/ Disable(q, u) \/ BeginPasskey(q, u)
               \/ \E t \in Sessions : Present(q, t)
        PROVE  UNCHANGED session
    BY <2>8 DEF Spend, NewSecret, TurnOn, TurnOff, BeginTwoFactor, EnableTwoFactor, DeleteUser, Login,
                CompleteLogin, Disable, BeginPasskey, Check, Present
  <2>9. ASSUME (\E u \in Users : AdminReset(u)) \/ AccountsStop \/ AccountsTick \/ UNCHANGED accountVars
        PROVE  UNCHANGED session
    BY <2>9 DEF AdminReset, AccountsStop, AccountsTick, accountVars
  <2>10. QED
    BY <1>1, <2>2, <2>3, <2>4, <2>5, <2>6, <2>7, <2>8, <2>9 DEF AccountsNext
<1>2. AccountsInv /\ [AccountsNext]_accountVars
        => [\A s \in Sessions : session[s] = Ended => session'[s] = Ended]_accountVars
  BY <1>1
<1>3. QED
  BY <1>2, AccountsInvHolds, PTL DEF AccountsSpec, EndedStaysEnded

-----------------------------------------------------------------------------
(* All of them together.                                                     *)

LEMMA PartsMoveAlone ==
    SignInSpec => AccountsSpec /\ CliSpec /\ PasskeySpec /\ EnrollSpec
<1>1. SignInInit => AccountsInit /\ CliInit /\ PasskeyInit /\ EnrollInit
  BY DEF SignInInit
<1>2. [SignInNext]_signInVars => [AccountsNext]_accountVars
  BY DEF SignInNext, signInVars
<1>3. [SignInNext]_signInVars => [CliNext]_cliVars
  BY DEF SignInNext, signInVars
<1>4. [SignInNext]_signInVars => [PasskeyNext]_passkeyVars
  BY DEF SignInNext, signInVars
<1>5. [SignInNext]_signInVars => [EnrollNext]_enrollVars
  BY DEF SignInNext, signInVars
<1>6. QED
  BY <1>1, <1>2, <1>3, <1>4, <1>5, PTL DEF SignInSpec, AccountsSpec, CliSpec, PasskeySpec, EnrollSpec

LEMMA AccountsTypesFit == AccountsInv => AccountsTypeOK
<1> SUFFICES ASSUME AccountsInv PROVE AccountsTypeOK
  OBVIOUS
<1>1. AccountsTyped
  BY DEF AccountsInv
<1>2. ASSUME NEW q \in Requests PROVE request[q] = Idle \/ request[q].owner \in Users
  BY <1>1, <1>2 DEF AccountsTyped, RequestRow, Going, Spending, Enabling, Touching, Changing
<1>3. QED
  BY <1>1, <1>2 DEF AccountsTyped, AccountsTypeOK

LEMMA CliTypesFit == CliInv => CliTypeOK
<1> SUFFICES ASSUME CliInv PROVE CliTypeOK
  OBVIOUS
<1>1. CliTyped
  BY DEF CliInv
<1>2. PendingRow \subseteq [status : {"none", "pending", "approved", "denied"}, age : 0 .. RequestLife + 1,
                            of : SUBSET [for : Clis, owner : People, kind : {"permanent", "session"},
                                         scope : Scopes, nth : 1 .. 2]]
  <2>1. {1} \subseteq 1 .. 2
    OBVIOUS
  <2>2. Made \subseteq [for : Clis, owner : People, kind : {"permanent", "session"}, scope : Scopes, nth : 1 .. 2]
    BY <2>1 DEF Made
  <2>3. QED
    BY <2>2 DEF PendingRow
<1>3. \A c \in Clis : cli[c].doing \in {"idle", "polling", "signed in", "failed", "signed out"}
  BY <1>1 DEF CliTyped, CliRow
<1>4. \A x \in credential : x.owner \in People /\ x.scope \in Scopes
  BY <1>1 DEF CliTyped, Made, Generated
<1>5. QED
  BY <1>1, <1>2, <1>3, <1>4 DEF CliTyped, CliTypeOK

LEMMA PasskeyTypesFit == PasskeyInv => PasskeyTypeOK
<1> SUFFICES ASSUME PasskeyInv PROVE PasskeyTypeOK
  OBVIOUS
<1>1. PasskeyTyped
  BY DEF PasskeyInv
<1>2. \A f \in Finishers : finishing[f].does \in {"nothing", "register", "login"}
  BY <1>1 DEF PasskeyTyped, InHand, AtRest
<1>3. ASSUME NEW c \in Ceremonies PROVE outcome[c] \in 0 .. Cardinality(Finishers)
  <2>1. Cardinality(Finishers) \in Nat
    BY PasskeyBounds, FS_CardinalityType
  <2>2. Finishers # {} => Cardinality(Finishers) # 0
    BY PasskeyBounds, FS_EmptySet
  <2>3. outcome[c] \in 0 .. 1 /\ (outcome[c] = 1 => Finishers # {})
    BY <1>1 DEF PasskeyTyped, PasskeyInv
  <2>4. QED
    BY <2>1, <2>2, <2>3
<1>4. outcome \in [Ceremonies -> 0 .. Cardinality(Finishers)]
  BY <1>1, <1>3 DEF PasskeyTyped
<1>5. QED
  BY <1>1, <1>2, <1>4 DEF PasskeyTyped, PasskeyTypeOK, CeremonyRow

\* Every variable of accounts, command line logins, passkeys and enrollment has
\* its type, side by side.
THEOREM SignInTypes == SignInSpec => []SignInTypeOK
<1>1. AccountsInv /\ CliInv /\ PasskeyInv /\ EnrollTypeOK => SignInTypeOK
  BY AccountsTypesFit, CliTypesFit, PasskeyTypesFit DEF SignInTypeOK
<1>2. QED
  BY <1>1, PartsMoveAlone, AccountsInvHolds, CliInvHolds, PasskeyInvHolds, EnrollTypeCorrect, PTL

\* What each of them promises holds of all of them together.
THEOREM SignInSafe ==
    SignInSpec => /\ [](EveryCodeOnce /\ OldSignInsEnd /\ AnsweredOnce /\ OncePerCeremony)
                  /\ [](NodesAreRouted /\ PeersAreKnown)
                  /\ EndedStaysEnded
BY PartsMoveAlone, CodesSpentOnce, OldSignInsGone, RequestsAnsweredOnce, CeremoniesOnce, NodesRouted, PeersKnown,
   NoSessionReturns, PTL

=============================================================================
