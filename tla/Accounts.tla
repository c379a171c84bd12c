------------------------------ MODULE Accounts ------------------------------
(***************************************************************************)
(* Accounts and their sessions: signing in with a password and a second    *)
(* factor (auth_service.go, twofactor_service.go), the sessions this       *)
(* leaves (session_service.go), and what Settings changes under them       *)
(* (settings_service.go).                                                  *)
(*                                                                         *)
(* Every request reads the user's row, checks what it was sent against     *)
(* that, and writes later: request holds those between the two.  Wrong     *)
(* answers change nothing here; LoginLimiter counts them.  A tick of the   *)
(* clock is the period of an authenticator app's code, so that a code is   *)
(* the tick it is shown at, and both neighbours of now are accepted.       *)
(***************************************************************************)
EXTENDS Integers, FiniteSets, Sequences

CONSTANTS
    Users, Requests,
    Sessions,     \* bound: sign-ins that become sessions
    RecoveryCodes,
    MfaLife, SessionLife,  \* mfaTokenLife and sessionLife, in ticks
    MaxTime,      \* bound: ticks
    MaxPasswords, \* bound: passwords a user has in all
    MaxSwitches,  \* bound: times two-factor is turned on or off
    MaxRequests   \* bound: requests in all

ASSUME AccountsAssumption ==
    {MfaLife, SessionLife, MaxTime, MaxPasswords, MaxSwitches, MaxRequests} \subseteq Nat \ {0}

VARIABLES
    user,      \* the user rows
    session,   \* the session rows
    mfa,       \* the tokens handed out by the password step
    request,   \* what is between its checks and its writes
    time, begun,  \* the clock, and the requests so far
    won,       \* history: the codes that were accepted, under which settings, and how often before
    cut        \* history: users whose change was cut short by a stop of the Hub

accountVars == <<user, session, mfa, request, time, begun, won, cut>>

Ticks == 1 .. MaxTime
Gone == [password |-> 0]
Idle == [op |-> "idle"]
Unused == [state |-> "unused"]
Ended == [state |-> "ended"]

\* A user's row.  secret and last say how often two-factor was set up, and the
\* newest code that was used; switched counts how often it was turned on or off.
Row == [password : 1 .. MaxPasswords, totp : BOOLEAN, secret : 0 .. MaxSwitches,
        last : 0 .. MaxTime + 1, codes : SUBSET ((1 .. MaxSwitches) \X RecoveryCodes), setups : 0 .. MaxSwitches,
        switched : 0 .. MaxSwitches]
\* A session's row; under is the password its user had when it was recorded, or
\* when a change of password left it signed in.
SessionRow == [state : {"row"}, owner : Users, expires : Int, used : Ticks,
               under : 0 .. MaxPasswords]
AppCode == [kind : {"app"}, owner : Users, secret : 1 .. MaxSwitches, code : 0 .. MaxTime + 1]
RecoveryCode == [kind : {"recovery"}, owner : Users, code : (1 .. MaxSwitches) \X RecoveryCodes]

Exists(u) == user[u] # Gone
InUse(u) == {q \in Requests : request[q] # Idle /\ request[q].owner = u}

\* Every variable has its type.
AccountsTypeOK ==
    /\ \A u \in Users : user[u] \in Row \cup {Gone}
    /\ \A s \in Sessions : session[s] \in SessionRow \cup {Unused, Ended}
    /\ mfa \subseteq [owner : Users, until : Nat]
    /\ \A q \in Requests : request[q] = Idle \/ request[q].owner \in Users
    /\ time \in Ticks /\ begun \in 0 .. MaxRequests
    /\ won \subseteq [code : AppCode \cup RecoveryCode, settings : Nat, nth : Nat]
    /\ cut \subseteq Users

-----------------------------------------------------------------------------

\* Some have two-factor on from the start.
AccountsInit ==
    /\ user \in [Users -> {
          [password |-> 1, totp |-> FALSE, secret |-> 0, last |-> 0, codes |-> {}, setups |-> 0, switched |-> 0],
          [password |-> 1, totp |-> TRUE, secret |-> 1, last |-> 0, codes |-> {1} \X RecoveryCodes,
           setups |-> 1, switched |-> 1]}]
    /\ session = [s \in Sessions |-> Unused]
    /\ mfa = {}
    /\ request = [q \in Requests |-> Idle]
    /\ time = 1 /\ begun = 0
    /\ won = {}
    /\ cut = {}

\* A request comes, in a free slot.
Comes(q) == request[q] = Idle /\ begun < MaxRequests /\ begun' = begun + 1

Now(q, next) == request' = [request EXCEPT ![q] = next]
Write(u, row) == user' = [user EXCEPT ![u] = row]

\* The password was right.  With two-factor on it earns an mfa token, which
\* names nothing but the user; otherwise the sign-in goes on to its session.
Login(q, u) ==
    /\ Comes(q) /\ Exists(u)
    /\ IF user[u].totp
       THEN /\ mfa' = mfa \cup {[owner |-> u, until |-> time + MfaLife]}
            /\ UNCHANGED request
       ELSE /\ Now(q, [op |-> "issue", owner |-> u])
            /\ UNCHANGED mfa
    /\ UNCHANGED <<user, session, time, won, cut>>

\* The codes checkTOTP accepts: of this period or its neighbours, later than
\* the last one used.
Fresh(last) == {c \in time - 1 .. time + 1 : c > last}

\* A code was checked against the row just read, for signing in, for turning
\* two-factor off or for adding a passkey.
Check(q, u, purpose) ==
    /\ Comes(q) /\ Exists(u) /\ user[u].totp
    /\ \/ /\ user[u].secret # 0
          /\ \E c \in Fresh(user[u].last) :
               Now(q, [op |-> "spend", owner |-> u, purpose |-> purpose, seen |-> user[u].codes,
                       code |-> [kind |-> "app", owner |-> u, secret |-> user[u].secret, code |-> c]])
       \/ \E c \in user[u].codes :
             Now(q, [op |-> "spend", owner |-> u, purpose |-> purpose, seen |-> user[u].codes,
                     code |-> [kind |-> "recovery", owner |-> u, code |-> c]])
    /\ UNCHANGED <<user, session, mfa, time, won, cut>>

CompleteLogin(q, u) == (\E m \in mfa : m.owner = u /\ time <= m.until) /\ Check(q, u, "login")
Disable(q, u) == Check(q, u, "disable")
BeginPasskey(q, u) == Check(q, u, "passkey")

\* A mutant: a code that was right when it was checked is accepted.
StillFreshAlways(r) == Exists(r.owner)

\* The condition of the update that spends a code: no code as new has been
\* used, or the recovery codes are the ones that were read.
StillFresh(r) ==
    /\ Exists(r.owner)
    /\ IF r.code.kind = "app" THEN user[r.owner].last < r.code.code ELSE user[r.owner].codes = r.seen

\* The code is spent, unless it no longer can be; then what it was for goes on.
Spend(q) ==
    LET r == request[q]
        row == user[r.owner] IN
    /\ r.op = "spend"
    /\ IF StillFresh(r)
       THEN /\ Write(r.owner, IF r.code.kind = "app" THEN [row EXCEPT !.last = r.code.code]
                                                    ELSE [row EXCEPT !.codes = r.seen \ {r.code.code}])
            /\ won' = won \cup {[code |-> r.code, settings |-> row.setups + row.switched,
                                nth |-> Cardinality({w \in won : w.code = r.code}) + 1]}
            /\ Now(q, IF r.purpose = "login" THEN [op |-> "issue", owner |-> r.owner]
                      ELSE IF r.purpose = "disable" THEN [op |-> "reset", owner |-> r.owner] ELSE Idle)
       ELSE Now(q, Idle) /\ UNCHANGED <<begun, user, won>>
    /\ UNCHANGED <<begun, session, mfa, time, cut>>

\* The sign-in is recorded, and sessions that have run out are tidied up.
IssueSession(q) ==
    LET r == request[q] IN
    /\ r.op = "issue"
    /\ \E s \in Sessions :
         /\ session[s] = Unused
         /\ session' = [t \in Sessions |->
               IF t = s THEN [state |-> "row", owner |-> r.owner,
                              expires |-> time + SessionLife, used |-> time,
                              under |-> user[r.owner].password]
               ELSE IF session[t].state = "row" /\ session[t].expires < time THEN Ended ELSE session[t]]
    /\ Now(q, Idle)
    /\ UNCHANGED <<begun, user, mfa, time, won, cut>>

-----------------------------------------------------------------------------

\* Setting up an authenticator app: read that two-factor is off; then a new
\* secret, which nothing asks for yet.
BeginTwoFactor(q, u) ==
    /\ Comes(q) /\ Exists(u) /\ ~user[u].totp
    /\ Now(q, [op |-> "setup", owner |-> u])
    /\ UNCHANGED <<user, session, mfa, time, won, cut>>

NewSecret(q) ==
    LET r == request[q]
        row == user[r.owner] IN
    /\ r.op = "setup"
    /\ IF Exists(r.owner)
       THEN /\ row.setups < MaxSwitches
            /\ Write(r.owner, [row EXCEPT !.secret = row.setups + 1, !.setups = @ + 1, !.last = 0])
       ELSE UNCHANGED user
    /\ Now(q, Idle)
    /\ UNCHANGED <<begun, session, mfa, time, won, cut>>
\* Turning it on: a code of the secret that was read; then two-factor is on,
\* with new recovery codes.
EnableTwoFactor(q, u) ==
    /\ Comes(q) /\ Exists(u) /\ ~user[u].totp /\ user[u].secret # 0
    /\ \E c \in Fresh(0) : Now(q, [op |-> "enable", owner |-> u, code |-> c])
    /\ UNCHANGED <<user, session, mfa, time, won, cut>>

TurnOn(q) ==
    LET r == request[q]
        row == user[r.owner] IN
    /\ r.op = "enable"
    /\ IF Exists(r.owner)
       THEN /\ row.switched < MaxSwitches
            /\ Write(r.owner, [row EXCEPT !.totp = TRUE, !.last = r.code, !.switched = @ + 1,
                                          !.codes = {row.switched + 1} \X RecoveryCodes])
       ELSE UNCHANGED user
    /\ Now(q, Idle)
    /\ UNCHANGED <<begun, session, mfa, time, won, cut>>

Cleared(row) == [row EXCEPT !.totp = FALSE, !.secret = 0, !.last = 0, !.codes = {}, !.switched = @ + 1]

\* Two-factor is cleared, after the code that turning it off asks for ...
TurnOff(q) ==
    LET r == request[q] IN
    /\ r.op = "reset"
    /\ IF Exists(r.owner)
       THEN user[r.owner].switched < MaxSwitches /\ Write(r.owner, Cleared(user[r.owner]))
       ELSE UNCHANGED user
    /\ Now(q, Idle)
    /\ UNCHANGED <<begun, session, mfa, time, won, cut>>

\* ... or by an admin, for someone who lost their phone.
AdminReset(u) ==
    /\ Exists(u) /\ user[u].totp /\ user[u].switched < MaxSwitches
    /\ Write(u, Cleared(user[u]))
    /\ UNCHANGED <<begun, session, mfa, request, time, won, cut>>

-----------------------------------------------------------------------------

Signed(s) == session[s].state = "row"

\* A session serves its user's requests until it runs out.
Serves(s) == Signed(s) /\ time <= session[s].expires /\ Exists(session[s].owner)

\* A request with a session's token: its last use is to be noted.
Present(q, s) ==
    /\ Comes(q) /\ Signed(s) /\ time <= session[s].expires
    /\ session[s].used < time
    /\ Now(q, [op |-> "touch", owner |-> session[s].owner, of |-> s, row |-> session[s]])
    /\ UNCHANGED <<user, session, mfa, time, won, cut>>

\* The token is sent from another browser or system than signed in: the session
\* is ended.
PresentElsewhere(s) ==
    /\ Signed(s) /\ time <= session[s].expires
    /\ session' = [session EXCEPT ![s] = Ended]
    /\ UNCHANGED <<begun, user, mfa, request, time, won, cut>>

\* A mutant: the session that was read is saved again.
TouchedAgain(s, row) == [row EXCEPT !.used = time]

\* The update finds no row when the session has ended meanwhile.
Touched(s, row) == IF Signed(s) THEN [session[s] EXCEPT !.used = time] ELSE session[s]

Touch(q) ==
    LET r == request[q] IN
    /\ r.op = "touch"
    /\ session' = [session EXCEPT ![r.of] = Touched(r.of, r.row)]
    /\ Now(q, Idle)
    /\ UNCHANGED <<begun, user, mfa, time, won, cut>>

\* Sessions of a user, all or some but never another user's, are ended.
EndSessions(u, which) ==
    session' = [s \in Sessions |-> IF s \in which /\ Signed(s) /\ session[s].owner = u THEN Ended ELSE session[s]]

\* Signing out, here (Logout) or one device from the list.
RevokeSession(u, s) ==
    /\ Signed(s) /\ session[s].owner = u
    /\ EndSessions(u, {s})
    /\ UNCHANGED <<begun, user, mfa, request, time, won, cut>>

RevokeOtherSessions(u, s) ==
    /\ Serves(s) /\ session[s].owner = u
    /\ EndSessions(u, Sessions \ {s})
    /\ UNCHANGED <<begun, user, mfa, request, time, won, cut>>

\* A mutant: the sessions are ended before the password is replaced.
ChangeOrderSwapped == <<"sessions", "password">>

\* ChangePassword writes the new password, then ends the sessions.
ChangeOrder == <<"password", "sessions">>

\* One write of a change of password; an admin's own session may be kept, and
\* with it goes on.
ChangeWrite(u, write, keep) ==
    \/ /\ write = "password"
       /\ Write(u, IF Exists(u) THEN [user[u] EXCEPT !.password = @ + 1] ELSE Gone)
       /\ session' = [s \in Sessions |-> IF s \in keep /\ Signed(s)
                                         THEN [session[s] EXCEPT !.under = user[u].password + 1] ELSE session[s]]
    \/ /\ write = "sessions"
       /\ EndSessions(u, Sessions \ keep)
       /\ UNCHANGED user

\* A new password, first write and second.
ChangePassword(q, u) ==
    /\ Comes(q) /\ Exists(u) /\ user[u].password < MaxPasswords
    /\ \A p \in InUse(u) : request[p].op # "change"
    /\ \E keep \in {{}} \cup {{s} : s \in {t \in Sessions : Signed(t) /\ session[t].owner = u}} :
          /\ ChangeWrite(u, ChangeOrder[1], keep)
          /\ Now(q, [op |-> "change", owner |-> u, keep |-> keep])
    /\ UNCHANGED <<mfa, time, won, cut>>

ChangePasswordEnds(q) ==
    LET r == request[q] IN
    /\ r.op = "change"
    /\ ChangeWrite(r.owner, ChangeOrder[2], r.keep)
    /\ Now(q, Idle)
    /\ UNCHANGED <<begun, mfa, time, won, cut>>

\* The row of a deleted user goes first, passkeys and sessions after it.
DeleteUser(q, u) ==
    /\ Comes(q) /\ Exists(u)
    /\ Write(u, Gone)
    /\ Now(q, [op |-> "delete", owner |-> u])
    /\ UNCHANGED <<session, mfa, time, won, cut>>

DeleteUserEnds(q) ==
    LET r == request[q] IN
    /\ r.op = "delete"
    /\ EndSessions(r.owner, Sessions)
    /\ Now(q, Idle)
    /\ UNCHANGED <<begun, user, mfa, time, won, cut>>

-----------------------------------------------------------------------------

\* A stop of the Hub leaves undone what the requests in flight had yet to write.
\* The mfa tokens are signed, not stored, and outlive it.
AccountsStop ==
    /\ \E q \in Requests : request[q] # Idle
    /\ request' = [q \in Requests |-> Idle]
    /\ cut' = cut \cup {request[q].owner : q \in {p \in Requests : request[p].op \in {"change", "delete"}}}
    /\ UNCHANGED <<begun, user, session, mfa, time, won>>

AccountsTick ==
    /\ time < MaxTime
    /\ time' = time + 1
    /\ mfa' = {m \in mfa : m.until > time}
    /\ UNCHANGED <<begun, user, session, request, won, cut>>

AccountsNext ==
    \/ \E q \in Requests :
         \/ \E u \in Users : \/ BeginTwoFactor(q, u)
                             \/ EnableTwoFactor(q, u)
                             \/ ChangePassword(q, u)
                             \/ DeleteUser(q, u)
                             \/ Login(q, u)
                             \/ CompleteLogin(q, u)
                             \/ Disable(q, u)
                             \/ BeginPasskey(q, u)
         \/ \E s \in Sessions : Present(q, s) \/ PresentElsewhere(s)
         \/ Spend(q)
         \/ IssueSession(q)
         \/ NewSecret(q)
         \/ TurnOn(q)
         \/ TurnOff(q)
         \/ Touch(q)
         \/ ChangePasswordEnds(q)
         \/ DeleteUserEnds(q)
    \/ \E u \in Users : \/ AdminReset(u)
                        \/ \E s \in Sessions : RevokeSession(u, s) \/ RevokeOtherSessions(u, s)
    \/ AccountsStop
    \/ AccountsTick

AccountsSpec == AccountsInit /\ [][AccountsNext]_accountVars

-----------------------------------------------------------------------------

\* A code, of the app or a recovery code, is accepted once: of two requests
\* that found it right at the same time one is refused.  It may be accepted
\* again only when two-factor was set up anew, or turned on or off, in between.
EveryCodeOnce == \A v, w \in won : (v.code = w.code /\ v.settings = w.settings) => v = w

\* What the comment in checkSecondFactor says: only one of two simultaneous
\* uses of the same code can win.
OneOfTwoUses == \A w \in won : w.nth = 1

\* A session that has ended (signed out, taken to another device, run out)
\* stays ended, whatever requests still in flight had read of it.
EndedStaysEnded == [][\A s \in Sessions : session[s] = Ended => session'[s] = Ended]_accountVars

\* A new password signs a user out everywhere but where it was changed, and a
\* deleted user everywhere: a session that was there before is gone as soon as
\* the change is complete, also when a sign-in with the old password is
\* recorded between its two writes.  (A sign-in that passed its checks before
\* the change and is recorded after it stays.)
OldSignInsEnd ==
    \A s \in Sessions : LET u == session[s].owner IN
        (Signed(s) /\ session[s].under # user[u].password) =>
            u \in cut \/ \E q \in InUse(u) : request[q].op \in {"change", "delete"}
=============================================================================
