------------------------------ MODULE MCSignIn ------------------------------
(* Coming in: accounts, the command line's logins, passkeys and the machines  *)
(* that enroll keep separate rows and memory, and each behaviour is one of    *)
(* theirs.                                                                    *)
EXTENDS Accounts, CliLogins, Passkeys, Enrollment

CONSTANTS u1, q1, q2, s1, s2, r1, p1, c1, c2, y1, y2, o1, o2, k1, e1, e2, e3, f1, f2, x1, x2, h1, h2

OneUser == {u1}
TwoRequests == {q1, q2}
TwoSessions == {s1, s2}
OneRecoveryCode == {r1}
OnePerson == {p1}
TwoClis == {c1, c2}
TwoAnswers == {y1, y2}
TwoOwners == {o1, o2}
OneKey == {k1}
ThreeCeremonies == {e1, e2, e3}
TwoFinishers == {f1, f2}
TwoMachines == {x1, x2}
TwoTokens == {h1, h2}

VARIABLE part

SignInInit ==
    /\ part \in {"accounts", "command line", "passkeys", "machines"}
    /\ AccountsInit /\ CliInit /\ PasskeyInit /\ EnrollInit
    /\ part # "accounts" => \A u \in Users : user[u].totp
    /\ part # "command line" => \A p \in People : role[p] = "admin"

SignInNext ==
    \/ part = "accounts" /\ AccountsNext /\ UNCHANGED <<cliVars, passkeyVars, enrollVars, part>>
    \/ part = "command line" /\ CliNext /\ UNCHANGED <<accountVars, passkeyVars, enrollVars, part>>
    \/ part = "passkeys" /\ PasskeyNext /\ UNCHANGED <<accountVars, cliVars, enrollVars, part>>
    \/ part = "machines" /\ EnrollNext /\ UNCHANGED <<accountVars, cliVars, passkeyVars, part>>

signInVars == <<accountVars, cliVars, passkeyVars, enrollVars, part>>

SignInSpec == SignInInit /\ [][SignInNext]_signInVars

\* Every variable of accounts, command line logins, passkeys and enrollment has its type.
SignInTypeOK == AccountsTypeOK /\ CliTypeOK /\ PasskeyTypeOK /\ EnrollTypeOK
=============================================================================
