---------------------------- MODULE AuthSessions ----------------------------
(***************************************************************************)
(* Sign-in, sessions and the second factor (panel/internal/api/session.go, *)
(* panel/internal/auth).                                                   *)
(*                                                                         *)
(* Every handler is a few statements without a transaction; each is atomic *)
(* in the database and other requests' statements may come between.        *)
(* Checking a password or a code is part of the statement that read the    *)
(* row.  The middleware's look at the session is taken together with the   *)
(* handler's first statement, which reads another table.                   *)
(*                                                                         *)
(* There is one account.  Passwords, secrets and sets of recovery codes    *)
(* are versions; of a set of recovery codes one code is in use.            *)
(*                                                                         *)
(* Statements run on the request's context: when the client goes away, the *)
(* database fails or the panel dies, what is left of a request has no      *)
(* effect (CutOff), whether or not the handler looks at the error.         *)
(***************************************************************************)
EXTENDS Integers, FiniteSets

CONSTANTS
  MaxRequests, \* bound: requests
  MaxFailures  \* failed logins before the account is locked, 10 in the code

ASSUME AuthAssumption == MaxRequests \in Nat /\ MaxFailures \in Nat \ {0}

VARIABLES
  user,     \* the row of users
  sessions, \* the rows of sessions, with the password that opened each and
            \* whether a change of the password could not reach it
  req,      \* the requests
  wrong,    \* history: wrong credentials seen since the last success or unlock,
            \* without those of requests cut off before they were counted
  redeemed, \* history: logins each recovery code has let in
  checked   \* history: the secret the last enabling checked a code against, and
            \* whether another request changed the secret before it was enabled

authVars == <<user, sessions, req, wrong, redeemed, checked>>

Request == 1..MaxRequests
Num == 0..(MaxRequests + 1)
Over == [step |-> "done", pw |-> 0, code |-> 0, sid |-> 0, overlaps |-> FALSE]
NewRequest == [Over EXCEPT !.step = "new"]

AuthTypeOK ==
  /\ user \in [password : Num, failed : Nat, locked : BOOLEAN,
               secret : Num, enabled : BOOLEAN, codes : SUBSET Num]
  /\ sessions \subseteq [id : Num, pw : Num, spared : BOOLEAN]
  /\ req \in [Request -> [step : {"new", "fail", "code", "insert", "reset", "update", "delete",
                                  "enable", "disable", "done"},
                          pw : Num, code : Num, sid : Num, overlaps : BOOLEAN]]
  /\ wrong \in Nat
  /\ redeemed \in [Num -> Nat]
  /\ checked \in [secret : Num, raced : BOOLEAN]

\* The owner is signed in, with or without a second factor (the code that goes
\* with secret n is n as well, and so is the recovery code made with it).
AuthInit ==
  /\ \E on \in BOOLEAN :
       user = [password |-> 1, failed |-> 0, locked |-> FALSE, secret |-> IF on THEN 1 ELSE 0,
               enabled |-> on, codes |-> IF on THEN {1} ELSE {}]
  /\ sessions = {[id |-> 0, pw |-> 1, spared |-> FALSE]}
  /\ req = [i \in Request |-> NewRequest]
  /\ wrong = 0
  /\ redeemed = [n \in Num |-> 0]
  /\ checked = [secret |-> 1, raced |-> FALSE]
-----------------------------------------------------------------------------
\* Requests are numbered in the order they come.
Comes(i) == req[i].step = "new" /\ \A j \in 1..(i - 1) : req[j].step # "new"
Step(i, from, to) ==
  /\ req[i].step = from
  /\ req' = [req EXCEPT ![i] = IF to = "done" THEN Over ELSE [@ EXCEPT !.step = to]]

\* handleLogin up to its first write: the row is read, lock, password and code
\* are checked.
Login(i, pw, totp, code) ==
  LET bad == ~user.locked /\ pw # user.password
      to == IF user.locked THEN "done"
            ELSE IF bad THEN "fail"
            ELSE IF ~user.enabled THEN "insert"
            ELSE IF user.secret = 0 \/ (~totp /\ code = 0) THEN "done"
            ELSE IF totp THEN "insert" ELSE "code"
  IN /\ Comes(i)
     /\ req' = [req EXCEPT ![i] = IF to = "done" THEN Over
                                  ELSE [@ EXCEPT !.step = to, !.pw = pw, !.code = IF to = "code" THEN code ELSE 0]]
     /\ wrong' = IF bad THEN wrong + 1 ELSE wrong
     /\ UNCHANGED <<user, sessions, redeemed, checked>>

\* Mutant: the code is looked up in the row and then removed.
ConsumeLookedUp(i) ==
  /\ Step(i, "code", "insert")
  /\ user' = [user EXCEPT !.codes = @ \ {req[i].code}]
  /\ redeemed' = [redeemed EXCEPT ![req[i].code] = @ + 1]
  /\ UNCHANGED <<sessions, wrong, checked>>

\* consumeRecoveryCode: one conditional update.
Consume(i) ==
  LET found == req[i].code \in user.codes
  IN /\ Step(i, "code", IF found THEN "insert" ELSE "fail")
     /\ user' = [user EXCEPT !.codes = @ \ {req[i].code}]
     /\ redeemed' = IF found THEN [redeemed EXCEPT ![req[i].code] = @ + 1] ELSE redeemed
     /\ wrong' = IF found THEN wrong ELSE wrong + 1
     /\ UNCHANGED <<sessions, checked>>

\* Mutant: one attempt too many.
RegisterLate(i) ==
  /\ Step(i, "fail", "done")
  /\ user' = [user EXCEPT !.failed = @ + 1, !.locked = @ \/ user.failed + 1 > MaxFailures]
  /\ UNCHANGED <<sessions, wrong, redeemed, checked>>

\* registerFailedLogin: counts and locks in one update.
RegisterFailedLogin(i) ==
  /\ Step(i, "fail", "done")
  /\ user' = [user EXCEPT !.failed = @ + 1, !.locked = @ \/ user.failed + 1 >= MaxFailures]
  /\ UNCHANGED <<sessions, wrong, redeemed, checked>>

InsertSession(i) ==
  /\ Step(i, "insert", "reset")
  /\ sessions' = sessions \cup {[id |-> i, pw |-> req[i].pw, spared |-> req[i].overlaps]}
  /\ UNCHANGED <<user, wrong, redeemed, checked>>

ResetFailures(i) ==
  /\ Step(i, "reset", "done")
  /\ user' = [user EXCEPT !.failed = 0, !.locked = FALSE]
  /\ wrong' = Cardinality({j \in Request : req[j].step = "fail"})
  /\ UNCHANGED <<sessions, redeemed, checked>>

\* locked_until passes.
LockEnds ==
  /\ user.locked
  /\ user' = [user EXCEPT !.locked = FALSE]
  /\ wrong' = Cardinality({j \in Request : req[j].step = "fail"})
  /\ UNCHANGED <<sessions, req, redeemed, checked>>
-----------------------------------------------------------------------------
\* A request with a session: its first statement, after which it is at `to'.
Authenticated(i, sid, to) ==
  /\ Comes(i)
  /\ \E s \in sessions : s.id = sid
  /\ req' = [req EXCEPT ![i] = IF to = "done" THEN Over
                                ELSE [@ EXCEPT !.step = to, !.sid = sid, !.code = user.secret]]

\* handleLogout and handleRevokeSession.
DropSession(i, sid, of) ==
  /\ Authenticated(i, sid, "done")
  /\ sessions' = {s \in sessions : s.id # of}
  /\ UNCHANGED <<user, wrong, redeemed, checked>>

\* handleChangePassword: the current password is checked ...
ChangePassword(i, sid) ==
  /\ Authenticated(i, sid, "update")
  /\ UNCHANGED <<user, sessions, wrong, redeemed, checked>>

\* ... the new one written; logins that have checked the old one go on ...
UpdatePassword(i) ==
  /\ req[i].step = "update"
  /\ user' = [user EXCEPT !.password = @ + 1]
  /\ req' = [j \in Request |->
               IF j = i THEN [req[j] EXCEPT !.step = "delete", !.pw = user.password + 1]
               ELSE [req[j] EXCEPT !.overlaps = @ \/ req[j].step \in {"code", "insert"}]]
  /\ UNCHANGED <<sessions, wrong, redeemed, checked>>

\* Mutant: the condition on the id is the wrong way round.
DeleteOwnSession(i) ==
  /\ Step(i, "delete", "done")
  /\ sessions' = {s \in sessions : s.id # req[i].sid}
  /\ UNCHANGED <<user, wrong, redeemed, checked>>

\* ... and the other sessions deleted; the one that is kept showed the old
\* password and set the new one.
DeleteOtherSessions(i) ==
  /\ Step(i, "delete", "done")
  /\ sessions' = {[s EXCEPT !.pw = IF @ > req[i].pw THEN @ ELSE req[i].pw] :
                  s \in {t \in sessions : t.id = req[i].sid}}
  /\ UNCHANGED <<user, wrong, redeemed, checked>>

\* The secret changes under the requests that have checked a code against it.
SecretChanges(i, secret, codes) ==
  /\ user' = [user EXCEPT !.enabled = FALSE, !.secret = secret, !.codes = codes]
  /\ req' = [j \in Request |->
               IF j = i THEN Over
               ELSE [req[j] EXCEPT !.overlaps = @ \/ req[j].step = "enable"]]
  /\ UNCHANGED <<sessions, wrong, redeemed, checked>>

\* handleTOTPSetup: a new secret, not in force yet.
SetupTOTP(i, sid) ==
  /\ Comes(i) /\ \E s \in sessions : s.id = sid
  /\ SecretChanges(i, i + 1, user.codes)

\* handleTOTPEnable: the code is checked against the secret in the row ...
CheckTOTP(i, sid) ==
  /\ user.secret # 0
  /\ Authenticated(i, sid, "enable")
  /\ UNCHANGED <<user, sessions, wrong, redeemed, checked>>

\* ... and the factor put in force, whatever the secret is by now, with new
\* recovery codes.
EnableTOTP(i) ==
  /\ Step(i, "enable", "done")
  /\ user' = [user EXCEPT !.enabled = TRUE, !.codes = {i + 1}]
  /\ checked' = [secret |-> req[i].code, raced |-> req[i].overlaps]
  /\ UNCHANGED <<sessions, wrong, redeemed>>

\* handleTOTPDisable: the password is checked, and the factor removed.
ConfirmPassword(i, sid) ==
  /\ Authenticated(i, sid, "disable")
  /\ UNCHANGED <<user, sessions, wrong, redeemed, checked>>

DisableTOTP(i) == req[i].step = "disable" /\ SecretChanges(i, 0, {})

\* A request is cut off.  registerFailedLogin does not count its guess, and
\* handleChangePassword, which has written the password, answers "updated"
\* although the other sessions are still there.
CutOff(i) ==
  /\ req[i].step \notin {"new", "done"}
  /\ req' = [req EXCEPT ![i] = Over]
  /\ sessions' = IF req[i].step = "delete" THEN {[s EXCEPT !.spared = TRUE] : s \in sessions}
                 ELSE sessions
  /\ wrong' = IF req[i].step = "fail" THEN wrong - 1 ELSE wrong
  /\ UNCHANGED <<user, redeemed, checked>>

\* Sessions expire, and are deleted a day later by the retention job.
ExpireSession(s) ==
  /\ sessions' = sessions \ {s}
  /\ UNCHANGED <<user, req, wrong, redeemed, checked>>

AuthNext ==
  \/ \E i \in Request, pw \in 0..user.password, totp \in BOOLEAN, code \in 0..2 : Login(i, pw, totp, code)
  \/ \E i \in Request :
       \/ Consume(i) \/ RegisterFailedLogin(i) \/ InsertSession(i) \/ ResetFailures(i)
       \/ UpdatePassword(i) \/ DeleteOtherSessions(i) \/ EnableTOTP(i) \/ DisableTOTP(i)
       \/ CutOff(i)
  \/ \E i \in Request, s \in sessions :
       \/ ChangePassword(i, s.id) \/ SetupTOTP(i, s.id) \/ CheckTOTP(i, s.id)
       \/ ConfirmPassword(i, s.id)
       \/ \E t \in sessions : DropSession(i, s.id, t.id)
  \/ \E s \in sessions : ExpireSession(s)
  \/ LockEnds

AuthSpec == AuthInit /\ [][AuthNext]_authVars
-----------------------------------------------------------------------------
\* Properties.

\* "Every other session is invalidated after a password change": when no change
\* is in progress, every session belongs to someone who has shown the current
\* password, except those a change could not reach: of logins that checked the
\* old one before the change and were inserted after it, and those that were
\* there when a change was cut off before its DELETE.  The next change that runs
\* to its end reaches them all.
OldPasswordOut ==
  (\A i \in Request : req[i].step # "delete") =>
    \A s \in sessions : s.pw = user.password \/ s.spared

\* The second factor: a recovery code lets in one login, however many present it
\* at once, and the factor is in force only with a secret its owner has shown a
\* code for, unless another setup or a removal came between check and update.
SecondFactorSound ==
  /\ \A n \in Num : redeemed[n] <= 1
  /\ user.enabled /\ ~checked.raced => user.secret = checked.secret

\* Concurrent wrong guesses are all counted, unless their request is cut off:
\* without a success or the end of a lock, no more than MaxFailures are made before
\* the account is locked, but for those under way.
GuessesBounded ==
  ~user.locked => wrong - Cardinality({i \in Request : req[i].step = "fail"}) < MaxFailures
=============================================================================
