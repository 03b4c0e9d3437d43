----------------------------- MODULE OwnerSessions -----------------------------
(***************************************************************************)
(* The owner's account and sessions: catalog/ownerAuthentication.js over   *)
(* the owner, session, MFA and CSRF repositories of PostgreSQL, and the    *)
(* authentication routes of catalog/server.js.                             *)
(*                                                                         *)
(* A request is a process; requests interleave at every await, and any of  *)
(* them may fail there.  A session goes by the request that created it.    *)
(* Passwords, codes and tokens are right or wrong; a code goes by its TOTP *)
(* step.  Expiry is an event: the two clocks of a session are one set.     *)
(***************************************************************************)
EXTENDS Naturals

CONSTANTS
  Requests, NoSession,
  EarlierLogin,    \* a request that is over at the start, where one is
  Enrollments, NoEnrollment,
  MaxStep,         \* bound: TOTP steps there are
  LockoutFailures  \* failures in a row that lock the account (5)

ASSUME OwnerSessionsAssumption ==
  /\ NoSession \notin Requests /\ NoEnrollment \notin Enrollments
  /\ EarlierLogin \in Requests
  /\ MaxStep \in Nat \ {0} /\ LockoutFailures \in Nat \ {0}

VARIABLES
  owner,       \* the owners row: [mfa, attempts, lock, epoch]
  sessions,    \* owner_sessions: [request -> [state, level, csrf]]
  lapsed,      \* sessions past one of their expiry times
  enrollments, \* owner_totp_enrollments: [enrollment -> [state, last]]
  codes,       \* owner_recovery_codes: how many are unused
  req          \* [request -> what it is, where it is, what it has read]

sessionsVars == <<owner, sessions, lapsed, enrollments, codes, req>>

Steps == 1..MaxStep
Levels == {"password_only", "high_assurance"}
Operations == {"login", "password", "read", "logout", "enroll", "confirm", "elevate", "other"}
Row(mfa, attempts, lock, epoch) ==
  [mfa |-> mfa, attempts |-> attempts, lock |-> lock, epoch |-> epoch]
NoSessionRow == [state |-> "absent", level |-> "password_only", csrf |-> FALSE]
Unbegun == [at |-> "idle", op |-> "read", session |-> NoSession, row |-> Row(FALSE, 0, "none", 1),
            enrollment |-> NoEnrollment, step |-> 0, dead |-> {}, seen |-> {}]

\* One owner has registered (createInitial takes an advisory lock and counts);
\* or, later, is logged in with MFA confirmed at the first step.
SessionsInit ==
  /\ lapsed = {}
  /\ \/ /\ owner = Row(FALSE, 0, "none", 1) /\ codes = 0
        /\ sessions = [s \in Requests |-> NoSessionRow]
        /\ enrollments = [e \in Enrollments |-> [state |-> "absent", last |-> 0]]
        /\ req = [q \in Requests |-> Unbegun]
     \/ /\ owner = Row(TRUE, 0, "none", 1) /\ codes = 1
        /\ sessions = [s \in Requests |-> IF s = EarlierLogin
                         THEN [state |-> "live", level |-> "high_assurance", csrf |-> TRUE]
                         ELSE NoSessionRow]
        /\ \E c \in Enrollments : enrollments = [e \in Enrollments |-> IF e = c
                         THEN [state |-> "confirmed", last |-> 1]
                         ELSE [state |-> "absent", last |-> 0]]
        /\ req = [q \in Requests |-> IF q = EarlierLogin
                         THEN [Unbegun EXCEPT !.op = "login", !.at = "done"] ELSE Unbegun]

ReqAt(q, p) == req[q].at = p
Advance(q, p) == req' = [req EXCEPT ![q].at = p]
Live(s) == sessions[s].state = "live"
Existing == {s \in Requests : sessions[s].state # "absent"}

-----------------------------------------------------------------------------
(* loginOwner and changePassword up to the new session.                    *)

\* findByEmail, findById: the row, as it is now, is kept in memory.
ReadOwner(q) ==
  /\ ReqAt(q, "idle")
  /\ \E op \in {"login", "password"} :
       /\ op = "login" => owner.lock # "locked"
       /\ req' = [req EXCEPT ![q] = [Unbegun EXCEPT !.op = op, !.row = owner, !.at =
            IF op = "login" /\ owner.lock = "over" THEN "unlock" ELSE "verify"]]
  /\ UNCHANGED <<owner, sessions, lapsed, enrollments, codes>>

\* ownersRepo.update writes every column back as it was read.
ClearLockout(q) ==
  /\ ReqAt(q, "unlock")
  /\ owner' = [req[q].row EXCEPT !.lock = "none"]
  /\ Advance(q, "verify")
  /\ UNCHANGED <<sessions, lapsed, enrollments, codes>>

\* recordLoginFailure counts in the row itself.
LoginFails(q) ==
  /\ ReqAt(q, "verify") /\ req[q].op = "login"
  /\ owner.attempts <= LockoutFailures      \* bound
  /\ owner' = [owner EXCEPT !.attempts = @ + 1,
                            !.lock = IF owner.attempts + 1 >= LockoutFailures THEN "locked" ELSE @]
  /\ Advance(q, "done")
  /\ UNCHANGED <<sessions, lapsed, enrollments, codes>>

\* recordLoginSuccess.
LoginSucceeds(q) ==
  /\ ReqAt(q, "verify") /\ req[q].op = "login"
  /\ owner' = [owner EXCEPT !.attempts = 0, !.lock = "none"]
  /\ Advance(q, "rotate")
  /\ UNCHANGED <<sessions, lapsed, enrollments, codes>>

NewEpoch(row) == IF row.epoch = 1 THEN 2 ELSE row.epoch  \* bound: all epochs past the first

SavePassword(q) ==
  /\ ReqAt(q, "verify") /\ req[q].op = "password"
  /\ owner' = [req[q].row EXCEPT !.epoch = NewEpoch(req[q].row)]
  /\ Advance(q, "rotate")
  /\ UNCHANGED <<sessions, lapsed, enrollments, codes>>

LockoutEnds ==
  /\ owner.lock = "locked" /\ owner' = [owner EXCEPT !.lock = "over"]
  /\ UNCHANGED <<sessions, lapsed, enrollments, codes, req>>

-----------------------------------------------------------------------------
(* createSessionToken: revokeAllForOwner, then the new row.                *)

\* A mutant of Rotated: only this request's own session is revoked.
RotatedOwn(s, q) == sessions[s].state = "live" /\ s = req[q].session
Rotated(s, q) == sessions[s].state = "live"

RotateSessions(q) ==
  /\ ReqAt(q, "rotate")
  /\ sessions' = [s \in Requests |->
       IF Rotated(s, q) THEN [sessions[s] EXCEPT !.state = "revoked"] ELSE sessions[s]]
  /\ req' = [req EXCEPT ![q].at = "create", ![q].seen = Existing]
  /\ UNCHANGED <<owner, lapsed, enrollments, codes>>

\* The level goes by the row that was read, the version is always 1.
LevelFor(q) ==
  CASE req[q].op = "elevate" -> "high_assurance"
    [] req[q].op = "login" -> IF req[q].row.mfa THEN "password_only" ELSE "high_assurance"
    [] OTHER -> IF req[q].row.mfa THEN "high_assurance" ELSE "password_only"

CreateSession(q) ==
  /\ ReqAt(q, "create")
  /\ sessions' = [sessions EXCEPT ![q] = [state |-> "live", level |-> LevelFor(q), csrf |-> FALSE]]
  /\ Advance(q, IF req[q].op = "login" THEN "csrf" ELSE "done")
  /\ UNCHANGED <<owner, lapsed, enrollments, codes>>

\* generateCsrfToken: only the login route issues one.
IssueCsrf(q) ==
  /\ ReqAt(q, "csrf")
  /\ sessions' = [sessions EXCEPT ![q].csrf = TRUE]
  /\ Advance(q, "done")
  /\ UNCHANGED <<owner, lapsed, enrollments, codes>>

SessionLapses(s) ==
  /\ Live(s) /\ s \notin lapsed /\ lapsed' = lapsed \cup {s}
  /\ UNCHANGED <<owner, sessions, enrollments, codes, req>>

-----------------------------------------------------------------------------
(* validateAndRetrieveSession, then what the request is for.               *)

\* Sessions that are over when a request begins.
Over == {s \in Existing : ~Live(s)}

\* A mutant of Found: a revoked row is returned like any other.
FoundAny(s) == sessions[s].state # "absent"
Found(s) == sessions[s].state = "live"   \* findByTokenHash

\* A cookie's request that changes something needs a CSRF token; any token it
\* was told about may be sent as a bearer token instead.
FindSession(q) ==
  /\ ReqAt(q, "idle")
  /\ \E s \in Existing, op \in Operations \ {"login", "password"} :
       /\ Found(s)
       /\ req' = [req EXCEPT ![q] = [Unbegun EXCEPT !.op = op, !.session = s, !.at = "found",
                                                   !.dead = Over]]
  /\ UNCHANGED <<owner, sessions, lapsed, enrollments, codes>>

Cookie(s) == req[s].op = "elevate"       \* its token is only ever set as a cookie
Mutates(op) == op # "read"

\* The epoch of the owner's row and the expiry times; updateLastSeen.
AcceptSession(q) ==
  /\ ReqAt(q, "found")
  /\ owner.epoch <= 1 /\ req[q].session \notin lapsed
  /\ Mutates(req[q].op) /\ Cookie(req[q].session) => sessions[req[q].session].csrf
  /\ Advance(q, "accepted")
  /\ UNCHANGED <<owner, sessions, lapsed, enrollments, codes>>

\* logout; DELETE /sessions/:id revokes any of the owner's sessions.
RevokeSession(q) ==
  /\ ReqAt(q, "accepted") /\ req[q].op \in {"logout", "other"}
  /\ \E s \in Existing :
       /\ req[q].op = "logout" => s = req[q].session
       /\ sessions' = [sessions EXCEPT ![s].state = "revoked"]
  /\ Advance(q, "done")
  /\ UNCHANGED <<owner, lapsed, enrollments, codes>>

Enroll(q) ==
  /\ ReqAt(q, "accepted") /\ req[q].op = "enroll"
  /\ \E e \in Enrollments :
       /\ enrollments[e].state = "absent"
       /\ enrollments' = [enrollments EXCEPT ![e] = [state |-> "pending", last |-> 0]]
  /\ Advance(q, "done")
  /\ UNCHANGED <<owner, sessions, lapsed, codes>>

\* findTotpEnrollment for a confirmation, any confirmed one for an elevation;
\* verifyTotpCode refuses a step that the row read has behind it.
VerifyCode(q) ==
  /\ ReqAt(q, "accepted") /\ req[q].op \in {"confirm", "elevate"}
  /\ \E e \in Enrollments, k \in Steps :
       /\ IF req[q].op = "elevate" THEN enrollments[e].state = "confirmed"
                                   ELSE enrollments[e].state # "absent"
       /\ k > enrollments[e].last
       /\ req' = [req EXCEPT ![q].at = "coded", ![q].enrollment = e, ![q].step = k]
  /\ UNCHANGED <<owner, sessions, lapsed, enrollments, codes>>

\* confirmTotpEnrollment, one transaction.
ConfirmEnrollment(q) ==
  /\ ReqAt(q, "coded") /\ req[q].op = "confirm"
  /\ enrollments[req[q].enrollment].state = "pending"
  /\ enrollments' = [enrollments EXCEPT ![req[q].enrollment] =
                       [state |-> "confirmed", last |-> req[q].step]]
  /\ owner' = [owner EXCEPT !.mfa = TRUE]
  /\ Advance(q, "confirmed")
  /\ UNCHANGED <<sessions, lapsed, codes>>

\* saveRecoveryCodes: a second transaction, eight of them, here one.
SaveRecoveryCodes(q) ==
  /\ ReqAt(q, "confirmed") /\ codes' = codes + 1
  /\ Advance(q, "done")
  /\ UNCHANGED <<owner, sessions, lapsed, enrollments>>

\* verifyAndUseRecoveryCode: UPDATE ... WHERE is_used = false.
UseRecoveryCode ==
  /\ codes > 0 /\ codes' = codes - 1
  /\ UNCHANGED <<owner, sessions, lapsed, enrollments, req>>

\* A mutant of Consumable: the check of the row that was read is enough.
ConsumableAsRead(e, k) == e \in Enrollments /\ k \in Steps
Consumable(e, k) == enrollments[e].last < k

\* consumeTotpStep, then the session that asked is revoked.
ConsumeStep(q) ==
  /\ ReqAt(q, "coded") /\ req[q].op = "elevate"
  /\ Consumable(req[q].enrollment, req[q].step)
  /\ enrollments' = [enrollments EXCEPT ![req[q].enrollment].last = req[q].step]
  /\ Advance(q, "consumed")
  /\ UNCHANGED <<owner, sessions, lapsed, codes>>

RevokeElevated(q) ==
  /\ ReqAt(q, "consumed")
  /\ sessions' = [sessions EXCEPT ![req[q].session].state = "revoked"]
  /\ Advance(q, "rotate")
  /\ UNCHANGED <<owner, lapsed, enrollments, codes>>

\* A refusal, a store that is down, an audit event that cannot be written.
RequestEnds(q) ==
  /\ req[q].at \notin {"idle", "done"}
  /\ Advance(q, "done")
  /\ UNCHANGED <<owner, sessions, lapsed, enrollments, codes>>

SessionStep(q) ==
  \/ ReadOwner(q) \/ ClearLockout(q) \/ LoginFails(q) \/ LoginSucceeds(q) \/ SavePassword(q)
  \/ RotateSessions(q) \/ CreateSession(q) \/ IssueCsrf(q)
  \/ FindSession(q) \/ AcceptSession(q) \/ RevokeSession(q) \/ Enroll(q)
  \/ VerifyCode(q) \/ ConfirmEnrollment(q) \/ SaveRecoveryCodes(q)
  \/ ConsumeStep(q) \/ RevokeElevated(q) \/ RequestEnds(q)

SessionsNext ==
  \/ \E q \in Requests : SessionStep(q) \/ SessionLapses(q)
  \/ LockoutEnds \/ UseRecoveryCode

SessionsSpec == SessionsInit /\ [][SessionsNext]_sessionsVars

-----------------------------------------------------------------------------
(* Properties                                                              *)

SessionsTypeOK ==
  /\ owner \in [mfa : BOOLEAN, attempts : 0..(LockoutFailures + 1),
                lock : {"none", "locked", "over"}, epoch : 1..2]
  /\ sessions \in [Requests -> [state : {"absent", "live", "revoked"}, level : Levels,
                                csrf : BOOLEAN]]
  /\ lapsed \subseteq Requests
  /\ enrollments \in [Enrollments -> [state : {"absent", "pending", "confirmed"},
                                      last : 0..MaxStep]]
  /\ codes \in Nat
  /\ \A q \in Requests :
       /\ req[q].op \in Operations /\ req[q].session \in Requests \cup {NoSession}
       /\ req[q].enrollment \in Enrollments \cup {NoEnrollment} /\ req[q].step \in 0..MaxStep
       /\ req[q].dead \subseteq Requests /\ req[q].seen \subseteq Requests

\* A session that was revoked when a request began - by a logout, an elevation,
\* another session or a rotation - is not accepted by it; and of two sessions
\* that are live together neither existed when the other's creation revoked the
\* rest, so only logins and elevations that overlap leave two.  Nothing is
\* claimed of the epoch: the unlock of a login that read the row earlier writes
\* an older epoch, and password, back (ClearLockout).
SessionsEndForGood ==
  /\ \A q \in Requests :
       req[q].at \in {"accepted", "coded", "consumed"} => req[q].session \notin req[q].dead
  /\ \A s, t \in Requests : Live(s) /\ Live(t) /\ s # t => s \notin req[t].seen

Spent(q) ==
  \/ req[q].op = "confirm" /\ ReqAt(q, "confirmed")
  \/ req[q].op = "elevate" /\ (req[q].at \in {"consumed", "rotate", "create"} \/ q \in Existing)

\* A TOTP step of an enrollment is good once: two requests that verified the
\* same code against the same row do not both go on (consumeTotpStep,
\* confirmTotpEnrollment).
TotpStepSpentOnce ==
  \A q, r \in Requests :
    Spent(q) /\ Spent(r) /\ q # r /\ req[q].enrollment = req[r].enrollment =>
      req[q].step # req[r].step
===============================================================================
