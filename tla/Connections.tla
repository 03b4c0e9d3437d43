----------------------------- MODULE Connections -----------------------------
(***************************************************************************)
(* The platform account of one Director: catalog/youtubeOAuthService.js    *)
(* and catalog/socialOAuthService.js, the same protocol for YouTube and    *)
(* for the other platforms, over the state and account rows of their       *)
(* repositories, a secret manager and the platform's OAuth endpoints.      *)
(*                                                                         *)
(* A round is one start: its state token, the grant its code is exchanged  *)
(* for and the secret that keeps the tokens all go by the round's name.    *)
(* Callbacks, revocations and publishing calls interleave at every await;  *)
(* a call whose answer is lost may have had its effect.                    *)
(***************************************************************************)
EXTENDS Naturals, FiniteSets

CONSTANTS
  Rounds, Callbacks, Revokers, Publishers, \* starts, and requests of each kind
  NoRound,
  Services \* "youtube"; "social" has a revocation endpoint, "irrevocable" has none

ASSUME ConnectionsAssumption ==
  /\ NoRound \notin Rounds
  /\ IsFiniteSet(Callbacks)
  /\ Services \subseteq {"youtube", "social", "irrevocable"}

VARIABLES
  service,
  states, expired,   \* *_oauth_states: [round -> its row]; the rows past expires_at
  accountStatus, locator, errorCode, \* the *_director_accounts row
  secrets, grants,   \* rounds with a stored secret; rounds whose grant is live
  cb, cbRound,       \* callbacks: where they are, the state they carry
  rv, rvSeen, rvRevoked, rvClean, \* revocations: place, locator read, results to report
  token, tokenOf     \* publishing calls: place, the round whose token they hold

stateRows == <<states, expired>>
accountRow == <<accountStatus, locator, errorCode>>
outside == <<secrets, grants>>
callbackVars == <<cb, cbRound>>
revokeVars == <<rv, rvSeen, rvRevoked, rvClean>>
tokenVars == <<token, tokenOf>>
connectionsVars == <<service, stateRows, accountRow, outside, callbackVars, revokeVars, tokenVars>>

CallbackPlaces == {"idle", "found", "claimed", "exchanged", "identified", "written", "ok",
                   "failed"}
\* A revocation answers plainly ("done"), with the read error ("unread") or throws ("failed").
RevokePlaces == {"idle", "read", "unreadable", "readable", "revoked", "refused", "cleaned",
                 "done", "unread", "failed"}

ConnectionsInit ==
  /\ service \in Services
  /\ states = [r \in Rounds |-> "absent"] /\ expired = {}
  /\ accountStatus = "unconfigured" /\ locator = NoRound /\ errorCode = "none"
  /\ secrets = {} /\ grants = {}
  /\ cb = [c \in Callbacks |-> "idle"] /\ cbRound = [c \in Callbacks |-> NoRound]
  /\ rv = [v \in Revokers |-> "idle"] /\ rvSeen = [v \in Revokers |-> NoRound]
  /\ rvRevoked = [v \in Revokers |-> FALSE] /\ rvClean = [v \in Revokers |-> TRUE]
  /\ token = [p \in Publishers |-> "idle"] /\ tokenOf = [p \in Publishers |-> NoRound]

-----------------------------------------------------------------------------
(* Rounds and their callbacks.                                             *)

\* deleteExpiredStates: spent and expired rows go when a new round starts.
Swept(r) == states[r] = "spent" \/ (states[r] = "open" /\ r \in expired)

StartRound(r) ==
  /\ states[r] = "absent"
  /\ states' = [s \in Rounds |-> IF s = r THEN "open" ELSE IF Swept(s) THEN "deleted"
                                 ELSE states[s]]
  /\ UNCHANGED <<service, expired, accountRow, outside, callbackVars, revokeVars, tokenVars>>

\* STPH states live ten minutes.
StateExpires(r) ==
  /\ states[r] = "open" /\ expired' = expired \cup {r}
  /\ UNCHANGED <<service, states, accountRow, outside, callbackVars, revokeVars, tokenVars>>

MoveCallback(c, p) == cb' = [cb EXCEPT ![c] = p]

\* findStateByHash and the binding checks, before anything is spent.
FindState(c, r) ==
  /\ cb[c] = "idle"
  /\ states[r] \in {"open", "spent"} /\ r \notin expired
  /\ MoveCallback(c, "found") /\ cbRound' = [cbRound EXCEPT ![c] = r]
  /\ UNCHANGED <<service, stateRows, accountRow, outside, revokeVars, tokenVars>>

\* A mutant of ClaimableState: consumed_at is not looked at.
ClaimableUnchecked(r) == states[r] \in {"open", "spent"}
ClaimableState(r) == states[r] = "open"

\* UPDATE ... WHERE consumed_at IS NULL; a replayed or swept state loses here.
ClaimState(c) ==
  /\ cb[c] = "found"
  /\ IF ClaimableState(cbRound[c])
     THEN states' = [states EXCEPT ![cbRound[c]] = "spent"] /\ MoveCallback(c, "claimed")
     ELSE MoveCallback(c, "failed") /\ UNCHANGED states
  /\ UNCHANGED <<service, expired, accountRow, outside, cbRound, revokeVars, tokenVars>>

\* A call to a platform or to the secret manager: done and answered, done or
\* not without a usable answer.
Called(effect, unchanged, answered, lost) ==
  (effect /\ answered) \/ ((effect \/ unchanged) /\ lost)

ExchangeCode(c) ==
  /\ cb[c] = "claimed"
  /\ Called(grants' = grants \cup {cbRound[c]}, UNCHANGED grants,
            MoveCallback(c, "exchanged"), MoveCallback(c, "failed"))
  /\ UNCHANGED <<service, stateRows, accountRow, secrets, cbRound, revokeVars, tokenVars>>

\* A mutant of IdentityVerdicts: on to the account row, no secret written.
UnstoredVerdicts == {"written", "failed"}
IdentityVerdicts == {"identified", "failed"}

\* fetchProviderIdentity: no account behind the grant, or no answer, ends the round.
VerifyIdentity(c) ==
  /\ cb[c] = "exchanged"
  /\ \E p \in IdentityVerdicts : MoveCallback(c, p)
  /\ UNCHANGED <<service, stateRows, accountRow, outside, cbRound, revokeVars, tokenVars>>

WriteSecret(c) ==
  /\ cb[c] = "identified"
  /\ Called(secrets' = secrets \cup {cbRound[c]}, UNCHANGED secrets,
            MoveCallback(c, "written"), MoveCallback(c, "failed"))
  /\ UNCHANGED <<service, stateRows, accountRow, grants, cbRound, revokeVars, tokenVars>>

\* ON CONFLICT DO UPDATE: the locator of an earlier round is overwritten.
UpsertAccount(c) ==
  /\ cb[c] = "written"
  /\ accountStatus' = "connected" /\ locator' = cbRound[c] /\ errorCode' = "none"
  /\ MoveCallback(c, "ok")
  /\ UNCHANGED <<service, stateRows, outside, cbRound, revokeVars, tokenVars>>

\* The database, or the process, goes away under a callback.
CallbackDies(c) ==
  /\ cb[c] \notin {"idle", "ok", "failed"} /\ MoveCallback(c, "failed")
  /\ UNCHANGED <<service, stateRows, accountRow, outside, cbRound, revokeVars, tokenVars>>

-----------------------------------------------------------------------------
(* Revocation.                                                             *)

MoveRevoke(v, p) == rv' = [rv EXCEPT ![v] = p]

\* A disconnected row has no locator left: nothing is cleaned up again.
ReadAccount(v) ==
  /\ rv[v] = "idle" /\ accountStatus # "unconfigured"
  /\ MoveRevoke(v, IF accountStatus = "disconnected" THEN "done" ELSE "read")
  /\ rvSeen' = [rvSeen EXCEPT ![v] = locator]
  /\ UNCHANGED <<service, stateRows, accountRow, outside, callbackVars, rvRevoked, rvClean,
                 tokenVars>>

\* readSecret, or a manager that does not answer.
ReadSecret(v) ==
  /\ rv[v] = "read"
  /\ \/ rvSeen[v] \in secrets /\ MoveRevoke(v, "readable")
     \/ MoveRevoke(v, "unreadable")
  /\ UNCHANGED <<service, stateRows, accountRow, outside, callbackVars, rvSeen, rvRevoked,
                 rvClean, tokenVars>>

MarkDisconnected(code) ==
  accountStatus' = "disconnected" /\ locator' = NoRound /\ errorCode' = code

\* The answer carries the error code; no cleanup was tried, and none is called failed.
MarkUnreadable(v) ==
  /\ rv[v] = "unreadable"
  /\ MarkDisconnected("OAUTH_SECRET_READ_FAILED") /\ MoveRevoke(v, "unread")
  /\ UNCHANGED <<service, stateRows, outside, callbackVars, rvSeen, rvRevoked, rvClean,
                 tokenVars>>

\* revokeGoogleToken, and revokeProviderGrant where the platform documents an
\* endpoint: a token the platform no longer knows counts as revoked; any other
\* answer than these two is a refusal.
RevokeGrant(v) ==
  /\ rv[v] = "readable" /\ service # "irrevocable"
  /\ Called(grants' = grants \ {rvSeen[v]}, UNCHANGED grants,
            MoveRevoke(v, "revoked") /\ rvRevoked' = [rvRevoked EXCEPT ![v] = TRUE],
            MoveRevoke(v, "refused") /\ UNCHANGED rvRevoked)
  /\ UNCHANGED <<service, stateRows, accountRow, secrets, callbackVars, rvSeen, rvClean,
                 tokenVars>>

\* No endpoint: nothing is sent, yet revoke reports providerRevoked.
SkipRevocation(v) ==
  /\ rv[v] = "readable" /\ service = "irrevocable"
  /\ MoveRevoke(v, "revoked") /\ rvRevoked' = [rvRevoked EXCEPT ![v] = TRUE]
  /\ UNCHANGED <<service, stateRows, accountRow, outside, callbackVars, rvSeen, rvClean,
                 tokenVars>>

\* recordErrorCode: the grant may still be live, so the row stays as it is.
AfterRefusal == errorCode' = "OAUTH_REVOKE_FAILED" /\ UNCHANGED <<accountStatus, locator>>

RecordRefusal(v) ==
  /\ rv[v] = "refused"
  /\ AfterRefusal /\ MoveRevoke(v, "failed")
  /\ UNCHANGED <<service, stateRows, outside, callbackVars, rvSeen, rvRevoked, rvClean,
                 tokenVars>>

\* A mutant of CleanUp: the failure is not reported.
CleanUpSilently(v, clean) == rvClean' = [rvClean EXCEPT ![v] = clean \in BOOLEAN]
CleanUp(v, clean) == rvClean' = [rvClean EXCEPT ![v] = clean]

\* deleteSecret fails for a secret that is gone as for a manager that is down.
DeleteSecret(v) ==
  /\ rv[v] = "revoked" /\ MoveRevoke(v, "cleaned")
  /\ \/ rvSeen[v] \in secrets /\ secrets' = secrets \ {rvSeen[v]} /\ CleanUp(v, TRUE)
     \/ secrets' \in {secrets, secrets \ {rvSeen[v]}} /\ CleanUp(v, FALSE)
  /\ UNCHANGED <<service, stateRows, accountRow, grants, callbackVars, rvSeen, rvRevoked,
                 tokenVars>>

\* Whatever the row holds by now.
FinishRevoke(v) ==
  /\ rv[v] = "cleaned" /\ MoveRevoke(v, "done")
  /\ MarkDisconnected(IF rvClean[v] THEN "none" ELSE "SECRET_CLEANUP_FAILED")
  /\ UNCHANGED <<service, stateRows, outside, callbackVars, rvSeen, rvRevoked, rvClean,
                 tokenVars>>

-----------------------------------------------------------------------------
(* getPublishingAccessToken and getPublishingCredential.                   *)

Usable == accountStatus = "connected" /\ locator # NoRound

ReadConnection(p) ==
  /\ token[p] = "idle" /\ Usable
  /\ token' = [token EXCEPT ![p] = "located"] /\ tokenOf' = [tokenOf EXCEPT ![p] = locator]
  /\ UNCHANGED <<service, stateRows, accountRow, outside, callbackVars, revokeVars>>

ResolveToken(p) ==
  /\ token[p] = "located"
  /\ token' = [token EXCEPT ![p] = IF tokenOf[p] \in secrets THEN "held" ELSE "idle"]
  /\ UNCHANGED <<service, stateRows, accountRow, outside, callbackVars, revokeVars, tokenOf>>

\* The single publishing call is over: its token is not kept.
DropToken(p) ==
  /\ token[p] = "held" /\ token' = [token EXCEPT ![p] = "idle"]
  /\ UNCHANGED <<service, stateRows, accountRow, outside, callbackVars, revokeVars, tokenOf>>

CallbackStep(c) ==
  \/ \E r \in Rounds : FindState(c, r)
  \/ ClaimState(c) \/ ExchangeCode(c) \/ VerifyIdentity(c) \/ WriteSecret(c)
  \/ UpsertAccount(c) \/ CallbackDies(c)

RevokeStep(v) ==
  \/ ReadAccount(v) \/ ReadSecret(v) \/ MarkUnreadable(v) \/ RevokeGrant(v)
  \/ SkipRevocation(v) \/ RecordRefusal(v) \/ DeleteSecret(v) \/ FinishRevoke(v)

TokenStep(p) == ReadConnection(p) \/ ResolveToken(p) \/ DropToken(p)

ConnectionsNext ==
  \/ \E r \in Rounds : StartRound(r) \/ StateExpires(r)
  \/ \E c \in Callbacks : CallbackStep(c)
  \/ \E v \in Revokers : RevokeStep(v)
  \/ \E p \in Publishers : TokenStep(p)

ConnectionsSpec == ConnectionsInit /\ [][ConnectionsNext]_connectionsVars

-----------------------------------------------------------------------------
(* Properties                                                              *)

ConnectionsTypeOK ==
  /\ service \in Services
  /\ states \in [Rounds -> {"absent", "open", "spent", "deleted"}]
  /\ expired \subseteq Rounds
  /\ accountStatus \in {"unconfigured", "connected", "disconnected"}
  /\ locator \in Rounds \cup {NoRound}
  /\ errorCode \in {"none", "OAUTH_SECRET_READ_FAILED", "OAUTH_REVOKE_FAILED",
                    "SECRET_CLEANUP_FAILED"}
  /\ secrets \subseteq Rounds /\ grants \subseteq Rounds
  /\ cb \in [Callbacks -> CallbackPlaces] /\ cbRound \in [Callbacks -> Rounds \cup {NoRound}]
  /\ rv \in [Revokers -> RevokePlaces] /\ rvSeen \in [Revokers -> Rounds \cup {NoRound}]
  /\ rvRevoked \in [Revokers -> BOOLEAN] /\ rvClean \in [Revokers -> BOOLEAN]
  /\ token \in [Publishers -> {"idle", "located", "held"}]
  /\ tokenOf \in [Publishers -> Rounds \cup {NoRound}]

Beyond(c) == cb[c] \in {"claimed", "exchanged", "identified", "written", "ok"}

\* One state token completes at most one connection: of the callbacks that
\* carry it, one gets past the claim, and none while the row is still open
\* (claimState's conditional UPDATE).
StateSpentOnce ==
  \A c, d \in Callbacks :
    Beyond(c) => /\ states[cbRound[c]] \in {"spent", "deleted"}
                 /\ (Beyond(d) /\ cbRound[c] = cbRound[d] => c = d)

\* A connected account is backed by a round that one callback finished, and by
\* nothing a failed round left behind: its identity was verified, its locator
\* was handed out by the secret manager, and the secret behind it is missing
\* only when a revocation of this very round has deleted it (Rule 1).  The
\* token a publishing call holds goes back to such a round, too.
Finished(r) == \E c \in Callbacks : cb[c] = "ok" /\ cbRound[c] = r
ConnectedIsVerified ==
  /\ accountStatus = "connected" <=> locator # NoRound
  /\ locator # NoRound => /\ Finished(locator)
                          /\ \/ locator \in secrets
                             \/ \E v \in Revokers :
                                  rvSeen[v] = locator /\ rv[v] \in {"cleaned", "done"}
  /\ \A p \in Publishers : token[p] # "idle" => Finished(tokenOf[p])

\* What a revocation's answer means of the connection it read, whoever else revokes or
\* reconnects meanwhile: a cleanup it does not call failed has left no secret; a grant it
\* calls revoked is live exactly where the platform has no revocation endpoint; and an
\* answer with the read error claims no revocation, nor a failed cleanup, although the
\* secret may well be left.
RevocationAccounted ==
  \A v \in Revokers : rvSeen[v] # NoRound =>
    /\ rv[v] \in {"cleaned", "done"} =>
         /\ rvClean[v] => rvSeen[v] \notin secrets
         /\ rvRevoked[v] => (rvSeen[v] \in grants <=> service = "irrevocable")
    /\ rv[v] = "unread" => ~rvRevoked[v] /\ rvClean[v]

\* Connecting and revoking keep the account row verified, and a revocation's answer has
\* one meaning.
ConnectionAccounted == ConnectedIsVerified /\ RevocationAccounted
===============================================================================
