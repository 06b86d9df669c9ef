------------------------------ MODULE Sessions ------------------------------
(***************************************************************************)
(* Browser sessions: refresh-token rotation (AuthService.refresh) racing   *)
(* revocation (SessionService._revoke_where), under READ COMMITTED         *)
(* transactions, the per-session advisory lock, the Redis marks of revoked *)
(* sessions, and the re-check of SSO sessions at their identity provider.  *)
(*                                                                         *)
(* A session is one login.  Its refresh row carries a fresh id at every    *)
(* rotation; the browser's cookie holds the id it was last sent.  Effects  *)
(* of a transaction on the rows appear at its commit.                      *)
(***************************************************************************)
EXTENDS Integers, FiniteSets

CONSTANTS Session,       \* session ids, in the order lock_sessions sorts them
          Sso,           \* the sessions that came from an identity provider
          Renewal,       \* slots for requests that renew a session
          Revocation,    \* slots for requests that revoke sessions
          Nobody,        \* an advisory lock nobody holds
          AccessLife,    \* access_token_expire_minutes
          GuardLife,     \* how long recheck_guard holds its key
          CheckFailure,  \* idp_check_failure: "allow" or "deny"
          RedisFails,    \* whether Redis may be unreachable
          IdpFails,      \* whether the provider may be unreachable
          Interrupts,    \* whether requests may be cut off before they lock
          Losses,        \* what may end a session's standing, see LoseStanding
          MaxId          \* bound: refresh rows ever stored per session

ASSUME SessionsAssumption ==
    /\ Session \subseteq Nat
    /\ Sso \subseteq Session
    /\ Nobody \notin Renewal \union Revocation
    /\ Renewal \intersect Revocation = {} /\ IsFiniteSet(Renewal)
    /\ AccessLife \in Nat /\ GuardLife \in Nat
    /\ CheckFailure \in {"allow", "deny"}
    /\ RedisFails \in BOOLEAN /\ IdpFails \in BOOLEAN
    /\ Interrupts \in BOOLEAN
    /\ Losses \subseteq {"expired", "inactive", "unlinked", "disabled"}
    /\ MaxId \in Nat

VARIABLES
    row,         \* committed refresh row of each session; id 0: none.  due: the
                 \* last check at the provider is a recheck interval ago
    lastId,      \* the last row id given out for each session
    cookie,      \* the row id the browser's refresh_token cookie names
    status,      \* "live", or how the session lost its standing
    access,      \* how long the session's youngest access token has to live
    mark,        \* how long revoked_session:{sid} has to live in Redis; 0: no key
    lock,        \* owner of the session's advisory lock
    guard,       \* how long sso_idp_recheck:{row id} has to live
    idp,         \* the provider's side: [token |-> current one, alive |-> BOOLEAN]
    renewal,     \* what each renewing request is doing
    revocation,  \* what each revoking request is doing
    revoked,     \* history: sessions a committed revocation covered
    cutOff,      \* history: those whose access tokens it also marked
    replayed     \* history: sessions whose IdP token was presented twice

vars == <<row, lastId, cookie, status, access, mark, lock, guard, idp,
          renewal, revocation, revoked, cutOff, replayed>>

NoRow == [id |-> 0, idp |-> 0, due |-> FALSE]

IdleRenewal == [stage |-> "idle", layer |-> "api", session |-> 0, id |-> 0,
                held |-> 0, sealed |-> 0, answer |-> "none", fresh |-> 0, newId |-> 0]

IdleRevocation == [stage |-> "idle", scope |-> {}, extra |-> {}, spare |-> {},
                   found |-> {}, waiting |-> {}, targets |-> {}, gone |-> {}]

Init ==
    /\ row = [s \in Session |-> NoRow]
    /\ lastId = [s \in Session |-> 0]
    /\ cookie = [s \in Session |-> 0]
    /\ status = [s \in Session |-> "live"]
    /\ access = [s \in Session |-> 0]
    /\ mark = [s \in Session |-> 0]
    /\ lock = [s \in Session |-> Nobody]
    /\ guard = [s \in Session |-> [i \in 1..MaxId |-> 0]]
    /\ idp = [s \in Session |-> [token |-> 1, alive |-> TRUE]]
    /\ renewal = [r \in Renewal |-> IdleRenewal]
    /\ revocation = [v \in Revocation |-> IdleRevocation]
    /\ revoked = {}
    /\ cutOff = {}
    /\ replayed = {}

-----------------------------------------------------------------------------
(* Redis.                                                                  *)

RedisAnswers == IF RedisFails THEN BOOLEAN ELSE {TRUE}

\* A bug: the mark lives no longer than the tokens it refuses.
MarkedShort(S, up) ==
    [s \in Session |-> IF up /\ s \in S THEN AccessLife ELSE mark[s]]

\* mark_sessions_revoked: one access-token lifetime and a second.  A failed
\* write is logged and swallowed.
Marked(S, up) ==
    [s \in Session |-> IF up /\ s \in S THEN AccessLife + 1 ELSE mark[s]]

\* is_access_token_revoked: fails closed.
IsRevoked(s, up) == ~up \/ mark[s] > 0

-----------------------------------------------------------------------------
(* Sign-in, time and the outside world.                                    *)

\* No uncommitted DELETE of a revocation covers the session's row.
RowFree(s) == \A v \in Revocation : s \notin revocation[v].gone

\* login and create_sso_session: a new session id, row and token pair.
Login(s) ==
    /\ lastId[s] = 0
    /\ MaxId > 0
    /\ row' = [row EXCEPT ![s] = [id |-> 1, idp |-> IF s \in Sso THEN 1 ELSE 0, due |-> FALSE]]
    /\ lastId' = [lastId EXCEPT ![s] = 1]
    /\ cookie' = [cookie EXCEPT ![s] = 1]
    /\ access' = [access EXCEPT ![s] = AccessLife]
    /\ UNCHANGED <<status, mark, lock, guard, idp, renewal, revocation, revoked, cutOff, replayed>>

\* A unit of time passes for every key and token; the keys of Redis expire.
Tick ==
    LET Older(f) == [x \in DOMAIN f |-> IF f[x] > 0 THEN f[x] - 1 ELSE 0]
    IN  /\ access' = Older(access)
        /\ mark' = Older(mark)
        /\ guard' = [s \in Session |-> Older(guard[s])]
        /\ UNCHANGED <<row, lastId, cookie, status, lock, idp,
                       renewal, revocation, revoked, cutOff, replayed>>

\* sso_idp_recheck_interval_minutes have passed since the last check.
CheckFallsDue(s) ==
    /\ s \in Sso
    /\ row[s].id # 0
    /\ ~row[s].due
    /\ row' = [row EXCEPT ![s] = [id |-> row[s].id, idp |-> row[s].idp, due |-> TRUE]]
    /\ UNCHANGED <<lastId, cookie, status, access, mark, lock, guard, idp,
                   renewal, revocation, revoked, cutOff, replayed>>

\* The session's expiry passes ("expired"), its user is deactivated
\* ("inactive"), its identity is unlinked or its provider is disabled.
LoseStanding(s) ==
    /\ status[s] = "live"
    /\ \E why \in Losses :
          /\ why \in {"unlinked", "disabled"} => s \in Sso
          /\ status' = [status EXCEPT ![s] = why]
    /\ UNCHANGED <<row, lastId, cookie, access, mark, lock, guard, idp,
                   renewal, revocation, revoked, cutOff, replayed>>

\* The person signs out, or is disabled, at the provider.
EndAtIdp(s) ==
    /\ s \in Sso
    /\ idp[s].alive
    /\ idp' = [idp EXCEPT ![s] = [token |-> idp[s].token, alive |-> FALSE]]
    /\ UNCHANGED <<row, lastId, cookie, status, access, mark, lock, guard,
                   renewal, revocation, revoked, cutOff, replayed>>

\* An administrator changes the provider's issuer or client: stored tokens go.
DropIdpToken(s) ==
    /\ row[s].idp # 0
    /\ lock[s] \notin Renewal
    /\ RowFree(s)
    /\ row' = [row EXCEPT ![s] = [id |-> row[s].id, idp |-> 0, due |-> row[s].due]]
    /\ UNCHANGED <<lastId, cookie, status, access, mark, lock, guard, idp,
                   renewal, revocation, revoked, cutOff, replayed>>

-----------------------------------------------------------------------------
(* AuthService.refresh.                                                    *)

SetRenewal(r, rec) == renewal' = [renewal EXCEPT ![r] = rec]

\* The cookie still names a row.
CookieKnown(s) == row[s].id # 0 /\ cookie[s] = row[s].id

\* plan_recheck: the stored token to present, or 0.  It looks at the expiry and
\* the identity, not at the user or at whether the provider is enabled.
PlanRecheck(s) ==
    IF s \in Sso /\ status[s] \notin {"expired", "unlinked"} /\ row[s].due
      THEN row[s].idp ELSE 0

\* A renewal that has read its row; it asks the provider when there is a plan.
Planned(s, layer) ==
    [stage |-> IF PlanRecheck(s) = 0 THEN "ready" ELSE "planned", layer |-> layer,
     session |-> s, id |-> row[s].id, held |-> row[s].idp, sealed |-> PlanRecheck(s),
     answer |-> "none", fresh |-> 0, newId |-> 0]

\* A bug: a token without a row is not refused.
StartRenewalUnknown(r, s, layer) ==
    /\ renewal[r].stage = "idle"
    /\ cookie[s] = row[s].id
    /\ lastId[s] + Cardinality({q \in Renewal : renewal[q].session = s}) < MaxId
    /\ SetRenewal(r, Planned(s, layer))
    /\ UNCHANGED <<row, lastId, cookie, status, access, mark, lock, guard, idp,
                   revocation, revoked, cutOff, replayed>>

\* Find the row the cookie names (refused when there is none) and plan the
\* check.  layer: the refresh endpoint, or try_silent_refresh in any request.
StartRenewal(r, s, layer) ==
    /\ renewal[r].stage = "idle"
    /\ CookieKnown(s)
    /\ lastId[s] + Cardinality({q \in Renewal : renewal[q].session = s}) < MaxId
    /\ SetRenewal(r, Planned(s, layer))
    /\ UNCHANGED <<row, lastId, cookie, status, access, mark, lock, guard, idp,
                   revocation, revoked, cutOff, replayed>>

\* recheck_guard: SET NX PX on the row id; without it, or without Redis, refused.
TakeGuard(r) ==
    LET s == renewal[r].session
        i == renewal[r].id
    IN  /\ renewal[r].stage = "planned"
        /\ \E up \in RedisAnswers :
              IF up /\ guard[s][i] = 0
                THEN /\ guard' = [guard EXCEPT ![s] = [guard[s] EXCEPT ![i] = GuardLife]]
                     /\ SetRenewal(r, [renewal[r] EXCEPT !.stage = "asking"])
                ELSE /\ SetRenewal(r, IdleRenewal)
                     /\ UNCHANGED guard
        /\ UNCHANGED <<row, lastId, cookie, status, access, mark, lock, idp,
                       revocation, revoked, cutOff, replayed>>

\* A renewal the provider, or a timeout, has answered.
Answered(rec, answer, fresh) ==
    [stage |-> "ready", layer |-> rec.layer, session |-> rec.session, id |-> rec.id,
     held |-> rec.held, sealed |-> rec.sealed, answer |-> answer, fresh |-> fresh, newId |-> 0]

\* run_recheck, without any lock.  The provider may rotate the token it accepts,
\* refuses one it has replaced, and its answer may be lost on the way.  A token
\* that can no longer be decrypted is not sent at all.
AskIdp(r) ==
    LET s        == renewal[r].session
        accepted == idp[s].alive /\ renewal[r].sealed = idp[s].token
    IN  /\ renewal[r].stage = "asking"
        /\ \/ /\ replayed' = IF renewal[r].sealed < idp[s].token
                              THEN replayed \union {s} ELSE replayed
              /\ \/ /\ accepted
                    /\ \E rotates \in {0, 1} :
                          /\ idp' = [idp EXCEPT ![s] = [token |-> idp[s].token + rotates, alive |-> TRUE]]
                          /\ \/ SetRenewal(r, Answered(renewal[r], "accepted", idp[s].token + rotates))
                             \/ IdpFails /\ SetRenewal(r, Answered(renewal[r], "failed", 0))
                 \/ /\ ~accepted
                    /\ \/ SetRenewal(r, Answered(renewal[r], "rejected", 0))
                       \/ IdpFails /\ SetRenewal(r, Answered(renewal[r], "failed", 0))
                    /\ UNCHANGED idp
           \/ /\ SetRenewal(r, Answered(renewal[r], "unreadable", 0))
              /\ UNCHANGED <<idp, replayed>>
        /\ UNCHANGED <<row, lastId, cookie, status, access, mark, lock, guard,
                       revocation, revoked, cutOff>>

\* The guard is given back when the renewal raises.
ReleaseGuard(r) ==
    guard' = IF renewal[r].sealed = 0 THEN guard
             ELSE [guard EXCEPT ![renewal[r].session] =
                      [guard[renewal[r].session] EXCEPT ![renewal[r].id] = 0]]

\* A bug: the session is not locked before its row is claimed.
CanClaimUnlocked(r) ==
    /\ renewal[r].stage = "ready"
    /\ lock[renewal[r].session] \notin Renewal
    /\ RowFree(renewal[r].session)

CanClaim(r) ==
    /\ renewal[r].stage = "ready"
    /\ lock[renewal[r].session] = Nobody
    /\ RowFree(renewal[r].session)

\* _rotate, no row to claim: a revocation or another renewal was first.
RefuseGone(r) ==
    /\ CanClaim(r)
    /\ row[renewal[r].session].id # renewal[r].id
    /\ ReleaseGuard(r)
    /\ SetRenewal(r, IdleRenewal)
    /\ UNCHANGED <<row, lastId, cookie, status, access, mark, lock, idp,
                   revocation, revoked, cutOff, replayed>>

\* The provider's answer as the claimed row sees it: about a token the row no
\* longer holds, it is ignored.
Verdict(r) ==
    LET rec == renewal[r]
    IN  IF rec.sealed = 0 THEN "unasked"
        ELSE IF row[rec.session].idp # rec.sealed THEN "ignored"
        ELSE IF rec.answer = "failed"
               THEN IF CheckFailure = "deny" THEN "rejected" ELSE "unchanged"
               ELSE rec.answer

\* Steps 5 and 6: the source is inactive or the provider refused.  The session
\* is revoked and that is committed before the request is refused.
RotateEnds(r, up) ==
    LET s == renewal[r].session
    IN  /\ ~IsRevoked(s, up)
        /\ status[s] \in {"unlinked", "disabled"} \/ (status[s] = "live" /\ Verdict(r) = "rejected")
        /\ \E markUp \in RedisAnswers :
              /\ mark' = Marked({s}, markUp)
              /\ cutOff' = IF markUp THEN cutOff \union {s} ELSE cutOff
        /\ row' = [row EXCEPT ![s] = NoRow]
        /\ revoked' = revoked \union {s}
        /\ ReleaseGuard(r)
        /\ SetRenewal(r, IdleRenewal)
        /\ UNCHANGED <<lastId, access, lock>>

\* Steps 3 and 4: refused with the claimed row still uncommitted.
RotateRefuses(r, up) ==
    LET s == renewal[r].session
    IN  /\ IsRevoked(s, up) \/ status[s] \in {"expired", "inactive"}
        /\ lock' = [lock EXCEPT ![s] = r]
        /\ ReleaseGuard(r)
        /\ SetRenewal(r, [renewal[r] EXCEPT !.stage = "refused"])
        /\ UNCHANGED <<row, lastId, access, mark, revoked, cutOff>>

\* A renewal that has claimed its row and issued the next one.
Rotated(rec, newId) ==
    [stage |-> "rotated", layer |-> rec.layer, session |-> rec.session, id |-> rec.id,
     held |-> rec.held, sealed |-> rec.sealed, answer |-> rec.answer, fresh |-> rec.fresh, newId |-> newId]

\* Step 7: a new row and a new token pair, uncommitted.
RotateIssues(r, up) ==
    LET s == renewal[r].session
    IN  /\ ~IsRevoked(s, up)
        /\ status[s] = "live"
        /\ Verdict(r) # "rejected"
        /\ lastId' = [lastId EXCEPT ![s] = lastId[s] + 1]
        /\ access' = [access EXCEPT ![s] = AccessLife]
        /\ lock' = [lock EXCEPT ![s] = r]
        /\ SetRenewal(r, Rotated(renewal[r], lastId[s] + 1))
        /\ UNCHANGED <<row, mark, revoked, cutOff, guard>>

\* A bug: the claim deletes whatever row the session has.
RotateUnclaimed(r) ==
    /\ CanClaim(r)
    /\ \E up \in RedisAnswers : RotateEnds(r, up) \/ RotateRefuses(r, up) \/ RotateIssues(r, up)
    /\ UNCHANGED <<cookie, status, idp, revocation, replayed>>

\* _rotate: lock the session, claim its row, check, issue.
Rotate(r) ==
    /\ CanClaim(r)
    /\ row[renewal[r].session].id = renewal[r].id
    /\ \E up \in RedisAnswers : RotateEnds(r, up) \/ RotateRefuses(r, up) \/ RotateIssues(r, up)
    /\ UNCHANGED <<cookie, status, idp, revocation, replayed>>

\* The rotated row: the provider's token and a check that is no longer due when
\* it accepted, no token when the stored one was unreadable, the claimed row's
\* when the answer does not count, and the token read at the start when the
\* provider was not asked.
RotatedRow(r) ==
    LET rec == renewal[r]
        old == row[rec.session]
    IN  CASE Verdict(r) = "accepted"   -> [id |-> rec.newId, idp |-> rec.fresh, due |-> FALSE]
          [] Verdict(r) = "unreadable" -> [id |-> rec.newId, idp |-> 0, due |-> TRUE]
          [] Verdict(r) = "unasked"    -> [id |-> rec.newId, idp |-> rec.held, due |-> old.due]
          [] OTHER                     -> [id |-> rec.newId, idp |-> old.idp, due |-> old.due]

\* A bug: the lock outlives the transaction.
EndRenewalKeepsLock(r) ==
    /\ SetRenewal(r, IdleRenewal)
    /\ UNCHANGED <<lock, lastId, status, access, mark, guard, idp, revocation, revoked, cutOff, replayed>>

EndRenewal(r) ==
    /\ lock' = [lock EXCEPT ![renewal[r].session] = Nobody]
    /\ SetRenewal(r, IdleRenewal)
    /\ UNCHANGED <<lastId, status, access, mark, guard, idp, revocation, revoked, cutOff, replayed>>

\* get_db commits, then the response carries the new cookies.
CommitRenewal(r) ==
    /\ renewal[r].stage = "rotated"
    /\ row' = [row EXCEPT ![renewal[r].session] = RotatedRow(r)]
    /\ cookie' = [cookie EXCEPT ![renewal[r].session] = renewal[r].newId]
    /\ EndRenewal(r)

\* The request fails after the rotation and get_db rolls back.  A silent
\* refresh has left its tokens on request.state, so TokenRefreshMiddleware
\* still sends them with an error or a redirect (not when the server crashes).
FailRenewal(r) ==
    /\ renewal[r].stage = "rotated"
    /\ \/ UNCHANGED cookie
       \/ /\ renewal[r].layer = "silent"
          /\ cookie' = [cookie EXCEPT ![renewal[r].session] = renewal[r].newId]
    /\ EndRenewal(r)
    /\ UNCHANGED row

\* The refusal rolls the claim back, unless try_silent_refresh swallowed it and
\* the page went on to commit as anonymous.
EndRefused(r) ==
    /\ renewal[r].stage = "refused"
    /\ \/ UNCHANGED row
       \/ /\ renewal[r].layer = "silent"
          /\ row' = [row EXCEPT ![renewal[r].session] = NoRow]
    /\ EndRenewal(r)
    /\ UNCHANGED cookie

\* The process dies, or the client goes away, before the session is locked: a
\* dead process leaves the guard to its expiry, a cancelled request returns it.
Interrupt(r) ==
    /\ Interrupts
    /\ renewal[r].stage \in {"planned", "asking", "ready"}
    /\ \/ UNCHANGED guard
       \/ renewal[r].stage # "planned" /\ ReleaseGuard(r)
    /\ SetRenewal(r, IdleRenewal)
    /\ UNCHANGED <<row, lastId, cookie, status, access, mark, lock, idp,
                   revocation, revoked, cutOff, replayed>>

-----------------------------------------------------------------------------
(* SessionService._revoke_where.                                           *)

SetRevocation(v, rec) == revocation' = [revocation EXCEPT ![v] = rec]

\* The sessions with a row, which the first SELECT finds; extra ids are locked
\* and marked whether or not they have one.
StartRevocation(v, scope, extra, spare) ==
    /\ revocation[v].stage = "idle"
    /\ LET found == {s \in scope : row[s].id # 0}
       IN  SetRevocation(v, [stage |-> "locking", scope |-> scope, extra |-> extra,
                             spare |-> spare, found |-> found,
                             waiting |-> found \union extra, targets |-> {}, gone |-> {}])
    /\ UNCHANGED <<row, lastId, cookie, status, access, mark, lock, guard, idp,
                   renewal, revoked, cutOff, replayed>>

\* SessionService.revoke and revoke_user_sessions.
RevokeOne(v, s) == StartRevocation(v, {s}, {s}, {})

RevokeUser(v, keep, spare) == StartRevocation(v, Session \ keep, {}, spare)

\* The session is found from the refresh cookie or from a live access token.
EndBrowserSession(v, s) ==
    /\ CookieKnown(s) \/ access[s] > 0
    /\ RevokeOne(v, s)

\* Picked from the list of the user's sessions.
RevokeSession(v, s) == row[s].id # 0 /\ RevokeOne(v, s)

\* Also the end of a password reset.
LogoutAll(v) == RevokeUser(v, {}, {})

\* After a password change: the caller's session s is kept if its cookie is
\* known; otherwise its row goes too and only its live access token is spared.
LogoutOtherSessions(v, s) ==
    \/ CookieKnown(s) /\ RevokeUser(v, {s}, {})
    \/ access[s] > 0 /\ RevokeUser(v, {}, {s})

\* revoke_by_identity, revoke_by_idp_sid: unlinking, back-channel logout.
RevokeByIdentity(v, S) == StartRevocation(v, S, {}, {})

\* lock_sessions takes the locks in sorted order.
NextToLock(v) ==
    CHOOSE s \in revocation[v].waiting : \A u \in revocation[v].waiting : s <= u

\* A bug: the locks are taken in the order the query returned the sessions.
LockNextAnyOrder(v) ==
    /\ revocation[v].stage = "locking"
    /\ \E s \in revocation[v].waiting :
           /\ lock[s] = Nobody
           /\ lock' = [lock EXCEPT ![s] = v]
           /\ SetRevocation(v, [revocation[v] EXCEPT !.waiting = revocation[v].waiting \ {s}])
    /\ UNCHANGED <<row, lastId, cookie, status, access, mark, guard, idp,
                   renewal, revoked, cutOff, replayed>>

LockNext(v) ==
    /\ revocation[v].stage = "locking"
    /\ revocation[v].waiting # {}
    /\ LET s == NextToLock(v)
       IN  /\ lock[s] = Nobody
           /\ lock' = [lock EXCEPT ![s] = v]
           /\ SetRevocation(v, [revocation[v] EXCEPT !.waiting = revocation[v].waiting \ {s}])
    /\ UNCHANGED <<row, lastId, cookie, status, access, mark, guard, idp,
                   renewal, revoked, cutOff, replayed>>

\* The DELETE starts: its snapshot holds the rows committed so far.
StartDelete(v) ==
    /\ revocation[v].stage = "locking"
    /\ revocation[v].waiting = {}
    /\ LET rec == revocation[v]
       IN  SetRevocation(v, [stage |-> "deleting", scope |-> rec.scope, extra |-> rec.extra,
                             spare |-> rec.spare, found |-> rec.found, waiting |-> {},
                             targets |-> {<<s, row[s].id>> : s \in {u \in rec.scope : row[u].id # 0}},
                             gone |-> {}])
    /\ UNCHANGED <<row, lastId, cookie, status, access, mark, lock, guard, idp,
                   renewal, revoked, cutOff, replayed>>

\* Another transaction has claimed or deleted the row and not ended yet.
Busy(v, s) ==
    \/ lock[s] \in Renewal
    \/ \E u \in Revocation \ {v} : s \in revocation[u].gone

\* The DELETE waits for those, skips rows that are gone by then, and the
\* sessions it deleted (and the extra ones) are marked in Redis.
FinishDelete(v) ==
    LET rec     == revocation[v]
        deleted == {s \in Session : row[s].id # 0 /\ <<s, row[s].id>> \in rec.targets}
    IN  /\ rec.stage = "deleting"
        /\ \A target \in rec.targets : ~Busy(v, target[1])
        /\ \E up \in RedisAnswers :
              /\ mark' = Marked((rec.extra \union deleted) \ rec.spare, up)
              /\ SetRevocation(v, [stage |-> IF up THEN "marked" ELSE "unmarked",
                                   scope |-> rec.scope, extra |-> rec.extra, spare |-> rec.spare,
                                   found |-> rec.found, waiting |-> {}, targets |-> rec.targets,
                                   gone |-> deleted])
        /\ UNCHANGED <<row, lastId, cookie, status, access, lock, guard, idp,
                       renewal, revoked, cutOff, replayed>>

EndRevocation(v) ==
    /\ lock' = [s \in Session |-> IF lock[s] = v THEN Nobody ELSE lock[s]]
    /\ SetRevocation(v, IdleRevocation)
    /\ UNCHANGED <<lastId, cookie, status, access, mark, guard, idp, renewal, replayed>>

CommitRevocation(v) ==
    LET rec     == revocation[v]
        covered == rec.found \union rec.extra \union rec.gone
    IN  /\ rec.stage \in {"marked", "unmarked"}
        /\ row' = [s \in Session |-> IF s \in rec.gone THEN NoRow ELSE row[s]]
        /\ revoked' = revoked \union covered
        /\ cutOff' = IF rec.stage = "marked"
                       THEN cutOff \union ((rec.extra \union rec.gone) \ rec.spare) ELSE cutOff
        /\ EndRevocation(v)

\* The request fails on the way; what it has marked in Redis stays marked.
AbortRevocation(v) ==
    /\ revocation[v].stage # "idle"
    /\ EndRevocation(v)
    /\ UNCHANGED <<row, revoked, cutOff>>

-----------------------------------------------------------------------------

Renew(r) ==
    \/ TakeGuard(r)
    \/ AskIdp(r)
    \/ RefuseGone(r)
    \/ Rotate(r)
    \/ CommitRenewal(r)
    \/ FailRenewal(r)
    \/ EndRefused(r)

Revoke(v) ==
    \/ LockNext(v)
    \/ StartDelete(v)
    \/ FinishDelete(v)
    \/ CommitRevocation(v)

\* What may happen to a request, and is never counted on to end it.
Accident ==
    \/ \E r \in Renewal : Interrupt(r)
    \/ \E v \in Revocation : AbortRevocation(v)

Begin ==
    \/ \E r \in Renewal, s \in Session, layer \in {"api", "silent"} : StartRenewal(r, s, layer)
    \/ \E v \in Revocation :
          \/ LogoutAll(v)
          \/ \E s \in Session :
                EndBrowserSession(v, s) \/ RevokeSession(v, s) \/ LogoutOtherSessions(v, s)
          \/ \E S \in SUBSET Sso : RevokeByIdentity(v, S)

Environment ==
    \/ Tick
    \/ \E s \in Session : \/ Login(s)
                        \/ CheckFallsDue(s)
                        \/ LoseStanding(s)
                        \/ EndAtIdp(s)
                        \/ DropIdpToken(s)

Next ==
    \/ Environment
    \/ Begin
    \/ \E r \in Renewal : Renew(r)
    \/ \E v \in Revocation : Revoke(v)
    \/ Accident

Spec == Init /\ [][Next]_vars

\* Requests run on.  PostgreSQL grants a lock in the order it was asked for, so
\* a request whose lock keeps becoming free gets it.
Fairness ==
    /\ \A r \in Renewal : SF_vars(Renew(r))
    /\ \A v \in Revocation : SF_vars(Revoke(v))

FairSpec == Spec /\ Fairness

-----------------------------------------------------------------------------
(* Properties.                                                             *)

\* Rows, locks and requests have their shapes.
TypeOK ==
    /\ row \in [Session -> [id : 0..MaxId, idp : Nat, due : BOOLEAN]]
    /\ lastId \in [Session -> 0..MaxId]
    /\ cookie \in [Session -> 0..MaxId]
    /\ lock \in [Session -> Renewal \union Revocation \union {Nobody}]
    /\ \A r \in Renewal : renewal[r].stage # "idle" =>
          renewal[r].session \in Session /\ renewal[r].id \in 1..MaxId
    /\ revoked \subseteq Session
    /\ cutOff \subseteq Session

\* "Rotation cannot outlive a concurrent revocation" (AuthService.refresh): once
\* a revocation that covered a session has committed, the session has no refresh
\* row, now or ever again, whatever renewals were in flight.
RevokedStaysRevoked == \A s \in revoked : row[s].id = 0

\* mark_sessions_revoked: the mark that refuses the access tokens of a
\* cut-off session outlives every one of them.
RevokedTokensRefused == \A s \in cutOff : access[s] > 0 => access[s] < mark[s]

\* A refresh row gives way only to the row issued to a request that presented
\* it: a token is exchanged once, and never by a request that lost the race.
TokenExchangedOnce ==
    [][\A s \in Session :
          row[s].id # 0 /\ row'[s].id \notin {0, row[s].id} =>
              \E r \in Renewal : /\ renewal[r].session = s
                                 /\ renewal[r].id = row[s].id
                                 /\ renewal[r].newId = row'[s].id]_vars

\* Every request ends: the locks of several sessions are taken in one order, so
\* no two revocations and renewals wait for each other forever.
EveryRequestEnds ==
    /\ \A r \in Renewal : (renewal[r].stage # "idle") ~> (renewal[r].stage = "idle")
    /\ \A v \in Revocation : (revocation[v].stage # "idle") ~> (revocation[v].stage = "idle")

\* "silent refresh via the refresh_token cookie keeps the user logged in after
\* the access token expires" (tests/e2e/test_silent_refresh.py): as long as a
\* session has its row, and no request is renewing it, the browser's cookie
\* names that row.
CookieNamesLiveRow ==
    \A s \in Session :
        row[s].id # 0 /\ (\A r \in Renewal : renewal[r].session # s) => cookie[s] = row[s].id

\* "under a Redis guard so the IdP's refresh token is presented once"
\* (services/sso/session_check.py): no token the provider has replaced is
\* presented again.
IdpTokenPresentedOnce == replayed = {}

=============================================================================
