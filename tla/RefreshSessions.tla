--------------------------- MODULE RefreshSessions ---------------------------
(***************************************************************************)
(* The browser sessions of one account: signing in, the rotation of        *)
(* refresh tokens, and everything that ends sessions                       *)
(* (services/auth/local/tokens, services/auth/local/session.rs,            *)
(* db/repository/auth_session_repo.rs).                                    *)
(*                                                                         *)
(* A refresh decides and rotates in one transaction that locks the user    *)
(* row where the database has row locks; sessions are revoked and cleaned  *)
(* up without that lock, so they fall between the two steps.  On SQLite    *)
(* there is no row lock at all and the conditional update alone decides.   *)
(***************************************************************************)
EXTENDS Naturals

CONSTANTS
    Sids,           \* ids of sessions
    Requests,       \* refresh requests being handled
    Logins,         \* sign-ins being handled
    Free,           \* the user row is not locked
    MaxJti,         \* bound: refresh tokens that are ever made
    MaxGeneration   \* largest value of session_version, i64::MAX in the code

ASSUME RefreshAssumption ==
    /\ MaxJti \in Nat
    /\ MaxGeneration \in Nat \ {0}
    /\ Free \notin Requests

VARIABLES
    generation,     \* users.session_version
    enabled,        \* users.status is active
    rowLocks,       \* the database has row locks (not SQLite)
    userLock,       \* the request that holds the lock of the user row
    sessions,       \* auth_sessions by id
    credentials,    \* the refresh tokens clients have been given
    lastJti,        \* the newest refresh token made
    requests,       \* refresh requests between their transactions' steps
    logins,         \* generation a sign-in has read, 0 if there is none
    kept,           \* a status read as no change and not yet written, a set
    rotations       \* history: successful rotations of each refresh token

rsVars == <<generation, enabled, rowLocks, userLock, sessions, credentials,
            lastJti, requests, logins, kept, rotations>>

Jtis == 1..MaxJti
Credential == [sid : Sids, jti : Jtis, gen : 1..MaxGeneration]

\* row is "unused" before the session is made and "gone" when it is deleted;
\* recent: last_seen_at lies within the 15 seconds of SameClientWithin.
Session == [row : {"unused", "live", "gone"}, cur : 0..MaxJti, prev : 0..MaxJti,
            revoked : BOOLEAN, expired : BOOLEAN, recent : BOOLEAN]
Unused == [row |-> "unused", cur |-> 0, prev |-> 0,
           revoked |-> FALSE, expired |-> FALSE, recent |-> FALSE]

IdleRequest == [phase |-> "idle"]
RefreshRequest == {IdleRequest} \cup
           [phase : {"rotating", "conflict", "unresolved"}, cred : Credential, same : BOOLEAN]

RefreshInit ==
    /\ generation = 1
    /\ enabled = TRUE
    /\ rowLocks \in BOOLEAN
    /\ userLock = Free
    /\ sessions = [s \in Sids |-> Unused]
    /\ credentials = {}
    /\ lastJti = 0
    /\ requests = [r \in Requests |-> IdleRequest]
    /\ logins = [l \in Logins |-> 0]
    /\ kept = {}
    /\ rotations = [j \in Jtis |-> 0]

-----------------------------------------------------------------------------
\* Signing in

\* The account is read and found in order, long before the session is made.
ReadAccount(l) ==
    /\ logins[l] = 0
    /\ enabled
    /\ logins' = [logins EXCEPT ![l] = generation]
    /\ UNCHANGED <<generation, enabled, rowLocks, userLock, sessions, credentials,
                   lastJti, requests, kept, rotations>>

\* The session is inserted and the token carries the generation read before.
IssueSession(l, s) ==
    /\ logins[l] # 0
    /\ sessions[s].row = "unused"
    /\ lastJti < MaxJti
    /\ lastJti' = lastJti + 1
    /\ sessions' = [sessions EXCEPT ![s] =
           [row |-> "live", cur |-> lastJti + 1, prev |-> 0,
            revoked |-> FALSE, expired |-> FALSE, recent |-> TRUE]]
    /\ credentials' = credentials \cup {[sid |-> s, jti |-> lastJti + 1, gen |-> logins[l]]}
    /\ logins' = [logins EXCEPT ![l] = 0]
    /\ UNCHANGED <<generation, enabled, rowLocks, userLock, requests, kept, rotations>>

\* The second factor, the signing or the insert fails.
AbandonLogin(l) ==
    /\ logins[l] # 0
    /\ logins' = [logins EXCEPT ![l] = 0]
    /\ UNCHANGED <<generation, enabled, rowLocks, userLock, sessions, credentials,
                   lastJti, requests, kept, rotations>>

-----------------------------------------------------------------------------
\* Refreshing

\* Forge's classification of a token against the session row.
ClassifyRefresh(c, same) ==
    LET row == sessions[c.sid]
    IN  IF row.row # "live" \/ row.revoked THEN "Unavailable"
        ELSE IF row.expired THEN "Expired"
        ELSE IF c.jti = row.cur THEN "Rotate"
        ELSE IF c.jti = row.prev /\ row.recent /\ same THEN "Stale"
        ELSE "ReuseDetected"

\* The account comes before the session.
Decide(c, same) ==
    IF ~enabled THEN "AccountDisabled"
    ELSE IF c.gen # generation THEN "Unavailable"
    ELSE ClassifyRefresh(c, same)

\* The lock of the user row is waited for, where there is one.
MayLockUser == ~rowLocks \/ userLock = Free

\* Mutant: the rows stay.
AllDeleted_None == sessions

AllDeleted == [s \in Sids |->
    IF sessions[s].row = "live" THEN [sessions[s] EXCEPT !.row = "gone"] ELSE sessions[s]]

\* bump_session_version and delete_all_for_user; at the largest generation
\* the bump fails and the transaction is rolled back.
MayBump == generation < MaxGeneration
RevokeEverything ==
    /\ generation' = IF MayBump THEN generation + 1 ELSE generation
    /\ sessions' = IF MayBump THEN AllDeleted ELSE sessions

\* The first step of rotate_refresh.  A reuse is rejected, and the account's
\* sessions are revoked, in the same transaction.  The other rejections change
\* nothing.
PresentToken(r, c, same) ==
    /\ requests[r] = IdleRequest
    /\ c \in credentials
    /\ MayLockUser
    /\ \/ /\ Decide(c, same) = "Rotate"
          /\ requests' = [requests EXCEPT ![r] = [phase |-> "rotating", cred |-> c, same |-> same]]
          /\ userLock' = IF rowLocks THEN r ELSE Free
          /\ UNCHANGED <<generation, sessions>>
       \/ /\ Decide(c, same) = "ReuseDetected"
          /\ RevokeEverything
          /\ UNCHANGED <<requests, userLock>>
    /\ UNCHANGED <<enabled, rowLocks, credentials, lastJti, logins, kept, rotations>>

\* Mutant: whichever token the row has by now.
RotateFence_AnyJti(c) ==
    /\ sessions[c.sid].row = "live"
    /\ ~sessions[c.sid].revoked

\* The row the conditional update of rotate_refresh_fenced finds.
RotateFence(c) ==
    /\ sessions[c.sid].row = "live"
    /\ sessions[c.sid].cur = c.jti
    /\ ~sessions[c.sid].revoked

Rotated(c) ==
    [sessions EXCEPT ![c.sid] =
        [row |-> sessions[c.sid].row, cur |-> lastJti + 1, prev |-> c.jti,
         revoked |-> sessions[c.sid].revoked, expired |-> FALSE, recent |-> TRUE]]

EndTransaction(r) == userLock' = IF userLock = r THEN Free ELSE userLock

\* The second step: the update and the commit.  Its answer may be lost, and
\* then no token is released.
RotateFenced(r) ==
    LET c == requests[r].cred
    IN  /\ requests[r].phase = "rotating"
        /\ lastJti < MaxJti
        /\ RotateFence(c)
        /\ sessions' = Rotated(c)
        /\ lastJti' = lastJti + 1
        /\ rotations' = [rotations EXCEPT ![c.jti] = @ + 1]
        /\ \/ credentials' = credentials \cup {[sid |-> c.sid, jti |-> lastJti + 1, gen |-> c.gen]}
           \/ credentials' = credentials
        /\ requests' = [requests EXCEPT ![r] = IdleRequest]
        /\ EndTransaction(r)
        /\ UNCHANGED <<generation, enabled, rowLocks, logins, kept>>

\* No row was updated: RefreshStoreOutcome::Conflict.
LoseFence(r) ==
    /\ requests[r].phase = "rotating"
    /\ ~RotateFence(requests[r].cred)
    /\ requests' = [requests EXCEPT ![r] = [requests[r] EXCEPT !.phase = "conflict"]]
    /\ EndTransaction(r)
    /\ UNCHANGED <<generation, enabled, rowLocks, sessions, credentials, lastJti,
                   logins, kept, rotations>>

\* The database fails and the transaction is rolled back.
RollBackRefresh(r) ==
    /\ requests[r].phase = "rotating"
    /\ requests' = [requests EXCEPT ![r] = IdleRequest]
    /\ EndTransaction(r)
    /\ UNCHANGED <<generation, enabled, rowLocks, sessions, credentials, lastJti,
                   logins, kept, rotations>>

\* resolve_conflict decides again in a transaction of its own; a decision to
\* rotate is the error "unresolved refresh rotation conflict".
ResolveConflict(r) ==
    LET q == requests[r]
        d == Decide(q.cred, q.same)
    IN  /\ q.phase = "conflict"
        /\ MayLockUser
        /\ requests' = [requests EXCEPT ![r] =
               IF d = "Rotate" THEN [q EXCEPT !.phase = "unresolved"] ELSE IdleRequest]
        /\ IF d = "ReuseDetected" THEN RevokeEverything ELSE UNCHANGED <<generation, sessions>>
        /\ UNCHANGED <<enabled, rowLocks, userLock, credentials, lastJti, logins, kept, rotations>>

-----------------------------------------------------------------------------
\* Ending sessions

RevokedBut(keep) == [s \in Sids |->
    IF sessions[s].row = "live" /\ s \notin keep THEN [sessions[s] EXCEPT !.revoked = TRUE]
    ELSE sessions[s]]

\* revoke_refresh_token: by the current token only.
Logout(c) ==
    /\ c \in credentials
    /\ RotateFence(c)
    /\ sessions' = RevokedBut(Sids \ {c.sid})
    /\ UNCHANGED <<generation, enabled, rowLocks, userLock, credentials, lastJti,
                   requests, logins, kept, rotations>>

\* revoke_auth_session
RevokeSession(s) ==
    /\ sessions[s].row = "live" /\ ~sessions[s].revoked
    /\ sessions' = RevokedBut(Sids \ {s})
    /\ UNCHANGED <<generation, enabled, rowLocks, userLock, credentials, lastJti,
                   requests, logins, kept, rotations>>

\* revoke_other_auth_sessions, from session s
RevokeOthers(s) ==
    /\ sessions[s].row = "live" /\ ~sessions[s].revoked
    /\ sessions' = RevokedBut({s})
    /\ UNCHANGED <<generation, enabled, rowLocks, userLock, credentials, lastJti,
                   requests, logins, kept, rotations>>

\* revoke_user_sessions, set_password and reset_user_mfa
EndGeneration ==
    /\ MayLockUser
    /\ RevokeEverything
    /\ UNCHANGED <<enabled, rowLocks, userLock, credentials, lastJti, requests,
                   logins, kept, rotations>>

\* An administrator changes the status.  The change is decided from a row read
\* before the transaction; one that others have overtaken acts as ChangeStatus
\* or as EndGeneration does.
ChangeStatus ==
    /\ MayLockUser
    /\ RevokeEverything
    /\ enabled' = IF MayBump THEN ~enabled ELSE enabled
    /\ UNCHANGED <<rowLocks, userLock, credentials, lastJti, requests, logins, kept, rotations>>

\* An administrator sets the status that the row has when it is read ...
KeepStatus ==
    /\ kept = {}
    /\ kept' = {enabled}
    /\ UNCHANGED <<generation, enabled, rowLocks, userLock, sessions, credentials,
                   lastJti, requests, logins, rotations>>

\* ... which is written without ending sessions, whatever it is by then.
SaveKept ==
    /\ MayLockUser
    /\ kept # {}
    /\ enabled' \in kept
    /\ kept' = {}
    /\ UNCHANGED <<generation, rowLocks, userLock, sessions, credentials, lastJti,
                   requests, logins, rotations>>

\* delete_expired
CleanupExpired ==
    /\ \E s \in Sids : sessions[s].row = "live" /\ sessions[s].expired
    /\ sessions' = [s \in Sids |->
           IF sessions[s].row = "live" /\ sessions[s].expired
           THEN [sessions[s] EXCEPT !.row = "gone"] ELSE sessions[s]]
    /\ UNCHANGED <<generation, enabled, rowLocks, userLock, credentials, lastJti,
                   requests, logins, kept, rotations>>

\* Time passes: the stale window closes, and later the token expires.
SessionAges(s) ==
    /\ sessions[s].row = "live"
    /\ ~sessions[s].expired
    /\ sessions' = [sessions EXCEPT ![s] =
           IF sessions[s].recent THEN [sessions[s] EXCEPT !.recent = FALSE]
           ELSE [sessions[s] EXCEPT !.expired = TRUE]]
    /\ UNCHANGED <<generation, enabled, rowLocks, userLock, credentials, lastJti,
                   requests, logins, kept, rotations>>

RefreshNext ==
    \/ \E l \in Logins :
          \/ ReadAccount(l)
          \/ \E s \in Sids : IssueSession(l, s)
          \/ AbandonLogin(l)
    \/ \E r \in Requests :
          \/ \E c \in credentials, same \in BOOLEAN : PresentToken(r, c, same)
          \/ RotateFenced(r)
          \/ LoseFence(r)
          \/ RollBackRefresh(r)
          \/ ResolveConflict(r)
    \/ \E c \in credentials : Logout(c)
    \/ \E s \in Sids : RevokeSession(s) \/ RevokeOthers(s) \/ SessionAges(s)
    \/ EndGeneration
    \/ ChangeStatus \/ KeepStatus \/ SaveKept
    \/ CleanupExpired

RefreshSpec == RefreshInit /\ [][RefreshNext]_rsVars

-----------------------------------------------------------------------------
\* Types, and the lock of the user row is held by a refresh in its transaction
\* (rotate_refresh) and only where the database has row locks.
RefreshTypeOK ==
    /\ generation \in 1..MaxGeneration
    /\ enabled \in BOOLEAN
    /\ rowLocks \in BOOLEAN
    /\ userLock \in Requests \cup {Free}
    /\ sessions \in [Sids -> Session]
    /\ credentials \subseteq Credential
    /\ lastJti \in 0..MaxJti
    /\ requests \in [Requests -> RefreshRequest]
    /\ logins \in [Logins -> 0..MaxGeneration]
    /\ kept \subseteq BOOLEAN
    /\ rotations \in [Jtis -> Nat]
    /\ userLock # Free => rowLocks /\ requests[userLock].phase = "rotating"

\* A refresh token is exchanged at most once, however many requests present it
\* at the same time and whether or not the database locks rows: the
\* conditional update of rotate_refresh_fenced consumes it.
RotatesOnce == \A j \in Jtis : rotations[j] <= 1

\* A token is exchanged only while its session stands: not revoked and of the
\* account's present generation, although that was decided before the update
\* and sessions end in between (rotate_refresh against revoke_auth_session,
\* set_password).  That the account is active is up to the row lock: a status
\* written back by an update that saw no change ends no session.
RefreshNeedsStanding ==
    [][\A c \in credentials : rotations'[c.jti] # rotations[c.jti] =>
          /\ rowLocks => enabled /\ enabled'
          /\ c.gen = generation /\ generation' = generation
          /\ ~sessions[c.sid].revoked]_rsVars

\* A refresh that lost its update finds the reason when it decides again: the
\* error branch of resolve_conflict is never taken.
ConflictResolves == \A r \in Requests : requests[r].phase # "unresolved"
=============================================================================
