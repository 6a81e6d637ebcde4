---------------------------- MODULE SignInProofs ----------------------------
(***************************************************************************)
(* Proofs about RefreshSessions and MfaLogin: a refresh token and a second *)
(* factor are each good for one session.                                   *)
(***************************************************************************)
EXTENDS RefreshSessions, MfaLogin, FiniteSetTheorems, WellFoundedInduction, TLAPS

\* Steps that name no prover are Zenon's; arithmetic goes to Z3, by two routes.
USE ZenonT(60)

-----------------------------------------------------------------------------
(***************************************************************************)
(* Proofs about RefreshSessions, for any number of sessions, requests and  *)
(* sign-ins and with or without row locks.                                 *)
(*                                                                         *)
(* A token is exchanged once because it is then no session's current token *)
(* and never becomes one again: tokens are made in increasing order.  A    *)
(* decision to rotate outlives the end of a generation only together with  *)
(* a session row that is gone, and an update that found no row can never   *)
(* find one later.                                                         *)
(***************************************************************************)
\* Tokens that clients hold were made, for sessions that were made.
Known ==
    \A c \in credentials : c.jti <= lastJti /\ sessions[c.sid].row # "unused"

OneHolder == \A c, d \in credentials : c.jti = d.jti => c = d

Fresh == \A j \in Jtis : j > lastJti => rotations[j] = 0

\* The current token of a session has not been exchanged and is no other's.
Current ==
    \A s \in Sids : sessions[s].row = "live" =>
        /\ sessions[s].cur \in 1..lastJti
        /\ rotations[sessions[s].cur] = 0
        /\ \A u \in Sids : sessions[u].row = "live" /\ sessions[u].cur = sessions[s].cur => u = s

HeldByClients ==
    \A r \in Requests : requests[r].phase # "idle" => requests[r].cred \in credentials

Standing ==
    \A r \in Requests :
        requests[r].phase = "rotating" /\ sessions[requests[r].cred.sid].row = "live" =>
            requests[r].cred.gen = generation /\ (rowLocks => enabled)

\* Where rows are locked, a refresh in its transaction has the user's.
Held == \A r \in Requests : requests[r].phase = "rotating" /\ rowLocks => userLock = r

Beaten == \A r \in Requests : requests[r].phase = "conflict" => ~RotateFence(requests[r].cred)

SessionInv ==
    /\ RefreshTypeOK
    /\ Known /\ OneHolder /\ Fresh /\ Current
    /\ HeldByClients /\ Standing /\ Held /\ Beaten
    /\ RotatesOnce
    /\ ConflictResolves

\* A step that only ends sessions.
Ends ==
    /\ sessions' \in [Sids -> Session]
    /\ \A s \in Sids :
          /\ sessions'[s].cur = sessions[s].cur
          /\ sessions'[s].row = sessions[s].row \/ (sessions[s].row = "live" /\ sessions'[s].row = "gone")
          /\ sessions[s].revoked => sessions'[s].revoked

\* The account is as it was, or no refresh has its row locked and the status
\* is written, or no session is left.
AccountKept ==
    \/ UNCHANGED <<generation, enabled>>
    \/ MayLockUser /\ UNCHANGED generation
    \/ \A s \in Sids : sessions'[s].row # "live"

\* Ending sessions, and with them perhaps the generation, keeps what relates
\* tokens, sessions and requests, while requests only end.
LEMMA EndingKeeps ==
    ASSUME SessionInv, Ends, AccountKept,
           UNCHANGED <<credentials, lastJti, rotations, rowLocks>>,
           \A r \in Requests :
              \/ requests'[r] = requests[r] /\ (userLock = r => userLock' = r)
              \/ requests'[r] = IdleRequest
    PROVE  /\ Known' /\ OneHolder' /\ Fresh' /\ Current'
           /\ HeldByClients' /\ Standing' /\ Held' /\ Beaten'
           /\ RotatesOnce' /\ ConflictResolves'
  <1> USE DEF SessionInv
  <1>0. credentials \subseteq Credential
    BY DEF RefreshTypeOK
  <1>1. Known' /\ OneHolder' /\ Fresh'
    BY SMTT(60), Z3T(60), <1>0 DEF Known, OneHolder, Fresh, Ends, Credential
  <1>2. Current'
    BY SMTT(60), Z3T(60) DEF Current, Ends
  <1>3. ASSUME NEW r \in Requests, requests'[r].phase # "idle"
        PROVE  requests'[r] = requests[r] /\ requests[r].cred \in credentials
               /\ requests[r].cred.sid \in Sids
    BY SMTT(60), Z3T(60), <1>0, <1>3 DEF HeldByClients, IdleRequest, Credential
  <1>4. HeldByClients'
    BY <1>3 DEF HeldByClients
  <1>5. Standing' /\ Held'
    <2>1. Held'
      BY SMTT(60), Z3T(60), <1>3 DEF Held, IdleRequest
    <2>2. ASSUME NEW r \in Requests, requests'[r].phase = "rotating",
                 sessions'[requests'[r].cred.sid].row = "live"
          PROVE  requests'[r].cred.gen = generation' /\ (rowLocks' => enabled')
      <3>1. /\ requests[r].phase = "rotating" /\ requests'[r] = requests[r]
            /\ requests[r].cred.sid \in Sids
        BY <1>3, <2>2
      <3>2. sessions[requests[r].cred.sid].row = "live"
        BY <2>2, <3>1 DEF Ends
      <3>3. requests[r].cred.gen = generation /\ (rowLocks => enabled /\ userLock = r)
        BY <3>1, <3>2 DEF Standing, Held
      <3>4. rowLocks => ~MayLockUser
        BY <3>3, RefreshAssumption DEF MayLockUser
      <3> QED
        BY SMTT(60), Z3T(60), <2>2, <3>1, <3>3, <3>4 DEF AccountKept
    <2> QED
      BY <2>1, <2>2 DEF Standing
  <1>6. Beaten'
    BY SMTT(60), Z3T(60), <1>3 DEF Beaten, Ends, RotateFence
  <1>7. RotatesOnce'
    BY DEF RotatesOnce
  <1>8. ConflictResolves'
    BY <1>3 DEF ConflictResolves
  <1> QED
    BY <1>1, <1>2, <1>4, <1>5, <1>6, <1>7, <1>8

\* Every kind of revocation is such a step.
LEMMA RevokingEnds ==
    ASSUME RefreshTypeOK
    PROVE  /\ \A keep \in SUBSET Sids : sessions' = RevokedBut(keep) => Ends
           /\ sessions' = sessions => Ends
           /\ sessions' = AllDeleted => Ends /\ \A s \in Sids : sessions'[s].row # "live"
  <1>0. sessions \in [Sids -> Session]
    BY DEF RefreshTypeOK
  <1>1. ASSUME NEW s \in Sids
        PROVE  /\ [sessions[s] EXCEPT !.revoked = TRUE] \in Session
               /\ [sessions[s] EXCEPT !.row = "gone"] \in Session
    BY <1>0 DEF Session
  <1>2. ASSUME NEW keep \in SUBSET Sids, sessions' = RevokedBut(keep) PROVE Ends
    BY ZenonT(60), <1>0, <1>1, <1>2 DEF RevokedBut, Ends, Session
  <1>3. ASSUME sessions' = sessions PROVE Ends
    BY <1>0, <1>3 DEF Ends
  <1>4. ASSUME sessions' = AllDeleted PROVE Ends /\ \A s \in Sids : sessions'[s].row # "live"
    BY <1>0, <1>1, <1>4 DEF AllDeleted, Ends, Session
  <1> QED
    BY <1>2, <1>3, <1>4

\* Revoking everything, with or without a generation left, is such a step.
LEMMA EverythingEnds ==
    ASSUME RefreshTypeOK, RevokeEverything
    PROVE  /\ Ends
           /\ UNCHANGED generation \/ \A s \in Sids : sessions'[s].row # "live"
           /\ generation' \in 1..MaxGeneration
  BY SMTT(60), Z3T(60), RevokingEnds, RefreshAssumption DEF RevokeEverything, MayBump, RefreshTypeOK

\* Steps that leave tokens and requests alone, or end requests, and end
\* sessions or none.
LEMMA PlainSteps ==
    ASSUME SessionInv,
           \/ \E l \in Logins : ReadAccount(l) \/ AbandonLogin(l)
           \/ \E c \in credentials : Logout(c)
           \/ \E s \in Sids : RevokeSession(s) \/ RevokeOthers(s) \/ SessionAges(s)
           \/ EndGeneration \/ ChangeStatus \/ KeepStatus \/ SaveKept \/ CleanupExpired
           \/ \E r \in Requests : RollBackRefresh(r)
           \/ UNCHANGED rsVars
    PROVE  SessionInv'
  <1> USE DEF SessionInv
  <1>0. /\ sessions \in [Sids -> Session] /\ requests \in [Requests -> RefreshRequest]
        /\ generation \in 1..MaxGeneration /\ logins \in [Logins -> 0..MaxGeneration]
        /\ credentials \subseteq Credential /\ kept \subseteq BOOLEAN /\ enabled \in BOOLEAN
        /\ userLock \in Requests \cup {Free}
        /\ userLock # Free => rowLocks /\ requests[userLock].phase = "rotating"
    BY DEF RefreshTypeOK
  <1> DEFINE Rest == /\ UNCHANGED <<credentials, lastJti, rotations, rowLocks>>
                     /\ generation' \in 1..MaxGeneration /\ enabled' \in BOOLEAN
                     /\ logins' \in [Logins -> 0..MaxGeneration]
                     /\ kept' \subseteq BOOLEAN
             Calm == UNCHANGED <<requests, userLock>>
  <1>1. ASSUME Ends, AccountKept, Rest, Calm PROVE SessionInv'
    <2>1. RefreshTypeOK'
      BY <1>1 DEF RefreshTypeOK, Ends
    <2> QED
      BY <1>1, <2>1, EndingKeeps
  <1>2. CASE \E l \in Logins : ReadAccount(l) \/ AbandonLogin(l)
    <2>1. Rest /\ Calm /\ AccountKept /\ sessions' = sessions
      BY SMTT(60), Z3T(60), <1>0, <1>2, RefreshAssumption DEF ReadAccount, AbandonLogin, AccountKept, RefreshTypeOK
    <2> QED
      BY <1>1, <2>1, RevokingEnds
  <1>3. CASE \E c \in credentials : Logout(c)
    <2>1. PICK c \in credentials : Logout(c)
      BY <1>3
    <2>2. Sids \ {c.sid} \in SUBSET Sids
      OBVIOUS
    <2>3. Rest /\ Calm /\ AccountKept /\ sessions' = RevokedBut(Sids \ {c.sid})
      BY <1>0, <2>1 DEF Logout, AccountKept, RefreshTypeOK
    <2> QED
      BY <1>1, <2>2, <2>3, RevokingEnds
  <1>4. CASE \E s \in Sids : RevokeSession(s) \/ RevokeOthers(s)
    <2>1. PICK s \in Sids : RevokeSession(s) \/ RevokeOthers(s)
      BY <1>4
    <2>2. Sids \ {s} \in SUBSET Sids /\ {s} \in SUBSET Sids
      OBVIOUS
    <2>3. /\ Rest /\ Calm /\ AccountKept
          /\ sessions' = RevokedBut(Sids \ {s}) \/ sessions' = RevokedBut({s})
      BY <1>0, <2>1 DEF RevokeSession, RevokeOthers, AccountKept, RefreshTypeOK
    <2> QED
      BY <1>1, <2>2, <2>3, RevokingEnds
  <1>5. CASE \E s \in Sids : SessionAges(s)
    <2>1. PICK s \in Sids : SessionAges(s)
      BY <1>5
    <2>2. /\ [sessions[s] EXCEPT !.recent = FALSE] \in Session
          /\ [sessions[s] EXCEPT !.expired = TRUE] \in Session
      BY <1>0 DEF Session
    <2>3. Rest /\ Calm /\ AccountKept
      BY <1>0, <2>1 DEF SessionAges, AccountKept, RefreshTypeOK
    <2>4. Ends
      BY <1>0, <2>1, <2>2 DEF SessionAges, Ends, Session
    <2> QED
      BY <1>1, <2>3, <2>4
  <1>6. CASE EndGeneration \/ ChangeStatus
    <2>1. Rest /\ Calm /\ RevokeEverything
      BY <1>0, <1>6, EverythingEnds DEF EndGeneration, ChangeStatus, RefreshTypeOK
    <2>2. Ends /\ AccountKept
      BY <1>6, <2>1, EverythingEnds
         DEF EndGeneration, ChangeStatus, AccountKept, RefreshTypeOK, RevokeEverything, MayBump,
             AllDeleted
    <2> QED
      BY <1>1, <2>1, <2>2
  <1>7. CASE CleanupExpired
    <2>1. \A s \in Sids : [sessions[s] EXCEPT !.row = "gone"] \in Session
      BY <1>0 DEF Session
    <2>2. Rest /\ Calm /\ AccountKept
      BY <1>0, <1>7 DEF CleanupExpired, AccountKept, RefreshTypeOK
    <2>3. Ends
      BY <1>0, <1>7, <2>1 DEF CleanupExpired, Ends, Session
    <2> QED
      BY <1>1, <2>2, <2>3
  <1>8. CASE \E r \in Requests : RollBackRefresh(r)
    <2>1. PICK r \in Requests : RollBackRefresh(r)
      BY <1>8
    <2>2. Rest /\ AccountKept /\ sessions' = sessions
      BY <1>0, <2>1 DEF RollBackRefresh, AccountKept, RefreshTypeOK
    <2>3. requests' = [requests EXCEPT ![r] = IdleRequest]
          /\ userLock' = IF userLock = r THEN Free ELSE userLock
      BY <2>1 DEF RollBackRefresh, EndTransaction
    <2>4. RefreshTypeOK'
      BY <1>0, <2>2, <2>3 DEF RefreshTypeOK, RefreshRequest
    <2>5. \A q \in Requests : \/ requests'[q] = requests[q] /\ (userLock = q => userLock' = q)
                              \/ requests'[q] = IdleRequest
      BY <1>0, <2>3
    <2> QED
      BY <2>2, <2>4, <2>5, EndingKeeps, RevokingEnds
  <1>9. CASE UNCHANGED rsVars
    <2>1. Rest /\ Calm /\ AccountKept /\ sessions' = sessions
      BY <1>0, <1>9 DEF rsVars, AccountKept, RefreshTypeOK
    <2> QED
      BY <1>1, <2>1, RevokingEnds
  <1>10. CASE KeepStatus \/ SaveKept
    <2>1. Rest /\ Calm /\ AccountKept /\ sessions' = sessions
      BY <1>0, <1>10 DEF KeepStatus, SaveKept, AccountKept, RefreshTypeOK
    <2> QED
      BY <1>1, <2>1, RevokingEnds
  <1> QED
    BY <1>2, <1>3, <1>4, <1>5, <1>6, <1>7, <1>8, <1>9, <1>10

\* A new session has a token nobody has seen.
LEMMA IssueSteps ==
    ASSUME SessionInv, NEW l \in Logins, NEW s \in Sids, IssueSession(l, s)
    PROVE  SessionInv'
  <1> USE DEF SessionInv
  <1> DEFINE new == [sid |-> s, jti |-> lastJti + 1, gen |-> logins[l]]
             row == [row |-> "live", cur |-> lastJti + 1, prev |-> 0,
                     revoked |-> FALSE, expired |-> FALSE, recent |-> TRUE]
  <1>0. /\ sessions \in [Sids -> Session] /\ requests \in [Requests -> RefreshRequest]
        /\ credentials \subseteq Credential /\ lastJti \in 0..MaxJti
        /\ logins \in [Logins -> 0..MaxGeneration] /\ rotations \in [Jtis -> Nat]
    BY DEF RefreshTypeOK
  <1>1. /\ lastJti < MaxJti /\ lastJti' = lastJti + 1
        /\ sessions[s].row = "unused" /\ logins[l] # 0
        /\ sessions' = [sessions EXCEPT ![s] = row]
        /\ credentials' = credentials \cup {new}
        /\ logins' = [logins EXCEPT ![l] = 0]
        /\ UNCHANGED <<generation, enabled, rowLocks, userLock, requests, kept, rotations>>
    BY DEF IssueSession
  <1>2. new \in Credential /\ row \in Session
    BY SMTT(60), Z3T(60), <1>0, <1>1, RefreshAssumption DEF Credential, Session, Jtis
  <1>3. RefreshTypeOK'
    BY SMTT(60), Z3T(60), <1>0, <1>1, <1>2, RefreshAssumption DEF RefreshTypeOK
  <1>4. \A c \in credentials : c.sid \in Sids /\ c.jti \in Jtis /\ c.jti <= lastJti /\ c.sid # s
    BY <1>0, <1>1 DEF Known, Credential
  <1>5. Known'
    BY SMTT(60), Z3T(60), <1>0, <1>1, <1>4 DEF Known, Jtis
  <1>6. OneHolder'
    BY SMTT(60), Z3T(60), <1>0, <1>1, <1>4 DEF OneHolder, Jtis
  <1>7. Fresh' /\ RotatesOnce'
    BY SMTT(60), Z3T(60), <1>0, <1>1 DEF Fresh, RotatesOnce, Jtis
  <1>8. Current'
    <2>1. rotations[lastJti + 1] = 0
      BY SMTT(60), Z3T(60), <1>0, <1>1, RefreshAssumption DEF Fresh, Jtis
    <2>2. \A u \in Sids : sessions'[u] = IF u = s THEN row ELSE sessions[u]
      BY <1>0, <1>1
    <2> QED
      BY SMTT(60), Z3T(60), <1>0, <1>1, <2>1, <2>2 DEF Current
  <1>9. HeldByClients' /\ Standing' /\ Held' /\ Beaten' /\ ConflictResolves'
    BY <1>0, <1>1, <1>4 DEF HeldByClients, Standing, Held, Beaten, ConflictResolves, RotateFence
  <1> QED
    BY <1>3, <1>5, <1>6, <1>7, <1>8, <1>9

\* A request that may rotate stands; a reuse ends everything.
LEMMA PresentSteps ==
    ASSUME SessionInv, NEW r \in Requests, NEW c \in credentials, NEW same \in BOOLEAN,
           PresentToken(r, c, same)
    PROVE  SessionInv'
  <1> USE DEF SessionInv
  <1>0. /\ sessions \in [Sids -> Session] /\ requests \in [Requests -> RefreshRequest]
        /\ credentials \subseteq Credential /\ c \in Credential
        /\ userLock \in Requests \cup {Free}
        /\ userLock # Free => rowLocks /\ requests[userLock].phase = "rotating"
    BY DEF RefreshTypeOK
  <1>1. CASE Decide(c, same) = "Rotate" /\ UNCHANGED <<generation, sessions>>
    <2> DEFINE q == [phase |-> "rotating", cred |-> c, same |-> same]
    <2>1. /\ requests' = [requests EXCEPT ![r] = q]
          /\ userLock' = IF rowLocks THEN r ELSE Free
          /\ MayLockUser
          /\ UNCHANGED <<enabled, rowLocks, credentials, lastJti, logins, kept, rotations>>
      BY <1>1 DEF PresentToken, Decide
    <2>2. enabled /\ c.gen = generation
      BY <1>1 DEF Decide
    <2>3. RefreshTypeOK'
      BY <1>0, <1>1, <2>1 DEF RefreshTypeOK, RefreshRequest
    <2>4. \A p \in Requests : requests'[p] = IF p = r THEN q ELSE requests[p]
      BY <1>0, <2>1
    <2>5. Known' /\ OneHolder' /\ Fresh' /\ Current' /\ RotatesOnce'
      BY <1>1, <2>1 DEF Known, OneHolder, Fresh, Current, RotatesOnce
    <2>6. HeldByClients' /\ Standing' /\ ConflictResolves'
      BY SMTT(60), Z3T(60), <1>1, <2>1, <2>2, <2>4 DEF HeldByClients, Standing, ConflictResolves
    <2>7. Beaten'
      BY SMTT(60), Z3T(60), <1>1, <2>1, <2>4 DEF Beaten, RotateFence
    <2>8. Held'
      BY <2>1, <2>4, RefreshAssumption DEF Held, MayLockUser
    <2> QED
      BY <2>3, <2>5, <2>6, <2>7, <2>8
  <1>2. CASE RevokeEverything /\ UNCHANGED <<requests, userLock>>
    <2>1. UNCHANGED <<enabled, rowLocks, credentials, lastJti, logins, kept, rotations>>
      BY DEF PresentToken
    <2>2. Ends /\ AccountKept /\ generation' \in 1..MaxGeneration
      BY <1>2, <2>1, EverythingEnds DEF AccountKept
    <2>3. RefreshTypeOK'
      BY <1>2, <2>1, <2>2 DEF RefreshTypeOK, Ends
    <2> QED
      BY <1>2, <2>1, <2>2, <2>3, EndingKeeps
  <1> QED
    BY <1>1, <1>2 DEF PresentToken

\* The exchange: the old token is no session's current one any more, the new
\* one is fresh.
LEMMA RotateSteps ==
    ASSUME SessionInv, NEW r \in Requests, RotateFenced(r)
    PROVE  /\ SessionInv'
           /\ rowLocks => enabled /\ enabled'
           /\ generation' = generation
           /\ requests[r].cred \in credentials /\ requests[r].cred.gen = generation
           /\ ~sessions[requests[r].cred.sid].revoked
           /\ rotations' = [rotations EXCEPT ![requests[r].cred.jti] = @ + 1]
  <1> USE DEF SessionInv
  <1> DEFINE c == requests[r].cred
             new == [sid |-> c.sid, jti |-> lastJti + 1, gen |-> c.gen]
             row == [row |-> sessions[c.sid].row, cur |-> lastJti + 1, prev |-> c.jti,
                     revoked |-> sessions[c.sid].revoked, expired |-> FALSE, recent |-> TRUE]
  <1>0. /\ sessions \in [Sids -> Session] /\ requests \in [Requests -> RefreshRequest]
        /\ credentials \subseteq Credential /\ lastJti \in 0..MaxJti
        /\ rotations \in [Jtis -> Nat] /\ userLock \in Requests \cup {Free}
        /\ userLock # Free => rowLocks /\ requests[userLock].phase = "rotating"
    BY DEF RefreshTypeOK
  <1>1. /\ requests[r].phase = "rotating" /\ lastJti < MaxJti /\ lastJti' = lastJti + 1
        /\ sessions[c.sid].row = "live" /\ sessions[c.sid].cur = c.jti /\ ~sessions[c.sid].revoked
        /\ sessions' = [sessions EXCEPT ![c.sid] = row]
        /\ rotations' = [rotations EXCEPT ![c.jti] = @ + 1]
        /\ credentials' = credentials \cup {new} \/ credentials' = credentials
        /\ requests' = [requests EXCEPT ![r] = IdleRequest]
        /\ userLock' = IF userLock = r THEN Free ELSE userLock
        /\ UNCHANGED <<generation, enabled, rowLocks, logins, kept>>
    BY DEF RotateFenced, RotateFence, Rotated, EndTransaction
  <1>2. c \in credentials /\ c \in Credential
    BY <1>0, <1>1 DEF HeldByClients
  <1>3. c.sid \in Sids /\ c.jti \in Jtis /\ c.gen \in 1..MaxGeneration /\ c.jti <= lastJti
    BY <1>2 DEF Credential, Known
  <1> HIDE DEF c
  <1>4. new \in Credential /\ row \in Session
    BY SMTT(60), Z3T(60), <1>0, <1>1, <1>3, RefreshAssumption DEF Credential, Session, Jtis
  <1>5. /\ \A u \in Sids : sessions'[u] = IF u = c.sid THEN row ELSE sessions[u]
        /\ \A p \in Requests : requests'[p] = IF p = r THEN IdleRequest ELSE requests[p]
        /\ \A j \in Jtis : rotations'[j] = IF j = c.jti THEN rotations[j] + 1 ELSE rotations[j]
    BY <1>0, <1>1, <1>3
  <1>6. (rowLocks => enabled) /\ c.gen = generation
    BY <1>1 DEF Standing, c
  <1>7. RefreshTypeOK'
    <2>1. sessions' \in [Sids -> Session]
      BY <1>0, <1>1, <1>4
    <2>2. credentials' \subseteq Credential
      BY <1>0, <1>1, <1>4
    <2>3. rotations' \in [Jtis -> Nat]
      BY SMTT(60), Z3T(60), <1>0, <1>1, <1>3
    <2>4. requests' \in [Requests -> RefreshRequest]
      BY <1>0, <1>1 DEF RefreshRequest
    <2>5. lastJti' \in 0..MaxJti
      BY SMTT(60), Z3T(60), <1>0, <1>1, RefreshAssumption
    <2>6. userLock' \in Requests \cup {Free}
          /\ (userLock' # Free => rowLocks' /\ requests'[userLock'].phase = "rotating")
      BY <1>0, <1>1, <1>5
    <2> QED
      BY <1>1, <2>1, <2>2, <2>3, <2>4, <2>5, <2>6 DEF RefreshTypeOK
  <1>8. \A d \in credentials : d.sid \in Sids /\ d.jti \in Jtis /\ d.jti <= lastJti
    BY <1>0 DEF Known, Credential
  <1>9. Known' /\ OneHolder'
    <2>1. Known'
      BY SMTT(60), Z3T(60), <1>0, <1>1, <1>3, <1>5, <1>8 DEF Known, Jtis
    <2>2. OneHolder'
      BY SMTT(60), Z3T(60), <1>0, <1>1, <1>8 DEF OneHolder, Jtis
    <2> QED
      BY <2>1, <2>2
  <1>10. rotations[c.jti] = 0
    BY <1>1, <1>3 DEF Current
  <1>11. Fresh' /\ RotatesOnce'
    BY SMTT(60), Z3T(60), <1>0, <1>1, <1>3, <1>5, <1>10 DEF Fresh, RotatesOnce, Jtis
  <1>12. Current'
    <2>1. lastJti + 1 \in Jtis /\ rotations[lastJti + 1] = 0
      BY SMTT(60), Z3T(60), <1>0, <1>1, RefreshAssumption DEF Fresh, Jtis
    <2>2. \A u \in Sids : u # c.sid /\ sessions[u].row = "live" => sessions[u].cur # c.jti
      BY <1>1, <1>3 DEF Current
    <2>3. \A u \in Sids : sessions[u].row = "live" =>
             sessions[u].cur \in Jtis /\ sessions[u].cur <= lastJti
      BY SMTT(60), Z3T(60), <1>0, RefreshAssumption DEF Current, Jtis
    <2>4. rotations'[lastJti + 1] = 0
      BY SMTT(60), Z3T(60), <1>0, <1>3, <1>5, <2>1 DEF Jtis
    <2>5. ASSUME NEW u \in Sids, sessions'[u].row = "live"
          PROVE  sessions'[u].cur \in 1..lastJti' /\ rotations'[sessions'[u].cur] = 0
      <3>1. CASE u = c.sid
        BY SMTT(60), Z3T(60), <1>0, <1>1, <1>5, <2>4, <3>1
      <3>2. CASE u # c.sid
        <4>1. sessions'[u] = sessions[u] /\ sessions[u].row = "live"
          BY <1>5, <2>5, <3>2
        <4>2. /\ sessions[u].cur \in 1..lastJti /\ rotations[sessions[u].cur] = 0
              /\ sessions[u].cur \in Jtis /\ sessions[u].cur # c.jti
          BY <2>2, <2>3, <3>2, <4>1 DEF Current
        <4>3. rotations'[sessions[u].cur] = 0
          BY <1>5, <4>2
        <4>4. \A j \in 1..lastJti : j \in 1..lastJti'
          BY SMTT(60), Z3T(60), <1>0, <1>1
        <4> QED BY <4>1, <4>2, <4>3, <4>4
      <3> QED
        BY <3>1, <3>2
    <2>6. ASSUME NEW u \in Sids, NEW v \in Sids, sessions'[u].row = "live",
                 sessions'[v].row = "live", sessions'[u].cur = sessions'[v].cur
          PROVE  u = v
      <3>1. \A w \in Sids : sessions[w].row = "live" => sessions[w].cur # lastJti + 1
        BY SMTT(60), Z3T(60), <1>0, <2>3 DEF Jtis
      <3>2. row.cur = lastJti + 1 /\ row.row = sessions[c.sid].row
        OBVIOUS
      <3> HIDE DEF row
      <3>3. \A w \in Sids : \/ w = c.sid /\ sessions'[w] = row
                            \/ w # c.sid /\ sessions'[w] = sessions[w]
        BY <1>5
      <3> QED BY <2>6, <3>1, <3>2, <3>3 DEF Current
    <2> QED
      BY <2>5, <2>6 DEF Current
  <1>13. \A p \in Requests : requests'[p].phase # "idle" =>
            /\ requests'[p] = requests[p] /\ requests[p].cred \in credentials
            /\ requests[p].cred.sid \in Sids /\ requests[p].cred.jti \in Jtis
            /\ requests[p].cred.jti <= lastJti
    BY SMTT(60), Z3T(60), <1>5, <1>8 DEF HeldByClients, IdleRequest
  <1>14. HeldByClients' /\ ConflictResolves'
    BY <1>1, <1>13 DEF HeldByClients, ConflictResolves
  <1>15. Standing' /\ Held'
    <2>1. \A u \in Sids : sessions'[u].row = sessions[u].row
      <3>1. row.row = sessions[c.sid].row
        OBVIOUS
      <3> HIDE DEF row
      <3>2. \A u \in Sids : (sessions'[u] = row /\ u = c.sid) \/ sessions'[u] = sessions[u]
        BY <1>5
      <3> QED BY <3>1, <3>2
    <2>2. requests'[r].phase # "rotating"
      <3>1. requests'[r] = IdleRequest
        BY <1>0, <1>1
      <3>2. IdleRequest.phase # "rotating"
        BY DEF IdleRequest
      <3> QED BY <3>1, <3>2
    <2>3. Standing'
      BY <1>1, <1>13, <2>1 DEF Standing
    <2>4. ASSUME NEW p \in Requests, requests'[p].phase = "rotating", rowLocks'
          PROVE  userLock' = p
      <3>1. p # r /\ userLock = p
        BY <1>1, <1>13, <2>2, <2>4 DEF Held
      <3> QED BY <1>1, <3>1
    <2> QED BY <2>3, <2>4 DEF Held
  <1>16. Beaten'
    <2>1. \A j \in Jtis : j <= lastJti => j # lastJti + 1
      BY SMTT(60), Z3T(60), <1>0 DEF Jtis
    <2>2. ASSUME NEW p \in Requests, requests'[p].phase = "conflict"
          PROVE  /\ requests'[p].cred = requests[p].cred
                 /\ ~RotateFence(requests[p].cred)'
      <3>1. /\ requests'[p] = requests[p] /\ ~RotateFence(requests[p].cred)
            /\ requests[p].cred.sid \in Sids /\ requests[p].cred.jti # lastJti + 1
        BY <1>13, <2>1, <2>2 DEF Beaten
      <3>2. CASE requests[p].cred.sid = c.sid
        <4>1. row.cur = lastJti + 1
          OBVIOUS
        <4> HIDE DEF row
        <4>2. sessions'[c.sid] = row /\ requests[p].cred' = requests[p].cred
          BY <1>5, <3>1, <3>2
        <4> QED BY <3>1, <3>2, <4>1, <4>2 DEF RotateFence
      <3>3. CASE requests[p].cred.sid # c.sid
        <4>1. /\ sessions'[requests[p].cred.sid] = sessions[requests[p].cred.sid]
              /\ requests[p].cred' = requests[p].cred
          BY <1>5, <3>1, <3>3
        <4> QED BY <3>1, <4>1 DEF RotateFence
      <3> QED BY <3>2, <3>3
    <2> QED BY <2>2 DEF Beaten
  <1> QED
    BY <1>1, <1>2, <1>6, <1>7, <1>9, <1>11, <1>12, <1>14, <1>15, <1>16 DEF c

\* A request whose update found no row, and its second decision.
LEMMA ConflictSteps ==
    ASSUME SessionInv, NEW r \in Requests, LoseFence(r) \/ ResolveConflict(r)
    PROVE  SessionInv'
  <1> USE DEF SessionInv
  <1>0. /\ sessions \in [Sids -> Session] /\ requests \in [Requests -> RefreshRequest]
        /\ credentials \subseteq Credential /\ userLock \in Requests \cup {Free}
        /\ userLock # Free => rowLocks /\ requests[userLock].phase = "rotating"
    BY DEF RefreshTypeOK
  <1>1. CASE LoseFence(r)
    <2> DEFINE q == [requests[r] EXCEPT !.phase = "conflict"]
    <2>1. /\ requests[r].phase = "rotating" /\ ~RotateFence(requests[r].cred)
          /\ requests' = [requests EXCEPT ![r] = q]
          /\ userLock' = IF userLock = r THEN Free ELSE userLock
          /\ UNCHANGED <<generation, enabled, rowLocks, sessions, credentials, lastJti,
                         logins, kept, rotations>>
      BY <1>1 DEF LoseFence, EndTransaction
    <2>2. q \in RefreshRequest /\ q.phase = "conflict" /\ q.cred = requests[r].cred
      BY SMTT(60), Z3T(60), <1>0, <2>1 DEF RefreshRequest, IdleRequest
    <2> HIDE DEF q
    <2>3. \A p \in Requests : requests'[p] = IF p = r THEN q ELSE requests[p]
      BY <1>0, <2>1
    <2>4. RefreshTypeOK'
      <3>1. requests' \in [Requests -> RefreshRequest]
        BY <1>0, <2>1, <2>2
      <3>2. userLock' \in Requests \cup {Free}
            /\ (userLock' # Free => rowLocks' /\ requests'[userLock'].phase = "rotating")
        BY <1>0, <2>1, <2>3
      <3> QED
        BY <2>1, <3>1, <3>2 DEF RefreshTypeOK
    <2>5. Known' /\ OneHolder' /\ Fresh' /\ Current' /\ RotatesOnce'
      BY <2>1 DEF Known, OneHolder, Fresh, Current, RotatesOnce
    <2>6. HeldByClients' /\ ConflictResolves'
      BY SMTT(60), Z3T(60), <2>1, <2>2, <2>3 DEF HeldByClients, ConflictResolves
    <2>7. Standing' /\ Held'
      BY <2>1, <2>2, <2>3 DEF Standing, Held
    <2>8. Beaten'
      <3>1. ASSUME NEW p \in Requests, requests'[p].phase = "conflict"
            PROVE  ~RotateFence(requests'[p].cred)
        <4>1. CASE p = r
          BY <2>1, <2>2, <2>3, <4>1
        <4>2. CASE p # r
          BY <2>3, <3>1, <4>2 DEF Beaten
        <4> QED BY <4>1, <4>2
      <3> QED BY <2>1, <3>1 DEF Beaten, RotateFence
    <2> QED
      BY <2>4, <2>5, <2>6, <2>7, <2>8
  <1>2. CASE ResolveConflict(r)
    <2>1. requests[r].phase = "conflict" /\ ~RotateFence(requests[r].cred)
      BY <1>2 DEF ResolveConflict, Beaten
    <2>2. Decide(requests[r].cred, requests[r].same) # "Rotate"
      BY <2>1 DEF Decide, ClassifyRefresh, RotateFence
    <2>3. /\ requests' = [requests EXCEPT ![r] = IdleRequest]
          /\ RevokeEverything \/ UNCHANGED <<generation, sessions>>
          /\ UNCHANGED <<enabled, rowLocks, userLock, credentials, lastJti, logins, kept, rotations>>
      BY <1>2, <2>2 DEF ResolveConflict
    <2>4. Ends /\ AccountKept /\ generation' \in 1..MaxGeneration
      BY <2>3, EverythingEnds, RevokingEnds DEF AccountKept, RefreshTypeOK
    <2>5. \A p \in Requests : requests'[p] = IF p = r THEN IdleRequest ELSE requests[p]
      BY <1>0, <2>3
    <2>6. RefreshTypeOK'
      <3>1. requests' \in [Requests -> RefreshRequest]
        BY <1>0, <2>3 DEF RefreshRequest
      <3>2. userLock' # Free => rowLocks' /\ requests'[userLock'].phase = "rotating"
        BY <1>0, <2>1, <2>3, <2>5
      <3> QED
        BY <2>3, <2>4, <3>1, <3>2 DEF RefreshTypeOK, Ends
    <2> QED
      BY <2>3, <2>4, <2>5, <2>6, EndingKeeps
  <1> QED
    BY <1>1, <1>2

\* Every step preserves the invariant, one lemma per group of actions.
LEMMA SessionInvStep == SessionInv /\ [RefreshNext]_rsVars => SessionInv'
  BY PlainSteps, IssueSteps, PresentSteps, RotateSteps, ConflictSteps DEF RefreshNext

\* No token, session or request at the start.
LEMMA SessionInvInit == RefreshInit => SessionInv
  BY SMTT(60), Z3T(60), RefreshAssumption
     DEF RefreshInit, SessionInv, RefreshTypeOK, Known, OneHolder, Fresh, Current, HeldByClients,
         Standing, Held, Beaten, RotatesOnce, ConflictResolves, Unused, Session, RefreshRequest,
         IdleRequest, Jtis, Credential

\* The inductive invariant holds throughout.
LEMMA SessionInvariant == RefreshSpec => []SessionInv
  BY SessionInvInit, SessionInvStep, PTL DEF RefreshSpec

\* A refresh token is exchanged at most once (rotate_refresh_fenced), however
\* many requests present it, with or without row locks.
THEOREM TokensRotateOnce == RefreshSpec => []RotatesOnce
  <1>1. SessionInv => RotatesOnce
    BY DEF SessionInv
  <1> QED
    BY <1>1, SessionInvariant, PTL

\* The error branch of resolve_conflict is unreachable.
THEOREM ConflictsResolve == RefreshSpec => []ConflictResolves
  <1>1. SessionInv => ConflictResolves
    BY DEF SessionInv
  <1> QED
    BY <1>1, SessionInvariant, PTL

\* rotate_refresh exchanges a token only while session and generation stand, and
\* the account where rows are locked, although it decided that earlier.
THEOREM RefreshesStand == RefreshSpec => RefreshNeedsStanding
  <1> DEFINE Stands(c) == /\ rowLocks => enabled /\ enabled'
                          /\ c.gen = generation /\ generation' = generation
                          /\ ~sessions[c.sid].revoked
             Step == \A c \in credentials : rotations'[c.jti] # rotations[c.jti] => Stands(c)
  <1>1. SessionInv /\ [RefreshNext]_rsVars => Step
    <2> SUFFICES ASSUME SessionInv, [RefreshNext]_rsVars PROVE Step
      OBVIOUS
    <2>1. CASE \E r \in Requests : RotateFenced(r)
      <3>1. PICK r \in Requests : RotateFenced(r)
        BY <2>1
      <3>2. PICK d \in credentials : Stands(d) /\ rotations' = [rotations EXCEPT ![d.jti] = @ + 1]
        BY <3>1, RotateSteps
      <3>3. rotations \in [Jtis -> Nat] /\ credentials \subseteq Credential
        BY DEF SessionInv, RefreshTypeOK
      <3>4. ASSUME NEW c \in credentials, rotations'[c.jti] # rotations[c.jti] PROVE c = d
        BY <3>2, <3>3, <3>4 DEF Credential, SessionInv, OneHolder
      <3> QED
        BY <3>2, <3>4
    <2>2. CASE ~\E r \in Requests : RotateFenced(r)
      <3>1. rotations' = rotations
        BY <2>2 DEF RefreshNext, rsVars, ReadAccount, IssueSession, AbandonLogin, PresentToken,
                    LoseFence, RollBackRefresh, ResolveConflict, Logout, RevokeSession,
                    RevokeOthers, SessionAges, EndGeneration, ChangeStatus, KeepStatus, SaveKept,
                    CleanupExpired
      <3> QED
        BY <3>1
    <2> QED
      BY <2>1, <2>2
  <1> QED
    BY <1>1, SessionInvariant, PTL DEF RefreshSpec, RefreshNeedsStanding

-----------------------------------------------------------------------------
(***************************************************************************)
(* Proofs about MfaLogin, for any number of login flows, requests, mails   *)
(* and recovery codes, every attempt budget and a lag of at most two       *)
(* authenticator steps: a code pays once, a flow issues one session, and   *)
(* failed attempts are counted.                                            *)
(* The invariant joins each code's number of uses to the row that          *)
(* remembers them, and each flow's attempts to the requests that read them.*)
(***************************************************************************)
\* The requests that have read the flow and are about to write what they decided.
Deciders(f) == {v \in Verifiers : verifiers[v].phase = "deciding" /\ verifiers[v].flow = f}

\* The history counters are numbers.
Counters ==
    /\ uses \in [Code -> Nat]
    /\ entered \in [Flows -> Nat]
    /\ failures \in [Flows -> Nat]

\* A request decides within MaxLag steps of its reading of the clock.
Clocked ==
    \A v \in Verifiers : verifiers[v].phase = "deciding" =>
        verifiers[v].at <= clock /\ clock <= verifiers[v].at + MaxLag

\* A code that was found to be valid is the presented one.
Matched ==
    \A v \in Verifiers :
        /\ verifiers[v].phase \in {"prepared", "deciding"}
        /\ verifiers[v].code[1] \in {"recovery", "email"}
        /\ verifiers[v].prep.is = "valid"
        => verifiers[v].prep.id = verifiers[v].code[2] /\ verifiers[v].code[2] # 0

\* What a code has paid for, and the row that remembers it.
RecoveryPaid ==
    \A r \in 1..MaxRecovery :
        /\ uses[<<"recovery", r>>] <= 1
        /\ recovery[r] \in {"none", "unused"} => uses[<<"recovery", r>>] = 0
        /\ recovery[r] = "used" => uses[<<"recovery", r>>] = 1

MailPaid ==
    \A e \in 1..MaxMails :
        /\ uses[<<"email", e>>] <= 1
        /\ mails[e].row \in {"none", "open"} => uses[<<"email", e>>] = 0

StepPaid ==
    \A s \in 1..MaxStep :
        /\ uses[<<"totp", s>>] <= 1
        /\ factor /\ uses[<<"totp", s>>] = 1 => s \in usedSteps \/ s < clock - 3

\* A flow that has issued a session is over.
Over ==
    \A f \in Flows :
        /\ entered[f] <= 1
        /\ flows[f].row \in {"none", "open"} => entered[f] = 0

\* Wrong attempts and the requests that may still add one.
Tried ==
    \A f \in Flows :
        /\ flows[f].row = "none" => failures[f] = 0 /\ Deciders(f) = {}
        /\ flows[f].row = "open" => flows[f].attempts = failures[f]
        /\ failures[f] + Cardinality(Deciders(f)) < MfaMaxAttempts + Cardinality(Verifiers)

\* The inductive invariant.
MfaInv ==
    /\ MfaTypeOK /\ Counters
    /\ Clocked /\ Matched
    /\ RecoveryPaid /\ MailPaid /\ StepPaid
    /\ Over /\ Tried

-----------------------------------------------------------------------------
\* The parts of a code.
LEMMA CodeParts ==
  ASSUME NEW c \in AnyCode
  PROVE  /\ c = <<c[1], c[2]>> /\ c[2] \in Nat
         /\ c[1] = "totp" => c[2] \in 1..MaxStep /\ c \in Code
         /\ c[1] = "recovery" /\ c[2] # 0 => c[2] \in 1..MaxRecovery /\ c \in Code
         /\ c[1] = "email" /\ c[2] # 0 => c[2] \in 1..MaxMails /\ c \in Code
BY SMTT(60), Z3T(60), MfaAssumption DEF AnyCode, Code

\* The codes that are counted.
LEMMA CodesAre ==
  /\ \A r \in 1..MaxRecovery : <<"recovery", r>> \in Code
  /\ \A e \in 1..MaxMails : <<"email", e>> \in Code
  /\ \A s \in 1..MaxStep : <<"totp", s>> \in Code
  /\ \A c \in Code : \/ \E r \in 1..MaxRecovery : c = <<"recovery", r>>
                     \/ \E e \in 1..MaxMails : c = <<"email", e>>
                     \/ \E s \in 1..MaxStep : c = <<"totp", s>>
BY SMTT(60), Z3T(60) DEF Code

\* Paying with a code that has not paid yet.
LEMMA Paying ==
  ASSUME Counters, NEW c \in Code, uses[c] = 0, uses' = [uses EXCEPT ![c] = @ + 1]
  PROVE  /\ uses' \in [Code -> Nat] /\ uses'[c] = 1
         /\ \A d \in Code : d # c => uses'[d] = uses[d]
BY SMTT(60), Z3T(60) DEF Counters

\* The number of requests that decide on a flow.
LEMMA FiniteDeciders ==
  \A f \in Flows : /\ IsFiniteSet(Deciders(f)) /\ Cardinality(Deciders(f)) \in Nat
                   /\ Cardinality(Deciders(f)) <= Cardinality(Verifiers)
                   /\ Cardinality(Verifiers) \in Nat
<1> SUFFICES ASSUME NEW f \in Flows
             PROVE  /\ IsFiniteSet(Deciders(f)) /\ Cardinality(Deciders(f)) \in Nat
                    /\ Cardinality(Deciders(f)) <= Cardinality(Verifiers)
                    /\ Cardinality(Verifiers) \in Nat
  OBVIOUS
<1>1. Deciders(f) \in SUBSET Verifiers /\ IsFiniteSet(Verifiers)
  BY MfaAssumption DEF Deciders
<1> QED BY <1>1, FS_Subset, FS_CardinalityType

\* No step brings a flow back.
FlowsAge ==
    \A f \in Flows :
        \/ flows'[f] = flows[f]
        \/ flows[f].row = "none" /\ flows'[f].row = "open" /\ flows'[f].attempts = 0
        \/ flows[f].row = "open" /\ flows'[f].row = "open" /\ flows'[f].attempts = flows[f].attempts
        \/ flows[f].row # "none" /\ flows'[f].row \in {"consumed", "gone"}

\* Sessions that were issued stay the only ones.
LEMMA OverKept ==
  ASSUME Over, FlowsAge, entered' = entered
  PROVE  Over'
BY DEF Over, FlowsAge

\* Fewer requests that decide, and attempts as they were.
LEMMA TriedKept ==
  ASSUME Counters, Tried, FlowsAge, failures' = failures,
         \A f \in Flows : Deciders(f)' \subseteq Deciders(f)
  PROVE  Tried'
<1> SUFFICES ASSUME NEW f \in Flows
             PROVE  /\ flows'[f].row = "none" => failures'[f] = 0 /\ Deciders(f)' = {}
                    /\ flows'[f].row = "open" => flows'[f].attempts = failures'[f]
                    /\ failures'[f] + Cardinality(Deciders(f)') <
                          MfaMaxAttempts + Cardinality(Verifiers)
  BY DEF Tried
<1>1. Cardinality(Deciders(f)') \in Nat /\ Cardinality(Deciders(f)') <= Cardinality(Deciders(f))
  BY FiniteDeciders, FS_Subset, FS_CardinalityType
<1>2. failures[f] \in Nat /\ Cardinality(Deciders(f)) \in Nat /\ Cardinality(Verifiers) \in Nat
  BY FiniteDeciders DEF Counters
<1> QED BY SMTT(60), Z3T(60), <1>1, <1>2, MfaAssumption DEF Tried, FlowsAge

\* A request is at rest, or prepared: nobody new decides.
LEMMA VerifierRests ==
  ASSUME MfaTypeOK, Clocked, Matched, NEW v \in Verifiers, NEW w \in Verifier,
         verifiers' = [verifiers EXCEPT ![v] = w], clock' = clock,
         \/ w = Waiting
         \/ /\ w.phase = "prepared"
            /\ w.code[1] \in {"recovery", "email"} /\ w.prep.is = "valid" =>
                  w.prep.id = w.code[2] /\ w.code[2] # 0
  PROVE  /\ verifiers' \in [Verifiers -> Verifier]
         /\ Clocked' /\ Matched'
         /\ \A f \in Flows : Deciders(f)' \subseteq Deciders(f)
<1>1. /\ verifiers' \in [Verifiers -> Verifier] /\ verifiers'[v] = w
      /\ \A u \in Verifiers : u # v => verifiers'[u] = verifiers[u]
  BY DEF MfaTypeOK
<1>2. w.phase # "deciding" /\ (w.phase = "prepared" => w # Waiting)
  BY SMTT(60), Z3T(60) DEF Waiting
<1>3. Clocked'
  BY <1>1, <1>2 DEF Clocked
<1>4. Matched'
  BY <1>1, <1>2 DEF Matched, Waiting
<1>5. \A f \in Flows : Deciders(f)' \subseteq Deciders(f)
  BY <1>1, <1>2 DEF Deciders
<1> QED BY <1>1, <1>3, <1>4, <1>5

\* Steps that leave the requests and the clock alone.
LEMMA VerifiersStay ==
  ASSUME verifiers' = verifiers, clock' = clock
  PROVE  /\ Clocked => Clocked'
         /\ Matched => Matched'
         /\ \A f \in Flows : Deciders(f)' \subseteq Deciders(f)
BY DEF Clocked, Matched, Deciders

\* Steps that pay for nothing and forget nothing.
LEMMA NothingPaid ==
  ASSUME RecoveryPaid, MailPaid, StepPaid, uses' = uses, recovery' = recovery,
         usedSteps' = usedSteps, factor' = factor, clock' = clock,
         \A e \in 1..MaxMails : mails[e].row \in {"none", "open"} \/ mails'[e].row = "spent"
  PROVE  RecoveryPaid' /\ MailPaid' /\ StepPaid'
<1>1. RecoveryPaid'
  BY DEF RecoveryPaid
<1>2. StepPaid'
  BY DEF StepPaid
<1>3. MailPaid'
  BY DEF MailPaid
<1> QED BY <1>1, <1>2, <1>3

\* A step of the clock: recorded steps are none the older for it.
LEMMA ClockSteps ==
  ASSUME MfaInv, StepPasses
  PROVE  MfaInv'
<1> USE DEF MfaInv
<1>1. /\ clock \in 1..MaxStep /\ clock < MaxStep /\ clock' = clock + 1
      /\ UNCHANGED <<scene, version, factor, flows, mails, recovery, usedSteps,
                     verifiers, senders, uses, entered, failures>>
      /\ \A v \in Verifiers : verifiers[v].phase = "deciding" => clock < verifiers[v].at + MaxLag
  BY DEF StepPasses, MfaTypeOK
<1>2. MaxStep \in Nat /\ MaxLag \in Nat
  BY MfaAssumption
<1>3. MfaTypeOK' /\ Counters'
  BY SMTT(60), Z3T(60), <1>1, <1>2 DEF MfaTypeOK, Counters
<1>4. Clocked'
  <2>1. \A v \in Verifiers : verifiers[v].phase = "deciding" => verifiers[v].at \in Nat
    BY SMTT(60), Z3T(60) DEF MfaTypeOK, Verifier, Waiting
  <2> QED BY SMTT(60), Z3T(60), <1>1, <1>2, <2>1 DEF Clocked
<1>5. Matched' /\ RecoveryPaid' /\ MailPaid' /\ Over'
  BY <1>1 DEF Matched, RecoveryPaid, MailPaid, Over
<1>6. StepPaid'
  <2>1. \A s \in 1..MaxStep : s < clock - 3 => s < clock' - 3
    BY SMTT(60), Z3T(60), <1>1, <1>2
  <2> QED BY  <1>1, <2>1 DEF StepPaid
<1>7. Tried'
  BY <1>1 DEF Tried, Deciders
<1> QED BY <1>3, <1>4, <1>5, <1>6, <1>7

\* Flows that begin, expire and are cleaned up, and codes that age.
LEMMA FlowSteps ==
  ASSUME MfaInv,
         \/ \E f \in Flows : CreateLoginFlow(f) \/ FlowExpires(f)
         \/ \E e \in 1..MaxMails : MailAges(e)
         \/ CleanupExpiredFlows
  PROVE  MfaInv'
<1> USE DEF MfaInv
<1>1. UNCHANGED <<version, factor, clock, recovery, usedSteps, verifiers, senders, uses,
                  entered, failures>>
  BY DEF CreateLoginFlow, FlowExpires, MailAges, CleanupExpiredFlows
<1>2. MaxVersion \in Nat /\ MaxVersion > 0 /\ MfaMaxAttempts \in Nat
      /\ Cardinality(Verifiers) \in Nat
  BY MfaAssumption, FS_CardinalityType
<1>3. flows' \in [Flows -> Flow] /\ FlowsAge
  <2>1. ASSUME NEW f \in Flows, CreateLoginFlow(f) PROVE flows' \in [Flows -> Flow] /\ FlowsAge
    <3>1. PICK n \in 1..version : flows' = [flows EXCEPT ![f] = [row |-> "open", version |-> n,
                                        attempts |-> 0, expired |-> FALSE]]
      BY  <2>1 DEF CreateLoginFlow
    <3> DEFINE w == [row |-> "open", version |-> n, attempts |-> 0, expired |-> FALSE]
    <3>2. w \in Flow /\ w.row = "open" /\ w.attempts = 0
      BY SMTT(60), Z3T(60), <1>2 DEF Flow, MfaTypeOK
    <3>3. flows' = [flows EXCEPT ![f] = w]
      BY <3>1
    <3>4. flows[f].row = "none"
      BY SMTT(60), Z3T(60), <2>1 DEF CreateLoginFlow, NoFlow
    <3> HIDE DEF w
    <3> QED BY <3>2, <3>3, <3>4 DEF MfaTypeOK, FlowsAge
  <2>2. ASSUME NEW f \in Flows, FlowExpires(f) PROVE flows' \in [Flows -> Flow] /\ FlowsAge
    <3> DEFINE w == [flows[f] EXCEPT !.expired = TRUE]
    <3>1. flows[f].row = "open" /\ flows' = [flows EXCEPT ![f] = w]
      BY <2>2 DEF FlowExpires
    <3>2. w \in Flow /\ w.row = "open" /\ w.attempts = flows[f].attempts
      <4>1. flows[f] \in [row : {"open"}, version : 1..MaxVersion,
              attempts : 0..(MfaMaxAttempts + Cardinality(Verifiers)), expired : BOOLEAN]
        BY SMTT(60), Z3T(60), <3>1 DEF MfaTypeOK, Flow, NoFlow, ConsumedFlow, GoneFlow
      <4>2. /\ w \in [row : {"open"}, version : 1..MaxVersion,
              attempts : 0..(MfaMaxAttempts + Cardinality(Verifiers)), expired : BOOLEAN]
            /\ w.row = "open" /\ w.attempts = flows[f].attempts
        BY  <4>1
      <4> QED BY <4>2 DEF Flow
    <3> HIDE DEF w
    <3> QED BY <3>1, <3>2 DEF MfaTypeOK, FlowsAge
  <2>3. CASE \E e \in 1..MaxMails : MailAges(e)
    BY <2>3 DEF MailAges, MfaTypeOK, FlowsAge
  <2>4. CASE CleanupExpiredFlows
    <3>1. PICK old \in SUBSET {f \in Flows : flows[f] = ConsumedFlow} :
         flows' = [f \in Flows |->
             IF f \in old \/ (flows[f].row = "open" /\ flows[f].expired)
             THEN GoneFlow ELSE flows[f]]
      BY <2>4 DEF CleanupExpiredFlows
    <3>2. \A f \in Flows : flows'[f] = flows[f] \/ (flows'[f] = GoneFlow /\ flows[f].row # "none")
      BY SMTT(60), Z3T(60), <3>1 DEF ConsumedFlow
    <3> QED BY <3>1, <3>2 DEF MfaTypeOK, FlowsAge, Flow, GoneFlow
  <2> QED BY <2>1, <2>2, <2>3, <2>4
<1>4. /\ mails' \in [1..MaxMails -> Mail]
      /\ \A e \in 1..MaxMails : mails[e].row \in {"none", "open"} \/ mails'[e].row = "spent"
  <2>0. \A e \in 1..MaxMails : mails[e] \in Mail /\ mails[e].row \in {"none", "open", "spent"}
    BY SMTT(60), Z3T(60) DEF MfaTypeOK, Mail, NoMail, SpentMail
  <2>1. ASSUME NEW f \in Flows, CreateLoginFlow(f) PROVE mails' = mails
    BY <2>1 DEF CreateLoginFlow
  <2>2. ASSUME NEW e \in Open
        PROVE  /\ [mails[e] EXCEPT !.expired = TRUE] \in Mail
               /\ [mails[e] EXCEPT !.cooling = FALSE] \in Mail
    BY  <2>0 DEF Open, Mail, NoMail, SpentMail
  <2>3. ASSUME NEW f \in Flows, FlowExpires(f)
        PROVE  /\ mails' \in [1..MaxMails -> Mail]
               /\ \A e \in 1..MaxMails : mails[e].row = "spent" => mails'[e] = mails[e]
    <3>1. mails' = [e \in 1..MaxMails |->
             IF e \in Open /\ mails[e].flow = f
             THEN [mails[e] EXCEPT !.expired = TRUE] ELSE mails[e]]
      BY <2>3 DEF FlowExpires
    <3>2. \A e \in 1..MaxMails : mails'[e] \in Mail
      BY  <2>0, <2>2, <3>1
    <3>3. \A e \in 1..MaxMails : mails[e].row = "spent" => mails'[e] = mails[e]
      BY <3>1 DEF Open
    <3> QED BY <3>1, <3>2, <3>3
  <2>4. ASSUME NEW e \in 1..MaxMails, MailAges(e)
        PROVE  /\ mails' \in [1..MaxMails -> Mail]
               /\ \A d \in 1..MaxMails : mails[d].row = "spent" => mails'[d] = mails[d]
    <3>1. e \in Open
      BY <2>4 DEF MailAges
    <3>2. PICK m \in Mail : mails' = [mails EXCEPT ![e] = m]
      BY  <2>2, <2>4, <3>1 DEF MailAges
    <3> QED BY <3>1, <3>2 DEF MfaTypeOK, Open
  <2>5. CASE CleanupExpiredFlows
    <3>1. mails' = [e \in 1..MaxMails |->
           IF e \in Open /\ mails[e].expired THEN SpentMail ELSE mails[e]]
      BY <2>5 DEF CleanupExpiredFlows
    <3> QED BY <2>0, <3>1 DEF Mail, SpentMail
  <2> QED BY  <2>0, <2>1, <2>3, <2>4, <2>5 DEF MfaTypeOK
<1>5. RecoveryPaid' /\ MailPaid' /\ StepPaid'
  BY <1>1, <1>4, NothingPaid
<1>6. Clocked' /\ Matched' /\ \A f \in Flows : Deciders(f)' \subseteq Deciders(f)
  BY <1>1, VerifiersStay
<1>7. Over'
  BY <1>1, <1>3, OverKept
<1>8. Tried'
  BY <1>1, <1>3, <1>6, TriedKept
<1>9. MfaTypeOK' /\ Counters'
  BY <1>1, <1>3, <1>4 DEF MfaTypeOK, Counters
<1> QED BY <1>5, <1>6, <1>7, <1>8, <1>9

\* Codes that are asked for by mail.
LEMMA SendSteps ==
  ASSUME MfaInv, NEW s \in Senders,
         \/ \E f \in Flows : CheckSend(s, f)
         \/ SaveCode(s) \/ MailFails(s) \/ EndSend(s)
  PROVE  MfaInv'
<1> USE DEF MfaInv
<1>1. UNCHANGED <<version, factor, clock, flows, recovery, usedSteps, verifiers, uses,
                  entered, failures>>
  BY DEF CheckSend, SaveCode, MailFails, EndSend
<1>0. \A e \in 1..MaxMails : mails[e] \in Mail /\ mails[e].row \in {"none", "open", "spent"}
  BY SMTT(60), Z3T(60) DEF MfaTypeOK, Mail, NoMail, SpentMail
<1>2. SpentMail \in Mail /\ SpentMail.row = "spent" /\ Waiting \in Sender
  BY DEF Mail, SpentMail, Sender
<1>3. /\ mails' \in [1..MaxMails -> Mail] /\ senders' \in [Senders -> Sender]
      /\ \A e \in 1..MaxMails : mails[e].row \in {"none", "open"} \/ mails'[e].row = "spent"
  <2>1. ASSUME NEW f \in Flows, CheckSend(s, f)
        PROVE  mails' = mails /\ senders' \in [Senders -> Sender]
    <3>1. [phase |-> "checked", flow |-> f] \in Sender
      BY DEF Sender
    <3> QED BY <2>1, <3>1 DEF CheckSend, MfaTypeOK
  <2>2. CASE SaveCode(s)
    <3>1. PICK e \in 1..MaxMails :
            /\ mails[e] = NoMail
            /\ mails' = [d \in 1..MaxMails |->
                  IF d = e THEN [row |-> "open", flow |-> senders[s].flow,
                                 expired |-> FALSE, cooling |-> TRUE]
                  ELSE IF d \in Open /\ ~mails[d].expired THEN SpentMail ELSE mails[d]]
            /\ senders' = [senders EXCEPT ![s] = [phase |-> "mailing", mail |-> e]]
      BY <2>2, ZenonT(60) DEF SaveCode
    <3>2. senders[s].flow \in Flows
      BY SMTT(60), Z3T(60), <2>2 DEF SaveCode, MfaTypeOK, Sender, Waiting
    <3> DEFINE m == [row |-> "open", flow |-> senders[s].flow, expired |-> FALSE,
                     cooling |-> TRUE]
    <3>3. m \in Mail
      BY <3>2 DEF Mail
    <3>4. mails' = [d \in 1..MaxMails |->
                  IF d = e THEN m
                  ELSE IF d \in Open /\ ~mails[d].expired THEN SpentMail ELSE mails[d]]
      BY <3>1
    <3> HIDE DEF m
    <3>5. \A d \in 1..MaxMails : mails'[d] \in Mail
      BY <1>0, <1>2, <3>3, <3>4
    <3>6. \A d \in 1..MaxMails : mails[d].row = "spent" => mails'[d] = mails[d]
      BY SMTT(60), Z3T(60), <3>1, <3>4 DEF Open, NoMail
    <3>7. [phase |-> "mailing", mail |-> e] \in Sender
      BY DEF Sender
    <3> QED BY  <1>0, <3>1, <3>4, <3>5, <3>6, <3>7 DEF MfaTypeOK
  <2>3. CASE MailFails(s)
    <3>1. PICK e : mails' = Consumed(e)
      BY <2>3 DEF MailFails
    <3>2. senders' \in [Senders -> Sender]
      BY <1>2, <2>3 DEF MailFails, MfaTypeOK
    <3> QED BY <1>0, <1>2, <3>1, <3>2 DEF Consumed, MfaTypeOK, Open
  <2>4. CASE EndSend(s)
    BY <1>0, <1>2, <2>4 DEF EndSend, MfaTypeOK
  <2> QED BY <1>0, <2>1, <2>2, <2>3, <2>4, ZenonT(60) DEF MfaTypeOK
<1>5. RecoveryPaid' /\ MailPaid' /\ StepPaid'
  BY <1>1, <1>3, NothingPaid
<1>6. Clocked' /\ Matched' /\ \A f \in Flows : Deciders(f)' \subseteq Deciders(f)
  BY <1>1, VerifiersStay
<1>7. FlowsAge
  BY <1>1 DEF FlowsAge
<1>8. Over' /\ Tried'
  BY <1>1, <1>6, <1>7, OverKept, TriedKept
<1>9. MfaTypeOK' /\ Counters'
  BY <1>1, <1>3 DEF MfaTypeOK, Counters
<1> QED BY <1>5, <1>6, <1>8, <1>9

-----------------------------------------------------------------------------
\* A non-empty set of natural numbers has a least element.
LEMMA LeastNumber ==
  ASSUME NEW T \in SUBSET Nat, T # {}
  PROVE  \E x \in T : \A y \in T : x <= y
<1> DEFINE R == {ss \in Nat \X Nat : ss[1] < ss[2]}
<1>1. IsWellFoundedOn(R, Nat)
  BY NatLessThanWellFounded DEF OpToRel
<1>2. PICK x \in T : \A y \in T : ~(<<y, x>> \in R)
  BY  <1>1, WFMin
<1>3. \A y \in T : ~(y < x)
  BY  <1>2
<1> QED BY SMTT(60), Z3T(60), <1>3

\* The newest of some codes is one of them.
LEMMA LatestIs ==
  ASSUME NEW n \in Nat, NEW S \in SUBSET (1..n)
  PROVE  Latest(S) \in 0..n /\ (S # {} => Latest(S) \in S)
<1>1. CASE S = {}
  BY SMTT(60), Z3T(60), <1>1 DEF Latest
<1>2. CASE S # {}
  <2> DEFINE T == {k \in Nat : \E x \in S : k = n - x}
  <2>0. \A x \in S : x \in 1..n /\ n - x \in Nat
    BY SMTT(60), Z3T(60)
  <2>1. T \in SUBSET Nat /\ T # {}
    BY  <1>2, <2>0
  <2>2. PICK k \in T : \A j \in T : k <= j
    BY  <2>1, LeastNumber
  <2>3. PICK m \in S : k = n - m
    BY <2>2
  <2>4. \A x \in S : m >= x
    <3> SUFFICES ASSUME NEW x \in S PROVE m >= x
      OBVIOUS
    <3>1. n - x \in T
      BY <2>0
    <3>2. k <= n - x
      BY <2>2, <3>1
    <3> QED BY SMTT(60), Z3T(60), <2>0, <2>3, <3>2
  <2>5. Max(S) \in S
    BY  <2>4 DEF Max
  <2>6. Latest(S) = Max(S)
    BY <1>2 DEF Latest
  <2>7. Latest(S) \in 1..n
    BY  <2>0, <2>5, <2>6
  <2> QED BY SMTT(60), Z3T(60), <2>5, <2>6, <2>7
<1> QED BY <1>1, <1>2

\* find_latest_unconsumed_for_flow finds a code or none.
LEMMA LatestForIs ==
  ASSUME NEW f
  PROVE  LatestFor(f) \in 0..MaxMails
<1>1. {e \in Open : mails[e].flow = f} \in SUBSET (1..MaxMails) /\ MaxMails \in Nat
  BY MfaAssumption DEF Open
<1> QED BY <1>1, LatestIs DEF LatestFor

\* What is prepared for a code.
LEMMA PreparationIs ==
  ASSUME MfaTypeOK, NEW f \in Flows, NEW c \in AnyCode, c[1] \in {"recovery", "email"}
  PROVE  /\ Preparation(c, f) \in Prepared
         /\ Preparation(c, f).is = "valid" => Preparation(c, f).id = c[2] /\ c[2] # 0
<1> DEFINE e == LatestFor(f)
           unused == c[1] = "recovery" /\ c[2] # 0 /\ recovery[c[2]] = "unused"
           p == [id |-> e, is |-> IF mails[e].expired THEN "expired"
                                  ELSE IF c[2] = e THEN "valid" ELSE "wrong"]
           q == [id |-> IF unused THEN c[2] ELSE 0,
                 is |-> IF unused THEN "valid" ELSE "missing"]
<1>1. Preparation(c, f) = IF c[1] = "email" /\ e # 0 THEN p ELSE q
  BY DEF Preparation
<1>2. e \in 0..MaxMails
  BY LatestForIs
<1>3. unused => c[2] \in 1..MaxRecovery
  BY CodeParts
<1> HIDE DEF e
<1>4. CASE c[1] = "email" /\ e # 0
  <2>1. p \in Prepared /\ (p.is = "valid" => p.id = c[2] /\ c[2] # 0)
    BY <1>2, <1>4 DEF Prepared
  <2> QED BY <1>1, <1>4, <2>1
<1>5. CASE ~(c[1] = "email" /\ e # 0)
  <2>1. q \in Prepared /\ (q.is = "valid" => q.id = c[2] /\ c[2] # 0)
    <3>1. CASE unused
      BY SMTT(60), Z3T(60), <1>3, <3>1 DEF Prepared
    <3>2. CASE ~unused
      BY SMTT(60), Z3T(60), <3>2, MfaAssumption DEF Prepared
    <3> QED BY <3>1, <3>2
  <2> QED BY <1>1, <1>5, <2>1
<1> QED BY <1>4, <1>5

\* Requests that prepare, are refused, dropped or find their code expired.
LEMMA PrepareSteps ==
  ASSUME MfaInv, NEW v \in Verifiers,
         \/ \E f \in Flows : Refuse(v, f) \/ \E c \in Presented : Preflight(v, f, c)
         \/ ExpiredCode(v) \/ RollBackAttempt(v)
  PROVE  MfaInv'
<1> USE DEF MfaInv
<1>1. UNCHANGED <<version, factor, clock, flows, recovery, usedSteps, senders, uses,
                  entered, failures>>
  BY DEF Refuse, Preflight, ExpiredCode, RollBackAttempt, mfaVars
<1>0. Waiting \in Verifier /\ SpentMail \in Mail /\ SpentMail.row = "spent"
      /\ \A e \in 1..MaxMails : mails[e] \in Mail /\ mails[e].row \in {"none", "open", "spent"}
  BY SMTT(60), Z3T(60) DEF Verifier, MfaTypeOK, Mail, NoMail, SpentMail
<1>2. /\ mails' \in [1..MaxMails -> Mail]
      /\ \A e \in 1..MaxMails : mails[e].row \in {"none", "open"} \/ mails'[e].row = "spent"
  <2>1. mails' = mails \/ \E e : mails' = Consumed(e)
    BY DEF Refuse, Preflight, ExpiredCode, RollBackAttempt, mfaVars
  <2> QED BY <1>0, <2>1, ZenonT(60) DEF Consumed, MfaTypeOK, Open
<1>3. /\ verifiers' \in [Verifiers -> Verifier]
      /\ Clocked' /\ Matched'
      /\ \A f \in Flows : Deciders(f)' \subseteq Deciders(f)
  <2>1. ASSUME NEW f \in Flows, Refuse(v, f) PROVE verifiers' = verifiers
    BY <2>1 DEF Refuse, mfaVars
  <2>2. ASSUME NEW f \in Flows, NEW c \in Presented, Preflight(v, f, c)
        PROVE  /\ verifiers' \in [Verifiers -> Verifier]
               /\ Clocked' /\ Matched'
               /\ \A g \in Flows : Deciders(g)' \subseteq Deciders(g)
    <3>1. c \in AnyCode /\ c[1] \in {"recovery", "email"}
      BY  <2>2 DEF Presented, Preflight
    <3>2. PICK p \in Prepared : /\ p = Preparation(c, f)
                                /\ p.is = "valid" => p.id = c[2] /\ c[2] # 0
      BY  <3>1, PreparationIs
    <3> DEFINE w == [phase |-> "prepared", flow |-> f, code |-> c, prep |-> p]
    <3>3. verifiers' = [verifiers EXCEPT ![v] = w]
      BY <2>2, <3>2 DEF Preflight
    <3>4. w \in Verifier /\ w.phase = "prepared" /\ w.code = c /\ w.prep = p
      BY  <3>1, <3>2 DEF Verifier
    <3> HIDE DEF w
    <3> QED BY  <1>1, <3>2, <3>3, <3>4, VerifierRests
  <2>3. CASE ExpiredCode(v) \/ RollBackAttempt(v)
    <3>1. verifiers' = [verifiers EXCEPT ![v] = Waiting]
      BY <2>3 DEF ExpiredCode, RollBackAttempt
    <3> QED BY <1>0, <1>1, <3>1, VerifierRests, ZenonT(60)
  <2> QED BY <1>1, <2>1, <2>2, <2>3, VerifiersStay DEF MfaTypeOK
<1>5. RecoveryPaid' /\ MailPaid' /\ StepPaid'
  BY ZenonT(60), <1>1, <1>2, NothingPaid
<1>7. FlowsAge
  BY <1>1 DEF FlowsAge
<1>8. Over' /\ Tried'
  BY <1>1, <1>3, <1>7, OverKept, TriedKept
<1>9. MfaTypeOK' /\ Counters'
  BY <1>1, <1>2, <1>3 DEF MfaTypeOK, Counters
<1> QED BY <1>3, <1>5, <1>8, <1>9

\* A request that begins to decide finds the flow usable.
LEMMA DecideSteps ==
  ASSUME MfaInv, NEW v \in Verifiers, NEW f \in Flows, NEW c \in AnyCode, NEW p \in Prepared,
         NEW e \in 0..MaxMails, Usable(f), verifiers[v].phase # "deciding",
         c[1] \in {"recovery", "email"} /\ p.is = "valid" => p.id = c[2] /\ c[2] # 0,
         verifiers' = [verifiers EXCEPT ![v] = Deciding(f, c, p, e)],
         UNCHANGED <<scene, version, factor, clock, flows, mails, recovery, usedSteps,
                     senders, uses, entered, failures>>
  PROVE  MfaInv'
<1> USE DEF MfaInv
<1> DEFINE w == Deciding(f, c, p, e)
<1>1. /\ w \in Verifier /\ w.phase = "deciding" /\ w.flow = f /\ w.code = c /\ w.prep = p
      /\ w.at = clock
  <2>1. flows[f].attempts \in 0..MfaMaxAttempts
    <3>1. /\ flows[f] \in Flow /\ flows[f].row = "open"
          /\ flows[f].attempts < MfaMaxAttempts
      BY DEF Usable, MfaTypeOK
    <3>2. flows[f].attempts \in 0..(MfaMaxAttempts + Cardinality(Verifiers))
      <4>1. flows[f] \notin {NoFlow, ConsumedFlow, GoneFlow}
        <5>1. NoFlow.row # "open" /\ ConsumedFlow.row # "open" /\ GoneFlow.row # "open"
          BY DEF NoFlow, ConsumedFlow, GoneFlow
        <5> QED BY <3>1, <5>1
      <4> QED BY <3>1, <4>1 DEF Flow
    <3>3. Cardinality(Verifiers) \in Nat
      BY MfaAssumption, FS_CardinalityType
    <3> QED BY SMTT(60), Z3T(60), <3>1, <3>2, <3>3, MfaAssumption
  <2> QED BY  <2>1 DEF Deciding, Verifier, MfaTypeOK
<1>2. /\ verifiers' \in [Verifiers -> Verifier] /\ verifiers'[v] = w
      /\ \A u \in Verifiers : u # v => verifiers'[u] = verifiers[u]
  BY <1>1 DEF MfaTypeOK
<1> HIDE DEF w
<1>3. Clocked'
  <2>1. clock \in Nat /\ MaxLag \in Nat
    BY MfaAssumption, SMTT(60), Z3T(60) DEF MfaTypeOK
  <2>2. clock <= clock /\ clock <= clock + MaxLag
    BY SMTT(60), Z3T(60), <2>1
  <2> QED BY  <1>1, <1>2, <2>2 DEF Clocked
<1>4. Matched'
  BY <1>1, <1>2, ZenonT(60) DEF Matched
<1>5. \A g \in Flows : Deciders(g)' \subseteq Deciders(g) \cup (IF g = f THEN {v} ELSE {})
  BY ZenonT(60), <1>1, <1>2 DEF Deciders
<1>6. Tried'
  <2> SUFFICES ASSUME NEW g \in Flows
               PROVE  /\ flows'[g].row = "none" => failures'[g] = 0 /\ Deciders(g)' = {}
                      /\ flows'[g].row = "open" => flows'[g].attempts = failures'[g]
                      /\ failures'[g] + Cardinality(Deciders(g)') <
                            MfaMaxAttempts + Cardinality(Verifiers)
    BY DEF Tried
  <2>1. /\ failures[g] \in Nat /\ Cardinality(Deciders(g)) \in Nat
        /\ Cardinality(Verifiers) \in Nat
    BY  FiniteDeciders DEF Counters
  <2>2. CASE g # f
    <3>1. Deciders(g)' \subseteq Deciders(g)
      BY  <1>5, <2>2
    <3>2. /\ Cardinality(Deciders(g)') \in Nat
          /\ Cardinality(Deciders(g)') <= Cardinality(Deciders(g))
      BY  <3>1, FiniteDeciders, FS_Subset, FS_CardinalityType
    <3>3. /\ flows[g].row = "none" => failures[g] = 0 /\ Deciders(g) = {}
          /\ flows[g].row = "open" => flows[g].attempts = failures[g]
      BY DEF Tried
    <3>4. failures[g] + Cardinality(Deciders(g)) < MfaMaxAttempts + Cardinality(Verifiers)
      BY DEF Tried
    <3>5. failures[g] + Cardinality(Deciders(g)') < MfaMaxAttempts + Cardinality(Verifiers)
      BY <2>1, <3>2, <3>4, MfaAssumption, SMTT(60), Z3T(60)
    <3> QED BY  <3>1, <3>3, <3>5
  <2>3. CASE g = f
    <3>1. Deciders(g)' \in SUBSET Verifiers /\ IsFiniteSet(Verifiers)
      BY MfaAssumption DEF Deciders
    <3>2. /\ Cardinality(Deciders(g)') \in Nat
          /\ Cardinality(Deciders(g)') <= Cardinality(Verifiers)
      BY <3>1, FS_Subset, FS_CardinalityType, ZenonT(60)
    <3>3. flows[g].row = "open" /\ flows[g].attempts < MfaMaxAttempts
      BY  <2>3 DEF Usable
    <3>4. flows[g].attempts = failures[g]
      BY  <3>3 DEF Tried
    <3>5. failures[g] + Cardinality(Deciders(g)') < MfaMaxAttempts + Cardinality(Verifiers)
      BY <2>1, <3>2, <3>3, <3>4, MfaAssumption, SMTT(60), Z3T(60)
    <3> QED BY  <3>3, <3>4, <3>5
  <2> QED BY  <2>2, <2>3
<1>7. RecoveryPaid' /\ MailPaid' /\ StepPaid' /\ Over'
  BY DEF RecoveryPaid, MailPaid, StepPaid, Over
<1>8. MfaTypeOK' /\ Counters'
  BY <1>2 DEF MfaTypeOK, Counters
<1> QED BY <1>3, <1>4, <1>6, <1>7, <1>8, ZenonT(60)

\* Reading the flow and the codes in the transaction.
LEMMA ReadSteps ==
  ASSUME MfaInv, NEW v \in Verifiers,
         \/ ReadInTransaction(v)
         \/ \E f \in Flows : \E c \in Presented : ReadAtOnce(v, f, c)
  PROVE  MfaInv'
<1> USE DEF MfaInv
<1>1. CASE ReadInTransaction(v)
  <2> DEFINE r == verifiers[v]
             n == IF r.code[1] = "email" THEN LatestFor(r.flow) ELSE 0
  <2>1. /\ r.phase = "prepared" /\ Usable(r.flow)
        /\ verifiers' = [verifiers EXCEPT ![v] = Deciding(r.flow, r.code, r.prep, n)]
        /\ UNCHANGED <<scene, version, factor, clock, flows, mails, recovery, usedSteps,
                       senders, uses, entered, failures>>
    BY  <1>1 DEF ReadInTransaction
  <2>2. r.flow \in Flows /\ r.code \in AnyCode /\ r.prep \in Prepared
    BY <2>1, SMTT(60), Z3T(60) DEF MfaTypeOK, Verifier, Waiting
  <2>3. n \in 0..MaxMails
    BY SMTT(60), Z3T(60), LatestForIs, MfaAssumption
  <2>4. r.code[1] \in {"recovery", "email"} /\ r.prep.is = "valid" =>
           r.prep.id = r.code[2] /\ r.code[2] # 0
    BY  <2>1 DEF Matched
  <2> HIDE DEF n
  <2>5. PICK f \in Flows, c \in AnyCode, p \in Prepared, e \in 0..MaxMails :
          f = r.flow /\ c = r.code /\ p = r.prep /\ e = n
    BY <2>2, <2>3
  <2>6. /\ Usable(f) /\ verifiers[v].phase # "deciding"
        /\ c[1] \in {"recovery", "email"} /\ p.is = "valid" => p.id = c[2] /\ c[2] # 0
        /\ verifiers' = [verifiers EXCEPT ![v] = Deciding(f, c, p, e)]
    BY  <2>1, <2>4, <2>5
  <2> QED BY <2>1, <2>6, DecideSteps, ZenonT(60)
<1>2. ASSUME NEW f \in Flows, NEW c \in Presented, ReadAtOnce(v, f, c) PROVE MfaInv'
  <2>1. c \in AnyCode /\ c[1] \notin {"recovery", "email"}
    BY <1>2 DEF Presented, ReadAtOnce
  <2>0. 0 \in 0..MaxMails
    BY SMTT(60), Z3T(60), MfaAssumption
  <2>2. PICK p \in Prepared : p = [id |-> 0, is |-> "missing"]
    BY <2>0, ZenonT(60) DEF Prepared
  <2>3. /\ Usable(f) /\ verifiers[v].phase # "deciding"
        /\ verifiers' = [verifiers EXCEPT ![v] = Deciding(f, c, p, 0)]
        /\ UNCHANGED <<scene, version, factor, clock, flows, mails, recovery, usedSteps,
                       senders, uses, entered, failures>>
    BY SMTT(60), Z3T(60), <1>2, <2>2 DEF ReadAtOnce, Waiting
  <2> QED BY <2>0, <2>1, <2>3, DecideSteps, ZenonT(30)
<1> QED BY  <1>1, <1>2

\* A request that decided is one less to add a wrong attempt.
LEMMA DeciderLeaves ==
  ASSUME MfaInv, NEW v \in Verifiers, verifiers[v].phase = "deciding",
         verifiers' = [verifiers EXCEPT ![v] = Waiting], clock' = clock
  PROVE  /\ verifiers' \in [Verifiers -> Verifier] /\ Clocked' /\ Matched'
         /\ \A g \in Flows : Deciders(g)' \subseteq Deciders(g)
         /\ verifiers[v].flow \in Flows
         /\ \A g \in Flows : g = verifiers[v].flow =>
               Cardinality(Deciders(g)') = Cardinality(Deciders(g)) - 1
<1> USE DEF MfaInv
<1>1. Waiting \in Verifier
  BY DEF Verifier
<1>2. /\ verifiers' \in [Verifiers -> Verifier] /\ Clocked' /\ Matched'
      /\ \A g \in Flows : Deciders(g)' \subseteq Deciders(g)
  BY  <1>1, VerifierRests
<1>3. PICK f \in Flows : f = verifiers[v].flow
  BY SMTT(60), Z3T(60) DEF MfaTypeOK, Verifier, Waiting
<1>4. /\ \A u \in Verifiers : u # v => verifiers'[u] = verifiers[u]
      /\ verifiers'[v].phase # "deciding"
  BY DEF MfaTypeOK, Waiting
<1>5. Deciders(f)' = Deciders(f) \ {v} /\ v \in Deciders(f)
  BY <1>3, <1>4 DEF Deciders
<1>6. Cardinality(Deciders(f) \ {v}) = Cardinality(Deciders(f)) - 1
  BY  <1>5, FiniteDeciders, FS_RemoveElement
<1> QED BY  <1>2, <1>3, <1>5, <1>6

\* A wrong attempt is counted, on the row or by ending the flow.
LEMMA FailSteps ==
  ASSUME MfaInv, NEW v \in Verifiers, FailAttempt(v)
  PROVE  MfaInv'
<1> USE DEF MfaInv
<1>1. /\ verifiers[v].phase = "deciding"
      /\ verifiers' = [verifiers EXCEPT ![v] = Waiting]
      /\ UNCHANGED <<scene, version, factor, clock, mails, recovery, usedSteps,
                     senders, uses, entered>>
  BY DEF FailAttempt
<1>2. /\ verifiers' \in [Verifiers -> Verifier] /\ Clocked' /\ Matched'
      /\ \A g \in Flows : Deciders(g)' \subseteq Deciders(g)
      /\ verifiers[v].flow \in Flows
      /\ \A g \in Flows : g = verifiers[v].flow =>
            Cardinality(Deciders(g)') = Cardinality(Deciders(g)) - 1
  BY  <1>1, DeciderLeaves
<1>3. PICK f \in Flows : f = verifiers[v].flow
  BY <1>2
<1>4. /\ failures' = [failures EXCEPT ![f] = failures[f] + 1]
      /\ flows' = IncrementAttempts(f, verifiers[v].tries)
  BY <1>3 DEF FailAttempt
<1>5. /\ \A g \in Flows : g # f => flows'[g] = flows[g] /\ failures'[g] = failures[g]
      /\ failures'[f] = failures[f] + 1 /\ failures' \in [Flows -> Nat]
  BY SMTT(60), Z3T(60), <1>4 DEF IncrementAttempts, MfaTypeOK, Counters
<1>6. v \in Deciders(f) /\ flows[f].row # "none" /\ flows[f] \in Flow
  <2>1. v \in Deciders(f)
    BY <1>1, <1>3 DEF Deciders
  <2> QED BY <2>1 DEF Tried, MfaTypeOK
<1>7. /\ failures[f] \in Nat /\ Cardinality(Deciders(f)) \in Nat
      /\ Cardinality(Verifiers) \in Nat /\ MfaMaxAttempts \in Nat
  BY FiniteDeciders, MfaAssumption DEF Counters
<1>8. failures'[f] + Cardinality(Deciders(f)') < MfaMaxAttempts + Cardinality(Verifiers)
  <2>1. failures[f] + Cardinality(Deciders(f)) < MfaMaxAttempts + Cardinality(Verifiers)
    BY DEF Tried
  <2>2. Cardinality(Deciders(f)') = Cardinality(Deciders(f)) - 1
    BY <1>2, <1>3
  <2> QED BY SMTT(60), Z3T(60), <1>5, <1>7, <2>1, <2>2
<1>9. failures'[f] < MfaMaxAttempts + Cardinality(Verifiers)
  <2>1. Cardinality(Deciders(f)') \in Nat
    BY <1>2, FiniteDeciders, FS_Subset, FS_CardinalityType
  <2> QED BY SMTT(60), Z3T(60), <1>5, <1>7, <1>8, <2>1
<1>10. \/ flows' = flows /\ flows[f].row # "open"
       \/ flows' = [flows EXCEPT ![f] = ConsumedFlow] /\ flows[f].row = "open"
       \/ flows' = [flows EXCEPT ![f].attempts = @ + 1] /\ flows[f].row = "open"
  BY <1>4 DEF IncrementAttempts
<1>11. /\ flows' \in [Flows -> Flow]
       /\ flows'[f].row # "none"
       /\ flows'[f].row = "open" => flows[f].row = "open" /\ flows'[f].attempts = failures'[f]
       /\ flows'[f].row # "open" => \/ flows'[f] = flows[f]
                                    \/ flows'[f].row = "consumed"
  <2>1. CASE flows' = flows /\ flows[f].row # "open"
    BY <1>6, <2>1 DEF MfaTypeOK
  <2>2. CASE flows' = [flows EXCEPT ![f] = ConsumedFlow] /\ flows[f].row = "open"
    <3>1. ConsumedFlow \in Flow /\ ConsumedFlow.row = "consumed"
      BY DEF Flow, ConsumedFlow
    <3> QED BY <2>2, <3>1 DEF MfaTypeOK
  <2>3. CASE flows' = [flows EXCEPT ![f].attempts = @ + 1] /\ flows[f].row = "open"
    <3> DEFINE w == [flows[f] EXCEPT !.attempts = flows[f].attempts + 1]
    <3>1. flows' = [flows EXCEPT ![f] = w]
      BY <2>3
    <3>2. flows[f] \in [row : {"open"}, version : 1..MaxVersion,
              attempts : 0..(MfaMaxAttempts + Cardinality(Verifiers)), expired : BOOLEAN]
      BY SMTT(60), Z3T(60), <1>6, <2>3 DEF Flow, NoFlow, ConsumedFlow, GoneFlow
    <3>3. flows[f].attempts = failures[f]
      BY <2>3 DEF Tried
    <3>4. /\ w \in [row : {"open"}, version : 1..MaxVersion,
              attempts : 0..(MfaMaxAttempts + Cardinality(Verifiers)), expired : BOOLEAN]
          /\ w.row = "open" /\ w.attempts = failures'[f]
      BY SMTT(60), Z3T(60), <1>5, <1>7, <1>9, <3>2, <3>3
    <3>5. w \in Flow
      BY <3>4 DEF Flow
    <3> HIDE DEF w
    <3> QED BY <2>3, <3>1, <3>4, <3>5, ZenonT(60) DEF MfaTypeOK
  <2> QED BY  <1>10, <2>1, <2>2, <2>3
<1>12. Over'
  BY  <1>1, <1>5, <1>6, <1>11 DEF Over
<1>13. Tried'
  <2> SUFFICES ASSUME NEW g \in Flows
               PROVE  /\ flows'[g].row = "none" => failures'[g] = 0 /\ Deciders(g)' = {}
                      /\ flows'[g].row = "open" => flows'[g].attempts = failures'[g]
                      /\ failures'[g] + Cardinality(Deciders(g)') <
                            MfaMaxAttempts + Cardinality(Verifiers)
    BY DEF Tried
  <2>1. CASE g = f
    BY  <1>8, <1>11, <2>1
  <2>2. CASE g # f
    <3>1. /\ Cardinality(Deciders(g)') \in Nat /\ Cardinality(Deciders(g)) \in Nat
          /\ Cardinality(Deciders(g)') <= Cardinality(Deciders(g))
      BY <1>2, FiniteDeciders, FS_Subset, FS_CardinalityType
    <3>2. failures[g] \in Nat
      BY DEF Counters
    <3>3. /\ flows[g].row = "none" => failures[g] = 0 /\ Deciders(g) = {}
          /\ flows[g].row = "open" => flows[g].attempts = failures[g]
          /\ failures[g] + Cardinality(Deciders(g)) < MfaMaxAttempts + Cardinality(Verifiers)
      BY DEF Tried
    <3>4. failures[g] + Cardinality(Deciders(g)') < MfaMaxAttempts + Cardinality(Verifiers)
      BY SMTT(60), Z3T(60), <1>7, <3>1, <3>2, <3>3
    <3> QED BY <1>2, <1>5, <2>2, <3>3, <3>4
  <2> QED BY  <2>1, <2>2
<1>14. RecoveryPaid' /\ MailPaid' /\ StepPaid'
  BY  <1>1 DEF RecoveryPaid, MailPaid, StepPaid
<1>15. MfaTypeOK' /\ Counters'
  BY <1>1, <1>2, <1>5, <1>11 DEF MfaTypeOK, Counters
<1> QED BY <1>2, <1>12, <1>13, <1>14, <1>15


\* Spending a code that has not paid yet is remembered for as long as the
\* code could be presented again.
LEMMA Spending ==
  ASSUME MfaInv, NEW c \in Code, uses[c] = 0, NEW at \in Nat, at <= clock, Spend(c, at),
         c[1] = "email" => c[2] \in Open, clock' = clock, factor' = factor
  PROVE  /\ uses' \in [Code -> Nat] /\ uses'[c] = 1
         /\ \A d \in Code : d # c => uses'[d] = uses[d]
         /\ mails' \in [1..MaxMails -> Mail] /\ usedSteps' \subseteq 1..MaxStep
         /\ MailPaid' /\ StepPaid'
<1> USE DEF MfaInv
<1>1. /\ uses' \in [Code -> Nat] /\ uses'[c] = 1
      /\ \A d \in Code : d # c => uses'[d] = uses[d]
  BY  Paying DEF Spend
<1>2. c \in AnyCode /\ c = <<c[1], c[2]>> /\ (c[1] = "totp" => c[2] \in 1..MaxStep)
  <2>1. c \in AnyCode
    BY DEF AnyCode
  <2> QED BY <2>1, CodeParts
<1>3. clock \in Nat
  BY SMTT(60), Z3T(60) DEF MfaTypeOK
<1>4. mails' \in [1..MaxMails -> Mail] /\ MailPaid'
  <2>1. SpentMail \in Mail /\ SpentMail.row = "spent"
    BY DEF Mail, SpentMail
  <2>2. CASE c[1] = "email"
    <3>1. mails' = [mails EXCEPT ![c[2]] = SpentMail] /\ c[2] \in 1..MaxMails
      BY <2>2 DEF Spend, Consumed, Open
    <3>2. mails' \in [1..MaxMails -> Mail]
      BY <2>1, <3>1 DEF MfaTypeOK
    <3>3. ASSUME NEW e \in 1..MaxMails
          PROVE  /\ uses'[<<"email", e>>] <= 1
                 /\ mails'[e].row \in {"none", "open"} => uses'[<<"email", e>>] = 0
      <4>1. CASE e = c[2]
        <5>1. <<"email", e>> = c /\ mails'[e].row = "spent"
          BY <1>2, <2>1, <2>2, <3>1, <4>1 DEF MfaTypeOK
        <5> QED BY SMTT(60), Z3T(60), <1>1, <5>1
      <4>2. CASE e # c[2]
        <5>1. <<"email", e>> \in Code /\ <<"email", e>> # c /\ mails'[e] = mails[e]
          BY SMTT(60), Z3T(60), <1>2, <3>1, <4>2, CodesAre DEF MfaTypeOK
        <5> QED BY <1>1, <5>1 DEF MailPaid
      <4> QED BY <4>1, <4>2
    <3> QED BY <3>2, <3>3 DEF MailPaid
  <2>3. CASE c[1] # "email"
    <3>1. mails' = mails
      BY <2>3 DEF Spend
    <3>2. \A e \in 1..MaxMails : <<"email", e>> \in Code
      BY  CodesAre
    <3>3. \A e \in 1..MaxMails : <<"email", e>> # c
      BY SMTT(60), Z3T(60), <2>3
    <3> QED BY <1>1, <3>1, <3>2, <3>3 DEF MailPaid, MfaTypeOK
  <2> QED BY <2>2, <2>3
<1>5. usedSteps' \subseteq 1..MaxStep
  BY <1>2 DEF Spend, StepRecorded, MfaTypeOK
<1>6. StepPaid'
  <2> SUFFICES ASSUME NEW s \in 1..MaxStep
               PROVE  /\ uses'[<<"totp", s>>] <= 1
                      /\ factor /\ uses'[<<"totp", s>>] = 1 => s \in usedSteps' \/ s < clock - 3
    BY ZenonT(60) DEF StepPaid
  <2>1. <<"totp", s>> \in Code
    BY CodesAre
  <2>2. /\ uses[<<"totp", s>>] <= 1
        /\ factor /\ uses[<<"totp", s>>] = 1 => s \in usedSteps \/ s < clock - 3
    BY DEF StepPaid
  <2>3. CASE c[1] = "totp"
    <3>1. \A t \in usedSteps \cup {c[2]} : t >= at - 3 => t \in usedSteps'
      <4>1. \A t \in usedSteps \cup {c[2]} : t \in Int
        BY SMTT(60), Z3T(60), <1>2, <2>3 DEF MfaTypeOK
      <4>2. usedSteps' = StepRecorded(c[2], at)
        BY <2>3 DEF Spend
      <4> QED BY SMTT(60), Z3T(60), <4>1, <4>2 DEF StepRecorded, ReplayGuardMinStep
    <3>2. s < at - 3 => s < clock - 3
      BY SMTT(60), Z3T(60), <1>3
    <3>3. CASE s = c[2]
      <4>1. <<"totp", s>> = c
        BY <1>2, <2>3, <3>3
      <4>2. s \in usedSteps' \/ s < clock - 3
        BY SMTT(60), Z3T(60), <3>1, <3>2, <3>3
      <4> QED BY SMTT(60), Z3T(60), <1>1, <4>1, <4>2
    <3>4. CASE s # c[2]
      <4>1. <<"totp", s>> # c
        BY SMTT(60), Z3T(60), <1>2, <3>4
      <4>2. s \in usedSteps => s \in usedSteps' \/ s < clock - 3
        BY SMTT(60), Z3T(60), <3>1, <3>2
      <4> QED BY <1>1, <2>1, <2>2, <4>1, <4>2
    <3> QED BY <3>3, <3>4
  <2>4. CASE c[1] # "totp"
    <3>1. usedSteps' = usedSteps /\ <<"totp", s>> # c
      BY SMTT(60), Z3T(60), <2>4 DEF Spend
    <3> QED BY <1>1, <2>1, <2>2, <3>1
  <2> QED BY <2>3, <2>4
<1> QED BY <1>1, <1>4, <1>5, <1>6, ZenonT(30)

\* An authenticator code that is accepted has not paid yet: a request that
\* read the clock MaxLag steps ago still finds the step recorded.
LEMMA StepIsNew ==
  ASSUME MfaInv, NEW c \in AnyCode, c[1] = "totp", NEW at \in Nat, clock <= at + MaxLag,
         MatchesStep(c, at), c[2] \notin usedSteps, factor
  PROVE  c \in Code /\ uses[c] = 0
<1> USE DEF MfaInv
<1>1. c = <<"totp", c[2]>> /\ c[2] \in 1..MaxStep /\ c \in Code
  BY CodeParts
<1>2. uses[c] <= 1 /\ (uses[c] = 1 => c[2] < clock - 3)
  BY <1>1 DEF StepPaid
<1>3. clock \in Nat /\ MaxLag \in Nat /\ MaxLag <= 2 /\ uses[c] \in Nat
  BY SMTT(60), Z3T(60), <1>1, MfaAssumption DEF MfaTypeOK, Counters
<1>4. c[2] >= at - 1
  BY SMTT(60), Z3T(60), <1>1 DEF MatchesStep
<1>5. ~(c[2] < clock - 3)
  BY SMTT(60), Z3T(60), <1>1, <1>3, <1>4
<1> QED BY SMTT(60), Z3T(60), <1>1, <1>2, <1>3, <1>5


\* What a request that decides carries.
LEMMA DecidingFields ==
  ASSUME NEW r \in Verifier, r.phase = "deciding"
  PROVE  /\ r.flow \in Flows /\ r.code \in AnyCode /\ r.prep \in Prepared /\ r.at \in 1..MaxStep
         /\ r.mail \in 0..MaxMails
<1>1. CASE r = Waiting
  BY <1>1 DEF Waiting
<1>2. CASE r \in [phase : {"prepared"}, flow : Flows, code : AnyCode, prep : Prepared]
  BY <1>2
<1>3. CASE r \in [phase : {"deciding"}, flow : Flows, code : AnyCode, prep : Prepared,
                  at : 1..MaxStep, tries : 0..MfaMaxAttempts, mail : 0..MaxMails]
  BY <1>3
<1> QED BY <1>1, <1>2, <1>3 DEF Verifier

\* A login that is completed.
LEMMA CompleteSteps ==
  ASSUME MfaInv, NEW v \in Verifiers, CompleteLogin(v)
  PROVE  MfaInv'
<1> USE DEF MfaInv
<1> DEFINE r == verifiers[v]
<1>1. /\ r.phase = "deciding" /\ Verified(r) /\ (r.code[1] = "totp" => factor)
      /\ flows[r.flow].row = "open" /\ flows' = [flows EXCEPT ![r.flow] = ConsumedFlow]
      /\ Spend(r.code, r.at)
      /\ recovery' = IF r.code[1] = "recovery"
                     THEN [recovery EXCEPT ![r.code[2]] = "used"] ELSE recovery
      /\ entered' = [entered EXCEPT ![r.flow] = @ + 1]
      /\ verifiers' = [verifiers EXCEPT ![v] = Waiting]
      /\ UNCHANGED <<scene, version, factor, clock, senders, failures>>
  BY DEF CompleteLogin, ConsumeFlow
<1>2. /\ r.flow \in Flows /\ r.code \in AnyCode /\ r.prep \in Prepared /\ r.at \in 1..MaxStep
      /\ r.mail \in 0..MaxMails
  <2>1. r \in Verifier
    BY DEF MfaTypeOK
  <2> QED BY <1>1, <2>1, DecidingFields
<1>3. PICK f \in Flows, c \in AnyCode, at \in Nat : f = r.flow /\ c = r.code /\ at = r.at
  BY SMTT(60), Z3T(60), <1>2
<1>4. at <= clock /\ clock <= at + MaxLag
  BY <1>1, <1>3 DEF Clocked
<1>5. /\ c \in Code /\ uses[c] = 0 /\ (c[1] = "email" => c[2] \in Open)
      /\ c[1] = "recovery" => c[2] \in 1..MaxRecovery /\ recovery[c[2]] = "unused"
  <2>0. c[1] \in {"recovery", "email"} /\ r.prep.is = "valid" => r.prep.id = c[2] /\ c[2] # 0
    BY  <1>1, <1>3 DEF Matched
  <2>1. CASE c[1] = "totp"
    <3>1. MatchesStep(c, at) /\ c[2] \notin usedSteps /\ factor
      BY <1>1, <1>3, <2>1, ZenonT(60) DEF Verified
    <3>2. c \in Code /\ uses[c] = 0
      BY  <1>4, <2>1, <3>1, StepIsNew
    <3> QED BY  <2>1, <3>2
  <2>2. CASE c[1] = "recovery"
    <3>1. r.prep.is = "valid" /\ recovery[r.prep.id] = "unused"
      BY <1>1, <1>3, <2>2, ZenonT(60) DEF Verified, MarkUsed, MatchesStep
    <3>2. c = <<"recovery", c[2]>> /\ c[2] \in 1..MaxRecovery /\ c \in Code
      BY  <2>0, <2>2, <3>1, CodeParts
    <3>3. recovery[c[2]] = "unused"
      BY  <2>0, <2>2, <3>1
    <3> QED BY <2>2, <3>2, <3>3 DEF RecoveryPaid
  <2>3. CASE c[1] = "email"
    <3>1. r.prep = [id |-> r.mail, is |-> "valid"] /\ r.mail \in Open
      BY <1>1, <1>3, <2>3, ZenonT(60) DEF Verified, MatchesStep
    <3>2. c[2] = r.mail /\ c[2] # 0
      BY SMTT(60), Z3T(60), <2>0, <2>3, <3>1
    <3>3. c = <<"email", c[2]>> /\ c[2] \in 1..MaxMails /\ c \in Code
      BY <2>3, <3>2, CodeParts
    <3> QED BY <2>3, <3>1, <3>2, <3>3 DEF MailPaid, Open
  <2> QED BY  <1>1, <1>3, <2>1, <2>2, <2>3 DEF Verified, MatchesStep
<1>6. /\ uses' \in [Code -> Nat] /\ uses'[c] = 1
      /\ \A d \in Code : d # c => uses'[d] = uses[d]
      /\ mails' \in [1..MaxMails -> Mail] /\ usedSteps' \subseteq 1..MaxStep
      /\ MailPaid' /\ StepPaid'
  <2>1. Spend(c, at) /\ clock' = clock /\ factor' = factor
    BY  <1>1, <1>3
  <2> QED BY <1>4, <1>5, <2>1, Spending
<1>7. /\ verifiers' \in [Verifiers -> Verifier] /\ Clocked' /\ Matched'
      /\ \A g \in Flows : Deciders(g)' \subseteq Deciders(g)
  BY  <1>1, DeciderLeaves
<1>8. /\ flows' \in [Flows -> Flow] /\ FlowsAge
      /\ flows[f].row = "open" /\ flows'[f].row = "consumed"
      /\ entered' = [entered EXCEPT ![f] = entered[f] + 1]
      /\ \A g \in Flows : g # f => flows'[g] = flows[g]
  <2>1. ConsumedFlow \in Flow /\ ConsumedFlow.row = "consumed"
    BY DEF Flow, ConsumedFlow
  <2> QED BY <1>1, <1>3, <2>1, ZenonT(60) DEF MfaTypeOK, FlowsAge
<1>9. Over' /\ entered' \in [Flows -> Nat]
  <2>1. entered[f] = 0 /\ entered \in [Flows -> Nat]
    BY <1>8 DEF Over, Counters
  <2>2. entered'[f] = 1 /\ entered' \in [Flows -> Nat]
    BY SMTT(60), Z3T(60), <1>8, <2>1
  <2>3. \A g \in Flows : g # f => entered'[g] = entered[g]
    BY <1>8, <2>1
  <2> QED BY SMTT(60), Z3T(60), <1>8, <2>2, <2>3 DEF Over
<1>10. Tried'
  BY <1>1, <1>7, <1>8, TriedKept, ZenonT(60)
<1>11. RecoveryPaid' /\ recovery' \in [1..MaxRecovery -> {"none", "unused", "used", "gone"}]
  <2>1. CASE c[1] = "recovery"
    <3>1. recovery' = [recovery EXCEPT ![c[2]] = "used"] /\ c = <<"recovery", c[2]>>
      BY  <1>1, <1>3, <2>1, CodeParts
    <3>2. recovery' \in [1..MaxRecovery -> {"none", "unused", "used", "gone"}]
      BY  <3>1 DEF MfaTypeOK
    <3>3. ASSUME NEW q \in 1..MaxRecovery
          PROVE  /\ uses'[<<"recovery", q>>] <= 1
                 /\ recovery'[q] \in {"none", "unused"} => uses'[<<"recovery", q>>] = 0
                 /\ recovery'[q] = "used" => uses'[<<"recovery", q>>] = 1
      <4>1. CASE q = c[2]
        <5>1. recovery'[q] = "used" /\ <<"recovery", q>> = c
          BY <3>1, <4>1 DEF MfaTypeOK
        <5> QED BY <1>6, <5>1, SMTT(60), Z3T(60)
      <4>2. CASE q # c[2]
        <5>1. recovery'[q] = recovery[q] /\ <<"recovery", q>> # c /\ <<"recovery", q>> \in Code
          BY <3>1, <4>2, CodesAre, SMTT(60), Z3T(60) DEF MfaTypeOK
        <5> QED BY <1>6, <5>1 DEF RecoveryPaid
      <4> QED BY <4>1, <4>2, ZenonT(60)
    <3> QED BY <3>2, <3>3 DEF RecoveryPaid
  <2>2. CASE c[1] # "recovery"
    <3>1. recovery' = recovery
      BY <1>1, <1>3, <2>2
    <3>2. \A q \in 1..MaxRecovery : <<"recovery", q>> \in Code
      BY  CodesAre
    <3>3. \A q \in 1..MaxRecovery : <<"recovery", q>> # c
      BY SMTT(60), Z3T(60), <2>2
    <3> QED BY  <1>6, <3>1, <3>2, <3>3 DEF RecoveryPaid, MfaTypeOK
  <2> QED BY  <2>1, <2>2
<1>12. MfaTypeOK' /\ Counters'
  BY <1>1, <1>6, <1>7, <1>8, <1>9, <1>11, ZenonT(60) DEF MfaTypeOK, Counters
<1> QED BY  <1>6, <1>7, <1>9, <1>10, <1>11, <1>12


\* A code that a management action accepts has not paid yet.
LEMMA SensitiveIs ==
  ASSUME MfaInv, NEW c \in AnyCode, Sensitive(c)
  PROVE  /\ c \in Code /\ uses[c] = 0 /\ c[1] # "email" /\ c = <<c[1], c[2]>>
         /\ c[1] = "recovery" => c[2] \in 1..MaxRecovery /\ recovery[c[2]] = "unused"
<1> USE DEF MfaInv
<1>0. c = <<c[1], c[2]>>
  BY CodeParts
<1>1. CASE c[1] = "totp" /\ factor /\ MatchesStep(c, clock) /\ c[2] \notin usedSteps
  <2>1. clock \in Nat /\ MaxLag \in Nat
    BY MfaAssumption, SMTT(60), Z3T(60) DEF MfaTypeOK
  <2>2. PICK at \in Nat : at = clock /\ clock <= at + MaxLag
    BY SMTT(60), Z3T(60), <2>1
  <2>3. MatchesStep(c, at)
    BY <1>1, <2>2
  <2>4. c \in Code /\ uses[c] = 0
    BY <1>1, <2>2, <2>3, StepIsNew, ZenonT(60)
  <2> QED BY <1>0, <1>1, <2>4
<1>2. CASE c[1] = "recovery" /\ c[2] # 0 /\ MarkUsed(c[2])
  <2>1. c = <<"recovery", c[2]>> /\ c[2] \in 1..MaxRecovery /\ c \in Code
    BY <1>2, CodeParts
  <2> QED BY <1>2, <2>1 DEF RecoveryPaid, MarkUsed
<1> QED BY <1>1, <1>2 DEF Sensitive

\* The recovery codes of a set that is dropped.
LEMMA DroppedIs ==
  \A q \in 1..MaxRecovery : /\ recovery[q] = "none" => Dropped[q] = "none"
                            /\ recovery[q] # "none" => Dropped[q] = "gone"
BY DEF Dropped

\* New recovery codes have paid for nothing.
LEMMA RegenerateSteps ==
  ASSUME MfaInv, NEW c \in Presented, RegenerateCodes(c)
  PROVE  MfaInv'
<1> USE DEF MfaInv
<1>1. /\ Sensitive(c) /\ Spend(c, clock)
      /\ UNCHANGED <<scene, version, factor, clock, flows, verifiers, senders, entered, failures>>
  BY DEF RegenerateCodes
<1>2. PICK n \in 1..MaxRecovery : recovery[n] = "none" /\ recovery' = [Dropped EXCEPT ![n] = "unused"]
  BY ZenonT(60) DEF RegenerateCodes
<1>3. /\ c \in Code /\ uses[c] = 0 /\ c[1] # "email"
      /\ c[1] = "recovery" => c[2] \in 1..MaxRecovery /\ recovery[c[2]] = "unused"
  <2>1. c \in AnyCode
    BY DEF Presented
  <2> QED BY <1>1, <2>1, SensitiveIs
<1>4. PICK at \in Nat : at = clock /\ at <= clock
  BY SMTT(60), Z3T(60) DEF MfaTypeOK
<1>5. /\ uses' \in [Code -> Nat] /\ uses'[c] = 1
      /\ \A d \in Code : d # c => uses'[d] = uses[d]
      /\ mails' \in [1..MaxMails -> Mail] /\ usedSteps' \subseteq 1..MaxStep
      /\ MailPaid' /\ StepPaid'
  <2>1. Spend(c, at) /\ clock' = clock /\ factor' = factor
    BY <1>1, <1>4
  <2> QED BY <1>3, <1>4, <2>1, Spending
<1>6. /\ recovery' \in [1..MaxRecovery -> {"none", "unused", "used", "gone"}]
      /\ \A q \in 1..MaxRecovery : /\ recovery'[q] # "used"
                                   /\ recovery'[q] \in {"none", "unused"} => recovery[q] = "none"
  <2>1. Dropped \in [1..MaxRecovery -> {"none", "gone"}]
    BY DEF Dropped
  <2> QED BY <1>2, <2>1, DroppedIs
<1>7. RecoveryPaid'
  <2> SUFFICES ASSUME NEW q \in 1..MaxRecovery
               PROVE  /\ uses'[<<"recovery", q>>] <= 1
                      /\ recovery'[q] \in {"none", "unused"} => uses'[<<"recovery", q>>] = 0
                      /\ recovery'[q] = "used" => uses'[<<"recovery", q>>] = 1
    BY DEF RecoveryPaid
  <2>1. <<"recovery", q>> \in Code
    BY CodesAre
  <2>2. CASE <<"recovery", q>> = c
    <3>1. recovery[q] = "unused"
      BY <1>3, <2>2
    <3> QED BY SMTT(60), Z3T(60), <1>5, <1>6, <2>2, <3>1
  <2>3. CASE <<"recovery", q>> # c
    BY <1>5, <1>6, <2>1, <2>3 DEF RecoveryPaid
  <2> QED BY <2>2, <2>3
<1>8. Clocked' /\ Matched' /\ \A f \in Flows : Deciders(f)' \subseteq Deciders(f)
  BY <1>1, VerifiersStay
<1>9. FlowsAge
  BY <1>1 DEF FlowsAge
<1>10. Over' /\ Tried'
  BY <1>1, <1>8, <1>9, OverKept, TriedKept
<1>11. MfaTypeOK' /\ Counters'
  BY <1>1, <1>5, <1>6 DEF MfaTypeOK, Counters
<1> QED BY <1>5, <1>7, <1>8, <1>10, <1>11


\* What has paid stays paid when the account's factors are deleted: the rows
\* that could be found again are gone, and no authenticator is left.
LEMMA DeleteSteps ==
  ASSUME MfaInv, \/ \E c \in Presented : DeleteFactor(c)
                 \/ ResetUserMfa
  PROVE  MfaInv'
<1> USE DEF MfaInv
<1>1. /\ EverythingDeleted
      /\ UNCHANGED <<scene, clock, verifiers, senders, entered, failures>>
      /\ version' \in 1..MaxVersion
  BY SMTT(60), Z3T(60), MfaAssumption DEF DeleteFactor, ResetUserMfa, MfaTypeOK
<1>2. /\ uses' \in [Code -> Nat]
      /\ \A d \in Code : uses'[d] # uses[d] =>
            /\ uses'[d] = 1 /\ d[1] # "email"
            /\ d[1] = "recovery" => recovery[d[2]] = "unused"
  <2>1. ASSUME NEW c \in Presented, DeleteFactor(c)
        PROVE  /\ uses' \in [Code -> Nat]
               /\ \A d \in Code : uses'[d] # uses[d] =>
                     /\ uses'[d] = 1 /\ d[1] # "email"
                     /\ d[1] = "recovery" => recovery[d[2]] = "unused"
    <3>1. Sensitive(c) /\ uses' = [uses EXCEPT ![c] = @ + 1] /\ c \in AnyCode
      BY <2>1 DEF DeleteFactor, Presented
    <3>2. /\ c \in Code /\ uses[c] = 0 /\ c[1] # "email"
          /\ c[1] = "recovery" => recovery[c[2]] = "unused"
      BY <3>1, SensitiveIs
    <3>3. /\ uses' \in [Code -> Nat] /\ uses'[c] = 1
          /\ \A d \in Code : d # c => uses'[d] = uses[d]
      BY <3>1, <3>2, Paying, ZenonT(60)
    <3> QED BY  <3>2, <3>3
  <2>2. CASE ResetUserMfa
    BY <2>2 DEF ResetUserMfa, Counters
  <2> QED BY <2>1, <2>2
<1>3. RecoveryPaid' /\ recovery' \in [1..MaxRecovery -> {"none", "unused", "used", "gone"}]
  <2>1. /\ recovery' \in [1..MaxRecovery -> {"none", "unused", "used", "gone"}]
        /\ \A q \in 1..MaxRecovery : /\ recovery'[q] \notin {"unused", "used"}
                                     /\ recovery'[q] = "none" => recovery[q] = "none"
    BY <1>1, DroppedIs DEF EverythingDeleted, Dropped
  <2> SUFFICES ASSUME NEW q \in 1..MaxRecovery
               PROVE  /\ uses'[<<"recovery", q>>] <= 1
                      /\ recovery'[q] = "none" => uses'[<<"recovery", q>>] = 0
    BY <2>1 DEF RecoveryPaid
  <2> DEFINE d == <<"recovery", q>>
  <2>2. d \in Code /\ d[1] = "recovery" /\ d[2] = q
    BY CodesAre
  <2>3. uses[d] <= 1 /\ (recovery[q] = "none" => uses[d] = 0)
    BY DEF RecoveryPaid
  <2> HIDE DEF d
  <2>4. uses'[d] # uses[d] => uses'[d] = 1 /\ recovery[q] = "unused"
    BY <1>2, <2>2
  <2>5. uses'[d] <= 1 /\ (recovery'[q] = "none" => uses'[d] = 0)
    BY SMTT(60), Z3T(60), <2>1, <2>3, <2>4
  <2> QED BY <2>5 DEF d
<1>4. MailPaid' /\ mails' \in [1..MaxMails -> Mail]
  <2>1. mails' \in [1..MaxMails -> Mail]
        /\ \A e \in 1..MaxMails : mails'[e].row # "open" /\ (mails'[e].row = "none" => mails[e].row = "none")
    BY <1>1 DEF EverythingDeleted, Mail, NoMail, SpentMail
  <2>2. \A e \in 1..MaxMails : <<"email", e>> \in Code
    BY  CodesAre
  <2>3. \A e \in 1..MaxMails : <<"email", e>>[1] = "email"
    OBVIOUS
  <2>4. \A e \in 1..MaxMails : uses'[<<"email", e>>] = uses[<<"email", e>>]
    BY  <1>2, <2>2, <2>3
  <2> QED BY <2>1, <2>4 DEF MailPaid
<1>5. StepPaid' /\ factor' \in BOOLEAN /\ usedSteps' \subseteq 1..MaxStep
  <2>1. factor' = FALSE /\ usedSteps' = {}
    BY <1>1 DEF EverythingDeleted
  <2>2. \A s \in 1..MaxStep : <<"totp", s>> \in Code
    BY CodesAre, ZenonT(60)
  <2>3. \A s \in 1..MaxStep : uses'[<<"totp", s>>] <= 1
    <3> SUFFICES ASSUME NEW s \in 1..MaxStep PROVE uses'[<<"totp", s>>] <= 1
      BY ZenonT(60)
    <3>1. uses[<<"totp", s>>] <= 1 /\ <<"totp", s>> \in Code
      BY <2>2 DEF StepPaid
    <3> QED BY SMTT(60), Z3T(60), <1>2, <3>1
  <2> QED BY <2>1, <2>3, ZenonT(60) DEF StepPaid
<1>6. flows' \in [Flows -> Flow] /\ FlowsAge
  <2>1. \A f \in Flows : flows[f] = NoFlow \/ flows[f].row # "none"
    BY SMTT(60), Z3T(60) DEF MfaTypeOK, Flow, NoFlow, ConsumedFlow, GoneFlow
  <2>2. GoneFlow \in Flow /\ GoneFlow.row = "gone" /\ NoFlow \in Flow
    BY DEF Flow, GoneFlow
  <2>3. flows' = [f \in Flows |-> IF flows[f] = NoFlow THEN NoFlow ELSE GoneFlow]
    BY <1>1 DEF EverythingDeleted
  <2> QED BY <2>1, <2>2, <2>3 DEF FlowsAge
<1>8. Clocked' /\ Matched' /\ \A f \in Flows : Deciders(f)' \subseteq Deciders(f)
  BY <1>1, VerifiersStay
<1>10. Over' /\ Tried'
  BY  <1>1, <1>6, <1>8, OverKept, TriedKept
<1>11. MfaTypeOK' /\ Counters'
  BY <1>1, <1>2, <1>3, <1>4, <1>5, <1>6 DEF MfaTypeOK, Counters
<1> QED BY  <1>3, <1>4, <1>5, <1>8, <1>10, <1>11

-----------------------------------------------------------------------------
\* Every step of signing in keeps the invariant.
LEMMA MfaInvStep ==
  ASSUME MfaInv, [MfaNext]_mfaVars
  PROVE  MfaInv'
<1>1. CASE UNCHANGED mfaVars
  <2>1. MfaTypeOK' /\ Counters' /\ Clocked' /\ Matched'
    <3>1. MfaTypeOK'
      BY <1>1, ZenonT(60) DEF mfaVars, MfaInv, MfaTypeOK
    <3>2. Counters'
      BY <1>1, ZenonT(60) DEF mfaVars, MfaInv, Counters
    <3>3. Clocked'
      BY <1>1, ZenonT(60) DEF mfaVars, MfaInv, Clocked
    <3>4. Matched'
      BY <1>1, ZenonT(60) DEF mfaVars, MfaInv, Matched
    <3> QED BY <3>1, <3>2, <3>3, <3>4
  <2>2. RecoveryPaid' /\ MailPaid' /\ StepPaid' /\ Over'
    BY <1>1 DEF mfaVars, MfaInv, RecoveryPaid, MailPaid, StepPaid, Over
  <2>3. Tried'
    BY <1>1, ZenonT(60) DEF mfaVars, MfaInv, Tried, Deciders
  <2> QED BY  <2>1, <2>2, <2>3 DEF MfaInv
<1>2. CASE \/ \E f \in Flows : CreateLoginFlow(f) \/ FlowExpires(f)
           \/ \E e \in 1..MaxMails : MailAges(e)
           \/ CleanupExpiredFlows
  BY <1>2, FlowSteps
<1>3. ASSUME NEW s \in Senders, \/ \E f \in Flows : CheckSend(s, f)
                                \/ SaveCode(s) \/ MailFails(s) \/ EndSend(s)
      PROVE  MfaInv'
  BY <1>3, SendSteps
<1>4. ASSUME NEW v \in Verifiers,
             \/ \E f \in Flows : Refuse(v, f) \/ \E c \in Presented : Preflight(v, f, c)
             \/ ExpiredCode(v) \/ RollBackAttempt(v)
      PROVE  MfaInv'
  BY <1>4, PrepareSteps
<1>5. ASSUME NEW v \in Verifiers,
             \/ ReadInTransaction(v)
             \/ \E f \in Flows : \E c \in Presented : ReadAtOnce(v, f, c)
      PROVE  MfaInv'
  BY <1>5, ReadSteps
<1>6. ASSUME NEW v \in Verifiers, FailAttempt(v) PROVE MfaInv'
  BY <1>6, FailSteps
<1>7. ASSUME NEW v \in Verifiers, CompleteLogin(v) PROVE MfaInv'
  BY <1>7, CompleteSteps
<1>8. ASSUME NEW c \in Presented, RegenerateCodes(c) PROVE MfaInv'
  BY <1>8, RegenerateSteps
<1>9. CASE (\E c \in Presented : DeleteFactor(c)) \/ ResetUserMfa
  BY <1>9, DeleteSteps
<1>10. CASE StepPasses
  BY <1>10, ClockSteps
<1> QED BY <1>1, <1>2, <1>3, <1>4, <1>5, <1>6, <1>7, <1>8, <1>9, <1>10 DEF MfaNext

\* Nothing has been presented in the beginning.
LEMMA MfaInvInit ==
  ASSUME MfaInit PROVE MfaInv
<1>1. /\ MaxVersion \in Nat /\ MaxVersion > 0 /\ MaxStep \in Nat /\ MaxStep > 0
      /\ MfaMaxAttempts \in Nat /\ MfaMaxAttempts > 0 /\ Cardinality(Verifiers) \in Nat
  BY MfaAssumption, FS_CardinalityType, SMTT(60), Z3T(60)
<1>2. MfaTypeOK /\ Counters
  <2>1. NoFlow \in Flow /\ NoMail \in Mail /\ Waiting \in Verifier /\ Waiting \in Sender
    BY ZenonT(60) DEF Flow, Mail, Verifier, Sender
  <2>2. version \in 1..MaxVersion /\ factor \in BOOLEAN /\ clock \in 1..MaxStep
    BY SMTT(60), Z3T(60), <1>1 DEF MfaInit
  <2>3. /\ flows \in [Flows -> Flow] /\ mails \in [1..MaxMails -> Mail]
        /\ verifiers \in [Verifiers -> Verifier] /\ senders \in [Senders -> Sender]
    BY <2>1 DEF MfaInit
  <2>4. recovery \in [1..MaxRecovery -> {"none", "unused", "used", "gone"}]
        /\ usedSteps \subseteq 1..MaxStep
    BY DEF MfaInit
  <2>5. Counters
    BY DEF MfaInit, Counters
  <2> QED BY <2>2, <2>3, <2>4, <2>5 DEF MfaTypeOK
<1>3. Clocked /\ Matched
  BY DEF MfaInit, Clocked, Matched, Waiting
<1>4. RecoveryPaid /\ MailPaid /\ StepPaid
  <2>1. \A c \in Code : uses[c] = 0
    BY DEF MfaInit
  <2>2. /\ \A r \in 1..MaxRecovery : uses[<<"recovery", r>>] = 0 /\ recovery[r] # "used"
        /\ \A e \in 1..MaxMails : uses[<<"email", e>>] = 0
        /\ \A s \in 1..MaxStep : uses[<<"totp", s>>] = 0
    BY <2>1, CodesAre DEF MfaInit
  <2> QED BY SMTT(60), Z3T(60), <2>2 DEF RecoveryPaid, MailPaid, StepPaid
<1>5. Over
  BY SMTT(60), Z3T(60) DEF MfaInit, Over
<1>6. Tried
  <2>1. \A f \in Flows : Deciders(f) = {}
    BY DEF MfaInit, Deciders, Waiting
  <2>2. Cardinality({}) = 0
    BY FS_EmptySet
  <2>3. \A f \in Flows : flows[f].row = "none" /\ failures[f] = 0
    BY DEF MfaInit, NoFlow
  <2>4. \A f \in Flows : Cardinality(Deciders(f)) = 0
    BY <2>1, <2>2
  <2>5. 0 + 0 < MfaMaxAttempts + Cardinality(Verifiers)
    BY SMTT(60), Z3T(60), <1>1
  <2> QED BY <2>1, <2>3, <2>4, <2>5 DEF Tried
<1> QED BY <1>2, <1>3, <1>4, <1>5, <1>6 DEF MfaInv

\* The invariant of signing in with a second factor.
THEOREM MfaInvHolds == MfaSpec => []MfaInv
<1>1. MfaInit => MfaInv
  BY MfaInvInit
<1>2. MfaInv /\ [MfaNext]_mfaVars => MfaInv'
  BY MfaInvStep
<1> QED BY <1>1, <1>2, PTL DEF MfaSpec

\* Whatever the number of requests at once, and however they interleave with
\* the account's management: an authenticator code, a recovery code or a code
\* from a mail pays for one login or one management action, and a recovery
\* code is marked used only if it paid (mark_used_if_current, consume,
\* record_used_step with replay_guard_min_step).
THEOREM CodesPayOnce == MfaSpec => []CodeUsedOnce
<1>1. MfaInv => CodeUsedOnce
  <2> SUFFICES ASSUME MfaInv PROVE CodeUsedOnce
    OBVIOUS
  <2>1. \A c \in Code : uses[c] <= 1
    BY CodesAre DEF MfaInv, RecoveryPaid, MailPaid, StepPaid
  <2> QED BY <2>1 DEF CodeUsedOnce, MfaInv, RecoveryPaid
<1> QED BY <1>1, MfaInvHolds, PTL

\* However many correct codes reach a login flow at once, it issues one
\* session (mfa_login_flow_repo::consume in the transaction of the session).
THEOREM FlowsIssueOnce == MfaSpec => []OneSessionPerFlow
<1>1. MfaInv => OneSessionPerFlow
  BY DEF MfaInv, Over, OneSessionPerFlow
<1> QED BY <1>1, MfaInvHolds, PTL

\* No wrong attempt on a login flow is lost, although requests decide on
\* counts that are out of date (increment_attempts): an open row has counted
\* them all, and the budget is passed by less than the number of requests.
THEOREM AttemptsAreCounted == MfaSpec => []FailuresCounted
<1>1. MfaInv => FailuresCounted
  <2> SUFFICES ASSUME MfaInv, NEW f \in Flows
               PROVE  /\ flows[f].row = "open" => flows[f].attempts = failures[f]
                      /\ failures[f] < MfaMaxAttempts + Cardinality(Verifiers)
    BY DEF FailuresCounted
  <2>1. /\ flows[f].row = "open" => flows[f].attempts = failures[f]
        /\ failures[f] + Cardinality(Deciders(f)) < MfaMaxAttempts + Cardinality(Verifiers)
    BY DEF MfaInv, Tried
  <2>2. /\ Cardinality(Deciders(f)) \in Nat /\ Cardinality(Verifiers) \in Nat
        /\ failures[f] \in Nat /\ MfaMaxAttempts \in Nat
    BY FiniteDeciders, MfaAssumption DEF MfaInv, Counters
  <2> QED BY SMTT(60), Z3T(60), <2>1, <2>2
<1> QED BY <1>1, MfaInvHolds, PTL

=============================================================================
