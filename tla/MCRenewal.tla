------------------------------ MODULE MCRenewal ------------------------------
(***************************************************************************)
(* What its holder has to renew, for TLC in one run: the lease of a task's *)
(* attempt and the refresh token of a session.  The modules have no state  *)
(* in common: a behaviour is the one's or the other's.                     *)
(***************************************************************************)
EXTENDS MCBackgroundTask, MCRefreshSessions

VARIABLE system

renewalVars == <<system, vars, rsVars>>

RenewalInit ==
    /\ system \in {"tasks", "sessions"}
    /\ Init /\ RefreshInit
    /\ system # "sessions" => rowLocks

TaskStep == system = "tasks" /\ Next /\ UNCHANGED <<system, rsVars>>
SessionStep == system = "sessions" /\ RefreshNext /\ UNCHANGED <<system, vars>>

RenewalSpec == RenewalInit /\ [][TaskStep \/ SessionStep]_renewalVars

\* One pair of model values stands for the workers and for the refresh
\* requests.
RenewalAlike == RefreshAlike
=============================================================================
