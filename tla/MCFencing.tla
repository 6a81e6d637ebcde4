------------------------------ MODULE MCFencing ------------------------------
(***************************************************************************)
(* What is fenced by a conditional update of a row, for TLC in one run:    *)
(* the attempts of background tasks, and the codes and flows of a login.   *)
(* The modules have no state in common: a behaviour is the one's or the    *)
(* other's, and the rest stays as it begins.                               *)
(***************************************************************************)
EXTENDS MCBackgroundTask, MfaLogin

CONSTANTS flow1, flow2, sender1

VARIABLE system

TwoFlows  == {flow1, flow2}
OneSender == {sender1}

fencingVars == <<system, vars, mfaVars>>

FencingInit ==
    /\ system \in {"tasks", "logins"}
    /\ Init /\ MfaInit
    /\ system # "logins" => scene.kinds = {"email"}

TaskStep == system = "tasks" /\ Next /\ UNCHANGED <<system, mfaVars>>
LoginStep == system = "logins" /\ MfaNext /\ UNCHANGED <<system, vars>>

FencingSpec == FencingInit /\ [][TaskStep \/ LoginStep]_fencingVars

Scene(k, n) == [kinds |-> k, flows |-> n]

\* The kinds of codes do not meet in the rows they change; one flow makes
\* behaviours enough when codes are sent by mail.
MfaScenes == {Scene({"totp"}, 2), Scene({"recovery", "malformed"}, 2), Scene({"email"}, 1)}

\* One pair of model values stands for the workers and for the requests of
\* the logins.
FencingAlike == Slots \cup Permutations(TwoFlows)
=============================================================================
