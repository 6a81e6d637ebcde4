------------------------------- MODULE MfaLogin -------------------------------
(***************************************************************************)
(* The second step of signing in to one account with multi-factor          *)
(* authentication: login flows, authenticator codes, recovery codes and    *)
(* codes sent by mail (services/auth/mfa, services/auth/flow and their     *)
(* repositories).                                                          *)
(*                                                                         *)
(* A request looks at the flow and at the presented code, which takes the  *)
(* time of a password hash, and then decides in a transaction.  That       *)
(* transaction reads the flow again and ends with conditional updates; it  *)
(* takes no lock in between, so two requests may decide on the same rows.  *)
(***************************************************************************)
EXTENDS Integers, FiniteSets, FiniteSetsExt

CONSTANTS
    Flows,          \* login flows
    Verifiers,      \* requests that present a code
    Senders,        \* requests that ask for a code by mail
    Scenes,         \* what a behaviour is about: the kinds of codes presented
                    \* in it, and how many login flows it has
    MfaMaxAttempts, \* MFA_MAX_ATTEMPTS
    MaxLag,         \* bound: authenticator steps between reading the clock in
                    \* verify_challenge and recording the step
    MaxStep,        \* bound: authenticator steps
    MaxRecovery,    \* bound: recovery codes, one to a set
    MaxMails,       \* bound: codes made for mails
    MaxVersion      \* largest value of session_version

ASSUME MfaAssumption ==
    /\ MfaMaxAttempts \in Nat \ {0}
    /\ {MaxLag, MaxStep, MaxRecovery, MaxMails, MaxVersion} \subseteq Nat
    /\ MaxVersion > 0 /\ MaxRecovery > 0 /\ MaxStep > 0
    /\ MaxLag <= 2      \* what replay_guard_min_step allows for
    /\ IsFiniteSet(Verifiers)

VARIABLES
    scene,          \* the scene of this behaviour
    version,        \* users.session_version
    factor,         \* the authenticator is set up
    clock,          \* the current authenticator step
    flows,          \* mfa_login_flows
    mails,          \* mfa_email_codes
    recovery,       \* mfa_recovery_codes
    usedSteps,      \* mfa_totp_used_steps of the factor
    verifiers,      \* verify_challenge requests
    senders,        \* send_email_code requests
    uses,           \* history: logins and management actions a code has paid for
    entered,        \* history: sessions a flow has issued
    failures        \* history: attempts on a flow that were answered as wrong

mfaVars == <<scene, version, factor, clock, flows, mails, recovery, usedSteps,
             verifiers, senders, uses, entered, failures>>

Code == ({"totp"} \X (1..MaxStep)) \cup ({"recovery"} \X (1..MaxRecovery))
        \cup ({"email"} \X (1..MaxMails))

\* 0 stands for a code of the right form that is not, or no longer, one of
\* the account's; a code of the wrong form is "malformed".
AnyCode == Code \cup ({"recovery", "email", "malformed"} \X {0})
Presented == {c \in AnyCode : /\ c[1] \in scene.kinds
                              /\ c[1] = "totp" => c[2] \in (clock - 1)..(clock + 1)}

\* Nothing of a consumed flow is looked at but that it is consumed.
NoFlow       == [row |-> "none"]
ConsumedFlow == [row |-> "consumed"]
GoneFlow     == [row |-> "gone"]
Flow == {NoFlow, ConsumedFlow, GoneFlow} \cup
        [row : {"open"}, version : 1..MaxVersion,
         attempts : 0..(MfaMaxAttempts + Cardinality(Verifiers)), expired : BOOLEAN]

\* A consumed code and a deleted one are alike: neither is found again.
NoMail    == [row |-> "none"]
SpentMail == [row |-> "spent"]
Mail == {NoMail, SpentMail} \cup
        [row : {"open"}, flow : Flows, expired : BOOLEAN, cooling : BOOLEAN]

Waiting == [phase |-> "idle"]
Prepared == [id : 0..MaxRecovery \cup 0..MaxMails,
             is : {"missing", "expired", "valid", "wrong"}]
Verifier == {Waiting} \cup
    [phase : {"prepared"}, flow : Flows, code : AnyCode, prep : Prepared] \cup
    [phase : {"deciding"}, flow : Flows, code : AnyCode, prep : Prepared,
     at : 1..MaxStep, tries : 0..MfaMaxAttempts, mail : 0..MaxMails]
Sender == {Waiting} \cup [phase : {"checked"}, flow : Flows]
          \cup [phase : {"mailing"}, mail : 1..MaxMails]

MfaInit ==
    /\ scene \in Scenes
    /\ version = 1
    /\ factor = TRUE
    /\ clock = 1
    /\ flows = [f \in Flows |-> NoFlow]
    /\ mails = [e \in 1..MaxMails |-> NoMail]
    /\ recovery = [r \in 1..MaxRecovery |-> IF r = 1 THEN "unused" ELSE "none"]
    /\ usedSteps = {}
    /\ verifiers = [v \in Verifiers |-> Waiting]
    /\ senders = [s \in Senders |-> Waiting]
    /\ uses = [c \in Code |-> 0]
    /\ entered = [f \in Flows |-> 0]
    /\ failures = [f \in Flows |-> 0]

---------------------------------------------------------------------------
\* complete_primary_login_or_start_mfa with the account as it was read when
\* the first factor was checked; the account always has a method, since codes
\* by mail are enabled.
CreateLoginFlow(f) ==
    /\ flows[f] = NoFlow
    /\ Cardinality({g \in Flows : flows[g] # NoFlow}) < scene.flows
    /\ \E v \in 1..version :
         flows' = [flows EXCEPT ![f] = [row |-> "open", version |-> v,
                                        attempts |-> 0, expired |-> FALSE]]
    /\ UNCHANGED <<scene, version, factor, clock, mails, recovery, usedSteps,
                   verifiers, senders, uses, entered, failures>>

\* ensure_flow_active and ensure_flow_user_valid.
Usable(f) ==
    /\ flows[f].row = "open"
    /\ ~flows[f].expired
    /\ flows[f].attempts < MfaMaxAttempts
    /\ flows[f].version = version

\* find_latest_unconsumed_for_flow: the newest code of the flow that is not
\* consumed, 0 if there is none.
Latest(S) == IF S = {} THEN 0 ELSE Max(S)
Open == {e \in 1..MaxMails : mails[e].row = "open"}
LatestFor(f) == Latest({e \in Open : mails[e].flow = f})

---------------------------------------------------------------------------
(* send_email_code *)

\* validate_email_code_send in the transaction.  The same checks before it,
\* while the code is hashed, change nothing.
CheckSend(s, f) ==
    /\ "email" \in scene.kinds
    /\ senders[s] = Waiting
    /\ Usable(f)
    /\ Open # {} => ~mails[Latest(Open)].cooling
    /\ senders' = [senders EXCEPT ![s] = [phase |-> "checked", flow |-> f]]
    /\ UNCHANGED <<scene, version, factor, clock, flows, mails, recovery, usedSteps,
                   verifiers, uses, entered, failures>>

\* consume_active_for_user, then create; a code needs the row of its flow.
SaveCode(s) ==
    /\ senders[s].phase = "checked"
    /\ flows[senders[s].flow].row \in {"open", "consumed"}
    /\ \E e \in 1..MaxMails :
         /\ mails[e] = NoMail
         /\ \A d \in 1..(e - 1) : mails[d] # NoMail
         /\ mails' = [d \in 1..MaxMails |->
                IF d = e THEN [row |-> "open", flow |-> senders[s].flow,
                               expired |-> FALSE, cooling |-> TRUE]
                ELSE IF d \in Open /\ ~mails[d].expired THEN SpentMail ELSE mails[d]]
         /\ senders' = [senders EXCEPT ![s] = [phase |-> "mailing", mail |-> e]]
    /\ UNCHANGED <<scene, version, factor, clock, flows, recovery, usedSteps,
                   verifiers, uses, entered, failures>>

Consumed(e) == IF e \in Open THEN [mails EXCEPT ![e] = SpentMail] ELSE mails

\* consume_email_code_after_mail_failure.
MailFails(s) ==
    /\ senders[s].phase = "mailing"
    /\ mails' = Consumed(senders[s].mail)
    /\ senders' = [senders EXCEPT ![s] = Waiting]
    /\ UNCHANGED <<scene, version, factor, clock, flows, recovery, usedSteps,
                   verifiers, uses, entered, failures>>

\* The mail is handed over; or the request fails, or is dropped, and leaves
\* the code as it is.
EndSend(s) ==
    /\ senders[s] # Waiting
    /\ senders' = [senders EXCEPT ![s] = Waiting]
    /\ UNCHANGED <<scene, version, factor, clock, flows, mails, recovery, usedSteps,
                   verifiers, uses, entered, failures>>

---------------------------------------------------------------------------
(* verify_challenge *)

\* What the request learns of its code before the transaction:
\* recovery_codes::verify and prepare_email_code_verification.
Preparation(c, f) ==
    LET e == LatestFor(f)
        unused == c[1] = "recovery" /\ c[2] # 0 /\ recovery[c[2]] = "unused"
    IN  IF c[1] = "email" /\ e # 0
        THEN [id |-> e, is |-> IF mails[e].expired THEN "expired"
                               ELSE IF c[2] = e THEN "valid" ELSE "wrong"]
        ELSE [id |-> IF unused THEN c[2] ELSE 0,
              is |-> IF unused THEN "valid" ELSE "missing"]

Preflight(v, f, c) ==
    /\ verifiers[v] = Waiting
    /\ c[1] \in {"recovery", "email"}
    /\ Usable(f)
    /\ verifiers' = [verifiers EXCEPT ![v] =
           [phase |-> "prepared", flow |-> f, code |-> c, prep |-> Preparation(c, f)]]
    /\ UNCHANGED <<scene, version, factor, clock, flows, mails, recovery, usedSteps,
                   senders, uses, entered, failures>>

\* A flow that cannot be used is refused.
Refuse(v, f) ==
    /\ verifiers[v] = Waiting
    /\ ~Usable(f)
    /\ UNCHANGED mfaVars

\* An error, a flow that has ended since, a code that was never asked for, a
\* factor that is gone, a request that is dropped: the transaction is rolled
\* back, with whatever it had written.
RollBackAttempt(v) ==
    /\ verifiers[v] # Waiting
    /\ verifiers' = [verifiers EXCEPT ![v] = Waiting]
    /\ UNCHANGED <<scene, version, factor, clock, flows, mails, recovery, usedSteps,
                   senders, uses, entered, failures>>

\* What the transaction reads: the clock, the flow, the newest code e of the
\* flow.
Deciding(f, c, p, e) ==
    [phase |-> "deciding", flow |-> f, code |-> c, prep |-> p,
     at |-> clock, tries |-> flows[f].attempts, mail |-> e]

ReadInTransaction(v) ==
    LET r == verifiers[v]
        e == IF r.code[1] = "email" THEN LatestFor(r.flow) ELSE 0
    IN
    /\ r.phase = "prepared"
    /\ Usable(r.flow)
    /\ r.code[1] = "email" => e # 0 /\ ~mails[e].expired /\ r.prep # [id |-> e, is |-> "expired"]
    /\ verifiers' = [verifiers EXCEPT ![v] = Deciding(r.flow, r.code, r.prep, e)]
    /\ UNCHANGED <<scene, version, factor, clock, flows, mails, recovery, usedSteps,
                   senders, uses, entered, failures>>

\* Nothing is prepared for the other codes.
ReadAtOnce(v, f, c) ==
    /\ verifiers[v] = Waiting
    /\ c[1] \in {"totp", "malformed"}
    /\ Usable(f)
    /\ c[1] = "totp" => factor
    /\ verifiers' = [verifiers EXCEPT ![v] = Deciding(f, c, [id |-> 0, is |-> "missing"], 0)]
    /\ UNCHANGED <<scene, version, factor, clock, flows, mails, recovery, usedSteps,
                   senders, uses, entered, failures>>

\* An expired code is consumed and the transaction commits; the attempt is
\* not counted.
ExpiredCode(v) ==
    LET r == verifiers[v]
        e == LatestFor(r.flow)
    IN
    /\ r.phase = "prepared"
    /\ Usable(r.flow)
    /\ r.code[1] = "email" /\ e # 0
    /\ mails[e].expired \/ r.prep = [id |-> e, is |-> "expired"]
    /\ mails' = Consumed(e)
    /\ verifiers' = [verifiers EXCEPT ![v] = Waiting]
    /\ UNCHANGED <<scene, version, factor, clock, flows, recovery, usedSteps,
                   senders, uses, entered, failures>>

\* verify_code_matching_step, with TOTP_WINDOW_STEPS 1.
MatchesStep(c, at) == c[1] = "totp" /\ c[2] # 0 /\ c[2] \in (at - 1)..(at + 1)

\* Mutant: without the two steps kept in reserve.
ReplayGuardMinStep_NoBuffer(at) == at - 1

ReplayGuardMinStep(at) == at - 1 - 2

\* record_used_step and delete_steps_before.
StepRecorded(step, at) == {s \in usedSteps \cup {step} : s >= ReplayGuardMinStep(at)}

\* mark_used_if_current finds the row unused.
MarkUsed(r) == recovery[r] = "unused"

\* The factor check of the transaction: verify_totp, consume_verified,
\* apply_email_code_verification.
Verified(r) ==
    \/ MatchesStep(r.code, r.at) /\ r.code[2] \notin usedSteps
    \/ r.code[1] = "recovery" /\ r.prep.is = "valid" /\ MarkUsed(r.prep.id)
    \/ r.code[1] = "email" /\ r.prep = [id |-> r.mail, is |-> "valid"] /\ r.mail \in Open

\* Mutant: the count that was read is written back.
IncrementAttempts_Stale(f, tries) ==
    IF flows[f].row # "open" THEN flows
    ELSE IF tries + 1 >= MfaMaxAttempts THEN [flows EXCEPT ![f] = ConsumedFlow]
    ELSE [flows EXCEPT ![f].attempts = tries + 1]

\* increment_attempts: the database counts, the count that was read decides
\* whether the flow is consumed.
IncrementAttempts(f, tries) ==
    IF flows[f].row # "open" THEN flows
    ELSE IF tries + 1 >= MfaMaxAttempts THEN [flows EXCEPT ![f] = ConsumedFlow]
    ELSE [flows EXCEPT ![f].attempts = @ + 1]

FailAttempt(v) ==
    LET r == verifiers[v] IN
    /\ r.phase = "deciding"
    /\ ~Verified(r)
    /\ flows' = IncrementAttempts(r.flow, r.tries)
    /\ failures' = [failures EXCEPT ![r.flow] = @ + 1]
    /\ verifiers' = [verifiers EXCEPT ![v] = Waiting]
    /\ UNCHANGED <<scene, version, factor, clock, mails, recovery, usedSteps,
                   senders, uses, entered>>

\* The rows that the accepted code changes.
Spend(c, at) ==
    /\ uses' = [uses EXCEPT ![c] = @ + 1]
    /\ usedSteps' = IF c[1] = "totp" THEN StepRecorded(c[2], at) ELSE usedSteps
    /\ mails' = IF c[1] = "email" THEN Consumed(c[2]) ELSE mails

\* Mutant: whether or not the flow has been consumed or deleted since.
ConsumeFlow_Unconditional(f) == flows[f].row \in {"open", "consumed"}

\* mfa_login_flow_repo::consume finds the flow unconsumed.
ConsumeFlow(f) == flows[f].row = "open"

\* The flow is consumed and the session issued in the same transaction; a
\* recorded step needs the row of its factor.
CompleteLogin(v) ==
    LET r == verifiers[v] IN
    /\ r.phase = "deciding"
    /\ Verified(r)
    /\ r.code[1] = "totp" => factor
    /\ ConsumeFlow(r.flow)
    /\ flows' = [flows EXCEPT ![r.flow] = ConsumedFlow]
    /\ Spend(r.code, r.at)
    /\ recovery' = IF r.code[1] = "recovery" THEN [recovery EXCEPT ![r.code[2]] = "used"] ELSE recovery
    /\ entered' = [entered EXCEPT ![r.flow] = @ + 1]
    /\ verifiers' = [verifiers EXCEPT ![v] = Waiting]
    /\ UNCHANGED <<scene, version, factor, clock, senders, failures>>

---------------------------------------------------------------------------
(* Management of the factors *)

\* verify_prepared_sensitive_mfa_code accepts c, which is spent.
Sensitive(c) ==
    \/ c[1] = "totp" /\ factor /\ MatchesStep(c, clock) /\ c[2] \notin usedSteps
    \/ c[1] = "recovery" /\ c[2] # 0 /\ MarkUsed(c[2])

Dropped == [r \in 1..MaxRecovery |-> IF recovery[r] = "none" THEN "none" ELSE "gone"]

\* regenerate_recovery_codes: the codes are replaced by new ones.
RegenerateCodes(c) ==
    /\ Sensitive(c)
    /\ Spend(c, clock)
    /\ \E n \in 1..MaxRecovery :
         /\ recovery[n] = "none"
         /\ \A m \in 1..(n - 1) : recovery[m] # "none"
         /\ recovery' = [Dropped EXCEPT ![n] = "unused"]
    /\ UNCHANGED <<scene, version, factor, clock, flows, verifiers, senders,
                   entered, failures>>

\* delete_all_for_user of codes and flows, and the steps with their factor.
EverythingDeleted ==
    /\ recovery' = Dropped
    /\ mails' = [e \in 1..MaxMails |-> IF mails[e] = NoMail THEN NoMail ELSE SpentMail]
    /\ flows' = [f \in Flows |-> IF flows[f] = NoFlow THEN NoFlow ELSE GoneFlow]
    /\ usedSteps' = {}
    /\ factor' = FALSE

DeleteFactor(c) ==
    /\ factor
    /\ Sensitive(c)
    /\ uses' = [uses EXCEPT ![c] = @ + 1]
    /\ EverythingDeleted
    /\ UNCHANGED <<scene, version, clock, verifiers, senders, entered, failures>>

ResetUserMfa ==
    /\ version < MaxVersion
    /\ version' = version + 1
    /\ EverythingDeleted
    /\ UNCHANGED <<scene, clock, verifiers, senders, uses, entered, failures>>

---------------------------------------------------------------------------
(* Time, and the cleanup of what has expired *)

\* A request decides within MaxLag steps of its reading of the clock.
StepPasses ==
    /\ "totp" \in scene.kinds
    /\ clock < MaxStep
    /\ \A v \in Verifiers : verifiers[v].phase = "deciding" => clock < verifiers[v].at + MaxLag
    /\ clock' = clock + 1
    /\ UNCHANGED <<scene, version, factor, flows, mails, recovery, usedSteps,
                   verifiers, senders, uses, entered, failures>>

\* A code expires with its flow at the latest.
FlowExpires(f) ==
    /\ flows[f].row = "open"
    /\ flows' = [flows EXCEPT ![f].expired = TRUE]
    /\ mails' = [e \in 1..MaxMails |->
           IF e \in Open /\ mails[e].flow = f
           THEN [mails[e] EXCEPT !.expired = TRUE] ELSE mails[e]]
    /\ UNCHANGED <<scene, version, factor, clock, recovery, usedSteps,
                   verifiers, senders, uses, entered, failures>>

MailAges(e) ==
    /\ e \in Open
    /\ \/ mails' = [mails EXCEPT ![e].expired = TRUE]
       \/ mails' = [mails EXCEPT ![e].cooling = FALSE]
    /\ UNCHANGED <<scene, version, factor, clock, flows, recovery, usedSteps,
                   verifiers, senders, uses, entered, failures>>

\* Of the consumed flows some have expired.
CleanupExpiredFlows ==
    /\ mails' = [e \in 1..MaxMails |->
           IF e \in Open /\ mails[e].expired THEN SpentMail ELSE mails[e]]
    /\ \E old \in SUBSET {f \in Flows : flows[f] = ConsumedFlow} :
         flows' = [f \in Flows |->
             IF f \in old \/ (flows[f].row = "open" /\ flows[f].expired)
             THEN GoneFlow ELSE flows[f]]
    /\ UNCHANGED <<scene, version, factor, clock, recovery, usedSteps,
                   verifiers, senders, uses, entered, failures>>

MfaNext ==
    \/ \E f \in Flows : CreateLoginFlow(f) \/ FlowExpires(f)
    \/ \E s \in Senders : \/ \E f \in Flows : CheckSend(s, f)
                          \/ SaveCode(s) \/ MailFails(s) \/ EndSend(s)
    \/ \E v \in Verifiers :
         \/ \E f \in Flows : Refuse(v, f) \/ \E c \in Presented : Preflight(v, f, c) \/ ReadAtOnce(v, f, c)
         \/ ReadInTransaction(v) \/ ExpiredCode(v) \/ RollBackAttempt(v)
         \/ FailAttempt(v) \/ CompleteLogin(v)
    \/ \E c \in Presented : RegenerateCodes(c) \/ DeleteFactor(c)
    \/ ResetUserMfa
    \/ StepPasses
    \/ \E e \in 1..MaxMails : MailAges(e)
    \/ CleanupExpiredFlows

MfaSpec == MfaInit /\ [][MfaNext]_mfaVars

---------------------------------------------------------------------------
(* Properties *)

\* Every variable has its type; attempt_count passes the budget by less than
\* the number of requests at once (increment_attempts).
MfaTypeOK ==
    /\ version \in 1..MaxVersion
    /\ factor \in BOOLEAN
    /\ clock \in 1..MaxStep
    /\ flows \in [Flows -> Flow]
    /\ mails \in [1..MaxMails -> Mail]
    /\ recovery \in [1..MaxRecovery -> {"none", "unused", "used", "gone"}]
    /\ usedSteps \subseteq 1..MaxStep
    /\ verifiers \in [Verifiers -> Verifier]
    /\ senders \in [Senders -> Sender]

\* A code pays for one login or one management action: a recovery code by
\* mark_used_if_current, a code from a mail by consume, an authenticator code
\* by record_used_step, which must remember the step for as long as a request
\* may still accept it (replay_guard_min_step).  And a recovery code is spent
\* only on something: a login that finds its flow consumed, or fails to store
\* its session, leaves the code unused (verify_challenge rolls back).
CodeUsedOnce ==
    /\ \A c \in Code : uses[c] <= 1
    /\ \A r \in 1..MaxRecovery : recovery[r] = "used" => uses[<<"recovery", r>>] = 1

\* A login flow issues one session, however many correct codes reach it at
\* once (mfa_login_flow_repo::consume).
OneSessionPerFlow == \A f \in Flows : entered[f] <= 1

\* A wrong attempt is never lost, although requests decide on the same count:
\* while a flow can be used its row counts every wrong attempt, and in all it
\* answers at most the budget and one for every other request at work
\* (increment_attempts, plan_transition).
FailuresCounted ==
    \A f \in Flows :
        /\ flows[f].row = "open" => flows[f].attempts = failures[f]
        /\ failures[f] < MfaMaxAttempts + Cardinality(Verifiers)
===============================================================================
