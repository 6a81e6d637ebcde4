---------------------------- MODULE BindingSync ----------------------------
(***************************************************************************)
(* A remote node and the binding its follower keeps: enrollment            *)
(* (services/remote/enrollment.rs, node_enrollment.rs), edits on the       *)
(* primary, the pull loop of the follower (binding_control.rs,             *)
(* tunnel/client.rs) and the binding pushes that cross it                  *)
(* (remote_node.rs, master_binding.rs).                                    *)
(*                                                                         *)
(* A binding is whether the node is enabled and whether its transport is   *)
(* the reverse tunnel; the name goes the same way and is left out.  Reads  *)
(* and writes of a row that the code keeps apart are steps apart.          *)
(***************************************************************************)
EXTENDS Naturals, FiniteSets

CONSTANTS
    Tokens,         \* enrollment commands
    Pushers,        \* binding pushes under way
    Created,        \* the settings a node is created with
    Editable,       \* the fields that are edited
    Unset,          \* no row
    MaxEdits,       \* bound: administrators' updates being handled at once
    MaxRevision,    \* bound: binding_revision
    MaxFaults       \* bound: failures of the network or of the databases

VARIABLES
    node,       \* primary: managed_followers row
    knowsPull,  \* primary: last_capabilities name binding_state_pull
    tokens,     \* primary: enrollment sessions
    edits,      \* primary: updates between reading and writing the row, a set
    enrolling,  \* follower: what an enrollment command has been given
    binding,    \* follower: master_bindings row
    registry,   \* follower: the binding requests are admitted by
    tunnelUp,   \* follower: the reverse-tunnel worker runs
    round,      \* follower: the step of the reconcile loop
    pushes,     \* pushes sent and being handled by the follower
    faults,     \* failures so far
    disturbed   \* history: another writer touched binding since the round's reload

bsVars == <<node, knowsPull, tokens, edits, enrolling, binding, registry, tunnelUp,
            round, pushes, faults, disturbed>>

Setting == [enabled : BOOLEAN, tunnel : BOOLEAN]
SettingOf(row) == [enabled |-> row.enabled, tunnel |-> row.tunnel]

\* What the primary tells a follower, by pull, by push or at enrollment.
Desired == [enabled : BOOLEAN, tunnel : BOOLEAN, revision : 1..MaxRevision]
DesiredOf(row) == [enabled |-> row.enabled, tunnel |-> row.tunnel, revision |-> row.revision]

Binding == [enabled : BOOLEAN, tunnel : BOOLEAN, revision : 1..MaxRevision,
            applied : 0..MaxRevision]
Bound(d) == [enabled |-> d.enabled, tunnel |-> d.tunnel, revision |-> d.revision, applied |-> 0]

\* No row is not a row; edits change the two settings.
ASSUME BindingAssumption ==
    /\ MaxRevision \in Nat \ {0}
    /\ Unset \notin Binding \cup Setting
    /\ Created \subseteq Setting /\ Editable \subseteq {"enabled", "tunnel"}

Quiet == [phase |-> "idle"]
Asleep == [phase |-> "idle", ok |-> FALSE]

BindingInit ==
    /\ \E c \in Created :
          node = [enabled |-> c.enabled, tunnel |-> c.tunnel, revision |-> 1, acked |-> 0]
    /\ knowsPull = FALSE
    /\ tokens = [t \in Tokens |-> "none"]
    /\ edits = {}
    /\ enrolling = [t \in Tokens |-> Quiet]
    /\ binding = Unset
    /\ registry = Unset
    /\ tunnelUp = FALSE
    /\ round = Asleep
    /\ pushes = [p \in Pushers |-> Quiet]
    /\ faults = 0
    /\ disturbed = FALSE

Fault == faults < MaxFaults /\ faults' = faults + 1

\* A write that comes after the round's reload of the registry.
Disturb == disturbed' = (disturbed \/ round.phase \in {"reloaded", "ran", "marking"})

Completed == \E t \in Tokens : tokens[t] = "acked"

-----------------------------------------------------------------------------
\* Enrollment

\* create_enrollment_command looks for a completed enrollment first ...
CheckCommand(t) ==
    /\ tokens[t] = "none"
    /\ ~Completed
    /\ tokens' = [tokens EXCEPT ![t] = "checked"]
    /\ UNCHANGED <<node, knowsPull, edits, enrolling, binding, registry, tunnelUp, round,
                   pushes, faults, disturbed>>

\* ... and invalidates the pending sessions and makes its own in a transaction.
CreateCommand(t) ==
    /\ tokens[t] = "checked"
    /\ tokens' = [u \in Tokens |->
           IF u = t THEN "pending"
           ELSE IF tokens[u] \in {"pending", "redeemed"} THEN "invalidated" ELSE tokens[u]]
    /\ UNCHANGED <<node, knowsPull, edits, enrolling, binding, registry, tunnelUp, round,
                   pushes, faults, disturbed>>

\* The claim of the session and the row it answers with are one transaction;
\* the answer may be lost.
RedeemToken(t) ==
    /\ tokens[t] = "pending"
    /\ tokens' = [tokens EXCEPT ![t] = "redeemed"]
    /\ \/ /\ enrolling' = [enrolling EXCEPT ![t] = [phase |-> "redeemed", given |-> DesiredOf(node)]]
          /\ UNCHANGED faults
       \/ Fault /\ UNCHANGED enrolling
    /\ UNCHANGED <<node, knowsPull, edits, binding, registry, tunnelUp, round, pushes, disturbed>>

\* The row after enroll's transaction: a new row starts at the defaults, an
\* old one keeps its applied revision unless transport or revision differ.
Enrolled(d) ==
    IF binding # Unset /\ binding.tunnel = d.tunnel /\ binding.revision = d.revision
    THEN [binding EXCEPT !.enabled = d.enabled] ELSE Bound(d)

StoreBinding(t) ==
    /\ enrolling[t].phase = "redeemed"
    /\ binding' = Enrolled(enrolling[t].given)
    /\ enrolling' = [enrolling EXCEPT ![t].phase = "stored"]
    /\ Disturb
    /\ UNCHANGED <<node, knowsPull, tokens, edits, registry, tunnelUp, round, pushes, faults>>

AckToken_Early(t) ==
    /\ enrolling[t].phase \in {"redeemed", "stored"}
    /\ tokens' = [tokens EXCEPT ![t] = IF @ = "redeemed" THEN "acked" ELSE @]
    /\ enrolling' = [enrolling EXCEPT ![t] = Quiet]
    /\ UNCHANGED <<node, knowsPull, edits, binding, registry, tunnelUp, round, pushes,
                   faults, disturbed>>
\* mark_acked updates a redeemed session; an invalidated one is refused.
AckToken(t) ==
    /\ enrolling[t].phase = "stored"
    /\ tokens' = [tokens EXCEPT ![t] = IF @ = "redeemed" THEN "acked" ELSE @]
    /\ enrolling' = [enrolling EXCEPT ![t] = Quiet]
    /\ UNCHANGED <<node, knowsPull, edits, binding, registry, tunnelUp, round, pushes,
                   faults, disturbed>>

\* The command dies or cannot reach the primary.
AbandonEnrollment(t) ==
    /\ enrolling[t] # Quiet
    /\ Fault
    /\ enrolling' = [enrolling EXCEPT ![t] = Quiet]
    /\ UNCHANGED <<node, knowsPull, tokens, edits, binding, registry, tunnelUp, round,
                   pushes, disturbed>>

-----------------------------------------------------------------------------
\* Edits on the primary

\* update reads the row and decides from it whether the revision changes.
OpenEdit(f, v) ==
    /\ Cardinality(edits) < MaxEdits
    /\ node[f] # v => node.revision < MaxRevision
    /\ edits' = edits \cup {[field |-> f, value |-> v,
                              revision |-> IF node[f] # v THEN node.revision + 1 ELSE 0]}
    /\ UNCHANGED <<node, knowsPull, tokens, enrolling, binding, registry, tunnelUp, round,
                   pushes, faults, disturbed>>

\* The update writes the columns that were set and nothing else.
Edited(e) ==
    [node EXCEPT ![e.field] = e.value,
                 !.revision = IF e.revision = 0 THEN @ ELSE e.revision]

\* A follower that is not known to pull gets a push, which may not go out.
SaveEdit(e) ==
    /\ e \in edits
    /\ node' = Edited(e)
    /\ edits' = edits \ {e}
    /\ \/ /\ ~knowsPull /\ Completed
          /\ \E p \in Pushers :
                /\ pushes[p] = Quiet
                /\ pushes' = [pushes EXCEPT ![p] = [phase |-> "sent", given |-> DesiredOf(Edited(e))]]
          /\ UNCHANGED faults
       \/ /\ knowsPull \/ ~Completed
          /\ UNCHANGED <<pushes, faults>>
       \/ /\ ~knowsPull /\ Completed
          /\ Fault
          /\ UNCHANGED pushes
    /\ UNCHANGED <<knowsPull, tokens, enrolling, binding, registry, tunnelUp, round, disturbed>>

\* run_health_test_for_node pushes to every enabled node, whatever it knows.
HealthPush(p) ==
    /\ node.enabled /\ Completed
    /\ pushes[p] = Quiet
    /\ pushes' = [pushes EXCEPT ![p] = [phase |-> "sent", given |-> DesiredOf(node)]]
    /\ UNCHANGED <<node, knowsPull, tokens, edits, enrolling, binding, registry, tunnelUp,
                   round, faults, disturbed>>

\* A probe (health test, test_connection) that succeeds stores capabilities.
Probe ==
    /\ ~knowsPull /\ Completed
    /\ knowsPull' = TRUE
    /\ UNCHANGED <<node, tokens, edits, enrolling, binding, registry, tunnelUp, round, pushes,
                   faults, disturbed>>

\* A probe that fails writes back the capabilities it read when it began.
StaleProbe ==
    /\ knowsPull
    /\ Fault
    /\ knowsPull' = FALSE
    /\ UNCHANGED <<node, tokens, edits, enrolling, binding, registry, tunnelUp, round, pushes,
                   disturbed>>

-----------------------------------------------------------------------------
\* A push at the follower (sync_from_primary)

CheckPush(p) ==
    /\ pushes[p].phase = "sent"
    /\ binding # Unset
    /\ pushes' = [pushes EXCEPT ![p] =
           IF @.given.revision < binding.revision THEN Quiet ELSE [@ EXCEPT !.phase = "checked"]]
    /\ UNCHANGED <<node, knowsPull, tokens, edits, enrolling, binding, registry, tunnelUp,
                   round, faults, disturbed>>

\* applied_revision is left as it is.
WritePush(p) ==
    /\ pushes[p].phase = "checked"
    /\ binding' = [Bound(pushes[p].given) EXCEPT !.applied = binding.applied]
    /\ Disturb
    /\ pushes' = [pushes EXCEPT ![p].phase = "written"]
    /\ UNCHANGED <<node, knowsPull, tokens, edits, enrolling, registry, tunnelUp, round, faults>>

ReloadAfterPush(p) ==
    /\ pushes[p].phase = "written"
    /\ registry' = SettingOf(binding)
    /\ pushes' = [pushes EXCEPT ![p] = Quiet]
    /\ UNCHANGED <<node, knowsPull, tokens, edits, enrolling, binding, tunnelUp, round, faults,
                   disturbed>>

\* The push is lost or its handling ends with an error.
LosePush(p) ==
    /\ pushes[p] # Quiet
    /\ Fault
    /\ pushes' = [pushes EXCEPT ![p] = Quiet]
    /\ UNCHANGED <<node, knowsPull, tokens, edits, enrolling, binding, registry, tunnelUp,
                   round, disturbed>>

-----------------------------------------------------------------------------
\* The follower's loop (run_follower_tunnel_worker)

Step(phase) == round' = [round EXCEPT !.phase = phase]
EndRound == round' = Asleep /\ disturbed' = FALSE

\* reconcile_all reads the bindings.
StartRound ==
    /\ round.phase = "idle"
    /\ binding # Unset
    /\ round' = [phase |-> "asking", ok |-> TRUE, base |-> binding]
    /\ UNCHANGED <<node, knowsPull, tokens, edits, enrolling, binding, registry, tunnelUp,
                   pushes, faults, disturbed>>

\* The primary reads the node's row when it verifies the signature.
ReadForPull ==
    /\ round.phase = "asking"
    /\ round' = [phase |-> "read", ok |-> TRUE, base |-> round.base,
                 seen |-> DesiredOf(node)]
    /\ UNCHANGED <<node, knowsPull, tokens, edits, enrolling, binding, registry, tunnelUp,
                   pushes, faults, disturbed>>

\* The condition of binding_desired_state and of the update in
\* acknowledge_binding_revision; the row's own acknowledged revision only grows.
Acknowledges(n) ==
    /\ n <= round.seen.revision
    /\ node.acked < n /\ node.revision >= n

Differs_ByRevision(base, d) == base.revision # d.revision
\* What apply_desired_state does with the answer: it compares with the row of
\* the start of the round.
Differs(base, d) == DesiredOf(base) # d

AnswerPull ==
    /\ round.phase = "read"
    /\ node' = [node EXCEPT !.acked =
                   IF Acknowledges(round.base.applied) THEN round.base.applied ELSE @]
    /\ round' = [phase |-> "answered", ok |-> TRUE,
                 write |-> IF Differs(round.base, round.seen) THEN Bound(round.seen) ELSE Unset]
    /\ UNCHANGED <<knowsPull, tokens, edits, enrolling, binding, registry, tunnelUp, pushes,
                   faults, disturbed>>

ApplyDesired ==
    /\ round.phase = "answered"
    /\ binding' = IF round.write = Unset THEN binding ELSE round.write
    /\ round' = [phase |-> "pulled", ok |-> TRUE]
    /\ UNCHANGED <<node, knowsPull, tokens, edits, enrolling, registry, tunnelUp, pushes,
                   faults, disturbed>>

\* The pull or the write fails: the round goes on, but nothing is marked.
PullFails ==
    /\ round.phase \in {"asking", "read", "answered"}
    /\ Fault
    /\ round' = [phase |-> "pulled", ok |-> FALSE]
    /\ UNCHANGED <<node, knowsPull, tokens, edits, enrolling, binding, registry, tunnelUp,
                   pushes, disturbed>>

ReloadRegistry ==
    /\ round.phase = "pulled"
    /\ registry' = SettingOf(binding)
    /\ Step("reloaded")
    /\ UNCHANGED <<node, knowsPull, tokens, edits, enrolling, binding, tunnelUp, pushes,
                   faults, disturbed>>

ReloadFails_Ignored ==
    /\ round.phase = "pulled"
    /\ Fault
    /\ Step("reloaded")
    /\ UNCHANGED <<node, knowsPull, tokens, edits, enrolling, binding, registry, tunnelUp,
                   pushes, disturbed>>
ReloadFails ==
    /\ round.phase = "pulled"
    /\ Fault
    /\ round' = [phase |-> "reloaded", ok |-> FALSE]
    /\ UNCHANGED <<node, knowsPull, tokens, edits, enrolling, binding, registry, tunnelUp,
                   pushes, disturbed>>

NeedsReverseTunnel(row) == row.enabled /\ row.tunnel

ReconcileWorkers ==
    /\ round.phase = "reloaded"
    /\ tunnelUp' = NeedsReverseTunnel(binding)
    /\ IF round.ok THEN Step("ran") /\ UNCHANGED disturbed ELSE EndRound
    /\ UNCHANGED <<node, knowsPull, tokens, edits, enrolling, binding, registry, pushes, faults>>

WorkersFail ==
    /\ round.phase = "reloaded"
    /\ Fault
    /\ EndRound
    /\ UNCHANGED <<node, knowsPull, tokens, edits, enrolling, binding, registry, tunnelUp, pushes>>

\* mark_all_applied reads the row again and updates it where it is unchanged.
ReadForMark ==
    /\ round.phase = "ran"
    /\ IF binding.applied >= binding.revision THEN EndRound
       ELSE /\ round' = [phase |-> "marking", ok |-> TRUE, revision |-> binding.revision]
            /\ UNCHANGED disturbed
    /\ UNCHANGED <<node, knowsPull, tokens, edits, enrolling, binding, registry, tunnelUp,
                   pushes, faults>>

MayMark(n) == binding.revision = n /\ binding.applied < n

MarkApplied ==
    LET n == round.revision
    IN  /\ round.phase = "marking"
        /\ binding' = IF MayMark(n) THEN [binding EXCEPT !.applied = n] ELSE binding
        /\ EndRound
        /\ UNCHANGED <<node, knowsPull, tokens, edits, enrolling, registry, tunnelUp, pushes, faults>>

\* The follower starts again: the registry is loaded, no worker runs, and
\* the pushes it was handling are gone.
FollowerRestart ==
    /\ binding # Unset
    /\ Fault
    /\ registry' = SettingOf(binding)
    /\ tunnelUp' = FALSE
    /\ EndRound
    /\ pushes' = [p \in Pushers |-> IF pushes[p].phase = "sent" THEN pushes[p] ELSE Quiet]
    /\ UNCHANGED <<node, knowsPull, tokens, edits, enrolling, binding>>

LoopStep ==
    \/ StartRound \/ ReadForPull \/ AnswerPull \/ ApplyDesired
    \/ ReloadRegistry \/ ReconcileWorkers \/ ReadForMark \/ MarkApplied

BindingNext ==
    \/ \E t \in Tokens :
          \/ CheckCommand(t) \/ CreateCommand(t) \/ RedeemToken(t)
          \/ StoreBinding(t) \/ AckToken(t) \/ AbandonEnrollment(t)
    \/ \E f \in Editable, v \in BOOLEAN : OpenEdit(f, v)
    \/ \E e \in edits : SaveEdit(e)
    \/ \E p \in Pushers :
          \/ HealthPush(p) \/ CheckPush(p) \/ WritePush(p)
          \/ ReloadAfterPush(p) \/ LosePush(p)
    \/ Probe \/ StaleProbe
    \/ LoopStep
    \/ PullFails \/ ReloadFails \/ WorkersFail
    \/ FollowerRestart

\* The loop runs until shutdown, and handlers that have begun end.
BindingFair ==
    /\ WF_bsVars(LoopStep)
    /\ \A p \in Pushers : WF_bsVars(WritePush(p) \/ ReloadAfterPush(p))

BindingSpec == BindingInit /\ [][BindingNext]_bsVars /\ BindingFair

-----------------------------------------------------------------------------
\* A node whose enrollment is completed on the primary has its binding on the
\* follower, through lost answers and abandoned commands
\* (enroll acknowledges after its transaction).
CompletedIsBound == Completed => binding # Unset

\* A revision is marked as applied only when the registry and the worker
\* follow the row, unless a push or an enrollment wrote the row since the
\* registry was reloaded (reconcile_all, reconcile_binding_workers,
\* mark_all_applied).
MarkedIsRunning ==
    [][binding # Unset /\ binding' # binding /\ binding' = [binding EXCEPT !.applied = binding.revision]
          => disturbed \/ (registry = SettingOf(binding) /\ tunnelUp = NeedsReverseTunnel(binding))]_bsVars

InSync ==
    /\ DesiredOf(binding) = DesiredOf(node)
    /\ registry = SettingOf(node)
    /\ tunnelUp = NeedsReverseTunnel(node)
    /\ node.acked >= node.revision

\* When edits and failures stop, the follower ends with the primary's
\* settings in its row, its registry and its workers, and the primary knows,
\* whatever stale pushes arrive and although two edits may share a revision
\* or take it back (update, reconcile_all).
BindingConverges == <>[](edits = {}) => <>[](binding # Unset => InSync)
=============================================================================
