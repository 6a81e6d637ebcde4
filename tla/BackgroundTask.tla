--------------------------- MODULE BackgroundTask ---------------------------
(***************************************************************************)
(* The persistent background-task queue: one row per task in the table     *)
(* background_tasks, claimed by workers under a lease and a fencing token  *)
(* (processing_token), with cooperative cancellation, automatic and manual *)
(* retry, graceful shutdown, crashes, and the scratch directories that an  *)
(* attempt stages its files in.                                            *)
(*                                                                         *)
(* Time is modelled by what is left of it: lease is lease_expires_at - now *)
(* cut off at 0 (NoLease for NULL), wait is next_run_at - now, age is the  *)
(* time since the worker's TaskLeaseGuard was last refreshed.  Tick lets   *)
(* one unit pass, so no behaviour is cut off by a largest clock value.     *)
(***************************************************************************)
EXTENDS Integers, FiniteSets

CONSTANTS
    Tasks,           \* rows that may be inserted
    Workers,         \* execution slots of all processes of the cluster
    Retriers,        \* concurrent POST /tasks/{id}/retry requests
    Sweepers,        \* concurrent runs of the temp-directory sweep
    LaneOf,          \* the scheduling lane of each task's kind
    ClusterLimit,    \* the shared concurrency limit of each lane
    MetadataWriters, \* tasks whose handler writes runtime_json or display_name
    ScratchTasks,    \* tasks whose handler stages files in a scratch directory
    Lease,           \* TASK_PROCESSING_STALE_SECS, in ticks
    RenewalTimeout,  \* the guard's limit on the time between two refreshes
    RetryDelay,      \* delay of an automatic retry, in ticks
    MaxAttempts,     \* the attempt budget of a task
    MaxToken,        \* bound on processing_token
    StalledWrites,   \* may a worker write after its guard has timed out?
    NoTask           \* "this slot holds no task"

NoLease == -1

Owned    == {"Processing", "Canceling"}
Queued   == {"Pending", "Retry"}
Terminal == {"Succeeded", "Failed", "Canceled"}
Gone     == {"Absent", "Deleted"}

ASSUME LeaseAssumption ==
    /\ Lease \in Nat
    /\ RenewalTimeout \in 1..Lease
    /\ RetryDelay \in Nat
    /\ MaxAttempts \in Nat \ {0}
    /\ MaxToken \in Nat

ASSUME TaskAssumption ==
    /\ NoTask \notin Tasks
    /\ MetadataWriters \subseteq Tasks
    /\ ScratchTasks \subseteq Tasks
    /\ StalledWrites \in BOOLEAN

VARIABLES
    task,     \* the table background_tasks
    worker,   \* what each slot holds: the claimed task and its TaskLease
    retrier,  \* a manual retry between reading the row and resetting it
    sweeper,  \* a sweep between reading a row and deleting its directory
    scratch   \* the directories tasks/<task id>/<token> that exist

vars == <<task, worker, retrier, sweeper, scratch>>

Row == [status : Owned \cup Queued \cup Terminal \cup Gone,
        token : Nat, lease : {NoLease} \cup (0..Lease), wait : 0..RetryDelay,
        attempts : 0..MaxAttempts, canRetry : {"null", "true", "false"}]

Slot == [pc : {"idle", "run", "stop"}, task : Tasks \cup {NoTask}, token : Nat,
         attempts : 0..MaxAttempts, age : 0..RenewalTimeout, dir : BOOLEAN]

Request == [pc : {"idle", "read", "cleaned"}, task : Tasks \cup {NoTask}]

NewRow   == [status |-> "Absent", token |-> 0, lease |-> NoLease, wait |-> 0,
             attempts |-> 0, canRetry |-> "null"]
IdleSlot == [pc |-> "idle", task |-> NoTask, token |-> 0, attempts |-> 0,
             age |-> 0, dir |-> FALSE]
NoRequest == [pc |-> "idle", task |-> NoTask]

Init ==
    /\ task = [t \in Tasks |-> NewRow]
    /\ worker = [w \in Workers |-> IdleSlot]
    /\ retrier = [r \in Retriers |-> NoRequest]
    /\ sweeper = [s \in Sweepers |-> NoRequest]
    /\ scratch = {}

----------------------------------------------------------------------------
(* The queue. *)

\* insert_typed_task_record: a row starts Pending, due now, with token 0.
Insert(t) ==
    /\ task[t].status = "Absent"
    /\ task' = [task EXCEPT ![t].status = "Pending"]
    /\ UNCHANGED <<worker, retrier, sweeper, scratch>>

\* Bug variants (_name) of the definitions that follow them: each breaks a property.
Claimable_NoTakeover(row) == row.status \in Queued /\ row.wait = 0

Claimable_ForgetsCanceling(row) ==
    \/ row.status \in Queued /\ row.wait = 0
    \/ row.status = "Processing" /\ row.lease = 0

\* claimable_condition: queued and due, or owned under a lease that ran out.
Claimable(row) ==
    \/ row.status \in Queued /\ row.wait = 0
    \/ row.status \in Owned /\ row.lease = 0

ActiveInLane_IgnoresCanceling(l) ==
    {t \in Tasks : LaneOf[t] = l /\ task[t].status = "Processing" /\ task[t].lease > 0}

\* count_active_processing_by_kinds
ActiveInLane(l) ==
    {t \in Tasks : LaneOf[t] = l /\ task[t].status \in Owned /\ task[t].lease > 0}

ClaimedRow_Revives(row) ==
    [row EXCEPT !.status = "Processing", !.token = @ + 1, !.lease = Lease]

ClaimedRow_OldLease(row) ==
    [row EXCEPT !.status = IF @ = "Canceling" THEN "Canceling" ELSE "Processing",
                !.token = @ + 1,
                !.lease = IF @ = NoLease THEN Lease ELSE @]

\* The columns try_claim sets: a Canceling row stays Canceling.
ClaimedRow(row) ==
    [row EXCEPT !.status = IF @ = "Canceling" THEN "Canceling" ELSE "Processing",
                !.token = @ + 1,
                !.lease = Lease]

\* TaskClaimStore::claim.  The lane's quota row is locked, so claims of a lane
\* are serial and a batch is a sequence of single claims.  SKIP LOCKED may pass
\* over any row, so any claimable row may be the one claimed.  The owner of a
\* Canceling row only has the cancellation left to acknowledge.
TryClaim(w, t) ==
    /\ worker[w].pc = "idle"
    /\ Claimable(task[t])
    /\ Cardinality(ActiveInLane(LaneOf[t])) < ClusterLimit[LaneOf[t]]
    /\ task[t].token < MaxToken
    /\ task' = [task EXCEPT ![t] = ClaimedRow(@)]
    /\ worker' = [worker EXCEPT ![w] =
          [pc |-> IF task[t].status = "Canceling" THEN "stop" ELSE "run",
           task |-> t, token |-> task[t].token + 1, attempts |-> task[t].attempts,
           age |-> 0, dir |-> FALSE]]
    /\ UNCHANGED <<retrier, sweeper, scratch>>

----------------------------------------------------------------------------
(* Writes of the worker that holds a lease. *)

Fenced_StatusOnly(w) == task[worker[w].task].status = "Processing"

\* The condition every worker write carries in its WHERE clause.
Fenced(w) ==
    LET t == worker[w].task
    IN  /\ task[t].status = "Processing"
        /\ task[t].token = worker[w].token

\* May the slot still act for its task?  The handler's ensure_active checks
\* stop it once the guard has timed out; a stalled write may slip past them.
MayWrite(w) ==
    /\ worker[w].pc = "run"
    /\ StalledWrites \/ worker[w].age < RenewalTimeout

\* One write: it lands if the fencing condition holds, otherwise the guard is
\* marked lost and the slot stops.
OwnerWrite(w, row, slot) ==
    /\ MayWrite(w)
    /\ IF Fenced(w)
       THEN /\ task' = [task EXCEPT ![worker[w].task] = row]
            /\ worker' = [worker EXCEPT ![w] = slot]
       ELSE /\ worker' = [worker EXCEPT ![w].pc = "stop"]
            /\ UNCHANGED task
    /\ UNCHANGED <<retrier, sweeper, scratch>>

HeldRow(w) == task[worker[w].task]

\* touch_heartbeat and mark_progress renew the lease in the database and
\* refresh the guard; a heartbeat that finds the row Canceling stops the slot.
TouchHeartbeat(w) ==
    OwnerWrite(w, [HeldRow(w) EXCEPT !.lease = Lease], [worker[w] EXCEPT !.age = 0])

\* set_task_runtime_json and set_task_display_name refresh the guard only.
SetMetadata(w) ==
    /\ worker[w].task \in MetadataWriters
    /\ OwnerWrite(w, HeldRow(w), [worker[w] EXCEPT !.age = 0])

\* mark_task_succeeded
MarkSucceeded(w) ==
    OwnerWrite(w, [HeldRow(w) EXCEPT !.status = "Succeeded", !.lease = NoLease],
               IdleSlot)

Fail_OffByOne(w, class) ==
    LET spent == worker[w].attempts + 1
    IN  OwnerWrite(w,
          IF class = "Auto" /\ spent <= MaxAttempts
          THEN [HeldRow(w) EXCEPT !.status = "Retry", !.lease = NoLease,
                                  !.wait = RetryDelay, !.attempts = spent]
          ELSE [HeldRow(w) EXCEPT !.status = "Failed", !.lease = NoLease,
                                  !.attempts = spent, !.canRetry = "true"],
          IdleSlot)

\* A failed attempt: an automatic retry while the class and the budget allow
\* it (mark_retry), else a permanent failure (mark_failed).
Fail(w, class) ==
    LET spent == worker[w].attempts + 1
    IN  OwnerWrite(w,
          IF class = "Auto" /\ spent < MaxAttempts
          THEN [HeldRow(w) EXCEPT !.status = "Retry", !.lease = NoLease,
                                  !.wait = RetryDelay, !.attempts = spent]
          ELSE [HeldRow(w) EXCEPT !.status = "Failed", !.lease = NoLease,
                                  !.attempts = spent,
                                  !.canRetry = IF class = "Never" THEN "false"
                                                                  ELSE "true"],
          IdleSlot)

\* release_task_for_shutdown and release_unstarted: back to the queue, due now.
ReleaseProcessing(w) ==
    OwnerWrite(w, [HeldRow(w) EXCEPT !.status = "Retry", !.lease = NoLease,
                                     !.wait = 0],
               IdleSlot)

\* cancel::acknowledge, fenced on Canceling and the token; then the slot is free.
Acknowledge(w) ==
    LET t == worker[w].task
    IN  /\ worker[w].pc = "stop"
        /\ task' = IF task[t].status = "Canceling" /\ task[t].token = worker[w].token
                   THEN [task EXCEPT ![t].status = "Canceled", ![t].lease = NoLease,
                                     ![t].canRetry = "true"]
                   ELSE task
        /\ worker' = [worker EXCEPT ![w] = IdleSlot]
        /\ UNCHANGED <<retrier, sweeper, scratch>>

\* The guard timed out: the slot gives the task up without a write.
RenewalTimedOut(w) ==
    /\ worker[w].pc = "run"
    /\ worker[w].age = RenewalTimeout
    /\ worker' = [worker EXCEPT ![w] = IdleSlot]
    /\ UNCHANGED <<task, retrier, sweeper, scratch>>

\* The process dies and restarts with a free slot.
Crash(w) ==
    /\ worker[w].pc # "idle"
    /\ worker' = [worker EXCEPT ![w] = IdleSlot]
    /\ UNCHANGED <<task, retrier, sweeper, scratch>>

\* prepare_task_temp_dir_in_root for the lease's token.
PrepareScratch(w) ==
    /\ MayWrite(w)
    /\ worker[w].task \in ScratchTasks
    /\ ~worker[w].dir
    /\ scratch' = scratch \cup {<<worker[w].task, worker[w].token>>}
    /\ worker' = [worker EXCEPT ![w].dir = TRUE]
    /\ UNCHANGED <<task, retrier, sweeper>>

\* cleanup_task_temp_dir_for_lease: this attempt's directory only; pruning the
\* parent is not recursive, so it removes nothing that is in use.
CleanupScratchForLease(w) ==
    /\ worker[w].dir
    /\ scratch' = scratch \ {<<worker[w].task, worker[w].token>>}
    /\ worker' = [worker EXCEPT ![w].dir = FALSE]
    /\ UNCHANGED <<task, retrier, sweeper>>

----------------------------------------------------------------------------
(* Requests from outside the workers. *)

\* cancel::request, in one transaction that holds the row.
RequestCancel(t) ==
    /\ task[t].status \in Queued \cup {"Processing"}
    /\ task' = [task EXCEPT ![t] =
          IF @.status \in Queued
          THEN [@ EXCEPT !.status = "Canceled", !.lease = NoLease, !.canRetry = "true"]
          ELSE [@ EXCEPT !.status = "Canceling"]]
    /\ UNCHANGED <<worker, retrier, sweeper, scratch>>

\* task_can_retry: failure_can_retry.unwrap_or(true)
CanRetry(row) == row.status \in {"Failed", "Canceled"} /\ row.canRetry # "false"

\* retry_task_in_scope reads the row outside of any transaction ...
RetryRead(r, t) ==
    /\ retrier[r].pc = "idle"
    /\ CanRetry(task[t])
    /\ retrier' = [retrier EXCEPT ![r] = [pc |-> "read", task |-> t]]
    /\ UNCHANGED <<task, worker, sweeper, scratch>>

\* ... deletes the task's whole scratch directory ...
RetryCleanup(r) ==
    /\ retrier[r].pc = "read"
    /\ scratch' = {d \in scratch : d[1] # retrier[r].task}
    /\ retrier' = [retrier EXCEPT ![r].pc = "cleaned"]
    /\ UNCHANGED <<task, worker, sweeper>>

\* The columns reset_for_manual_retry sets; the token is kept.
ResetRow(row) ==
    [row EXCEPT !.status = "Pending", !.attempts = 0, !.wait = 0,
                !.lease = NoLease, !.canRetry = "null"]

\* ... and resets the row if it is Failed or Canceled by now.
RetryReset(r) ==
    LET t == retrier[r].task
    IN  /\ retrier[r].pc = "cleaned"
        /\ task' = IF task[t].status \in {"Failed", "Canceled"}
                   THEN [task EXCEPT ![t] = ResetRow(@)]
                   ELSE task
        /\ retrier' = [retrier EXCEPT ![r] = NoRequest]
        /\ UNCHANGED <<worker, sweeper, scratch>>

\* cleanup_tasks_for_admin: terminal rows are deleted under a row lock.
CleanupTasksForAdmin(t) ==
    /\ task[t].status \in Terminal
    /\ task' = [task EXCEPT ![t].status = "Deleted"]
    /\ UNCHANGED <<worker, retrier, sweeper, scratch>>

SweepRead_AnyStatus(s, t) ==
    /\ sweeper[s].pc = "idle"
    /\ \E d \in scratch : d[1] = t
    /\ sweeper' = [sweeper EXCEPT ![s] = [pc |-> "read", task |-> t]]
    /\ UNCHANGED <<task, worker, retrier, scratch>>

\* cleanup_expired_in_root reads the row of a directory it met: terminal and
\* past its retention (any time after the end), or no row at all ...
SweepRead(s, t) ==
    /\ sweeper[s].pc = "idle"
    /\ \E d \in scratch : d[1] = t
    /\ task[t].status \in Terminal \cup {"Deleted"}
    /\ sweeper' = [sweeper EXCEPT ![s] = [pc |-> "read", task |-> t]]
    /\ UNCHANGED <<task, worker, retrier, scratch>>

\* ... and then deletes the whole directory of the task.
SweepDelete(s) ==
    /\ sweeper[s].pc = "read"
    /\ scratch' = {d \in scratch : d[1] # sweeper[s].task}
    /\ sweeper' = [sweeper EXCEPT ![s] = NoRequest]
    /\ UNCHANGED <<task, worker, retrier>>

Tick ==
    /\ task' = [t \in Tasks |->
          [task[t] EXCEPT !.lease = IF @ > 0 THEN @ - 1 ELSE @,
                          !.wait = IF @ > 0 THEN @ - 1 ELSE @]]
    /\ worker' = [w \in Workers |->
          [worker[w] EXCEPT !.age = IF worker[w].pc = "run" /\ @ < RenewalTimeout
                                    THEN @ + 1 ELSE @]]
    /\ UNCHANGED <<retrier, sweeper, scratch>>

Finish(w) ==
    \/ MarkSucceeded(w)
    \/ \E class \in {"Auto", "Manual", "Never"} : Fail(w, class)
    \/ ReleaseProcessing(w)

WorkerStep(w) ==
    \/ \E t \in Tasks : TryClaim(w, t)
    \/ TouchHeartbeat(w)
    \/ SetMetadata(w)
    \/ Finish(w)
    \/ Acknowledge(w)
    \/ RenewalTimedOut(w)
    \/ Crash(w)
    \/ PrepareScratch(w)
    \/ CleanupScratchForLease(w)

RequestStep ==
    \/ \E t \in Tasks : Insert(t) \/ RequestCancel(t) \/ CleanupTasksForAdmin(t)
    \/ \E r \in Retriers : \/ \E t \in Tasks : RetryRead(r, t)
                           \/ RetryCleanup(r)
                           \/ RetryReset(r)
    \/ \E s \in Sweepers : \/ \E t \in Tasks : SweepRead(s, t)
                           \/ SweepDelete(s)

Next == (\E w \in Workers : WorkerStep(w)) \/ RequestStep \/ Tick

Spec == Init /\ [][Next]_vars

\* Fairness: the heartbeat loop, the acknowledgement and the handler make
\* progress while their process lives, time passes, and the dispatcher polls
\* with the oldest row first, so a row that stays due is not passed over for
\* ever.
Fairness ==
    /\ WF_vars(Tick)
    /\ \A w \in Workers : /\ WF_vars(TouchHeartbeat(w))
                          /\ WF_vars(Acknowledge(w))
                          /\ WF_vars(RenewalTimedOut(w))
                          /\ SF_vars(Finish(w))
    /\ \A t \in Tasks : SF_vars(\E w \in Workers : TryClaim(w, t))

FairSpec == Spec /\ Fairness

----------------------------------------------------------------------------
(* Properties. *)

\* The rows, slots, requests and directories have their types.
TypeOK ==
    /\ task \in [Tasks -> Row]
    /\ worker \in [Workers -> Slot]
    /\ retrier \in [Retriers -> Request]
    /\ sweeper \in [Sweepers -> Request]
    /\ scratch \subseteq Tasks \X Nat

Busy(w) == worker[w].pc # "idle"

\* A worker that the local guard still lets run its handler.
Running(w) == worker[w].pc = "run" /\ worker[w].age < RenewalTimeout

\* lease_expires_at is set exactly while the row is Processing or Canceling:
\* an owned row without a lease could never be reclaimed after a crash, and
\* a queued one with a lease would count against its lane's quota.
LeaseIffOwned ==
    \A t \in Tasks : task[t].lease # NoLease <=> task[t].status \in Owned

\* Fencing tokens are unique: two slots that hold the same task hold different
\* tokens, and neither is ahead of the row.
TokenUnique ==
    \A v, w \in Workers : Busy(w) =>
        /\ worker[w].token <= task[worker[w].task].token
        /\ Busy(v) /\ v # w /\ worker[v].task = worker[w].task
              => worker[v].token # worker[w].token

\* The holder of the current token owns the row: while its slot is busy nobody
\* else has ended the attempt, and reclaiming is the only way to lose it.
HolderOwns ==
    \A w \in Workers :
        Busy(w) /\ worker[w].token = task[worker[w].task].token
            => task[worker[w].task].status \in Owned

\* The attempt count that a worker read when it claimed its row is still the
\* row's count while its token is current, so mark_retry and mark_failed, which
\* store snapshot + 1, never lose or repeat an attempt, whatever manual
\* retries, cancellations and takeovers happened meanwhile.
AttemptsFresh ==
    \A w \in Workers :
        Busy(w) /\ worker[w].token = task[worker[w].task].token
            => worker[w].attempts = task[worker[w].task].attempts

\* The budget: a row that is queued or runs has an attempt left.
AttemptBudget ==
    \A t \in Tasks : task[t].status \in {"Absent"} \cup Queued \cup Owned
                        => task[t].attempts < MaxAttempts

\* Two workers never run the handler of the same task at the same time, though
\* a takeover does not wait for the old worker: its guard times out no later
\* than the lease that it renewed last.
ExclusiveExecution ==
    \A v, w \in Workers :
        Running(v) /\ Running(w) /\ worker[v].task = worker[w].task => v = w

\* The invariant behind it: while the guard lets a worker run, the row is its
\* own and the lease outlives the guard.
LeaseCoversGuard ==
    \A w \in Workers :
        Running(w) =>
            LET row == task[worker[w].task]
            IN  /\ row.status \in Owned
                /\ row.token = worker[w].token
                /\ row.lease + worker[w].age >= Lease

\* The cluster never works on more tasks of a lane than its limit: rows that
\* are being canceled count, a takeover does not count twice, and renewals,
\* cancellations and crashes keep the bound.
LaneQuota ==
    \A t \in Tasks :
        Cardinality({u \in Tasks : /\ LaneOf[u] = LaneOf[t]
                                  /\ task[u].status \in Owned
                                  /\ task[u].lease > 0})
            <= ClusterLimit[LaneOf[t]]

\* The directory that a running worker staged its files in is not removed
\* under it by a manual retry or by the sweep.
LiveScratchKept ==
    \A w \in Workers :
        Running(w) /\ worker[w].dir
            => <<worker[w].task, worker[w].token>> \in scratch

\* Task t leaves Processing or Canceling only in the step with which the busy
\* holder of its current token frees its slot.
EndedByHolder(t) ==
    task[t].status \in Owned /\ task'[t].status \notin Owned
      => \E w \in Workers : /\ Busy(w)
                            /\ worker[w].task = t
                            /\ worker[w].token = task[t].token
                            /\ worker'[w] = IdleSlot

\* Only the worker with the current token ends an attempt: no stale worker,
\* manual retry, cleanup or cancellation request takes a row out of Processing
\* or Canceling.
OnlyHolderEndsAttempt == [][\A t \in Tasks : EndedByHolder(t)]_vars

StaysCanceled(t) ==
    task[t].status = "Canceling" => task'[t].status \in {"Canceling", "Canceled"}

\* A cancellation, once requested, is never overwritten: a Canceling row may be
\* reclaimed after a crash and a late success or failure may race with it, but
\* it leaves Canceling only for Canceled.
CancellationSticks == [][\A t \in Tasks : StaysCanceled(t)]_vars

KeepsOutcome(t) ==
    task[t].status \in Terminal /\ task'[t].status # task[t].status
      => \/ task'[t].status = "Deleted"
         \/ /\ task[t].status # "Succeeded"
            /\ task'[t].status = "Pending"
            /\ task'[t].attempts = 0

\* The outcome of a finished task is final: Succeeded rows are only deleted,
\* and the others are put back into the queue only with a fresh budget, also
\* when two manual retries interleave with a whole attempt.
OutcomeFinal == [][\A t \in Tasks : KeepsOutcome(t)]_vars

\* A requested cancellation settles, also when the worker that ran the task
\* crashed before it acknowledged (or the bound on tokens is reached).
CancellationSettles ==
    \A t \in Tasks :
        task[t].status = "Canceling"
            ~> task[t].status \notin Owned \/ task[t].token = MaxToken

\* Every queued task comes to an end or is due for a takeover that the bound on
\* tokens rules out.
EveryTaskFinishes ==
    \A t \in Tasks :
        task[t].status \in Queued
            ~> task[t].status \in Terminal \cup Gone \/ task[t].token = MaxToken

=============================================================================
