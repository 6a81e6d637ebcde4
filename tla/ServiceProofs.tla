--------------------------- MODULE ServiceProofs ----------------------------
(***************************************************************************)
(* Proofs about BackgroundTask and BindingSync: the work that the service  *)
(* does by itself, in background tasks and for its followers.              *)
(***************************************************************************)
EXTENDS BackgroundTask, BindingSync, FiniteSetTheorems, TLAPS

\* Steps that name no prover are Zenon's; arithmetic goes to Z3, by two routes.
USE ZenonT(60)

-----------------------------------------------------------------------------
(***************************************************************************)
(* Proofs about BackgroundTask, for any number of tasks, workers, manual   *)
(* retries and sweeps and for every lease, delay and budget.               *)
(***************************************************************************)
\* A number is not less than itself.
LEMMA NotLess == \A n \in Nat : n >= n
  BY SMTT(60), Z3T(60)

\* A busy slot and a request under way name a task of the table.
Targets ==
    /\ \A w \in Workers : Busy(w) => worker[w].task \in Tasks
    /\ \A r \in Retriers : retrier[r].pc # "idle" => retrier[r].task \in Tasks
    /\ \A s \in Sweepers : sweeper[s].pc # "idle" => sweeper[s].task \in Tasks

\* The inductive invariant of the fencing protocol.
IInv ==
    /\ TypeOK
    /\ Targets
    /\ LeaseIffOwned
    /\ TokenUnique
    /\ HolderOwns
    /\ AttemptsFresh
    /\ AttemptBudget

\* The initial state: an empty table and idle slots.
LEMMA InitIInv == Init => IInv
  BY SMTT(60), Z3T(60), LeaseAssumption, TaskAssumption
  DEF Init, IInv, TypeOK, Targets, LeaseIffOwned, TokenUnique, HolderOwns,
      AttemptsFresh, AttemptBudget, Busy, Row, Slot, Request, NewRow, IdleSlot,
      NoRequest, NoLease, Owned, Queued, Terminal, Gone

\* A row of a task changes and slots do not: what must be shown of the new row.
LEMMA RowStep ==
  ASSUME IInv, NEW t \in Tasks, NEW row \in Row,
         task' = [task EXCEPT ![t] = row],
         worker' = worker,
         row.token = task[t].token,
         row.lease # NoLease <=> row.status \in Owned,
         row.status \in Queued \cup Owned => row.attempts < MaxAttempts,
         row.status # "Absent",
         task[t].status \in Owned => row.status \in Owned /\ row.attempts = task[t].attempts
  PROVE  /\ task' \in [Tasks -> Row]
         /\ LeaseIffOwned'
         /\ TokenUnique'
         /\ HolderOwns'
         /\ AttemptsFresh'
         /\ AttemptBudget'
<1>1. task' \in [Tasks -> Row]
  BY DEF IInv, TypeOK
<1>2. LeaseIffOwned'
  BY DEF IInv, TypeOK, LeaseIffOwned
<1>3. \A u \in Tasks : task'[u].token = task[u].token
  BY DEF IInv, TypeOK
<1>4. TokenUnique'
  BY SMTT(60), Z3T(60), <1>3 DEF IInv, TypeOK, TokenUnique, Busy, Targets
<1>5. HolderOwns'
  BY <1>3 DEF IInv, TypeOK, HolderOwns, Busy, Targets
<1>6. AttemptsFresh'
  BY SMTT(60), Z3T(60), <1>3 DEF IInv, TypeOK, HolderOwns, AttemptsFresh, Busy, Targets
<1>7. AttemptBudget'
  BY DEF IInv, TypeOK, AttemptBudget, Queued, Owned
<1> QED BY <1>1, <1>2, <1>4, <1>5, <1>6, <1>7

\* A slot changes and rows do not: the slot is freed or keeps its lease.
LEMMA SlotStep ==
  ASSUME IInv, NEW w \in Workers, NEW slot \in Slot,
         task' = task,
         worker' = [worker EXCEPT ![w] = slot],
         \/ slot.pc = "idle"
         \/ /\ Busy(w)
            /\ slot.task = worker[w].task
            /\ slot.token = worker[w].token
            /\ slot.attempts = worker[w].attempts
  PROVE  /\ worker' \in [Workers -> Slot]
         /\ \A v \in Workers : Busy(v)' => worker'[v].task \in Tasks
         /\ LeaseIffOwned'
         /\ TokenUnique'
         /\ HolderOwns'
         /\ AttemptsFresh'
         /\ AttemptBudget'
<1>1. worker' \in [Workers -> Slot]
  BY DEF IInv, TypeOK
<1>2. \A v \in Workers : Busy(v)' =>
        /\ Busy(v)
        /\ worker'[v].task = worker[v].task
        /\ worker'[v].token = worker[v].token
        /\ worker'[v].attempts = worker[v].attempts
  BY DEF IInv, TypeOK, Busy
<1>3. \A v \in Workers : Busy(v)' => worker'[v].task \in Tasks
  BY <1>2 DEF IInv, Targets
<1>4. LeaseIffOwned' /\ AttemptBudget'
  BY DEF IInv, LeaseIffOwned, AttemptBudget
<1>5. TokenUnique'
  <2> SUFFICES ASSUME NEW v \in Workers, NEW u \in Workers, Busy(u)'
               PROVE  /\ worker'[u].token <= task'[worker'[u].task].token
                      /\ Busy(v)' /\ v # u /\ worker'[v].task = worker'[u].task
                            => worker'[v].token # worker'[u].token
    BY DEF TokenUnique
  <2> QED BY SMTT(60), Z3T(60), <1>2 DEF IInv, TokenUnique
<1>6. HolderOwns'
  BY <1>2 DEF IInv, HolderOwns
<1>7. AttemptsFresh'
  BY <1>2 DEF IInv, AttemptsFresh
<1> QED BY <1>1, <1>3, <1>4, <1>5, <1>6, <1>7

\* The current holder writes its row: it keeps the row and the slot, or ends
\* the attempt and frees the slot.
LEMMA HolderStep ==
  ASSUME IInv, NEW w \in Workers, NEW row \in Row, NEW slot \in Slot,
         Busy(w),
         worker[w].token = task[worker[w].task].token,
         task' = [task EXCEPT ![worker[w].task] = row],
         worker' = [worker EXCEPT ![w] = slot],
         row.token = task[worker[w].task].token,
         row.lease # NoLease <=> row.status \in Owned,
         row.status \in Queued \cup Owned => row.attempts < MaxAttempts,
         row.status # "Absent",
         \/ slot.pc = "idle"
         \/ /\ slot.task = worker[w].task
            /\ slot.token = worker[w].token
            /\ slot.attempts = row.attempts
            /\ row.status \in Owned
  PROVE  /\ task' \in [Tasks -> Row]
         /\ worker' \in [Workers -> Slot]
         /\ \A v \in Workers : Busy(v)' => worker'[v].task \in Tasks
         /\ LeaseIffOwned'
         /\ TokenUnique'
         /\ HolderOwns'
         /\ AttemptsFresh'
         /\ AttemptBudget'
<1> DEFINE t == worker[w].task
<1>0. t \in Tasks
  BY DEF IInv, Targets
<1>1. task' \in [Tasks -> Row] /\ worker' \in [Workers -> Slot]
  BY <1>0 DEF IInv, TypeOK
<1>2. \A u \in Tasks : task'[u].token = task[u].token
  BY <1>0 DEF IInv, TypeOK
<1>3. \A v \in Workers : Busy(v)' =>
        /\ Busy(v)
        /\ worker'[v].task = worker[v].task
        /\ worker'[v].token = worker[v].token
  BY DEF IInv, TypeOK, Busy
<1>4. \A v \in Workers : Busy(v)' => worker'[v].task \in Tasks
  BY <1>3 DEF IInv, Targets
<1>5. \A v \in Workers : Busy(v) /\ v # w /\ worker[v].task = t
                            => worker[v].token # task[t].token
  BY DEF IInv, TokenUnique
<1>6. LeaseIffOwned'
  BY <1>0 DEF IInv, TypeOK, LeaseIffOwned
<1>7. AttemptBudget'
  BY <1>0 DEF IInv, TypeOK, AttemptBudget, Queued, Owned
<1>8. TokenUnique'
  <2> SUFFICES ASSUME NEW v \in Workers, NEW u \in Workers, Busy(u)'
               PROVE  /\ worker'[u].token <= task'[worker'[u].task].token
                      /\ Busy(v)' /\ v # u /\ worker'[v].task = worker'[u].task
                            => worker'[v].token # worker'[u].token
    BY DEF TokenUnique
  <2> QED BY SMTT(60), Z3T(60), <1>2, <1>3, <1>4 DEF IInv, TokenUnique
<1>9. /\ HolderOwns'
      /\ AttemptsFresh'
  <2> SUFFICES ASSUME NEW v \in Workers, Busy(v)',
                      worker'[v].token = task'[worker'[v].task].token
               PROVE  /\ task'[worker'[v].task].status \in Owned
                      /\ worker'[v].attempts = task'[worker'[v].task].attempts
    BY DEF HolderOwns, AttemptsFresh
  <2>1. CASE v = w
    BY <2>1, <1>0, <1>1 DEF IInv, TypeOK, Busy
  <2>2. CASE v # w
    <3>1. worker'[v] = worker[v] /\ Busy(v)
      BY <2>2, <1>3 DEF IInv, TypeOK
    <3>2. worker[v].task # t
      BY SMTT(60), Z3T(60), <2>2, <3>1, <1>5, <1>2, <1>0
    <3>3. worker[v].task \in Tasks /\ task'[worker[v].task] = task[worker[v].task]
      BY <3>1, <3>2, <1>0 DEF IInv, TypeOK, Targets
    <3> QED BY <3>1, <3>3 DEF IInv, HolderOwns, AttemptsFresh
  <2> QED BY <2>1, <2>2
<1> QED BY <1>1, <1>4, <1>6, <1>7, <1>8, <1>9

\* A write under the fencing condition keeps the invariant, whether it lands or
\* finds the lease lost.
LEMMA OwnerWriteStep ==
  ASSUME IInv, NEW w \in Workers, NEW row, NEW slot,
         OwnerWrite(w, row, slot),
         Fenced(w) =>
            /\ row \in Row
            /\ slot \in Slot
            /\ row.token = task[worker[w].task].token
            /\ row.lease # NoLease <=> row.status \in Owned
            /\ row.status \in Queued \cup Owned => row.attempts < MaxAttempts
            /\ row.status # "Absent"
            /\ \/ slot.pc = "idle"
               \/ /\ slot.task = worker[w].task
                  /\ slot.token = worker[w].token
                  /\ slot.attempts = row.attempts
                  /\ row.status \in Owned
  PROVE  IInv'
<1>1. Busy(w) /\ worker[w].task \in Tasks
  BY DEF OwnerWrite, MayWrite, Busy, IInv, Targets
<1>2. CASE Fenced(w)
  BY SMTT(60), Z3T(60), <1>1, <1>2, HolderStep DEF OwnerWrite, Fenced, IInv, TypeOK, Targets
<1>3. CASE ~Fenced(w)
  <2> DEFINE lost == [worker[w] EXCEPT !.pc = "stop"]
  <2>1. /\ task' = task
        /\ worker' = [worker EXCEPT ![w] = lost]
        /\ UNCHANGED <<retrier, sweeper, scratch>>
    BY <1>3 DEF OwnerWrite, IInv, TypeOK
  <2>2. /\ lost \in Slot
        /\ lost.task = worker[w].task
        /\ lost.token = worker[w].token
        /\ lost.attempts = worker[w].attempts
    BY DEF IInv, TypeOK, Slot
  <2> HIDE DEF lost
  <2> QED BY <1>1, <2>1, <2>2, SlotStep DEF IInv, TypeOK, Targets
<1> QED BY <1>2, <1>3

\* What the fencing condition tells the holder about its row.
LEMMA HeldRowFacts ==
  ASSUME IInv, NEW w \in Workers, worker[w].pc = "run", Fenced(w)
  PROVE  /\ HeldRow(w) \in Row
         /\ HeldRow(w).status = "Processing"
         /\ HeldRow(w).lease # NoLease
         /\ HeldRow(w).attempts = worker[w].attempts
         /\ HeldRow(w).attempts < MaxAttempts
         /\ worker[w] \in Slot
<1>1. worker[w].task \in Tasks
  BY DEF IInv, Targets, Busy
<1> QED BY <1>1 DEF IInv, TypeOK, HeldRow, Fenced, LeaseIffOwned, AttemptsFresh,
                    AttemptBudget, Owned, Queued, Busy

\* A free slot has its type.
LEMMA IdleSlotType == IdleSlot \in Slot /\ IdleSlot.pc = "idle"
  BY SMTT(60), Z3T(60), LeaseAssumption DEF IdleSlot, Slot

\* Every step of a worker keeps the invariant.
LEMMA WorkerStepIInv ==
  ASSUME IInv, NEW w \in Workers, WorkerStep(w)
  PROVE  IInv'
<1> USE LeaseAssumption
<1>1. ASSUME NEW t \in Tasks, TryClaim(w, t) PROVE IInv'
  <2> DEFINE slot == worker'[w]
  <2>1. /\ task'[t].status \in Owned
        /\ task'[t].token = task[t].token + 1
        /\ task'[t].lease = Lease
        /\ task'[t].attempts = task[t].attempts
        /\ task[t].attempts < MaxAttempts
        /\ task' \in [Tasks -> Row]
    <3>1. task[t] \in Row /\ task' = [task EXCEPT ![t] = ClaimedRow(task[t])]
      BY <1>1 DEF TryClaim, IInv, TypeOK
    <3>2. task[t].attempts < MaxAttempts
      BY <1>1 DEF TryClaim, Claimable, IInv, AttemptBudget
    <3>3. /\ ClaimedRow(task[t]) \in Row
          /\ ClaimedRow(task[t]).status \in Owned
          /\ ClaimedRow(task[t]).token = task[t].token + 1
          /\ ClaimedRow(task[t]).lease = Lease
          /\ ClaimedRow(task[t]).attempts = task[t].attempts
      <4>1. /\ (IF task[t].status = "Canceling" THEN "Canceling" ELSE "Processing") \in Owned
            /\ Lease \in 0..Lease
            /\ task[t].token + 1 \in Nat
        BY SMTT(60), Z3T(60), <3>1 DEF Owned, Row
      <4> QED BY <3>1, <4>1 DEF ClaimedRow, Row
    <3> QED BY <3>1, <3>2, <3>3 DEF IInv, TypeOK
  <2>2. /\ worker' \in [Workers -> Slot]
        /\ slot.pc # "idle"
        /\ slot.task = t
        /\ slot.token = task[t].token + 1
        /\ slot.attempts = task[t].attempts
    BY SMTT(60), Z3T(60), <1>1 DEF TryClaim, IInv, TypeOK, Row, Slot
  <2>3. \A u \in Tasks : u # t => task'[u] = task[u]
    BY <1>1 DEF TryClaim, IInv, TypeOK
  <2>4. \A v \in Workers : v # w => worker'[v] = worker[v]
    BY <1>1 DEF TryClaim, IInv, TypeOK
  <2>5. TypeOK' /\ Targets'
    BY <1>1, <2>1, <2>2, <2>4 DEF TryClaim, IInv, TypeOK, Targets, Busy
  <2>6. LeaseIffOwned' /\ AttemptBudget'
    BY SMTT(60), Z3T(60), <2>1, <2>3 DEF IInv, LeaseIffOwned, AttemptBudget, NoLease
  <2>7. \A v \in Workers : v # w /\ Busy(v) /\ worker[v].task = t
                              => worker[v].token < task'[t].token
    BY SMTT(60), Z3T(60), <2>1 DEF IInv, TypeOK, TokenUnique, Row, Slot
  <2>8. TokenUnique'
    <3> SUFFICES ASSUME NEW v \in Workers, NEW u \in Workers, Busy(u)'
                 PROVE  /\ worker'[u].token <= task'[worker'[u].task].token
                        /\ Busy(v)' /\ v # u /\ worker'[v].task = worker'[u].task
                              => worker'[v].token # worker'[u].token
      BY DEF TokenUnique
    <3>1. \A x \in Workers : worker'[x].token \in Nat /\ worker[x].token \in Nat
      BY <2>2 DEF IInv, TypeOK, Slot
    <3>2. task[t].token \in Nat
      BY DEF IInv, TypeOK, Row
    <3>3. worker'[u].token <= task'[worker'[u].task].token
      BY SMTT(60), Z3T(60), <3>1, <3>2, <2>1, <2>2, <2>3, <2>4, <2>7
      DEF IInv, TokenUnique, Busy, Targets
    <3>4. Busy(v)' /\ v # u /\ worker'[v].task = worker'[u].task
                              => worker'[v].token # worker'[u].token
      BY SMTT(60), Z3T(60), <3>1, <3>2, <2>1, <2>2, <2>4, <2>7 DEF IInv, TokenUnique, Busy
    <3> QED BY <3>3, <3>4
  <2>9. HolderOwns' /\ AttemptsFresh'
    <3> SUFFICES ASSUME NEW v \in Workers, Busy(v)',
                        worker'[v].token = task'[worker'[v].task].token
                 PROVE  /\ task'[worker'[v].task].status \in Owned
                        /\ worker'[v].attempts = task'[worker'[v].task].attempts
      BY DEF HolderOwns, AttemptsFresh
    <3>1. CASE v = w
      BY <3>1, <2>1, <2>2
    <3>2. CASE v # w
      <4>1. worker'[v] = worker[v] /\ Busy(v) /\ worker[v].task \in Tasks
        BY <3>2, <2>4 DEF Busy, IInv, Targets
      <4>2. worker[v].task # t
        <5>1. worker[v].token \in Nat /\ task'[t].token \in Nat
          BY <2>1 DEF IInv, TypeOK, Slot, Row
        <5> QED BY SMTT(60), Z3T(60), <3>2, <4>1, <5>1, <2>7
      <4> QED BY SMTT(60), Z3T(60), <4>1, <4>2, <2>3 DEF IInv, HolderOwns, AttemptsFresh
    <3> QED BY <3>1, <3>2
  <2> QED BY <2>5, <2>6, <2>8, <2>9 DEF IInv
<1>2. CASE TouchHeartbeat(w)
  <2> DEFINE row == [HeldRow(w) EXCEPT !.lease = Lease]
             slot == [worker[w] EXCEPT !.age = 0]
  <2>1. OwnerWrite(w, row, slot) /\ worker[w].pc = "run"
    BY <1>2 DEF TouchHeartbeat, OwnerWrite, MayWrite
  <2>2. ASSUME Fenced(w)
        PROVE  /\ row \in Row /\ slot \in Slot
               /\ row.token = task[worker[w].task].token
               /\ row.lease # NoLease /\ row.status = "Processing"
               /\ row.attempts = worker[w].attempts /\ row.attempts < MaxAttempts
               /\ slot.task = worker[w].task /\ slot.token = worker[w].token
               /\ slot.attempts = worker[w].attempts
    BY SMTT(60), Z3T(60), <2>1, <2>2, HeldRowFacts DEF Row, Slot, HeldRow, NoLease
  <2> HIDE DEF row, slot
  <2> QED BY <2>1, <2>2, OwnerWriteStep DEF Owned
<1>3. CASE SetMetadata(w)
  <2> DEFINE slot == [worker[w] EXCEPT !.age = 0]
  <2>1. OwnerWrite(w, HeldRow(w), slot) /\ worker[w].pc = "run"
    BY <1>3 DEF SetMetadata, OwnerWrite, MayWrite
  <2>2. ASSUME Fenced(w)
        PROVE  /\ slot \in Slot
               /\ slot.task = worker[w].task /\ slot.token = worker[w].token
               /\ slot.attempts = worker[w].attempts
    BY SMTT(60), Z3T(60), <2>1, <2>2, HeldRowFacts DEF Slot
  <2>3. HeldRow(w).token = task[worker[w].task].token
    BY DEF HeldRow
  <2> HIDE DEF slot
  <2> QED BY <2>1, <2>2, <2>3, HeldRowFacts, OwnerWriteStep DEF Owned
<1>4. CASE Finish(w)
  <2> DEFINE Ends(row) ==
               Fenced(w) => /\ row \in Row
                            /\ row.token = task[worker[w].task].token
                            /\ row.lease = NoLease
                            /\ row.status \in Terminal \cup {"Retry"}
                            /\ row.status = "Retry" => row.attempts < MaxAttempts
  <2>1. \E row : OwnerWrite(w, row, IdleSlot) /\ Ends(row)
    <3>0. worker[w].pc = "run"
      BY <1>4 DEF Finish, MarkSucceeded, Fail, ReleaseProcessing, OwnerWrite, MayWrite
    <3>1. CASE MarkSucceeded(w)
      <4> DEFINE row == [HeldRow(w) EXCEPT !.status = "Succeeded", !.lease = NoLease]
      <4>1. Fenced(w) => /\ row \in Row
                         /\ row.token = task[worker[w].task].token
                         /\ row.lease = NoLease
                         /\ row.status = "Succeeded"
        BY <3>0, HeldRowFacts DEF Row, HeldRow, Terminal
      <4>2. OwnerWrite(w, row, IdleSlot)
        BY <3>1 DEF MarkSucceeded
      <4> HIDE DEF row
      <4> QED BY <4>1, <4>2 DEF Terminal
    <3>2. ASSUME NEW class \in {"Auto", "Manual", "Never"}, Fail(w, class)
          PROVE  \E row : OwnerWrite(w, row, IdleSlot) /\ Ends(row)
      <4> DEFINE spent == worker[w].attempts + 1
                 again == [HeldRow(w) EXCEPT !.status = "Retry", !.lease = NoLease,
                                             !.wait = RetryDelay, !.attempts = spent]
                 dead  == [HeldRow(w) EXCEPT !.status = "Failed", !.lease = NoLease,
                                  !.attempts = spent,
                                  !.canRetry = IF class = "Never" THEN "false"
                                                                  ELSE "true"]
      <4>0. Fenced(w) => spent \in 0..MaxAttempts
        BY SMTT(60), Z3T(60), <3>0, HeldRowFacts DEF Slot
      <4>1. CASE class = "Auto" /\ spent < MaxAttempts
        <5>1. OwnerWrite(w, again, IdleSlot)
          BY <3>2, <4>1 DEF Fail
        <5>2. Fenced(w) => /\ again \in Row
                           /\ again.token = task[worker[w].task].token
                           /\ again.lease = NoLease
                           /\ again.status = "Retry"
                           /\ again.attempts < MaxAttempts
          <6>1. RetryDelay \in 0..RetryDelay /\ "Retry" \in Queued
            BY SMTT(60), Z3T(60) DEF Queued
          <6> QED BY <6>1, <3>0, <4>0, <4>1, HeldRowFacts DEF Row, HeldRow
        <5> HIDE DEF again
        <5> QED BY <5>1, <5>2
      <4>2. CASE ~(class = "Auto" /\ spent < MaxAttempts)
        <5>1. OwnerWrite(w, dead, IdleSlot)
          BY <3>2, <4>2 DEF Fail
        <5>2. Fenced(w) => /\ dead \in Row
                           /\ dead.token = task[worker[w].task].token
                           /\ dead.lease = NoLease
                           /\ dead.status = "Failed"
          BY <3>0, <4>0, HeldRowFacts DEF Row, HeldRow, Terminal
        <5> HIDE DEF dead
        <5> QED BY <5>1, <5>2 DEF Terminal
      <4> QED BY <4>1, <4>2
    <3>3. CASE ReleaseProcessing(w)
      <4> DEFINE row == [HeldRow(w) EXCEPT !.status = "Retry", !.lease = NoLease,
                                           !.wait = 0]
      <4>1. Fenced(w) => /\ row \in Row
                         /\ row.token = task[worker[w].task].token
                         /\ row.lease = NoLease
                         /\ row.status = "Retry"
                         /\ row.attempts < MaxAttempts
        <5>1. 0 \in 0..RetryDelay /\ "Retry" \in Queued
          BY SMTT(60), Z3T(60) DEF Queued
        <5> QED BY <5>1, <3>0, HeldRowFacts DEF Row, HeldRow
      <4>2. OwnerWrite(w, row, IdleSlot)
        BY <3>3 DEF ReleaseProcessing
      <4> HIDE DEF row
      <4> QED BY <4>1, <4>2
    <3> HIDE DEF Ends
    <3> QED BY <1>4, <3>1, <3>2, <3>3 DEF Finish
  <2>2. PICK row : OwnerWrite(w, row, IdleSlot) /\ Ends(row)
    BY <2>1
  <2> QED BY <2>2, IdleSlotType, OwnerWriteStep DEF Owned, Queued, Terminal
<1>5. CASE Acknowledge(w)
  <2> DEFINE t == worker[w].task
             row == [task[t] EXCEPT !.status = "Canceled", !.lease = NoLease,
                                    !.canRetry = "true"]
  <2>1. Busy(w) /\ t \in Tasks
    BY <1>5 DEF Acknowledge, Busy, IInv, Targets
  <2>2. CASE task[t].status = "Canceling" /\ task[t].token = worker[w].token
    <3>1. /\ task' = [task EXCEPT ![t] = row]
          /\ worker' = [worker EXCEPT ![w] = IdleSlot]
          /\ UNCHANGED <<retrier, sweeper, scratch>>
      BY <1>5, <2>1, <2>2 DEF Acknowledge, IInv, TypeOK
    <3>2. /\ row \in Row
          /\ row.token = task[t].token
          /\ row.lease = NoLease
          /\ row.status = "Canceled"
      BY <2>1 DEF IInv, TypeOK, Row, Terminal
    <3> HIDE DEF row
    <3> QED BY <2>1, <2>2, <3>1, <3>2, HolderStep, IdleSlotType
            DEF IInv, TypeOK, Targets, Owned, Queued
  <2>3. CASE ~(task[t].status = "Canceling" /\ task[t].token = worker[w].token)
    BY <1>5, <2>3, SlotStep, IdleSlotType DEF Acknowledge, IInv, TypeOK, Targets
  <2> QED BY <2>2, <2>3
<1>6. CASE RenewalTimedOut(w) \/ Crash(w)
  BY <1>6, SlotStep, IdleSlotType DEF RenewalTimedOut, Crash, IInv, TypeOK, Targets
<1>7. CASE PrepareScratch(w) \/ CleanupScratchForLease(w)
  <2>0. PICK flag \in BOOLEAN : worker' = [worker EXCEPT ![w].dir = flag]
    BY <1>7 DEF PrepareScratch, CleanupScratchForLease
  <2> DEFINE slot == [worker[w] EXCEPT !.dir = flag]
  <2>1. /\ slot \in Slot
        /\ slot.pc = worker[w].pc
        /\ slot.task = worker[w].task
        /\ slot.token = worker[w].token
        /\ slot.attempts = worker[w].attempts
        /\ worker' = [worker EXCEPT ![w] = slot]
    BY <2>0 DEF IInv, TypeOK, Slot
  <2>2. scratch' \subseteq Tasks \X Nat
    <3>1. CASE PrepareScratch(w)
      BY SMTT(60), Z3T(60), <3>1 DEF PrepareScratch, MayWrite, IInv, TypeOK, Targets, Busy, Slot
    <3>2. CASE CleanupScratchForLease(w)
      BY <3>2 DEF CleanupScratchForLease, IInv, TypeOK
    <3> QED BY <1>7, <3>1, <3>2
  <2> HIDE DEF slot
  <2>3. task' = task /\ UNCHANGED <<retrier, sweeper>>
    BY <1>7 DEF PrepareScratch, CleanupScratchForLease
  <2>4. slot.pc = "idle" \/ Busy(w)
    BY <2>1 DEF Busy
  <2> QED BY <2>1, <2>2, <2>3, <2>4, SlotStep DEF IInv, TypeOK, Targets
<1> QED BY <1>1, <1>2, <1>3, <1>4, <1>5, <1>6, <1>7 DEF WorkerStep

\* Every request from outside the workers keeps the invariant.
LEMMA RequestStepIInv ==
  ASSUME IInv, RequestStep
  PROVE  IInv'
<1> USE LeaseAssumption
<1>1. ASSUME NEW t \in Tasks, Insert(t) PROVE IInv'
  <2> DEFINE row == [task[t] EXCEPT !.status = "Pending"]
  <2>1. /\ row \in Row
        /\ row.token = task[t].token
        /\ row.lease = NoLease
        /\ row.status = "Pending"
        /\ row.attempts < MaxAttempts
    BY <1>1 DEF Insert, IInv, TypeOK, Row, LeaseIffOwned, AttemptBudget, Owned, Queued
  <2>2. task' = [task EXCEPT ![t] = row] /\ UNCHANGED <<worker, retrier, sweeper, scratch>>
    BY <1>1 DEF Insert, IInv, TypeOK
  <2>3. task[t].status \notin Owned
    BY <1>1 DEF Insert, Owned
  <2> HIDE DEF row
  <2> QED BY <2>1, <2>2, <2>3, RowStep DEF IInv, TypeOK, Targets, Owned, Busy
<1>2. ASSUME NEW t \in Tasks, RequestCancel(t) PROVE IInv'
  <2> DEFINE row == IF task[t].status \in Queued
                    THEN [task[t] EXCEPT !.status = "Canceled", !.lease = NoLease,
                                         !.canRetry = "true"]
                    ELSE [task[t] EXCEPT !.status = "Canceling"]
  <2>1. task' = [task EXCEPT ![t] = row] /\ UNCHANGED <<worker, retrier, sweeper, scratch>>
    BY <1>2 DEF RequestCancel, IInv, TypeOK
  <2>2. task[t] \in Row /\ "Canceled" \in Terminal /\ "Canceling" \in Owned
    BY DEF IInv, TypeOK, Terminal, Owned
  <2>3. CASE task[t].status \in Queued
    <3>1. /\ row \in Row
          /\ row.token = task[t].token
          /\ row.lease = NoLease
          /\ row.status = "Canceled"
      BY <2>2, <2>3 DEF Row
    <3>2. task[t].status \notin Owned
      BY <2>3 DEF Queued, Owned
    <3> HIDE DEF row
    <3> QED BY <2>1, <3>1, <3>2, RowStep DEF IInv, TypeOK, Targets, Owned, Queued, Busy
  <2>4. CASE task[t].status = "Processing"
    <3>1. /\ row \in Row
          /\ row.token = task[t].token
          /\ row.lease = task[t].lease
          /\ row.attempts = task[t].attempts
          /\ row.status = "Canceling"
      BY <2>2, <2>4 DEF Row, Queued
    <3>2. task[t].lease # NoLease /\ task[t].attempts < MaxAttempts
      BY <2>4 DEF IInv, LeaseIffOwned, AttemptBudget, Owned
    <3> HIDE DEF row
    <3> QED BY <2>1, <3>1, <3>2, RowStep DEF IInv, TypeOK, Targets, Owned, Queued, Busy
  <2> QED BY <1>2, <2>3, <2>4 DEF RequestCancel
<1>3. ASSUME NEW t \in Tasks, CleanupTasksForAdmin(t) PROVE IInv'
  <2> DEFINE row == [task[t] EXCEPT !.status = "Deleted"]
  <2>0. task[t].status \notin Owned
    BY <1>3 DEF CleanupTasksForAdmin, Terminal, Owned
  <2>1. /\ row \in Row
        /\ row.token = task[t].token
        /\ row.lease = NoLease
        /\ row.status = "Deleted"
    BY <1>3, <2>0 DEF IInv, TypeOK, Row, LeaseIffOwned, Gone
  <2>2. task' = [task EXCEPT ![t] = row] /\ UNCHANGED <<worker, retrier, sweeper, scratch>>
    BY <1>3 DEF CleanupTasksForAdmin, IInv, TypeOK
  <2> HIDE DEF row
  <2> QED BY <2>0, <2>1, <2>2, RowStep DEF IInv, TypeOK, Targets, Owned, Queued, Busy
<1>4. ASSUME UNCHANGED <<task, worker>>, TypeOK', Targets' PROVE IInv'
  BY <1>4 DEF IInv, LeaseIffOwned, TokenUnique, HolderOwns, AttemptsFresh,
              AttemptBudget, Busy
<1>5. ASSUME NEW r \in Retriers, NEW t \in Tasks, RetryRead(r, t) PROVE IInv'
  <2>1. UNCHANGED <<task, worker>> /\ TypeOK' /\ Targets'
    BY <1>5 DEF RetryRead, IInv, TypeOK, Targets, Busy, Request
  <2> QED BY <2>1, <1>4
<1>6. ASSUME NEW r \in Retriers, RetryCleanup(r) PROVE IInv'
  <2>1. UNCHANGED <<task, worker>> /\ TypeOK' /\ Targets'
    BY <1>6 DEF RetryCleanup, IInv, TypeOK, Targets, Busy, Request
  <2> QED BY <2>1, <1>4
<1>7. ASSUME NEW r \in Retriers, RetryReset(r) PROVE IInv'
  <2> DEFINE t == retrier[r].task
             row == ResetRow(task[t])
  <2>1. t \in Tasks
    BY <1>7 DEF RetryReset, IInv, Targets
  <2>2. /\ retrier' \in [Retriers -> Request]
        /\ \A q \in Retriers : retrier'[q].pc # "idle" => retrier'[q].task \in Tasks
        /\ UNCHANGED <<worker, sweeper, scratch>>
    BY <1>7 DEF RetryReset, IInv, TypeOK, Targets, Request, NoRequest
  <2>3. CASE task[t].status \in {"Failed", "Canceled"}
    <3>1. task' = [task EXCEPT ![t] = row]
      BY <1>7, <2>3 DEF RetryReset
    <3>2. task[t] \in Row /\ "Pending" \in Queued /\ 0 \in 0..MaxAttempts
                          /\ 0 \in 0..RetryDelay
      BY SMTT(60), Z3T(60), <2>1 DEF IInv, TypeOK, Queued
    <3>3. /\ row \in Row
          /\ row.token = task[t].token
          /\ row.lease = NoLease
          /\ row.status = "Pending"
          /\ row.attempts = 0
      BY <3>2 DEF ResetRow, Row
    <3>4. task[t].status \notin Owned
      BY <2>3 DEF Owned
    <3>5. row.attempts < MaxAttempts /\ row.status \notin Owned /\ row.status # "Absent"
      BY SMTT(60), Z3T(60), <3>3 DEF Owned
    <3> HIDE DEF row, t
    <3>6. /\ task' \in [Tasks -> Row]
          /\ LeaseIffOwned' /\ TokenUnique' /\ HolderOwns'
          /\ AttemptsFresh' /\ AttemptBudget'
      BY <2>1, <2>2, <3>1, <3>3, <3>4, <3>5, RowStep
    <3> QED BY <2>2, <3>6 DEF IInv, TypeOK, Targets, Busy
  <2>4. CASE task[t].status \notin {"Failed", "Canceled"}
    <3>1. task' = task
      BY <1>7, <2>4 DEF RetryReset
    <3> QED BY <3>1, <2>2, <1>4 DEF IInv, TypeOK, Targets, Busy
  <2> QED BY <2>3, <2>4
<1>8. ASSUME NEW s \in Sweepers, NEW t \in Tasks, SweepRead(s, t) PROVE IInv'
  <2>1. UNCHANGED <<task, worker>> /\ TypeOK' /\ Targets'
    BY <1>8 DEF SweepRead, IInv, TypeOK, Targets, Busy, Request
  <2> QED BY <2>1, <1>4
<1>9. ASSUME NEW s \in Sweepers, SweepDelete(s) PROVE IInv'
  <2>1. UNCHANGED <<task, worker>> /\ TypeOK' /\ Targets'
    BY <1>9 DEF SweepDelete, IInv, TypeOK, Targets, Busy, Request, NoRequest
  <2> QED BY <2>1, <1>4
<1> QED BY <1>1, <1>2, <1>3, <1>5, <1>6, <1>7, <1>8, <1>9 DEF RequestStep

\* What the passing of time leaves alone.
LEMMA TickFacts ==
  ASSUME IInv, Tick
  PROVE  /\ task' \in [Tasks -> Row]
         /\ worker' \in [Workers -> Slot]
         /\ \A t \in Tasks : /\ task'[t].status = task[t].status
                             /\ task'[t].token = task[t].token
                             /\ task'[t].attempts = task[t].attempts
                             /\ task'[t].canRetry = task[t].canRetry
                             /\ task'[t].lease = IF task[t].lease > 0
                                                 THEN task[t].lease - 1
                                                 ELSE task[t].lease
         /\ \A w \in Workers : /\ worker'[w].pc = worker[w].pc
                               /\ worker'[w].task = worker[w].task
                               /\ worker'[w].token = worker[w].token
                               /\ worker'[w].attempts = worker[w].attempts
                               /\ worker'[w].dir = worker[w].dir
                               /\ worker'[w].age =
                                     IF /\ worker[w].pc = "run"
                                        /\ worker[w].age < RenewalTimeout
                                     THEN worker[w].age + 1 ELSE worker[w].age
<1> USE LeaseAssumption
<1>1. ASSUME NEW t \in Tasks PROVE task[t] \in Row
  BY DEF IInv, TypeOK
<1>2. ASSUME NEW w \in Workers PROVE worker[w] \in Slot
  BY DEF IInv, TypeOK
<1>3. task' \in [Tasks -> Row]
  <2>1. ASSUME NEW t \in Tasks
        PROVE  [task[t] EXCEPT !.lease = IF @ > 0 THEN @ - 1 ELSE @,
                               !.wait = IF @ > 0 THEN @ - 1 ELSE @] \in Row
    <3>1. /\ (IF task[t].lease > 0 THEN task[t].lease - 1 ELSE task[t].lease)
                 \in {NoLease} \cup (0..Lease)
          /\ (IF task[t].wait > 0 THEN task[t].wait - 1 ELSE task[t].wait) \in 0..RetryDelay
      BY SMTT(60), Z3T(60), <1>1 DEF Row, NoLease
    <3> QED BY <1>1, <3>1 DEF Row
  <2> QED BY <2>1 DEF Tick
<1>4. worker' \in [Workers -> Slot]
  <2>1. ASSUME NEW w \in Workers
        PROVE  [worker[w] EXCEPT !.age = IF worker[w].pc = "run" /\ @ < RenewalTimeout
                                         THEN @ + 1 ELSE @] \in Slot
    <3>1. (IF worker[w].pc = "run" /\ worker[w].age < RenewalTimeout
           THEN worker[w].age + 1 ELSE worker[w].age) \in 0..RenewalTimeout
      BY SMTT(60), Z3T(60), <1>2 DEF Slot
    <3> QED BY <1>2, <3>1 DEF Slot
  <2> QED BY <2>1 DEF Tick
<1>5. \A t \in Tasks : /\ task'[t].status = task[t].status
                       /\ task'[t].token = task[t].token
                       /\ task'[t].attempts = task[t].attempts
                       /\ task'[t].canRetry = task[t].canRetry
                       /\ task'[t].lease = IF task[t].lease > 0
                                           THEN task[t].lease - 1 ELSE task[t].lease
  BY <1>1 DEF Tick, Row
<1>6. \A w \in Workers : /\ worker'[w].pc = worker[w].pc
                         /\ worker'[w].task = worker[w].task
                         /\ worker'[w].token = worker[w].token
                         /\ worker'[w].attempts = worker[w].attempts
                         /\ worker'[w].dir = worker[w].dir
                         /\ worker'[w].age =
                               IF worker[w].pc = "run" /\ worker[w].age < RenewalTimeout
                               THEN worker[w].age + 1 ELSE worker[w].age
  BY <1>2 DEF Tick, Slot
<1> QED BY <1>3, <1>4, <1>5, <1>6

\* The invariant is inductive.
LEMMA NextIInv == IInv /\ [Next]_vars => IInv'
<1> SUFFICES ASSUME IInv, [Next]_vars PROVE IInv'
  OBVIOUS
<1>1. CASE \E w \in Workers : WorkerStep(w)
  BY <1>1, WorkerStepIInv
<1>2. CASE RequestStep
  BY <1>2, RequestStepIInv
<1>3. CASE Tick
  <2>1. TypeOK' /\ Targets'
    BY <1>3, TickFacts DEF Tick, IInv, TypeOK, Targets, Busy
  <2>2. LeaseIffOwned'
    BY SMTT(60), Z3T(60), <1>3, TickFacts, LeaseAssumption DEF IInv, TypeOK, LeaseIffOwned, Row, NoLease
  <2>3. TokenUnique'
    BY SMTT(60), Z3T(60), <1>3, TickFacts DEF IInv, TokenUnique, Busy, Targets
  <2>4. HolderOwns' /\ AttemptsFresh' /\ AttemptBudget'
    BY SMTT(60), Z3T(60), <1>3, TickFacts
    DEF IInv, HolderOwns, AttemptsFresh, AttemptBudget, Busy, Targets
  <2> QED BY <2>1, <2>2, <2>3, <2>4 DEF IInv
<1>4. CASE UNCHANGED vars
  BY <1>4 DEF vars, IInv, TypeOK, Targets, LeaseIffOwned, TokenUnique, HolderOwns,
              AttemptsFresh, AttemptBudget, Busy
<1> QED BY <1>1, <1>2, <1>3, <1>4 DEF Next

\* Every reachable state satisfies the invariant of the fencing protocol.
THEOREM IInvHolds == Spec => []IInv
  BY InitIInv, NextIInv, PTL DEF Spec

\* The rows, slots, requests and directories always have their types; the
\* attempt counter in particular stays within the budget.
THEOREM TypeCorrect == Spec => []TypeOK
<1>1. IInv => TypeOK
  BY DEF IInv
<1> QED BY <1>1, IInvHolds, PTL

\* A lease is recorded exactly while a row is Processing or Canceling.
THEOREM LeaseExactlyWhileOwned == Spec => []LeaseIffOwned
<1>1. IInv => LeaseIffOwned
  BY DEF IInv
<1> QED BY <1>1, IInvHolds, PTL

\* No two slots ever hold the same task under the same fencing token.
THEOREM TokensAreUnique == Spec => []TokenUnique
<1>1. IInv => TokenUnique
  BY DEF IInv
<1> QED BY <1>1, IInvHolds, PTL

\* A slot whose token is the task's current one works on a task that is owned: the
\* token alone tells the worker that its attempt goes on.
THEOREM HoldersOwn == Spec => []HolderOwns
<1>1. IInv => HolderOwns
  BY DEF IInv
<1> QED BY <1>1, IInvHolds, PTL

\* The attempt count a worker stores is always derived from the current one.
THEOREM AttemptsAreFresh == Spec => []AttemptsFresh
<1>1. IInv => AttemptsFresh
  BY DEF IInv
<1> QED BY <1>1, IInvHolds, PTL

\* A queued or running task always has an attempt left.
THEOREM BudgetIsKept == Spec => []AttemptBudget
<1>1. IInv => AttemptBudget
  BY DEF IInv
<1> QED BY <1>1, IInvHolds, PTL

\* What a worker write does to the rows: it changes at most the row of the
\* task that the worker holds, from Processing, and only under its token.
LEMMA OwnerWriteEffect ==
  ASSUME IInv, NEW w \in Workers, NEW row, NEW slot, OwnerWrite(w, row, slot),
         NEW t \in Tasks
  PROVE  \/ task'[t] = task[t]
         \/ /\ Busy(w)
            /\ worker[w].task = t
            /\ worker[w].token = task[t].token
            /\ task[t].status = "Processing"
            /\ task'[t] = row
            /\ worker'[w] = slot
  BY DEF IInv, TypeOK, Targets, OwnerWrite, MayWrite, Fenced, Busy

\* The three rules on how a row may change, for every step.
LEMMA Transitions ==
  ASSUME IInv, [Next]_vars, NEW t \in Tasks
  PROVE  EndedByHolder(t) /\ StaysCanceled(t) /\ KeepsOutcome(t)
<1> USE DEF EndedByHolder, StaysCanceled, KeepsOutcome
<1>0. ASSUME task'[t].status = task[t].status
      PROVE  EndedByHolder(t) /\ StaysCanceled(t) /\ KeepsOutcome(t)
  BY <1>0
<1>1. ASSUME NEW w \in Workers, NEW u \in Tasks, TryClaim(w, u)
      PROVE  EndedByHolder(t) /\ StaysCanceled(t) /\ KeepsOutcome(t)
  <2>1. t # u => task'[t] = task[t]
    BY <1>1 DEF TryClaim, IInv, TypeOK
  <2>2. /\ task[u].status \in Owned \cup Queued
        /\ task'[u].status = IF task[u].status = "Canceling" THEN "Canceling" ELSE "Processing"
    <3>1. task[u] \in Row
      BY DEF IInv, TypeOK
    <3> QED BY <1>1, <3>1 DEF TryClaim, Claimable, ClaimedRow, IInv, TypeOK, Row
  <2> QED BY <1>0, <2>1, <2>2 DEF Owned, Queued, Terminal
<1>2. ASSUME NEW w \in Workers, TouchHeartbeat(w) \/ SetMetadata(w)
      PROVE  EndedByHolder(t) /\ StaysCanceled(t) /\ KeepsOutcome(t)
  <2>1. PICK row, slot : OwnerWrite(w, row, slot) /\ row.status = HeldRow(w).status
    <3>1. CASE TouchHeartbeat(w)
      <4> DEFINE row == [HeldRow(w) EXCEPT !.lease = Lease]
      <4>1. worker[w].task \in Tasks
        BY <3>1 DEF TouchHeartbeat, OwnerWrite, MayWrite, IInv, Targets, Busy
      <4>2. row.status = HeldRow(w).status
        BY <4>1 DEF HeldRow, IInv, TypeOK, Row
      <4>3. OwnerWrite(w, row, [worker[w] EXCEPT !.age = 0])
        BY <3>1 DEF TouchHeartbeat
      <4> HIDE DEF row
      <4> QED BY <4>2, <4>3
    <3>2. CASE SetMetadata(w)
      BY <3>2 DEF SetMetadata
    <3> QED BY <1>2, <3>1, <3>2
  <2>2. task'[t].status = task[t].status
    BY SMTT(60), Z3T(60), <2>1, OwnerWriteEffect DEF HeldRow
  <2> QED BY <1>0, <2>2
<1>3. ASSUME NEW w \in Workers, Finish(w)
      PROVE  EndedByHolder(t) /\ StaysCanceled(t) /\ KeepsOutcome(t)
  <2>1. PICK row : OwnerWrite(w, row, IdleSlot)
    BY <1>3 DEF Finish, MarkSucceeded, Fail, ReleaseProcessing
  <2>2. \/ task'[t] = task[t]
        \/ /\ Busy(w)
           /\ worker[w].task = t
           /\ worker[w].token = task[t].token
           /\ task[t].status = "Processing"
           /\ worker'[w] = IdleSlot
    BY SMTT(60), Z3T(60), <2>1, OwnerWriteEffect
  <2> QED BY <1>0, <2>2 DEF Terminal
<1>4. ASSUME NEW w \in Workers, Acknowledge(w)
      PROVE  EndedByHolder(t) /\ StaysCanceled(t) /\ KeepsOutcome(t)
  <2>1. Busy(w) /\ worker[w].task \in Tasks /\ worker'[w] = IdleSlot
    BY <1>4 DEF Acknowledge, IInv, TypeOK, Targets, Busy
  <2>2. \/ task'[t] = task[t]
        \/ /\ worker[w].task = t
           /\ worker[w].token = task[t].token
           /\ task[t].status = "Canceling"
           /\ task'[t].status = "Canceled"
    <3>1. task[t] \in Row
      BY DEF IInv, TypeOK
    <3> QED BY <1>4, <2>1, <3>1 DEF Acknowledge, IInv, TypeOK, Row
  <2> QED BY <1>0, <2>1, <2>2 DEF Terminal
<1>5. ASSUME NEW u \in Tasks, Insert(u) \/ RequestCancel(u) \/ CleanupTasksForAdmin(u)
      PROVE  EndedByHolder(t) /\ StaysCanceled(t) /\ KeepsOutcome(t)
  <2>1. task[t] \in Row
    BY DEF IInv, TypeOK
  <2>2. \/ task'[t] = task[t]
        \/ task[t].status = "Absent"
        \/ task[t].status \in Queued
        \/ task[t].status = "Processing" /\ task'[t].status = "Canceling"
        \/ task[t].status \in Terminal /\ task'[t].status = "Deleted"
    BY SMTT(60), Z3T(60), <1>5, <2>1 DEF Insert, RequestCancel, CleanupTasksForAdmin, IInv, TypeOK, Row
  <2> QED BY <1>0, <2>2 DEF Owned, Queued, Terminal
<1>6. ASSUME NEW r \in Retriers, RetryReset(r)
      PROVE  EndedByHolder(t) /\ StaysCanceled(t) /\ KeepsOutcome(t)
  <2>1. task[t] \in Row /\ retrier[r].task \in Tasks
    BY <1>6 DEF RetryReset, IInv, TypeOK, Targets
  <2>2. \/ task'[t] = task[t]
        \/ task[t].status \in {"Failed", "Canceled"} /\ task'[t] = ResetRow(task[t])
    BY <1>6, <2>1 DEF RetryReset, IInv, TypeOK
  <2>3. ResetRow(task[t]).status = "Pending" /\ ResetRow(task[t]).attempts = 0
    BY <2>1 DEF ResetRow, Row
  <2> QED BY <1>0, <2>2, <2>3 DEF Owned
<1>7. ASSUME task' = task
      PROVE  EndedByHolder(t) /\ StaysCanceled(t) /\ KeepsOutcome(t)
  BY <1>7, <1>0
<1>8. CASE Tick
  BY <1>8, <1>0, TickFacts
<1>9. CASE UNCHANGED vars
  BY <1>9, <1>7 DEF vars
<1>10. ASSUME NEW w \in Workers, WorkerStep(w)
       PROVE  EndedByHolder(t) /\ StaysCanceled(t) /\ KeepsOutcome(t)
  <2>1. CASE \/ RenewalTimedOut(w) \/ Crash(w)
             \/ PrepareScratch(w) \/ CleanupScratchForLease(w)
    BY <2>1, <1>7 DEF RenewalTimedOut, Crash, PrepareScratch, CleanupScratchForLease
  <2> HIDE DEF EndedByHolder, StaysCanceled, KeepsOutcome
  <2> QED BY <1>10, <1>1, <1>2, <1>3, <1>4, <2>1 DEF WorkerStep
<1>11. CASE RequestStep
  <2>1. ASSUME \/ \E r \in Retriers : RetryCleanup(r) \/ \E u \in Tasks : RetryRead(r, u)
               \/ \E s \in Sweepers : SweepDelete(s) \/ \E u \in Tasks : SweepRead(s, u)
        PROVE  task' = task
    BY <2>1 DEF RetryCleanup, RetryRead, SweepDelete, SweepRead
  <2> HIDE DEF EndedByHolder, StaysCanceled, KeepsOutcome
  <2> QED BY <1>11, <1>5, <1>6, <1>7, <2>1 DEF RequestStep
<1> HIDE DEF EndedByHolder, StaysCanceled, KeepsOutcome
<1> QED BY <1>8, <1>9, <1>10, <1>11 DEF Next

\* Only the holder of the current token takes a row out of Processing or
\* Canceling, for every number of workers, retries and takeovers.
THEOREM HolderEndsAttempt == Spec => OnlyHolderEndsAttempt
<1>1. IInv /\ [Next]_vars => [\A t \in Tasks : EndedByHolder(t)]_vars
  BY Transitions
<1> QED BY <1>1, IInvHolds, PTL DEF Spec, OnlyHolderEndsAttempt

\* A requested cancellation is never overwritten by a success, a failure, a
\* retry or a shutdown release.
THEOREM CancellationIsKept == Spec => CancellationSticks
<1>1. IInv /\ [Next]_vars => [\A t \in Tasks : StaysCanceled(t)]_vars
  BY Transitions
<1> QED BY <1>1, IInvHolds, PTL DEF Spec, CancellationSticks

\* A success is never undone; a failed or canceled task is only requeued with a
\* fresh budget.
THEOREM OutcomeIsFinal == Spec => OutcomeFinal
<1>1. IInv /\ [Next]_vars => [\A t \in Tasks : KeepsOutcome(t)]_vars
  BY Transitions
<1> QED BY <1>1, IInvHolds, PTL DEF Spec, OutcomeFinal

-----------------------------------------------------------------------------
(* Leases and guards: while the guard lets a worker run, its lease holds,  *)
(* so no task is run twice at a time and the concurrency limit of a lane   *)
(* is kept.  Both rest on handlers that refresh the guard only together    *)
(* with the lease in the database (MetadataWriters = {}).                  *)

\* A step that is not a claim, the end of an attempt or a tick keeps owned rows
\* owned, under the same token and for at least as long.
Kept(t) ==
    task[t].status \in Owned =>
        /\ task'[t].status \in Owned
        /\ task'[t].token = task[t].token
        /\ task'[t].lease >= task[t].lease

\* Slot v runs its task as before, with the guard at the same age.
SameGuard(v) ==
    /\ worker'[v].pc = worker[v].pc
    /\ worker'[v].task = worker[v].task
    /\ worker'[v].token = worker[v].token
    /\ worker'[v].age = worker[v].age

\* What the guard promises one worker.
Covered(w) ==
    Running(w) =>
        LET row == task[worker[w].task]
        IN  /\ row.status \in Owned
            /\ row.token = worker[w].token
            /\ row.lease + worker[w].age >= Lease

\* A covered worker is running a task of the table under an unexpired lease.
LEMMA CoveredFacts ==
  ASSUME IInv, LeaseCoversGuard, NEW w \in Workers, Running(w)
  PROVE  /\ worker[w].task \in Tasks
         /\ task[worker[w].task] \in Row
         /\ task[worker[w].task].status \in Owned
         /\ task[worker[w].task].token = worker[w].token
         /\ task[worker[w].task].lease + worker[w].age >= Lease
         /\ task[worker[w].task].lease > 0
         /\ task[worker[w].task].lease \in Nat
         /\ worker[w].age \in Nat
         /\ Busy(w)
<1>1. Busy(w) /\ worker[w].task \in Tasks
  BY DEF Running, Busy, IInv, Targets
<1>2. task[worker[w].task] \in Row /\ worker[w] \in Slot
  BY <1>1 DEF IInv, TypeOK
<1>3. /\ task[worker[w].task].status \in Owned
      /\ task[worker[w].task].token = worker[w].token
      /\ task[worker[w].task].lease + worker[w].age >= Lease
  BY DEF LeaseCoversGuard
<1>4. worker[w].age \in Nat /\ worker[w].age < Lease
  BY SMTT(60), Z3T(60), <1>2, LeaseAssumption DEF Running, Slot
<1>5. task[worker[w].task].lease > 0 /\ task[worker[w].task].lease \in Nat
  BY SMTT(60), Z3T(60), <1>2, <1>3, <1>4, LeaseAssumption DEF Row, NoLease
<1> QED BY <1>1, <1>2, <1>3, <1>4, <1>5

\* A worker whose row is kept and whose guard is untouched stays covered.
LEMMA KeptIsCovered ==
  ASSUME IInv, LeaseCoversGuard, IInv', NEW v \in Workers, SameGuard(v),
         Running(v) => Kept(worker[v].task)
  PROVE  Covered(v)'
<1> SUFFICES ASSUME Running(v)'
             PROVE  /\ task'[worker'[v].task].status \in Owned
                    /\ task'[worker'[v].task].token = worker'[v].token
                    /\ task'[worker'[v].task].lease + worker'[v].age >= Lease
  BY DEF Covered
<1>1. Running(v)
  BY DEF Running, SameGuard
<1>2. task'[worker[v].task] \in Row
  BY <1>1, CoveredFacts DEF IInv, TypeOK
<1>3. task'[worker[v].task].lease \in Int
  <2>1. task'[worker[v].task].lease \in {NoLease} \cup (0..Lease)
    BY <1>2 DEF Row
  <2> QED BY SMTT(60), Z3T(60), <2>1, LeaseAssumption DEF NoLease
<1> QED BY SMTT(60), Z3T(60), <1>1, <1>3, CoveredFacts, LeaseAssumption DEF SameGuard, Kept

\* A write of worker w under its token does not touch the row of another
\* running worker.
LEMMA OthersKept ==
  ASSUME IInv, LeaseCoversGuard, NEW w \in Workers, NEW v \in Workers, v # w,
         Running(v), Busy(w), worker[w].token = task[worker[w].task].token
  PROVE  worker[v].task # worker[w].task
  BY SMTT(60), Z3T(60), CoveredFacts DEF IInv, TokenUnique

\* Steps of a worker keep every guard covered.
LEMMA WorkerStepCovers ==
  ASSUME IInv, IInv', LeaseCoversGuard, MetadataWriters = {},
         NEW w \in Workers, WorkerStep(w), NEW v \in Workers
  PROVE  Covered(v)'
<1>1. ASSUME NEW t \in Tasks, TryClaim(w, t) PROVE Covered(v)'
  <2>1. CASE v = w
    <3>1. /\ worker'[w].task = t
          /\ worker'[w].token = task[t].token + 1
          /\ worker'[w].age = 0
          /\ task' = [task EXCEPT ![t] = ClaimedRow(task[t])]
      BY <1>1 DEF TryClaim, IInv, TypeOK
    <3>2. task[t] \in Row
      BY DEF IInv, TypeOK
    <3>3. /\ task'[t].status \in Owned
          /\ task'[t].token = task[t].token + 1
          /\ task'[t].lease = Lease
      BY <3>1, <3>2 DEF ClaimedRow, Row, Owned, IInv, TypeOK
    <3> QED BY SMTT(60), Z3T(60), <2>1, <3>1, <3>3, LeaseAssumption DEF Covered
  <2>2. CASE v # w
    <3>1. SameGuard(v)
      BY <1>1, <2>2 DEF TryClaim, SameGuard, IInv, TypeOK
    <3>2. ASSUME Running(v) PROVE Kept(worker[v].task)
      <4>1. worker[v].task # t
        BY SMTT(60), Z3T(60), <1>1, <3>2, CoveredFacts DEF TryClaim, Claimable, Owned, Queued
      <4>2. task'[worker[v].task] = task[worker[v].task]
        BY <1>1, <3>2, <4>1, CoveredFacts DEF TryClaim, IInv, TypeOK
      <4> QED BY <3>2, <4>2, CoveredFacts, NotLess DEF Kept
    <3> QED BY <3>1, <3>2, KeptIsCovered
  <2> QED BY <2>1, <2>2
<1>2. ASSUME NEW row, NEW slot, OwnerWrite(w, row, slot),
             Fenced(w) => \/ slot.pc = "idle"
                          \/ /\ row = [HeldRow(w) EXCEPT !.lease = Lease]
                             /\ slot = [worker[w] EXCEPT !.age = 0]
      PROVE  Covered(v)'
  <2>0. Busy(w) /\ worker[w].task \in Tasks
    BY <1>2 DEF OwnerWrite, MayWrite, Busy, IInv, Targets
  <2>1. CASE v = w
    <3>1. CASE ~Fenced(w)
      <4>1. worker'[w].pc = "stop"
        BY SMTT(60), Z3T(60), <1>2, <3>1 DEF OwnerWrite, IInv, TypeOK, Slot
      <4> QED BY <2>1, <4>1 DEF Covered, Running
    <3>2. CASE Fenced(w) /\ slot.pc = "idle"
      <4>1. worker'[w].pc = "idle"
        BY <1>2, <3>2 DEF OwnerWrite, IInv, TypeOK
      <4> QED BY <2>1, <4>1 DEF Covered, Running
    <3>3. CASE Fenced(w) /\ slot.pc # "idle"
      <4>1. /\ worker'[w] = slot
            /\ task'[worker[w].task] = row
        BY <1>2, <2>0, <3>3 DEF OwnerWrite, IInv, TypeOK
      <4>2. worker[w] \in Slot /\ HeldRow(w) \in Row
        BY <2>0 DEF IInv, TypeOK, HeldRow
      <4>3. /\ slot.task = worker[w].task /\ slot.token = worker[w].token /\ slot.age = 0
            /\ row.status = "Processing" /\ row.token = worker[w].token
            /\ row.lease = Lease
        BY <1>2, <3>3, <4>2 DEF Slot, Row, HeldRow, Fenced
      <4> QED BY SMTT(60), Z3T(60), <2>1, <4>1, <4>3, LeaseAssumption DEF Covered, Owned
    <3> QED BY <3>1, <3>2, <3>3
  <2>2. CASE v # w
    <3>1. SameGuard(v)
      BY <1>2, <2>2 DEF OwnerWrite, SameGuard, IInv, TypeOK
    <3>2. ASSUME Running(v) PROVE Kept(worker[v].task)
      <4>1. task'[worker[v].task] = task[worker[v].task]
        BY SMTT(60), Z3T(60), <1>2, <2>0, <2>2, <3>2, OthersKept, CoveredFacts
        DEF OwnerWrite, Fenced, IInv, TypeOK
      <4> QED BY <3>2, <4>1, CoveredFacts, NotLess DEF Kept
    <3> QED BY <3>1, <3>2, KeptIsCovered
  <2> QED BY <2>1, <2>2
<1>3. CASE TouchHeartbeat(w)
  BY <1>3, <1>2 DEF TouchHeartbeat
<1>4. CASE SetMetadata(w)
  BY <1>4 DEF SetMetadata
<1>5. CASE Finish(w)
  <2>1. PICK row : OwnerWrite(w, row, IdleSlot)
    BY <1>5 DEF Finish, MarkSucceeded, Fail, ReleaseProcessing
  <2> QED BY <2>1, <1>2, IdleSlotType
<1>6. CASE Acknowledge(w)
  <2>0. Busy(w) /\ worker[w].task \in Tasks /\ worker'[w].pc = "idle"
    BY <1>6, IdleSlotType DEF Acknowledge, Busy, IInv, TypeOK, Targets
  <2>1. CASE v = w
    BY <2>0, <2>1 DEF Covered, Running
  <2>2. CASE v # w
    <3>1. SameGuard(v)
      BY <1>6, <2>2 DEF Acknowledge, SameGuard, IInv, TypeOK
    <3>2. ASSUME Running(v) PROVE Kept(worker[v].task)
      <4>1. task'[worker[v].task] = task[worker[v].task]
        BY <1>6, <2>0, <2>2, <3>2, OthersKept, CoveredFacts
        DEF Acknowledge, IInv, TypeOK
      <4> QED BY <3>2, <4>1, CoveredFacts, NotLess DEF Kept
    <3> QED BY <3>1, <3>2, KeptIsCovered
  <2> QED BY <2>1, <2>2
<1>7. CASE \/ RenewalTimedOut(w) \/ Crash(w)
           \/ PrepareScratch(w) \/ CleanupScratchForLease(w)
  <2>1. task' = task
    BY <1>7 DEF RenewalTimedOut, Crash, PrepareScratch, CleanupScratchForLease
  <2>2. worker'[v].pc = "idle" \/ SameGuard(v)
    <3>1. worker \in [Workers -> Slot] /\ IdleSlot.pc = "idle"
      BY IdleSlotType DEF IInv, TypeOK
    <3>2. CASE RenewalTimedOut(w) \/ Crash(w)
      BY <3>1, <3>2 DEF RenewalTimedOut, Crash, SameGuard
    <3>3. CASE PrepareScratch(w) \/ CleanupScratchForLease(w)
      BY SMTT(60), Z3T(60), <3>1, <3>3 DEF PrepareScratch, CleanupScratchForLease, SameGuard, Slot
    <3> QED BY <1>7, <3>2, <3>3
  <2>3. CASE worker'[v].pc = "idle"
    BY <2>3 DEF Covered, Running
  <2>4. CASE SameGuard(v)
    BY SMTT(60), Z3T(60), <2>1, <2>4, KeptIsCovered, CoveredFacts DEF Kept
  <2> QED BY <2>2, <2>3, <2>4
<1> QED BY <1>1, <1>3, <1>4, <1>5, <1>6, <1>7 DEF WorkerStep

\* Requests from outside the workers keep every owned row.
LEMMA RequestStepKeeps ==
  ASSUME IInv, RequestStep, NEW t \in Tasks
  PROVE  Kept(t)
<1>0. task[t] \in Row /\ task[t].lease \in Int
  BY SMTT(60), Z3T(60), LeaseAssumption DEF IInv, TypeOK, Row, NoLease
<1>1. ASSUME NEW u \in Tasks, Insert(u) PROVE Kept(t)
  BY SMTT(60), Z3T(60), <1>0, <1>1 DEF Insert, Kept, Owned, IInv, TypeOK
<1>2. ASSUME NEW u \in Tasks, RequestCancel(u) PROVE Kept(t)
  BY SMTT(60), Z3T(60), <1>0, <1>2 DEF RequestCancel, Kept, Owned, Queued, IInv, TypeOK, Row
<1>3. ASSUME NEW u \in Tasks, CleanupTasksForAdmin(u) PROVE Kept(t)
  BY SMTT(60), Z3T(60), <1>0, <1>3 DEF CleanupTasksForAdmin, Kept, Owned, Terminal, IInv, TypeOK
<1>4. ASSUME NEW r \in Retriers, RetryReset(r) PROVE Kept(t)
  BY SMTT(60), Z3T(60), <1>0, <1>4 DEF RetryReset, Kept, Owned, IInv, TypeOK, Targets
<1>5. ASSUME task' = task PROVE Kept(t)
  BY SMTT(60), Z3T(60), <1>0, <1>5 DEF Kept
<1>6. ASSUME \/ \E r \in Retriers : RetryCleanup(r) \/ \E u \in Tasks : RetryRead(r, u)
             \/ \E s \in Sweepers : SweepDelete(s) \/ \E u \in Tasks : SweepRead(s, u)
      PROVE  task' = task
  BY <1>6 DEF RetryCleanup, RetryRead, SweepDelete, SweepRead
<1> QED BY <1>1, <1>2, <1>3, <1>4, <1>5, <1>6 DEF RequestStep

\* The guard invariant is inductive relative to the fencing invariant.
LEMMA NextCovers ==
  MetadataWriters = {} /\ IInv /\ IInv' /\ LeaseCoversGuard /\ [Next]_vars
    => LeaseCoversGuard'
<1> SUFFICES ASSUME MetadataWriters = {}, IInv, IInv', LeaseCoversGuard, [Next]_vars,
                    NEW v \in Workers
             PROVE  Covered(v)'
  BY DEF LeaseCoversGuard, Covered
<1>1. CASE \E w \in Workers : WorkerStep(w)
  BY <1>1, WorkerStepCovers
<1>2. CASE RequestStep
  <2>1. worker' = worker
    BY <1>2 DEF RequestStep, Insert, RequestCancel, CleanupTasksForAdmin, RetryRead,
                RetryCleanup, RetryReset, SweepRead, SweepDelete
  <2> QED BY <1>2, <2>1, RequestStepKeeps, KeptIsCovered, CoveredFacts DEF SameGuard
<1>3. CASE Tick
  <2> SUFFICES ASSUME Running(v)'
               PROVE  /\ task'[worker'[v].task].status \in Owned
                      /\ task'[worker'[v].task].token = worker'[v].token
                      /\ task'[worker'[v].task].lease + worker'[v].age >= Lease
    BY DEF Covered
  <2>1. worker[v].age \in Nat /\ RenewalTimeout \in Nat
    BY SMTT(60), Z3T(60), LeaseAssumption DEF IInv, TypeOK, Slot
  <2>2. Running(v) /\ worker'[v].age = worker[v].age + 1
    BY <1>3, <2>1, TickFacts DEF Running
  <2> QED BY SMTT(60), Z3T(60), <1>3, <2>1, <2>2, TickFacts, CoveredFacts, LeaseAssumption
<1>4. CASE UNCHANGED vars
  <2>1. task' = task /\ worker' = worker
    BY <1>4 DEF vars
  <2> QED BY SMTT(60), Z3T(60), <2>1, KeptIsCovered, CoveredFacts DEF SameGuard, Kept
<1> QED BY <1>1, <1>2, <1>3, <1>4 DEF Next

\* While its guard lets a worker run, the worker owns the row and its lease
\* outlives the guard, in every interleaving of claims, renewals, stalls,
\* cancellations, retries and crashes.
THEOREM GuardIsCovered ==
  ASSUME MetadataWriters = {}
  PROVE  Spec => []LeaseCoversGuard
<1>1. Init => LeaseCoversGuard
  BY SMTT(60), Z3T(60) DEF Init, LeaseCoversGuard, Running, IdleSlot
<1>2. IInv /\ IInv' /\ LeaseCoversGuard /\ [Next]_vars => LeaseCoversGuard'
  BY NextCovers
<1> QED BY <1>1, <1>2, IInvHolds, PTL DEF Spec

\* No task is ever run by two workers at the same time.
THEOREM NoDuplicateWorkers ==
  ASSUME MetadataWriters = {}
  PROVE  Spec => []ExclusiveExecution
<1>1. IInv /\ LeaseCoversGuard => ExclusiveExecution
  BY SMTT(60), Z3T(60), CoveredFacts DEF ExclusiveExecution, IInv, TokenUnique
<1> QED BY <1>1, GuardIsCovered, IInvHolds, PTL

\* A step adds no task to the ones a lane works on, except by a claim.
LEMMA NoNewActive ==
  ASSUME IInv, LeaseCoversGuard, MetadataWriters = {}, StalledWrites = FALSE,
         [Next]_vars, NEW t \in Tasks,
         task'[t].status \in Owned, task'[t].lease > 0,
         ~(task[t].status \in Owned /\ task[t].lease > 0)
  PROVE  \E w \in Workers : TryClaim(w, t)
<1>0. task[t] \in Row
  BY DEF IInv, TypeOK
<1>1. ASSUME NEW w \in Workers, NEW row, NEW slot, OwnerWrite(w, row, slot)
      PROVE  /\ task'[t] = row /\ task[t].status = "Processing"
             /\ worker[w].task = t /\ Running(w)
  <2>1. Running(w)
    BY <1>1, TaskAssumption DEF OwnerWrite, MayWrite, Running
  <2> QED BY SMTT(60), Z3T(60), <1>1, <2>1, OwnerWriteEffect
<1>2. ASSUME NEW w \in Workers, NEW row, NEW slot, OwnerWrite(w, row, slot)
      PROVE  FALSE
  BY <1>1, <1>2, CoveredFacts
<1>3. ASSUME NEW w \in Workers, WorkerStep(w)
      PROVE  \E x \in Workers : TryClaim(x, t)
  <2>1. ASSUME NEW u \in Tasks, TryClaim(w, u) PROVE TryClaim(w, t)
    <3>1. t = u
      BY <2>1 DEF TryClaim, IInv, TypeOK
    <3> QED BY <2>1, <3>1
  <2>2. ASSUME TouchHeartbeat(w) \/ SetMetadata(w) \/ Finish(w) PROVE FALSE
    BY <2>2, <1>2 DEF TouchHeartbeat, SetMetadata, Finish, MarkSucceeded, Fail,
                      ReleaseProcessing
  <2>3. ASSUME Acknowledge(w) PROVE FALSE
    <3>1. worker[w].task \in Tasks
      BY <2>3 DEF Acknowledge, IInv, Targets, Busy
    <3>2. task'[t] = task[t] \/ task'[t].status = "Canceled"
      BY <1>0, <2>3, <3>1 DEF Acknowledge, IInv, TypeOK, Row
    <3> QED BY <3>2 DEF Owned
  <2>4. ASSUME \/ RenewalTimedOut(w) \/ Crash(w)
               \/ PrepareScratch(w) \/ CleanupScratchForLease(w)
        PROVE  FALSE
    BY <2>4 DEF RenewalTimedOut, Crash, PrepareScratch, CleanupScratchForLease
  <2> QED BY <1>3, <2>1, <2>2, <2>3, <2>4 DEF WorkerStep
<1>4. ASSUME RequestStep PROVE FALSE
  <2>1. ASSUME NEW u \in Tasks, Insert(u) PROVE FALSE
    BY <1>0, <2>1 DEF Insert, IInv, TypeOK, Row, Owned
  <2>2. ASSUME NEW u \in Tasks, RequestCancel(u) PROVE FALSE
    <3>1. \/ task'[t] = task[t]
          \/ task'[t].status = "Canceled"
          \/ task[t].status = "Processing" /\ task'[t].lease = task[t].lease
      BY <1>0, <2>2 DEF RequestCancel, IInv, TypeOK, Row, Queued
    <3> QED BY <3>1 DEF Owned
  <2>3. ASSUME NEW u \in Tasks, CleanupTasksForAdmin(u) PROVE FALSE
    BY <1>0, <2>3 DEF CleanupTasksForAdmin, IInv, TypeOK, Row, Owned
  <2>4. ASSUME NEW r \in Retriers, RetryReset(r) PROVE FALSE
    <3>1. task'[t] = task[t] \/ task'[t] = ResetRow(task[t])
      BY <2>4 DEF RetryReset, IInv, TypeOK
    <3>2. ResetRow(task[t]).status = "Pending"
      BY <1>0 DEF ResetRow, Row
    <3> QED BY <3>1, <3>2 DEF Owned
  <2>5. ASSUME \/ \E r \in Retriers : RetryCleanup(r) \/ \E u \in Tasks : RetryRead(r, u)
               \/ \E s \in Sweepers : SweepDelete(s) \/ \E u \in Tasks : SweepRead(s, u)
        PROVE  FALSE
    BY <2>5 DEF RetryCleanup, RetryRead, SweepDelete, SweepRead
  <2> QED BY <1>4, <2>1, <2>2, <2>3, <2>4, <2>5 DEF RequestStep
<1>5. ASSUME Tick PROVE FALSE
  <2>1. task[t].lease \in Int
    BY SMTT(60), Z3T(60), <1>0, LeaseAssumption DEF Row, NoLease
  <2> QED BY <1>5, <2>1, TickFacts
<1>6. ASSUME UNCHANGED vars PROVE FALSE
  BY <1>6 DEF vars
<1> QED BY <1>3, <1>4, <1>5, <1>6 DEF Next

\* What is being worked on in lane l.
Active(l) ==
    {u \in Tasks : LaneOf[u] = l /\ task[u].status \in Owned /\ task[u].lease > 0}

\* A lane never has more tasks under an unexpired lease than its shared limit,
\* if no worker writes after its guard has timed out.
THEOREM QuotaIsKept ==
  ASSUME MetadataWriters = {}, StalledWrites = FALSE, IsFiniteSet(Tasks),
         \A t \in Tasks : ClusterLimit[LaneOf[t]] \in Nat
  PROVE  Spec => []LaneQuota
<1>1. LaneQuota <=> \A t \in Tasks : Cardinality(Active(LaneOf[t])) <= ClusterLimit[LaneOf[t]]
  BY DEF LaneQuota, Active
<1>2. LaneQuota' <=> \A t \in Tasks :
                        Cardinality(Active(LaneOf[t])') <= ClusterLimit[LaneOf[t]]
  BY DEF LaneQuota, Active
<1>3. Init => LaneQuota
  <2> SUFFICES ASSUME Init, NEW t \in Tasks
               PROVE  Cardinality(Active(LaneOf[t])) <= ClusterLimit[LaneOf[t]]
    BY <1>1
  <2>1. Active(LaneOf[t]) = {}
    BY DEF Init, Active, NewRow, Owned
  <2> QED BY SMTT(60), Z3T(60), <2>1, FS_EmptySet
<1>4. IInv /\ LeaseCoversGuard /\ LaneQuota /\ [Next]_vars => LaneQuota'
  <2> SUFFICES ASSUME IInv, LeaseCoversGuard, LaneQuota, [Next]_vars, NEW t \in Tasks
               PROVE  Cardinality(Active(LaneOf[t])') <= ClusterLimit[LaneOf[t]]
    BY <1>2
  <2> DEFINE l == LaneOf[t]
             A == Active(l)
  <2>1. IsFiniteSet(A) /\ Cardinality(A) \in Nat /\ Cardinality(A) <= ClusterLimit[l]
    <3>1. A \subseteq Tasks
      BY DEF Active
    <3> QED BY <3>1, <1>1, FS_Subset, FS_CardinalityType
  <2>2. CASE A' \subseteq A
    BY SMTT(60), Z3T(60), <2>1, <2>2, FS_Subset, FS_CardinalityType
  <2>3. CASE ~(A' \subseteq A)
    <3>1. PICK u \in A' : u \notin A
      BY <2>3
    <3>2. /\ u \in Tasks /\ LaneOf[u] = l
          /\ task'[u].status \in Owned /\ task'[u].lease > 0
          /\ ~(task[u].status \in Owned /\ task[u].lease > 0)
      BY <3>1 DEF Active
    <3>3. PICK w \in Workers : TryClaim(w, u)
      BY <3>2, NoNewActive
    <3>4. \A x \in Tasks : x # u => task'[x] = task[x]
      BY <3>3 DEF TryClaim, IInv, TypeOK
    <3>5. A' \subseteq A \cup {u}
      BY <3>4 DEF Active
    <3>6. Cardinality(A) < ClusterLimit[l]
      BY <3>2, <3>3 DEF TryClaim, ActiveInLane, Active
    <3>7. IsFiniteSet(A \cup {u}) /\ Cardinality(A \cup {u}) = Cardinality(A) + 1
      BY <2>1, <3>1, FS_AddElement
    <3>8. Cardinality(A') <= Cardinality(A) + 1 /\ Cardinality(A') \in Nat
      BY <3>5, <3>7, FS_Subset, FS_CardinalityType
    <3> QED BY SMTT(60), Z3T(60), <2>1, <3>6, <3>8
  <2> QED BY <2>2, <2>3
<1> QED BY <1>3, <1>4, IInvHolds, GuardIsCovered, PTL DEF Spec



-----------------------------------------------------------------------------
(* The scratch directory of a running attempt.                             *)

\* A row that no worker takes up again unless a manual retry resets it.
Dead(t) == task[t].status \in Terminal \cup {"Deleted"}

\* Nothing requeues a task between another request's reading of its row and the removal
\* of its directory: there are no manual retries, or just one request at a time.
LoneRequest == Retriers = {} \/ (Sweepers = {} /\ \A q, r \in Retriers : q = r)

\* A request under way, which removes the task's whole directory, has a dead row.
RequestInv ==
    /\ \A r \in Retriers : retrier[r].pc # "idle" => Dead(retrier[r].task)
    /\ \A s \in Sweepers : sweeper[s].pc # "idle" => Dead(sweeper[s].task)

\* The directory of the attempt that holds the current token exists.
DirInv ==
    \A w \in Workers : worker[w].dir =>
        /\ Busy(w)
        /\ worker[w].token = task[worker[w].task].token
              => <<worker[w].task, worker[w].token>> \in scratch

\* Tokens never go back, and a dead row stays dead unless a manual retry resets it.
LEMMA RowGoesOn ==
  ASSUME IInv, [Next]_vars, NEW t \in Tasks
  PROVE  /\ task'[t].token >= task[t].token
         /\ \/ Dead(t) => Dead(t)'
            \/ \E r \in Retriers : RetryReset(r) /\ retrier[r].task = t
<1>0. task[t] \in Row /\ task[t].token \in Nat
  BY DEF IInv, TypeOK, Row
<1>1. ASSUME task'[t].token = task[t].token, task'[t].status = task[t].status \/ ~Dead(t) \/ Dead(t)'
      PROVE  task'[t].token >= task[t].token /\ (Dead(t) => Dead(t)')
  BY SMTT(60), Z3T(60), <1>0, <1>1 DEF Dead
<1>2. ASSUME NEW w \in Workers, NEW u \in Tasks, TryClaim(w, u)
      PROVE  task'[t].token >= task[t].token /\ (Dead(t) => Dead(t)')
  <2>1. t # u => task'[t] = task[t]
    BY <1>2 DEF TryClaim, IInv, TypeOK
  <2>2. t = u => ~Dead(t) /\ task'[t] = ClaimedRow(task[t])
    BY <1>2 DEF TryClaim, Claimable, Dead, Terminal, Queued, Owned, IInv, TypeOK
  <2>3. ClaimedRow(task[t]).token = task[t].token + 1
    BY <1>0 DEF ClaimedRow, Row
  <2> QED BY SMTT(60), Z3T(60), <1>0, <1>1, <2>1, <2>2, <2>3
<1>3. ASSUME NEW w \in Workers, NEW row, NEW slot, OwnerWrite(w, row, slot),
             worker[w].task \in Tasks => row.token = task[worker[w].task].token
      PROVE  task'[t].token >= task[t].token /\ (Dead(t) => Dead(t)')
  <2>1. \/ task'[t] = task[t]
        \/ worker[w].task = t /\ task[t].status = "Processing" /\ task'[t] = row
    BY SMTT(60), Z3T(60), <1>3, OwnerWriteEffect
  <2> QED BY <1>1, <1>3, <2>1 DEF Dead, Terminal
<1>4. ASSUME NEW w \in Workers, TouchHeartbeat(w) \/ SetMetadata(w) \/ Finish(w)
      PROVE  \E row, slot : /\ OwnerWrite(w, row, slot)
                            /\ worker[w].task \in Tasks => row.token = task[worker[w].task].token
  <2>0. worker[w].task \in Tasks => HeldRow(w) \in Row /\ HeldRow(w) = task[worker[w].task]
    BY DEF HeldRow, IInv, TypeOK
  <2>1. CASE TouchHeartbeat(w)
    <3> DEFINE row == [HeldRow(w) EXCEPT !.lease = Lease]
    <3>1. worker[w].task \in Tasks => row.token = task[worker[w].task].token
      BY <2>0 DEF Row
    <3>2. OwnerWrite(w, row, [worker[w] EXCEPT !.age = 0])
      BY <2>1 DEF TouchHeartbeat
    <3> HIDE DEF row
    <3> QED BY <3>1, <3>2
  <2>2. CASE SetMetadata(w)
    BY <2>0, <2>2 DEF SetMetadata
  <2>3. CASE MarkSucceeded(w)
    <3> DEFINE row == [HeldRow(w) EXCEPT !.status = "Succeeded", !.lease = NoLease]
    <3>1. worker[w].task \in Tasks => row.token = task[worker[w].task].token
      BY <2>0 DEF Row
    <3>2. OwnerWrite(w, row, IdleSlot)
      BY <2>3 DEF MarkSucceeded
    <3> HIDE DEF row
    <3> QED BY <3>1, <3>2
  <2>4. CASE ReleaseProcessing(w)
    <3> DEFINE row == [HeldRow(w) EXCEPT !.status = "Retry", !.lease = NoLease, !.wait = 0]
    <3>1. worker[w].task \in Tasks => row.token = task[worker[w].task].token
      BY <2>0 DEF Row
    <3>2. OwnerWrite(w, row, IdleSlot)
      BY <2>4 DEF ReleaseProcessing
    <3> HIDE DEF row
    <3> QED BY <3>1, <3>2
  <2>5. CASE \E class \in {"Auto", "Manual", "Never"} : Fail(w, class)
    <3>0. PICK class \in {"Auto", "Manual", "Never"} : Fail(w, class)
      BY <2>5
    <3> DEFINE spent == worker[w].attempts + 1
               again == [HeldRow(w) EXCEPT !.status = "Retry", !.lease = NoLease,
                                           !.wait = RetryDelay, !.attempts = spent]
               dead  == [HeldRow(w) EXCEPT !.status = "Failed", !.lease = NoLease,
                                           !.attempts = spent,
                                           !.canRetry = IF class = "Never" THEN "false"
                                                                           ELSE "true"]
    <3>1. worker[w].task \in Tasks => /\ again.token = task[worker[w].task].token
                                      /\ dead.token = task[worker[w].task].token
      BY <2>0 DEF Row
    <3>2. OwnerWrite(w, again, IdleSlot) \/ OwnerWrite(w, dead, IdleSlot)
      BY <3>0 DEF Fail
    <3> HIDE DEF again, dead
    <3> QED BY <3>1, <3>2
  <2> QED BY <1>4, <2>1, <2>2, <2>3, <2>4, <2>5 DEF Finish
<1>5. ASSUME NEW w \in Workers, Acknowledge(w)
      PROVE  task'[t].token >= task[t].token /\ (Dead(t) => Dead(t)')
  <2>1. \/ task'[t] = task[t]
        \/ /\ task[t].status = "Canceling"
           /\ task'[t] = [task[t] EXCEPT !.status = "Canceled", !.lease = NoLease, !.canRetry = "true"]
    BY <1>5 DEF Acknowledge, IInv, TypeOK
  <2>2. [task[t] EXCEPT !.status = "Canceled", !.lease = NoLease, !.canRetry = "true"].token
           = task[t].token
    BY <1>0 DEF Row
  <2> QED BY <1>1, <2>1, <2>2 DEF Dead, Terminal
<1>6. ASSUME NEW u \in Tasks, Insert(u) \/ RequestCancel(u) \/ CleanupTasksForAdmin(u)
      PROVE  task'[t].token >= task[t].token /\ (Dead(t) => Dead(t)')
  <2>1. task'[t].token = task[t].token
    <3>1. CASE Insert(u) \/ CleanupTasksForAdmin(u)
      BY SMTT(60), Z3T(60), <1>0, <3>1 DEF Insert, CleanupTasksForAdmin, IInv, TypeOK, Row
    <3>2. CASE RequestCancel(u)
      <4> DEFINE ended == [task[t] EXCEPT !.status = "Canceled", !.lease = NoLease,
                                          !.canRetry = "true"]
                 going == [task[t] EXCEPT !.status = "Canceling"]
      <4>1. ended.token = task[t].token /\ going.token = task[t].token
        BY <1>0 DEF Row
      <4>2. task'[t] \in {task[t], ended, going}
        BY <3>2 DEF RequestCancel, IInv, TypeOK
      <4> HIDE DEF ended, going
      <4> QED BY <4>1, <4>2
    <3> QED BY <1>6, <3>1, <3>2
  <2>2. \/ task'[t] = task[t]
        \/ task[t].status = "Absent"
        \/ task[t].status \in Queued \cup {"Processing"}
        \/ task'[t].status = "Deleted"
    BY SMTT(60), Z3T(60), <1>0, <1>6 DEF Insert, RequestCancel, CleanupTasksForAdmin, IInv, TypeOK, Row
  <2> QED BY <1>1, <2>1, <2>2 DEF Dead, Terminal, Queued
<1>7. ASSUME NEW r \in Retriers, RetryReset(r)
      PROVE  /\ task'[t].token = task[t].token
             /\ retrier[r].task # t => task'[t] = task[t]
  <2>1. retrier[r].task \in Tasks
    BY <1>7 DEF RetryReset, IInv, Targets
  <2>2. ResetRow(task[t]).token = task[t].token
    BY <1>0 DEF ResetRow, Row
  <2> QED BY <1>7, <2>1, <2>2 DEF RetryReset, IInv, TypeOK
<1>8. ASSUME task'[t] = task[t]
      PROVE  task'[t].token >= task[t].token /\ (Dead(t) => Dead(t)')
  BY <1>1, <1>8
<1>9. CASE Tick
  BY <1>1, <1>9, TickFacts
<1>10. CASE UNCHANGED vars
  BY <1>8, <1>10 DEF vars
<1>11. ASSUME NEW w \in Workers, WorkerStep(w)
       PROVE  task'[t].token >= task[t].token /\ (Dead(t) => Dead(t)')
  <2>1. CASE \/ RenewalTimedOut(w) \/ Crash(w)
             \/ PrepareScratch(w) \/ CleanupScratchForLease(w)
    BY <1>8, <2>1 DEF RenewalTimedOut, Crash, PrepareScratch, CleanupScratchForLease
  <2>2. CASE TouchHeartbeat(w) \/ SetMetadata(w) \/ Finish(w)
    BY <1>3, <1>4, <2>2
  <2> QED BY <1>2, <1>5, <1>11, <2>1, <2>2 DEF WorkerStep
<1>12. CASE RequestStep
  <2>1. ASSUME NEW r \in Retriers, RetryReset(r)
        PROVE  /\ task'[t].token >= task[t].token
               /\ \/ Dead(t) => Dead(t)'
                  \/ RetryReset(r) /\ retrier[r].task = t
    BY SMTT(60), Z3T(60), <1>0, <1>7, <1>8, <2>1
  <2>2. ASSUME \/ \E r \in Retriers : RetryCleanup(r) \/ \E u \in Tasks : RetryRead(r, u)
               \/ \E s \in Sweepers : SweepDelete(s) \/ \E u \in Tasks : SweepRead(s, u)
        PROVE  task' = task
    BY <2>2 DEF RetryCleanup, RetryRead, SweepDelete, SweepRead
  <2> QED BY <1>6, <1>8, <1>12, <2>1, <2>2 DEF RequestStep
<1> QED BY <1>9, <1>10, <1>11, <1>12 DEF Next


\* Requests keep finding dead rows.
LEMMA RequestInvKept ==
  ASSUME LoneRequest, IInv, RequestInv, [Next]_vars
  PROVE  RequestInv'
<1>0. /\ retrier \in [Retriers -> Request] /\ sweeper \in [Sweepers -> Request]
      /\ \A r \in Retriers : retrier[r].pc # "idle" => retrier[r].task \in Tasks
      /\ \A s \in Sweepers : sweeper[s].pc # "idle" => sweeper[s].task \in Tasks
  BY DEF IInv, TypeOK, Targets
<1>1. ASSUME NEW q \in Retriers, RetryReset(q) PROVE RequestInv'
  <2>1. Sweepers = {} /\ \A r \in Retriers : r = q
    BY DEF LoneRequest
  <2>2. retrier'[q].pc = "idle"
    BY <1>0, <1>1 DEF RetryReset, NoRequest
  <2> QED BY <2>1, <2>2 DEF RequestInv
<1>2. ASSUME \A r \in Retriers : ~RetryReset(r) PROVE RequestInv'
  <2>1. \A t \in Tasks : Dead(t) => Dead(t)'
    BY <1>2, RowGoesOn
  <2>2. ASSUME NEW r \in Retriers, retrier'[r].pc # "idle"
        PROVE  \/ retrier[r].pc # "idle" /\ retrier'[r].task = retrier[r].task
               \/ retrier'[r].task \in Tasks /\ Dead(retrier'[r].task)
    <3>1. CASE retrier' = retrier
      BY <2>2, <3>1
    <3>2. CASE \E q \in Retriers, t \in Tasks : RetryRead(q, t)
      BY SMTT(60), Z3T(60), <1>0, <2>2, <3>2 DEF RetryRead, CanRetry, Dead, Terminal
    <3>3. CASE \E q \in Retriers : RetryCleanup(q)
      BY SMTT(60), Z3T(60), <1>0, <2>2, <3>3 DEF RetryCleanup, Request
    <3> QED BY <1>2, <3>1, <3>2, <3>3
            DEF Next, vars, WorkerStep, RequestStep, Tick, TryClaim, TouchHeartbeat, SetMetadata,
                Finish, MarkSucceeded, Fail, ReleaseProcessing, OwnerWrite, Acknowledge,
                RenewalTimedOut, Crash, PrepareScratch, CleanupScratchForLease, Insert,
                RequestCancel, CleanupTasksForAdmin, SweepRead, SweepDelete
  <2>3. ASSUME NEW s \in Sweepers, sweeper'[s].pc # "idle"
        PROVE  \/ sweeper[s].pc # "idle" /\ sweeper'[s].task = sweeper[s].task
               \/ sweeper'[s].task \in Tasks /\ Dead(sweeper'[s].task)
    <3>1. CASE sweeper' = sweeper
      BY <2>3, <3>1
    <3>2. CASE \E q \in Sweepers, t \in Tasks : SweepRead(q, t)
      BY SMTT(60), Z3T(60), <1>0, <2>3, <3>2 DEF SweepRead, Dead
    <3>3. CASE \E q \in Sweepers : SweepDelete(q)
      BY SMTT(60), Z3T(60), <1>0, <2>3, <3>3 DEF SweepDelete, NoRequest
    <3> QED BY <3>1, <3>2, <3>3
            DEF Next, vars, WorkerStep, RequestStep, Tick, TryClaim, TouchHeartbeat, SetMetadata,
                Finish, MarkSucceeded, Fail, ReleaseProcessing, OwnerWrite, Acknowledge,
                RenewalTimedOut, Crash, PrepareScratch, CleanupScratchForLease, Insert,
                RequestCancel, CleanupTasksForAdmin, RetryRead, RetryCleanup, RetryReset
  <2>4. \A r \in Retriers : retrier'[r].pc # "idle" =>
           task'[retrier'[r].task].status \in Terminal \cup {"Deleted"}
    BY <1>0, <2>1, <2>2 DEF RequestInv, Dead
  <2>5. \A s \in Sweepers : sweeper'[s].pc # "idle" =>
           task'[sweeper'[s].task].status \in Terminal \cup {"Deleted"}
    BY <1>0, <2>1, <2>3 DEF RequestInv, Dead
  <2> QED BY <2>4, <2>5 DEF RequestInv, Dead
<1> QED BY <1>1, <1>2

\* A slot with a directory keeps its task and its token.
LEMMA SlotGoesOn ==
  ASSUME IInv, [Next]_vars, NEW v \in Workers, worker'[v].dir,
         ~PrepareScratch(v), worker[v].dir => Busy(v)
  PROVE  /\ worker[v].dir /\ Busy(v)' /\ worker'[v].task = worker[v].task
         /\ worker'[v].token = worker[v].token
<1>0. worker \in [Workers -> Slot] /\ IdleSlot.dir = FALSE
  BY DEF IInv, TypeOK, IdleSlot
<1>1. CASE worker'[v] = worker[v]
  BY SMTT(60), Z3T(60), <1>1 DEF Busy
<1>2. ASSUME NEW row, NEW slot, OwnerWrite(v, row, slot), slot.dir => slot = [worker[v] EXCEPT !.age = 0]
      PROVE  worker[v].dir /\ Busy(v)' /\ worker'[v].task = worker[v].task
             /\ worker'[v].token = worker[v].token
  <2>1. worker'[v] = slot \/ worker'[v] = [worker[v] EXCEPT !.pc = "stop"]
    BY <1>0, <1>2 DEF OwnerWrite
  <2> QED BY SMTT(60), Z3T(60), <1>0, <1>2, <2>1 DEF Busy, Slot
<1>3. CASE TouchHeartbeat(v) \/ SetMetadata(v)
  <2> DEFINE slot == [worker[v] EXCEPT !.age = 0]
  <2>1. \E row : OwnerWrite(v, row, slot)
    BY <1>3 DEF TouchHeartbeat, SetMetadata
  <2> QED BY <1>2, <2>1
<1>4. CASE Finish(v)
  <2>1. \E row : OwnerWrite(v, row, IdleSlot)
    BY <1>4 DEF Finish, MarkSucceeded, Fail, ReleaseProcessing
  <2> QED BY <1>0, <1>2, <2>1
<1>5. ~Acknowledge(v) /\ ~RenewalTimedOut(v) /\ ~Crash(v)
  BY <1>0 DEF Acknowledge, RenewalTimedOut, Crash
<1>6. \A t \in Tasks : ~TryClaim(v, t)
  BY SMTT(60), Z3T(60), <1>0 DEF TryClaim
<1>7. ~CleanupScratchForLease(v)
  BY <1>0 DEF CleanupScratchForLease, Slot
<1>8. CASE WorkerStep(v)
  BY <1>3, <1>4, <1>5, <1>6, <1>7, <1>8 DEF WorkerStep
<1>9. ASSUME NEW w \in Workers, w # v, WorkerStep(w) PROVE worker'[v] = worker[v]
  <2>1. \E slot : worker' = [worker EXCEPT ![w] = slot]
    BY <1>0, <1>9 DEF WorkerStep, TryClaim, TouchHeartbeat, SetMetadata, Finish, MarkSucceeded, Fail,
           ReleaseProcessing, OwnerWrite, Acknowledge, RenewalTimedOut, Crash, PrepareScratch,
           CleanupScratchForLease
  <2> QED BY <1>0, <1>9, <2>1
<1>10. CASE RequestStep \/ UNCHANGED vars
  <2>1. worker' = worker
    BY <1>10 DEF RequestStep, vars, Insert, RequestCancel, CleanupTasksForAdmin, RetryRead,
                 RetryCleanup, RetryReset, SweepRead, SweepDelete
  <2> QED BY <1>1, <2>1
<1>11. CASE Tick
  BY <1>11, TickFacts DEF Busy
<1> QED BY <1>1, <1>8, <1>9, <1>10, <1>11 DEF Next

\* The directory of the current attempt stays.
LEMMA DirInvKept ==
  ASSUME IInv, IInv', RequestInv, DirInv, [Next]_vars
  PROVE  DirInv'
<1> SUFFICES ASSUME NEW v \in Workers, worker'[v].dir
             PROVE  /\ Busy(v)'
                    /\ worker'[v].token = task'[worker'[v].task].token
                          => <<worker'[v].task, worker'[v].token>> \in scratch'
  BY DEF DirInv
<1>0. worker \in [Workers -> Slot] /\ \A t \in Tasks : task[t].token \in Nat /\ task'[t].token \in Nat
  BY DEF IInv, TypeOK, Row
<1>1. CASE PrepareScratch(v)
  BY <1>0, <1>1 DEF PrepareScratch, MayWrite, Busy, Slot
<1>2. CASE ~PrepareScratch(v)
  <2>1. /\ worker[v].dir /\ Busy(v) /\ Busy(v)' /\ worker'[v].task = worker[v].task
        /\ worker'[v].token = worker[v].token
    BY <1>2, SlotGoesOn DEF DirInv
  <2>2. PICK t \in Tasks : t = worker[v].task
    BY <2>1 DEF IInv, Targets
  <2>3. PICK k \in Nat : k = worker[v].token
    BY <1>0 DEF Slot
  <2> SUFFICES ASSUME k = task'[t].token PROVE <<t, k>> \in scratch'
    BY <2>1, <2>2, <2>3
  <2>4. k <= task[t].token /\ task'[t].token >= task[t].token
    BY <2>1, <2>2, <2>3, RowGoesOn DEF IInv, TokenUnique
  <2>5. k = task[t].token
    BY SMTT(60), Z3T(60), <1>0, <2>4
  <2>6. <<t, k>> \in scratch /\ task[t].status \in Owned
    BY <2>1, <2>2, <2>3, <2>5 DEF DirInv, IInv, HolderOwns
  <2>7. ~Dead(t)
    BY <2>6 DEF Dead, Terminal, Owned
  <2>8. CASE \E r \in Retriers : RetryCleanup(r)
    BY <2>6, <2>7, <2>8 DEF RetryCleanup, RequestInv
  <2>9. CASE \E s \in Sweepers : SweepDelete(s)
    BY <2>6, <2>7, <2>9 DEF SweepDelete, RequestInv
  <2>10. CASE \E w \in Workers : CleanupScratchForLease(w)
    <3>1. PICK w \in Workers : CleanupScratchForLease(w)
      BY <2>10
    <3>2. w # v
      BY SMTT(60), Z3T(60), <1>0, <3>1 DEF CleanupScratchForLease
    <3>3. Busy(w) /\ scratch' = scratch \ {<<worker[w].task, worker[w].token>>}
      BY <3>1 DEF CleanupScratchForLease, DirInv
    <3>4. worker[w].task = t => worker[w].token # k
      BY <2>1, <2>2, <2>3, <3>2, <3>3 DEF IInv, TokenUnique
    <3> QED BY <2>6, <3>3, <3>4
  <2>11. CASE scratch \subseteq scratch'
    BY <2>6, <2>11
  <2> QED BY <2>8, <2>9, <2>10, <2>11
          DEF Next, vars, WorkerStep, RequestStep, Tick, TryClaim, TouchHeartbeat, SetMetadata,
              Finish, MarkSucceeded, Fail, ReleaseProcessing, OwnerWrite, Acknowledge,
              RenewalTimedOut, Crash, PrepareScratch, Insert, RequestCancel,
              CleanupTasksForAdmin, RetryRead, RetryReset, SweepRead
<1> QED BY <1>1, <1>2

\* The directory that a running worker staged its files in stays until it removes it
\* itself, as long as no manual retry requeues the task between another request's
\* reading of its row and its removal of the directories (LoneRequest).
THEOREM ScratchIsKept ==
  ASSUME MetadataWriters = {}, LoneRequest
  PROVE  Spec => []LiveScratchKept
<1>1. Init => RequestInv /\ DirInv
  BY SMTT(60), Z3T(60) DEF Init, RequestInv, DirInv, NoRequest, IdleSlot
<1>2. IInv /\ IInv' /\ RequestInv /\ DirInv /\ [Next]_vars => RequestInv' /\ DirInv'
  BY RequestInvKept, DirInvKept
<1>3. IInv /\ LeaseCoversGuard /\ DirInv => LiveScratchKept
  BY CoveredFacts DEF DirInv, LiveScratchKept
<1> QED BY <1>1, <1>2, <1>3, IInvHolds, GuardIsCovered, PTL DEF Spec

-----------------------------------------------------------------------------
(***************************************************************************)
(* Proofs about the binding between a primary and its follower, for any    *)
(* number of enrollment commands, pushes, edits and failures: a completed  *)
(* enrollment has its row on the follower, and a revision is marked as     *)
(* applied only while the registry and the tunnel worker follow the row.   *)
(***************************************************************************)
NodeType == [enabled : BOOLEAN, tunnel : BOOLEAN, revision : 1..MaxRevision,
             acked : 0..MaxRevision]
EditType == [field : {"enabled", "tunnel"}, value : BOOLEAN, revision : 0..MaxRevision]

\* A command, a push and a round carry different fields in different phases.
Enrolling == {Quiet} \cup [phase : {"redeemed", "stored"}, given : Desired]
Push == {Quiet} \cup [phase : {"sent", "checked", "written"}, given : Desired]
\* What a round carries in each phase.
AskingRound == [phase : {"asking"}, ok : {TRUE}, base : Binding]
ReadRound == [phase : {"read"}, ok : {TRUE}, base : Binding, seen : Desired]
FreshRow == {b \in Binding : b.applied = 0}
AnsweredRound == [phase : {"answered"}, ok : {TRUE}, write : FreshRow \cup {Unset}]
RunningRound == [phase : {"pulled", "reloaded", "ran"}, ok : BOOLEAN]
MarkingRound == [phase : {"marking"}, ok : {TRUE}, revision : 1..MaxRevision]
Round == {Asleep} \cup AskingRound \cup ReadRound \cup AnsweredRound \cup RunningRound \cup MarkingRound

BindingTypes ==
    /\ node \in NodeType
    /\ edits \subseteq EditType
    /\ tokens \in [Tokens -> {"none", "checked", "pending", "redeemed", "acked", "invalidated"}]
    /\ enrolling \in [Tokens -> Enrolling]
    /\ binding \in Binding \cup {Unset}
    /\ registry \in Setting \cup {Unset}
    /\ tunnelUp \in BOOLEAN /\ disturbed \in BOOLEAN
    /\ round \in Round
    /\ pushes \in [Pushers -> Push]

\* Whoever works on the follower's row, or has finished with it, works on one that exists.
RowExists ==
    \/ binding # Unset
    \/ /\ \A t \in Tokens : tokens[t] # "acked" /\ enrolling[t].phase # "stored"
       /\ \A p \in Pushers : pushes[p].phase \in {"idle", "sent"}
       /\ round.phase = "idle"

RegistryFollows == registry = SettingOf(binding)
WorkersFollow == tunnelUp = NeedsReverseTunnel(binding)

\* The rest of a round goes by the row it reloaded, unless another wrote it since.
RoundFollows ==
    /\ round.phase = "reloaded" /\ round.ok => disturbed \/ RegistryFollows
    /\ round.phase \in {"ran", "marking"} => disturbed \/ (RegistryFollows /\ WorkersFollow)

BindingInv == BindingTypes /\ RowExists /\ RoundFollows

-----------------------------------------------------------------------------
\* A settings record of a node or of a row is what goes to the follower.
LEMMA Conversions ==
  /\ \A n \in NodeType : DesiredOf(n) \in Desired
  /\ \A d \in Desired : Bound(d) \in Binding /\ Bound(d).applied = 0
  /\ \A b \in Binding : SettingOf(b) \in Setting /\ NeedsReverseTunnel(b) \in BOOLEAN
  BY SMTT(60), Z3T(60), BindingAssumption DEF NodeType, Desired, DesiredOf, Bound, Binding, SettingOf, Setting,
     NeedsReverseTunnel

\* A phase tells which fields a round has.
LEMMA RoundFields ==
  ASSUME NEW r \in Round
  PROVE  /\ r.phase = "asking" => r \in AskingRound
         /\ r.phase = "read" => r \in ReadRound
         /\ r.phase = "answered" => r \in AnsweredRound
         /\ r.phase \in {"pulled", "reloaded", "ran"} => r \in RunningRound
         /\ r.phase = "marking" => r \in MarkingRound
<1>1. CASE r = Asleep
  BY <1>1 DEF Asleep
<1>2. CASE r \in AskingRound
  BY <1>2 DEF AskingRound
<1>3. CASE r \in ReadRound
  BY <1>3 DEF ReadRound
<1>4. CASE r \in AnsweredRound
  BY <1>4 DEF AnsweredRound
<1>5. CASE r \in RunningRound
  BY <1>5 DEF RunningRound
<1>6. CASE r \in MarkingRound
  BY <1>6 DEF MarkingRound
<1> QED BY <1>1, <1>2, <1>3, <1>4, <1>5, <1>6 DEF Round

\* At first there is no row and nobody works on it.
LEMMA BindingInitInv == BindingInit => BindingInv
<1> SUFFICES ASSUME BindingInit PROVE BindingInv
  OBVIOUS
<1>1. PICK c \in Created :
        node = [enabled |-> c.enabled, tunnel |-> c.tunnel, revision |-> 1, acked |-> 0]
  BY DEF BindingInit
<1>2. node \in NodeType
  BY SMTT(60), Z3T(60), <1>1, BindingAssumption DEF NodeType, Setting
<1>3. BindingTypes
  BY <1>2 DEF BindingInit, BindingTypes, Enrolling, Push, Round
<1>4. RowExists /\ RoundFollows
  BY DEF BindingInit, RowExists, RoundFollows, Quiet, Asleep
<1> QED BY <1>3, <1>4 DEF BindingInv


-----------------------------------------------------------------------------
\* Steps that leave the follower's row, registry, worker and round alone.
LEMMA AwayFromLoop ==
  ASSUME BindingInv, UNCHANGED <<binding, registry, tunnelUp, round, disturbed>>,
         node' \in NodeType, edits' \subseteq EditType,
         tokens' \in [Tokens -> {"none", "checked", "pending", "redeemed", "acked", "invalidated"}],
         enrolling' \in [Tokens -> Enrolling], pushes' \in [Pushers -> Push],
         \A t \in Tokens : /\ tokens'[t] = "acked" =>
                                 tokens[t] = "acked" \/ enrolling[t].phase = "stored"
                           /\ enrolling'[t].phase = "stored" => enrolling[t].phase = "stored",
         \A p \in Pushers : \/ pushes'[p].phase \in {"idle", "sent"}
                            \/ pushes'[p].phase = pushes[p].phase
                            \/ binding # Unset
  PROVE  BindingInv'
<1>1. BindingTypes'
  BY DEF BindingInv, BindingTypes
<1>2. RowExists'
  BY DEF BindingInv, RowExists
<1>3. RoundFollows'
  BY DEF BindingInv, RoundFollows, RegistryFollows, WorkersFollow
<1> QED BY <1>1, <1>2, <1>3 DEF BindingInv

\* The primary's side of an enrollment.
LEMMA CommandKeeps ==
  ASSUME BindingInv, NEW t \in Tokens,
         CheckCommand(t) \/ CreateCommand(t) \/ AckToken(t) \/ AbandonEnrollment(t)
  PROVE  BindingInv'
<1>0. Quiet \in Enrolling /\ Quiet.phase = "idle"
  BY DEF Quiet, Enrolling
<1>1. UNCHANGED <<node, edits, binding, registry, tunnelUp, round, pushes, disturbed>>
  BY DEF CheckCommand, CreateCommand, AckToken, AbandonEnrollment
<1>2. /\ tokens' \in [Tokens -> {"none", "checked", "pending", "redeemed", "acked", "invalidated"}]
      /\ \A u \in Tokens : tokens'[u] = "acked" =>
            tokens[u] = "acked" \/ enrolling[u].phase = "stored"
  BY DEF CheckCommand, CreateCommand, AckToken, AbandonEnrollment, BindingInv, BindingTypes
<1>3. enrolling' = enrolling \/ enrolling' = [enrolling EXCEPT ![t] = Quiet]
  BY DEF CheckCommand, CreateCommand, AckToken, AbandonEnrollment
<1>4. /\ enrolling' \in [Tokens -> Enrolling]
      /\ \A u \in Tokens : enrolling'[u].phase = "stored" => enrolling[u].phase = "stored"
  BY <1>0, <1>3 DEF BindingInv, BindingTypes
<1> QED BY <1>1, <1>2, <1>4, AwayFromLoop DEF BindingInv, BindingTypes

\* A token is redeemed; the command has its answer or not.
LEMMA RedeemKeeps == ASSUME BindingInv, NEW t \in Tokens, RedeemToken(t) PROVE BindingInv'
<1> DEFINE e == [phase |-> "redeemed", given |-> DesiredOf(node)]
<1>0. e \in Enrolling /\ e.phase = "redeemed"
  BY Conversions DEF BindingInv, BindingTypes, Enrolling
<1>1. UNCHANGED <<node, edits, binding, registry, tunnelUp, round, pushes, disturbed>>
  BY DEF RedeemToken
<1>2. /\ tokens' \in [Tokens -> {"none", "checked", "pending", "redeemed", "acked", "invalidated"}]
      /\ \A u \in Tokens : tokens'[u] = "acked" => tokens[u] = "acked"
  BY DEF RedeemToken, BindingInv, BindingTypes
<1>3. enrolling' = enrolling \/ enrolling' = [enrolling EXCEPT ![t] = e]
  BY DEF RedeemToken
<1> HIDE DEF e
<1>4. /\ enrolling' \in [Tokens -> Enrolling]
      /\ \A u \in Tokens : enrolling'[u].phase = "stored" => enrolling[u].phase = "stored"
  BY <1>0, <1>3 DEF BindingInv, BindingTypes
<1> QED BY <1>1, <1>2, <1>4, AwayFromLoop DEF BindingInv, BindingTypes

\* An edit is opened, and a probe answers or fails.
LEMMA EditKeeps ==
  ASSUME BindingInv,
         (\E f \in Editable, v \in BOOLEAN : OpenEdit(f, v)) \/ Probe \/ StaleProbe
  PROVE  BindingInv'
<1>1. UNCHANGED <<node, tokens, enrolling, binding, registry, tunnelUp, round, pushes, disturbed>>
  BY DEF OpenEdit, Probe, StaleProbe
<1>2. CASE Probe \/ StaleProbe
  BY <1>1, <1>2, AwayFromLoop DEF Probe, StaleProbe, BindingInv, BindingTypes
<1>3. ASSUME NEW f \in Editable, NEW v \in BOOLEAN, OpenEdit(f, v) PROVE BindingInv'
  <2> DEFINE e == [field |-> f, value |-> v,
                   revision |-> IF node[f] # v THEN node.revision + 1 ELSE 0]
  <2>1. node.revision \in 1..MaxRevision /\ f \in {"enabled", "tunnel"}
    BY BindingAssumption DEF BindingInv, BindingTypes, NodeType
  <2>2. (IF node[f] # v THEN node.revision + 1 ELSE 0) \in 0..MaxRevision
    BY SMTT(60), Z3T(60), <1>3, <2>1, BindingAssumption DEF OpenEdit
  <2>3. e \in EditType
    BY <2>1, <2>2 DEF EditType
  <2>4. edits' = edits \cup {e}
    BY <1>3 DEF OpenEdit
  <2> HIDE DEF e
  <2>5. edits' \subseteq EditType
    BY <2>3, <2>4 DEF BindingInv, BindingTypes
  <2> QED BY <1>1, <2>5, AwayFromLoop DEF BindingInv, BindingTypes
<1> QED BY <1>2, <1>3

\* An edit is written, and a push may go out.
LEMMA SaveKeeps == ASSUME BindingInv, NEW e \in edits, SaveEdit(e) PROVE BindingInv'
<1>1. UNCHANGED <<tokens, enrolling, binding, registry, tunnelUp, round, disturbed>>
      /\ edits' = edits \ {e} /\ node' = Edited(e)
  BY DEF SaveEdit
<1>2. e \in EditType /\ node \in NodeType
  BY DEF BindingInv, BindingTypes
<1>3. Edited(e) \in NodeType
  <2> DEFINE n == IF e.revision = 0 THEN node.revision ELSE e.revision
  <2>1. n \in 1..MaxRevision
    BY SMTT(60), Z3T(60), <1>2, BindingAssumption DEF NodeType, EditType
  <2>2. CASE e.field = "enabled"
    <3> DEFINE m == [node EXCEPT !.enabled = e.value]
    <3>1. m \in NodeType /\ m.revision = node.revision
      BY <1>2 DEF NodeType, EditType
    <3>2. Edited(e) = [m EXCEPT !.revision = n]
      BY <2>2, <3>1 DEF Edited
    <3> HIDE DEF m, n
    <3> QED BY <2>1, <3>1, <3>2 DEF NodeType
  <2>3. CASE e.field = "tunnel"
    <3> DEFINE m == [node EXCEPT !.tunnel = e.value]
    <3>1. m \in NodeType /\ m.revision = node.revision
      BY <1>2 DEF NodeType, EditType
    <3>2. Edited(e) = [m EXCEPT !.revision = n]
      BY <2>3, <3>1 DEF Edited
    <3> HIDE DEF m, n
    <3> QED BY <2>1, <3>1, <3>2 DEF NodeType
  <2> QED BY <1>2, <2>2, <2>3 DEF EditType
<1> DEFINE q == [phase |-> "sent", given |-> DesiredOf(Edited(e))]
<1>4. q \in Push /\ q.phase = "sent"
  BY <1>3, Conversions DEF Push
<1>5. pushes' = pushes \/ \E p \in Pushers : pushes' = [pushes EXCEPT ![p] = q]
  BY DEF SaveEdit
<1> HIDE DEF q
<1>6. /\ pushes' \in [Pushers -> Push]
      /\ \A p \in Pushers : pushes'[p].phase \in {"idle", "sent"} \/ pushes'[p].phase = pushes[p].phase
  BY <1>4, <1>5 DEF BindingInv, BindingTypes
<1>7. edits' \subseteq EditType
  BY <1>1 DEF BindingInv, BindingTypes
<1> QED BY <1>1, <1>3, <1>6, <1>7, AwayFromLoop DEF BindingInv, BindingTypes

\* A push is sent, checked or lost.
LEMMA PushKeeps ==
  ASSUME BindingInv, NEW p \in Pushers, HealthPush(p) \/ CheckPush(p) \/ LosePush(p)
  PROVE  BindingInv'
<1> DEFINE q == [phase |-> "sent", given |-> DesiredOf(node)]
           c == [pushes[p] EXCEPT !.phase = "checked"]
<1>1. UNCHANGED <<node, tokens, edits, enrolling, binding, registry, tunnelUp, round, disturbed>>
  BY DEF HealthPush, CheckPush, LosePush
<1>2. q \in Push /\ q.phase = "sent" /\ Quiet \in Push /\ Quiet.phase = "idle"
  BY Conversions DEF Push, Quiet, BindingInv, BindingTypes
<1>3. pushes[p].phase = "sent" => c \in Push
  BY SMTT(60), Z3T(60) DEF Push, Quiet, BindingInv, BindingTypes
<1>4. \/ pushes' = [pushes EXCEPT ![p] = q]
      \/ pushes' = [pushes EXCEPT ![p] = Quiet]
      \/ binding # Unset /\ pushes[p].phase = "sent" /\ pushes' = [pushes EXCEPT ![p] = c]
  BY DEF HealthPush, CheckPush, LosePush
<1> HIDE DEF q, c
<1>5. /\ pushes' \in [Pushers -> Push]
      /\ \A r \in Pushers : \/ pushes'[r].phase \in {"idle", "sent"}
                            \/ pushes'[r].phase = pushes[r].phase
                            \/ binding # Unset
  BY <1>2, <1>3, <1>4 DEF BindingInv, BindingTypes
<1> QED BY <1>1, <1>5, AwayFromLoop DEF BindingInv, BindingTypes


-----------------------------------------------------------------------------
\* The row is written beside the loop.
LEMMA WrittenBeside ==
  ASSUME BindingInv, binding' \in Binding, Disturb,
         enrolling' \in [Tokens -> Enrolling], pushes' \in [Pushers -> Push],
         UNCHANGED <<node, tokens, edits, registry, tunnelUp, round>>
  PROVE  BindingInv'
<1>1. disturbed' \in BOOLEAN
      /\ (disturbed \/ round.phase \in {"reloaded", "ran", "marking"} => disturbed')
  BY DEF Disturb
<1>2. BindingTypes'
  BY <1>1 DEF BindingInv, BindingTypes
<1>3. RowExists'
  BY BindingAssumption DEF RowExists
<1>4. RoundFollows'
  BY <1>1 DEF RoundFollows
<1> QED BY <1>2, <1>3, <1>4 DEF BindingInv

\* The row that enrollment leaves, and how it differs from the one before.
LEMMA EnrolledRow ==
  ASSUME BindingInv, NEW d \in Desired
  PROVE  /\ Enrolled(d) \in Binding
         /\ Enrolled(d).applied = 0 \/ (binding # Unset /\ Enrolled(d).applied = binding.applied)
  BY Conversions, BindingAssumption DEF BindingInv, BindingTypes, Enrolled, Binding, Desired

\* The row that a push leaves.
LEMMA PushedRow ==
  ASSUME BindingInv, NEW p \in Pushers, pushes[p].phase = "checked"
  PROVE  /\ [Bound(pushes[p].given) EXCEPT !.applied = binding.applied] \in Binding
         /\ [Bound(pushes[p].given) EXCEPT !.applied = binding.applied].applied = binding.applied
<1>1. pushes[p].given \in Desired
  BY SMTT(60), Z3T(60) DEF BindingInv, BindingTypes, Push, Quiet
<1>2. binding \in Binding
  BY DEF BindingInv, BindingTypes, RowExists
<1> QED BY <1>1, <1>2, Conversions DEF Binding

\* An enrollment stores the row, and a push writes it.
LEMMA WriteKeeps ==
  ASSUME BindingInv, (\E t \in Tokens : StoreBinding(t)) \/ (\E p \in Pushers : WritePush(p))
  PROVE  BindingInv'
<1>1. ASSUME NEW t \in Tokens, StoreBinding(t) PROVE BindingInv'
  <2>1. enrolling[t] \in [phase : {"redeemed", "stored"}, given : Desired]
    BY SMTT(60), Z3T(60), <1>1 DEF StoreBinding, BindingInv, BindingTypes, Enrolling, Quiet
  <2>2. [enrolling[t] EXCEPT !.phase = "stored"] \in Enrolling /\ enrolling[t].given \in Desired
    BY <2>1 DEF Enrolling
  <2>3. enrolling' = [enrolling EXCEPT ![t] = [enrolling[t] EXCEPT !.phase = "stored"]]
    BY <1>1 DEF StoreBinding
  <2>4. enrolling' \in [Tokens -> Enrolling]
    BY <2>2, <2>3 DEF BindingInv, BindingTypes
  <2>5. binding' \in Binding
    BY <1>1, <2>2, EnrolledRow DEF StoreBinding
  <2> QED BY <1>1, <2>4, <2>5, WrittenBeside DEF StoreBinding, BindingInv, BindingTypes
<1>2. ASSUME NEW p \in Pushers, WritePush(p) PROVE BindingInv'
  <2>1. pushes[p] \in [phase : {"sent", "checked", "written"}, given : Desired]
    BY SMTT(60), Z3T(60), <1>2 DEF WritePush, BindingInv, BindingTypes, Push, Quiet
  <2>2. [pushes[p] EXCEPT !.phase = "written"] \in Push
    BY <2>1 DEF Push
  <2>3. pushes' = [pushes EXCEPT ![p] = [pushes[p] EXCEPT !.phase = "written"]]
    BY <1>2 DEF WritePush
  <2>4. pushes' \in [Pushers -> Push]
    BY <2>2, <2>3 DEF BindingInv, BindingTypes
  <2>5. binding' \in Binding
    BY <1>2, PushedRow DEF WritePush
  <2> QED BY <1>2, <2>4, <2>5, WrittenBeside DEF WritePush, BindingInv, BindingTypes
<1> QED BY <1>1, <1>2

\* A round that has not begun or is over constrains nothing.
LEMMA Asleeps == Asleep \in Round /\ Asleep.phase = "idle"
  BY DEF Asleep, Round

\* The registry is reloaded after a push.
LEMMA ReloadKeeps == ASSUME BindingInv, NEW p \in Pushers, ReloadAfterPush(p) PROVE BindingInv'
<1>1. binding \in Binding
  BY DEF BindingInv, BindingTypes, RowExists, ReloadAfterPush
<1>2. UNCHANGED <<node, tokens, edits, enrolling, binding, tunnelUp, round, disturbed>>
      /\ registry' = SettingOf(binding)
  BY DEF ReloadAfterPush
<1>3. pushes' \in [Pushers -> Push]
  BY DEF ReloadAfterPush, Push, BindingInv, BindingTypes
<1>4. BindingTypes'
  BY <1>1, <1>2, <1>3, Conversions DEF BindingInv, BindingTypes
<1>5. RowExists'
  BY <1>1, <1>2, BindingAssumption DEF RowExists
<1>6. RoundFollows'
  BY <1>2 DEF BindingInv, RoundFollows, RegistryFollows, WorkersFollow
<1> QED BY <1>4, <1>5, <1>6 DEF BindingInv

\* The follower starts again.
LEMMA RestartKeeps == ASSUME BindingInv, FollowerRestart PROVE BindingInv'
<1>1. binding \in Binding
  BY DEF BindingInv, BindingTypes, FollowerRestart
<1>2. UNCHANGED <<node, tokens, edits, enrolling, binding>> /\ registry' = SettingOf(binding)
      /\ tunnelUp' = FALSE /\ disturbed' = FALSE /\ round' = Asleep
  BY DEF FollowerRestart, EndRound
<1>3. pushes' \in [Pushers -> Push]
  BY DEF FollowerRestart, Push, BindingInv, BindingTypes
<1>4. BindingTypes'
  BY <1>1, <1>2, <1>3, Conversions, Asleeps DEF BindingInv, BindingTypes
<1>5. RowExists'
  BY <1>1, <1>2, BindingAssumption DEF RowExists
<1>6. RoundFollows'
  BY <1>2, Asleeps DEF RoundFollows
<1> QED BY <1>4, <1>5, <1>6 DEF BindingInv

-----------------------------------------------------------------------------
\* A step of the loop, which has a row.
LEMMA LoopKeepsTypes ==
  ASSUME BindingInv, binding \in Binding, binding' \in Binding, node' \in NodeType,
         registry' \in Setting \cup {Unset}, tunnelUp' \in BOOLEAN, disturbed' \in BOOLEAN,
         round' \in Round, RoundFollows', UNCHANGED <<tokens, edits, enrolling, pushes>>
  PROVE  BindingInv'
<1>1. BindingTypes'
  BY DEF BindingInv, BindingTypes
<1>2. RowExists'
  BY BindingAssumption DEF RowExists
<1> QED BY <1>1, <1>2 DEF BindingInv

\* The round as far as the row that the primary's answer leads to.
LEMMA PullKeeps ==
  ASSUME BindingInv, StartRound \/ ReadForPull \/ AnswerPull \/ ApplyDesired \/ PullFails
  PROVE  BindingInv'
<1>1. binding \in Binding
  BY DEF BindingInv, BindingTypes, RowExists, StartRound, ReadForPull, AnswerPull, ApplyDesired, PullFails
<1>2. UNCHANGED <<tokens, edits, enrolling, pushes, registry, tunnelUp, disturbed>>
  BY DEF StartRound, ReadForPull, AnswerPull, ApplyDesired, PullFails
<1>3. round'.phase \in {"asking", "read", "answered", "pulled"} => RoundFollows'
  BY DEF RoundFollows
<1> USE DEF BindingInv, BindingTypes
<1>4. CASE StartRound
  <2>1. round' \in Round /\ round'.phase = "asking" /\ UNCHANGED <<node, binding>>
    BY <1>1, <1>4 DEF StartRound, Round, AskingRound
  <2> QED BY <1>1, <1>2, <1>3, <2>1, LoopKeepsTypes
<1>5. CASE ReadForPull
  <2>1. round.base \in Binding
    BY <1>5, RoundFields DEF ReadForPull, AskingRound
  <2>2. round' \in Round /\ round'.phase = "read" /\ UNCHANGED <<node, binding>>
    BY <1>5, <2>1, Conversions DEF ReadForPull, Round, ReadRound
  <2> QED BY <1>1, <1>2, <1>3, <2>2, LoopKeepsTypes
<1>6. CASE AnswerPull
  <2>1. round.base \in Binding /\ round.seen \in Desired
    BY <1>6, RoundFields DEF AnswerPull, ReadRound
  <2>2. round' \in Round /\ round'.phase = "answered" /\ binding' = binding
    BY <1>6, <2>1, Conversions DEF AnswerPull, Round, AnsweredRound, FreshRow
  <2>3. round.base.applied \in 0..MaxRevision
    BY <2>1 DEF Binding
  <2>4. node' \in NodeType
    BY <1>6, <2>3 DEF AnswerPull, NodeType
  <2> QED BY <1>1, <1>2, <1>3, <2>2, <2>4, LoopKeepsTypes
<1>7. CASE ApplyDesired
  <2>1. round.write \in Binding \cup {Unset}
    BY <1>7, RoundFields DEF ApplyDesired, AnsweredRound, FreshRow
  <2>2. round' \in Round /\ round'.phase = "pulled" /\ node' = node /\ binding' \in Binding
    BY <1>1, <1>7, <2>1 DEF ApplyDesired, Round, RunningRound
  <2> QED BY <1>1, <1>2, <1>3, <2>2, LoopKeepsTypes
<1>8. CASE PullFails
  <2>1. round' \in Round /\ round'.phase = "pulled" /\ UNCHANGED <<node, binding>>
    BY <1>8 DEF PullFails, Round, RunningRound
  <2> QED BY <1>1, <1>2, <1>3, <2>1, LoopKeepsTypes
<1> QED BY <1>4, <1>5, <1>6, <1>7, <1>8

\* The rest of the round: registry, workers, mark.
LEMMA RunKeeps ==
  ASSUME BindingInv,
         ReloadRegistry \/ ReloadFails \/ ReconcileWorkers \/ WorkersFail \/ ReadForMark \/ MarkApplied
  PROVE  BindingInv'
<1>1. binding \in Binding
  BY DEF BindingInv, BindingTypes, RowExists, ReloadRegistry, ReloadFails, ReconcileWorkers, WorkersFail,
     ReadForMark, MarkApplied
<1>2. UNCHANGED <<node, tokens, edits, enrolling, pushes>>
  BY DEF ReloadRegistry, ReloadFails, ReconcileWorkers, WorkersFail, ReadForMark, MarkApplied
<1>3. ASSUME EndRound PROVE round' \in Round /\ RoundFollows' /\ disturbed' \in BOOLEAN
  BY <1>3, Asleeps DEF EndRound, RoundFollows
<1> USE DEF BindingInv, BindingTypes
<1>4. CASE ReloadRegistry
  <2>1. round \in RunningRound
    BY <1>4, RoundFields DEF ReloadRegistry
  <2>2. round' \in Round /\ round'.phase = "reloaded"
    BY <1>4, <2>1 DEF ReloadRegistry, Round, RunningRound, Step
  <2>3. registry' = SettingOf(binding) /\ UNCHANGED <<binding, tunnelUp, disturbed>>
    BY <1>4 DEF ReloadRegistry
  <2>4. RoundFollows'
    BY <2>2, <2>3 DEF RoundFollows, RegistryFollows
  <2> QED BY <1>1, <1>2, <2>2, <2>3, <2>4, Conversions, LoopKeepsTypes
<1>5. CASE ReloadFails
  <2>1. round' \in Round /\ round'.phase = "reloaded" /\ ~round'.ok
    BY <1>5 DEF ReloadFails, Round, RunningRound
  <2>2. UNCHANGED <<binding, registry, tunnelUp, disturbed>>
    BY <1>5 DEF ReloadFails
  <2>3. RoundFollows'
    BY <2>1 DEF RoundFollows
  <2> QED BY <1>1, <1>2, <2>1, <2>2, <2>3, LoopKeepsTypes
<1>6. CASE ReconcileWorkers
  <2>1. round \in RunningRound
    BY <1>6, RoundFields DEF ReconcileWorkers
  <2>2. UNCHANGED <<binding, registry>> /\ tunnelUp' = NeedsReverseTunnel(binding)
    BY <1>6 DEF ReconcileWorkers
  <2>3. tunnelUp' \in BOOLEAN
    BY <1>1, <2>2, Conversions
  <2>4. CASE round.ok
    <3>1. round' \in Round /\ round'.phase = "ran" /\ disturbed' = disturbed
      BY <1>6, <2>1, <2>4 DEF ReconcileWorkers, Round, RunningRound, Step
    <3>2. disturbed \/ RegistryFollows
      BY <1>6, <2>4 DEF ReconcileWorkers, RoundFollows
    <3>3. RoundFollows'
      BY <2>2, <3>1, <3>2 DEF RoundFollows, RegistryFollows, WorkersFollow
    <3> QED BY <1>1, <1>2, <2>2, <2>3, <3>1, <3>3, LoopKeepsTypes
  <2>5. CASE ~round.ok
    <3>1. EndRound
      BY <1>6, <2>5 DEF ReconcileWorkers
    <3> QED BY <1>1, <1>2, <1>3, <2>2, <2>3, <3>1, LoopKeepsTypes
  <2> QED BY <2>4, <2>5
<1>7. CASE WorkersFail
  <2>1. EndRound /\ UNCHANGED <<binding, registry, tunnelUp>>
    BY <1>7 DEF WorkersFail
  <2> QED BY <1>1, <1>2, <1>3, <2>1, LoopKeepsTypes
<1>8. CASE ReadForMark
  <2>1. UNCHANGED <<binding, registry, tunnelUp>>
    BY <1>8 DEF ReadForMark
  <2>2. CASE EndRound
    BY <1>1, <1>2, <1>3, <2>1, <2>2, LoopKeepsTypes
  <2>3. CASE round' = [phase |-> "marking", ok |-> TRUE, revision |-> binding.revision]
             /\ disturbed' = disturbed
    <3>1. round' \in Round /\ round'.phase = "marking"
      BY <1>1, <2>3 DEF Round, Binding, MarkingRound
    <3>2. disturbed \/ (RegistryFollows /\ WorkersFollow)
      BY <1>8 DEF ReadForMark, RoundFollows
    <3>3. RoundFollows'
      BY <2>1, <2>3, <3>1, <3>2 DEF RoundFollows, RegistryFollows, WorkersFollow
    <3> QED BY <1>1, <1>2, <2>1, <2>3, <3>1, <3>3, LoopKeepsTypes
  <2> QED BY <1>8, <2>2, <2>3 DEF ReadForMark
<1>9. CASE MarkApplied
  <2>1. EndRound /\ UNCHANGED <<registry, tunnelUp>>
    BY <1>9 DEF MarkApplied
  <2>2. round.revision \in 1..MaxRevision
    BY <1>9, RoundFields DEF MarkApplied, MarkingRound
  <2>3. binding' \in Binding
    BY SMTT(60), Z3T(60), <1>1, <1>9, <2>2 DEF MarkApplied, Binding
  <2> QED BY <1>1, <1>2, <1>3, <2>1, <2>3, LoopKeepsTypes
<1> QED BY <1>4, <1>5, <1>6, <1>7, <1>8, <1>9


-----------------------------------------------------------------------------
\* The invariant holds in every reachable state.
THEOREM BindingInvHolds == BindingSpec => []BindingInv
<1>1. ASSUME BindingInv, [BindingNext]_bsVars PROVE BindingInv'
  <2>1. CASE UNCHANGED bsVars
    BY <1>1, <2>1 DEF bsVars, BindingInv, BindingTypes, RowExists, RoundFollows, RegistryFollows, WorkersFollow
  <2>2. CASE BindingNext
    BY <1>1, <2>2, CommandKeeps, RedeemKeeps, WriteKeeps, EditKeeps, SaveKeeps, PushKeeps,
       ReloadKeeps, RestartKeeps, PullKeeps, RunKeeps DEF BindingNext, LoopStep
  <2> QED BY <1>1, <2>1, <2>2
<1> QED BY <1>1, BindingInitInv, PTL DEF BindingSpec

\* A node whose enrollment is completed has its row on the follower: enroll acknowledges
\* only after its transaction, and no step removes the row.
THEOREM EnrollmentLeavesRow == BindingSpec => []CompletedIsBound
<1>1. BindingInv => CompletedIsBound
  BY DEF BindingInv, RowExists, CompletedIsBound, Completed
<1> QED BY <1>1, BindingInvHolds, PTL

\* A row that is written beside the loop or by the pull is no mark.
LEMMA NoMark ==
  ASSUME BindingInv, binding # Unset, binding' \in Binding, binding' # binding,
         binding'.applied = 0 \/ binding'.applied = binding.applied
  PROVE  binding' # [binding EXCEPT !.applied = binding.revision]
<1>1. binding \in Binding
  BY DEF BindingInv, BindingTypes
<1>2. binding.revision # 0
  BY SMTT(60), Z3T(60), <1>1, BindingAssumption DEF Binding
<1>3. [binding EXCEPT !.applied = binding.revision].applied = binding.revision
  BY <1>1 DEF Binding
<1>4. binding.applied = binding.revision => [binding EXCEPT !.applied = binding.revision] = binding
  BY <1>1 DEF Binding
<1> QED BY <1>2, <1>3, <1>4

\* A revision is marked as applied only when the registry and the worker follow the row:
\* mark_all_applied comes after both, and only another writer can come in between.
THEOREM MarksWhatRuns == BindingSpec => MarkedIsRunning
<1>1. ASSUME BindingInv, [BindingNext]_bsVars, binding # Unset, binding' # binding,
             binding' = [binding EXCEPT !.applied = binding.revision]
      PROVE  disturbed \/ (registry = SettingOf(binding) /\ tunnelUp = NeedsReverseTunnel(binding))
  <2>1. \/ \E t \in Tokens : StoreBinding(t)
        \/ \E p \in Pushers : WritePush(p)
        \/ ApplyDesired
        \/ MarkApplied
    BY <1>1 DEF BindingNext, LoopStep, bsVars, CheckCommand, CreateCommand, RedeemToken, AckToken,
       AbandonEnrollment, OpenEdit, SaveEdit, HealthPush, CheckPush, ReloadAfterPush, LosePush, Probe,
       StaleProbe, StartRound, ReadForPull, AnswerPull, ReloadRegistry, ReconcileWorkers, ReadForMark,
       PullFails, ReloadFails, WorkersFail, FollowerRestart
  <2>2. ASSUME NEW t \in Tokens, StoreBinding(t) PROVE FALSE
    <3>1. enrolling[t].given \in Desired
      BY SMTT(60), Z3T(60), <1>1, <2>2 DEF StoreBinding, BindingInv, BindingTypes, Enrolling, Quiet
    <3>2. binding' \in Binding /\ (binding'.applied = 0 \/ binding'.applied = binding.applied)
      BY <1>1, <2>2, <3>1, EnrolledRow DEF StoreBinding
    <3> QED BY <1>1, <3>2, NoMark
  <2>3. ASSUME NEW p \in Pushers, WritePush(p) PROVE FALSE
    <3>1. binding' \in Binding /\ binding'.applied = binding.applied
      BY <1>1, <2>3, PushedRow DEF WritePush
    <3> QED BY <1>1, <3>1, NoMark
  <2>4. ASSUME ApplyDesired PROVE FALSE
    <3>1. round.phase = "answered" /\ round \in Round /\ binding' = round.write
      BY <1>1, <2>4 DEF ApplyDesired, BindingInv, BindingTypes
    <3>2. round.write \in Binding /\ round.write.applied = 0
      BY <1>1, <2>4, <3>1, RoundFields DEF ApplyDesired, AnsweredRound, FreshRow
    <3> QED BY <1>1, <3>1, <3>2, NoMark
  <2>5. CASE MarkApplied
    BY <1>1, <2>5 DEF MarkApplied, BindingInv, RoundFollows, RegistryFollows, WorkersFollow
  <2> QED BY <2>1, <2>2, <2>3, <2>4, <2>5
<1>2. BindingInv /\ [BindingNext]_bsVars =>
        [binding # Unset /\ binding' # binding
            /\ binding' = [binding EXCEPT !.applied = binding.revision]
          => disturbed \/ (registry = SettingOf(binding)
                           /\ tunnelUp = NeedsReverseTunnel(binding))]_bsVars
  BY <1>1
<1> QED BY <1>2, BindingInvHolds, PTL DEF BindingSpec, MarkedIsRunning

=============================================================================
