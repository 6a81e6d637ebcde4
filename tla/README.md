# AsterDrive in TLA+

Models of AsterDrive, a self-hosted file service in Rust, with the properties
that make it correct, checked by TLC on small instances and, for the safety
properties, proved by TLAPS for every value of the constants. Paths of the form
`services/...`, `db/...`, `storage/...` are below `src/src/`.

## The system

One or more primary processes serve REST, WebDAV and WOPI requests over one
relational database (SQLite, PostgreSQL or MySQL) and a set of object stores
(local directories, S3, OneDrive, SFTP, remote nodes). The processes share no
memory: everything they agree on is a row of the database, changed by
conditional updates or under a row lock. The object stores take part in no
transaction. What is hard to get right, and hard to test, is what happens
between two transactions of one request.

| Part | Module | State | What makes it hard |
|---|---|---|---|
| Background tasks | `BackgroundTask` | task rows, lease guards, scratch directories | crashes, leases that run out, late writes, manual retries |
| Blobs | `BlobLifecycle` | rows with `ref_count`, objects | database and store change apart, content is shared, claims go stale |
| Upload sessions | `UploadSession` | session and part rows, staging directory, provider objects, files | repeated and parallel parts, a completion that outlives its lease, lost commit answers |
| Storage-policy migration | `StorageMigration` | blob rows, objects at two policies, checkpoint, attempts | old attempts still at work, references, cleaners and uploads meanwhile |
| Folder tree, trash, resource locks | `FolderTree`, `AtomicTree` | folders and files, locks, two background tasks | moves planned from old reads, trees staged row by row, workers replaced |
| Revisions and quota | `FileRevisions` | file rows, ledger, heads, `storage_used`, `ref_count` | concurrent overwrites, pruning outside the transaction |
| Share links | `ShareDownloads` | `download_count`, rollback queue and its worker, stream marker | counts given back later through a bounded queue |
| Refresh sessions | `RefreshSessions` | session rows, user row, tokens | two refreshes at once, revocation between reads |
| Login flow and MFA | `MfaLogin` | flows, mailed and recovery codes, used steps | one-time codes raced, attempts decided on old reads |
| Remote nodes | `BindingSync` | the node on the primary, the binding, registry and tunnel worker on the follower | overlapping edits, stale pushes, lost answers |

The parts meet as follows. Upload completion, WebDAV and WOPI writes, copies and
archive tasks publish blobs; trash, purge tasks and version pruning release
them; maintenance and cleaners remove them; migrations move them. Migrations,
folder trees, purges, archives and thumbnails run as background tasks and rely
on their fencing. Where a module needs another part it has that part's effect as
an action of its own (a cleaner in `StorageMigration`, the lease and the token
of a task in `FolderTree` and `StorageMigration`).

## Modules

`X` is the component, `MCX` its instances for TLC. Five
more MC modules join components without common state in one run, as a sum: a
behaviour is one component's and the others stay as they begin (`MCFencing`:
tasks and login flows, `MCRenewal`: tasks and refresh sessions, `MCStorage`:
blobs, migration and bindings, `MCReclaim`: blobs and shares, `MCWorkspace`:
folder tree and revisions). The theorems are in

| Module | Theorems about |
|---|---|
| `FolderTreeProofs` | `FolderTree`, and that it implements `AtomicTree` |
| `SignInProofs` | `RefreshSessions`, `MfaLogin` |
| `FilesProofs` | `FileRevisions`, `BlobLifecycle` |
| `ServiceProofs` | `BackgroundTask`, `BindingSync` |
| `TransferProofs` | `ShareDownloads`, `UploadSession` |
| `StorageMigrationProofs` | `StorageMigration`: merges, and the steps' effects on counts and places |
| `MigrationObjectsProofs` | its objects and its checkpoint |
| `MigrationCountsProofs` | what the former two use of cardinalities, and the theorems |

A module with two components first has all lemmas of the one, then those of the
other. The prover's work grows with what a module extends, so
`StorageMigrationProofs` and `MigrationObjectsProofs` do without the library's
theorems on finite sets: `Counting` and `BatchesAreFirst` name the facts they
rest on, and `MigrationCountsProofs` proves them.

Definitions named `X_Something` directly before a definition `X` are variants of
it with a plausible bug. No specification uses them: they document which mistake
each property would catch. `PROJECT.json` pairs them with the properties and
gives for every other definition the source lines it models.

Each database statement or transaction is one step, so what the code reads
before a transaction and uses in it can be stale. Reads see the last commit:
replication lag of reader connections is not modelled. Times are kept as what is
left of them, so that time has no upper bound in the model. A step that the
database or the store may refuse has a failing alternative; a process may die
between any two of its steps.

**BackgroundTask.** `task[t]` is the row: status, `processing_token`, lease,
delay, attempts, `failure_can_retry`. `worker[w]` is an execution slot with the
lease it was given and the age of its `TaskLeaseGuard`. Actions: insertion,
`TryClaim` under the lane's quota row, heartbeat, metadata writes, success,
failure with or without retry, release, cancellation and its acknowledgement,
the three steps of a manual retry, admin cleanup, the scratch directory and the
two steps of its sweep, the guard's timeout, crashes, time. `StalledWrites` says
whether a worker may write after its guard has timed out (a thread that stalls
between check and write); what rests on the token alone is checked and proved
with it.

**BlobLifecycle.** A blob is named by the upload that inserts its row. `KeyOf`
is the path of an upload's object; uploads of the same content on a
content-addressed policy (`DedupKeys`) share one. Actions: staging, the
publishing transaction and its failure with known and unknown outcome, rollback,
copies, restored versions, purges, `cleanup_unreferenced_blob` step by step,
reconciliation. `TimelyCleanup` says whether a live cleaner finishes before its
claim counts as stale; the code does not enforce it, and only exclusive claims
and the garbage run assume it.

**UploadSession.** One session of each kind (staged chunks, relayed parts,
presigned parts, presigned single, direct): parts with claims and receipts,
completions with their lease, the publishing transaction with lost answers,
cancellation, the expiry sweep, dropped requests.

**StorageMigration.** Attempts that start from the checkpoint, scan in batches,
copy, verify, move the row or merge it into a row of the same content, delete
what they copied in vain, in both modes; with references that come and go, a
cleaner, uploads into the target, failing copies and attempts without the lease
whose last commit is still to come. A *scene* is the starting state together
with the disturbances that take part in it.

**FolderTree.** Nearly every transaction takes the workspace's namespace row and
is one step. Split are the reads that moves, batch moves and uploads make before
their transaction, and the two background tasks (empty the trash; trash or
restore a large tree under an operation lock). A *cast* is the set of actors of
a behaviour. What is above a row (`Chain`) and below it (`Subtree`) are least
closed sets, not recursive functions. `AtomicTree` is the promise: each
operation happens to a whole subtree at once.

**FileRevisions.** Creation, overwrite from a temp file and from a stored blob,
restore and deletion of a version, pruning after a write, trash and purge, each
with its changes to ledger, head, use and counts.

**ShareDownloads.** Reservation, response, abort hook, the bounded channel, the
overflow map, the worker's loop, shutdown, and the count marker of a streaming
session with several range requests.

**RefreshSessions, MfaLogin.** The requests with each read and each conditional
update as a step of its own, with and without row locks; administrators, status
changes, expiry and cleanup beside them.

**BindingSync.** Enrollment commands, edits of a node between read and write,
health pushes, probes, the follower's reconcile loop, failures and restarts.

## Runs

| Run | Instance | Shows |
|---|---|---|
| `Fencing` | 1 task, 2 workers, 1 manual retry, 3 attempts, 5 tokens, stalled writes; login flows with 2 requests and a budget of 2, in three scenes (authenticator, recovery and malformed codes, mailed codes) | what a conditional update fences: only the holder ends an attempt, budgets, cancellations that stick; a code pays once, a flow issues one session, failures are counted |
| `Renewal` | 2 tasks in a lane of limit 1, 2 workers, 1 sweep, 3 tokens, no metadata writes; 2 sessions, 2 refreshes, 1 sign-in | no duplicate execution, the quota, no running attempt without its directory; a token is exchanged once and only for a session that stands |
| `TaskLiveness` | 2 tasks in a lane of limit 1, 2 workers, 3 tokens, fairness | queued tasks finish and cancellations settle, through crashes |
| `Storage` | 3 uploads (one with a path of its own, two that share one, one of them chunked), a version, 2 cleaners, stale claims; 8 migration scenes of 4 blobs, 3 revisions and 2 attempts; a node with 2 edits, a push and a failure, fairness of its loop | exact counts, content kept, migrations sound and complete; a follower that is bound, marks what it runs, and converges |
| `Reclaim` | 2 chunked uploads of one content, a copy, 2 cleaners; 2 downloads and 2 ranges, limit 2, channel of 1; fairness | unreferenced rows are removed in the end; the download count balances, the limit holds, the queue is served |
| `Uploads` | every kind of session, 2 parts, 2 completions, a cancellation, the sweep, lost commit answers; fairness | one whole file per session, undisturbed assembly, the row goes last, every session settles |
| `Workspace` | 2 folders, 1 file, 6 casts; 2 files, 2 contents, 3 revisions, quota 5 | the tree stays a tree, locks are kept, emptying takes what was asked, the tree implements `AtomicTree`; ledger, use and counts agree, no lost update |
| `TaskDuplicateWorkers`, `BlobCleanupRace`, `UploadUncertainCommit`, `LateUpload`, `LateMove` | small instances | violated: see findings |

**Bounds.** Two of each kind of process are enough for every pairwise race.
`MaxToken` bounds the claims of a task row: 3 allow a first worker, a takeover
and a takeover of that one; 5 add a whole attempt after a manual retry. A lease
is 1 to 3 ticks, so that a heartbeat can come early, late or never. Two attempts
of a migration are the one that lost its lease and the one that took over; four
blobs make two batches and room for a twin and an upload. Three revisions of two
files allow a prune, a restore and a write. Two folders and a file are the
smallest tree in which two moves can close a loop. A channel of capacity 1
overflows with two downloads. The liveness properties of tasks end at
`token = MaxToken`: a row that has used up its tokens cannot be claimed in the
model. Symmetry is used for interchangeable slots, requests, cleaners and
folders, and not in runs with liveness.

Beyond the runs, TLC passed: `BindingSync` with three revisions (1.2 million
states) and with two enrollment tokens (6.4 million), `RefreshSessions` with
three generations (1.8 million), `MfaLogin` with five authenticator steps (0.56
million), `TaskLiveness` with metadata writers and scratch directories (0.88
million), and the inductive invariants of the migration on all states of its
scenes and of 96 further tame ones (1.2 million). The inductive invariant of the
folder tree was checked on several small instances before it was proved.

**Fairness.** Tasks: weak for time, heartbeat, acknowledgement and the guard's
timeout, which are loops of a live process; strong for the end of an attempt (a
handler ends, though crashes and lost leases interrupt it) and for the claim of
each row (dispatchers poll with the oldest row first). Blobs: maintenance is
periodic and visits every row, hence weak for `Reconcile` and strong for `Load`,
claim and deletion, since an outage of the store ends; weak for giving a claim
back. Uploads: time and the periodic sweep weakly, its deletions strongly, and a
completion that was started is worked on. Shares: the worker's loop, and an
abort hook that has begun to push. Bindings: the reconcile loop and a push that
arrived. No fairness anywhere for crashes, failures, requests or clients.

## What is proved

Every theorem is for all values of the constants under the named assumptions,
which TLC evaluates in the runs. They say no more than what the code relies on:
positive timeouts, finite sets, paths that contain a fresh UUID
(`KeyAssumption`, `FreshKeyAssumption`), starting rows that are consistent
(`SceneAssumption`), a request that records its authenticator step within two
steps of reading its clock (`MfaAssumption`).

*Task queue.* The inductive invariant `IInv` joins the types, `LeaseIffOwned`,
`TokenUnique`, `HolderOwns`, `AttemptsFresh`, `AttemptBudget` and the fact that
busy slots and requests name a task. None of the parts is inductive alone: that
a failure stores the right attempt count needs `AttemptsFresh`, which needs
`HolderOwns` (a manual retry, which keeps the token, never meets a busy holder),
which needs unique tokens. Hence `HoldersOwn`, `BudgetIsKept` and the action
properties `HolderEndsAttempt`, `CancellationIsKept`, `OutcomeIsFinal`; nothing
is assumed about time, guards or stalls. If no handler writes metadata,
`lease + age >= Lease` holds while the guard lets a worker run
(`GuardIsCovered`), so a row that is taken over has no running worker
(`NoDuplicateWorkers`); if in addition workers do not write past their guard, no
renewal revives an expired lease and the quota follows (`QuotaIsKept`).
`ScratchIsKept` assumes that manual retries do not overlap with each other or
with a sweep (`LoneRequest`).

*Blobs.* `IInv` joins types and exact counts with what unfinished uploads,
copies and cleaners have not done yet. The core is that a claimed row has no
references: increments refuse it, so the unconditional decrement never meets it.
On top of it `RowIsDeletedLast`, `ClaimsAreExclusive` (assumes `TimelyCleanup`)
and `OwnedContentStays` (assumes that there are no copies, and not that cleanup
is timely).

*Upload sessions.* `UploadInv` says who may still write the row: one completion
at a time is past its claim, the row agrees with the files made so far, and
whoever is about to delete the row holds one that no completion can claim. Hence
`SessionMakesOneFile` and `AnsweredStaysCompleted`. `ContentInv` adds what the
chunks, parts and objects hold meanwhile: `ChunksAreKept`, `RemoteGoesFirst`,
`AssemblyIsUndisturbed`.

*Storage migration.* Five layers. `MergeInv`: rows are merged only when their
keys say that their content is equal, and what an attempt read of a row stays
true while the row is in the source; hence `MigrationKeepsRevisions`.
`CountInv`: references and merges keep `ref_count` exact (`MigrationCounts`).
`PlaceInv`: the target has a key once, and an attempt writes under a key that no
other blob's row names. `ObjectInv`: the object is where the row says, also the
copy that the next commit will make the row name; hence `MigrationIsSound` and
`FailedCopies`. `CursorInv`: the checkpoint has passed only what has left the
source, in the memory of every attempt too; hence `MigrationIsComplete`. The
last three layers assume `TameScenes`: a failing copy does not meet a commit
without the lease or an upload, and an upload does not meet the cleaner. Those
pairs are the places where the code looks at the rows and then deletes an
object (`cleanup_failed_target_object`, `cleanup_unmoved_target_object`,
`cleanup_unreferenced_blob`); the run `LateMove` shows what happens in one of
them. `MCStorage` assumes `TameScenes` of the scenes it checks.

*Folder tree.* `TreeInv`: the tables are a forest in which a live row is under
a live folder, plans and locks name rows of it, an operation lock belongs to the
task that runs, and what is in the trash while it is being emptied was there
when that was asked for. The heart is `Staging`: while the operation lock is
held, the rows staged so far, the folders still to enter and those still to list
account for the whole subtree, so the task's last step acts on all of it. `Kinds`
first reduces every action to one of a few effects on the tables; each conjunct
is then kept by each effect. As `Chain` and `Subtree` are least closed sets, what
they contain is shown by giving a closed set, and no induction is needed. Hence
`TreeStaysSound`, `PurgeTakesWhatWasAsked`, `PurgeSparesTheLiving`, and
`TreeActsAtomically`: every step is a step of `AtomicTree` or changes no row.
They assume `TameCasts`: uploads do not meet the trash or the tree task, whose
last step does not look whether the folder is live (the run `LateUpload`); the
task does not meet a restore, which does not look at locks; and not both a crash
and an owner who drops the operation lock, after which the next attempt trusts
rows staged before. `LocksHold` also assumes `SteadyCasts`: client locks meet
neither batch moves, which enforce locks on the folders they planned from
(`files/batch/movement.rs`), nor the task, which relies on recorded paths.
`MCWorkspace` assumes both of the casts it checks.

*Revisions and quota.* `RevisionInv` ties each file row to its head;
`LedgerInv` numbers the revisions and links each to its predecessor, so the
history is one chain (`LedgerStaysSound`; the chain is shown by the least
counterexample, since induction principles are out of reach). `Accounts` says
that `storage_used` counts the bytes of live revisions and `ref_count` the
revisions that hold a blob (`UsageStaysExact`, `RefsAreCounted`).
`WritesSeeTheHead` is the action property that an overwrite from a temp file
replaces the version its request saw.

*Share links.* `ShareInv`: one range request pays at a time, the count is what
was delivered, is in flight or is still in the queue, and the limit bounds it
(`CounterBalances`, `LimitHolds`, `SessionPaysOnce`).

*Refresh sessions.* `SessionInv`: tokens are made in increasing order and a
current token has not been exchanged, so none is exchanged twice
(`TokensRotateOnce`); a decision to rotate outlives the end of a generation only
together with a row that is gone (`RefreshesStand`); a lost race can be resolved
(`ConflictsResolve`).

*Login flow.* `MfaInv` joins each code's uses to the row that remembers them and
each flow's attempts to the requests that read them: `CodesPayOnce`,
`FlowsIssueOnce`, `AttemptsAreCounted`.

*Remote nodes.* `BindingInv`: the binding row exists once anything about it is
known to the primary, and between its reload and its mark the loop's registry
and tunnel worker follow the row unless another writer touched it. Hence
`EnrollmentLeavesRow` and the action property `MarksWhatRuns`.

**Only model-checked.** Liveness, which is out of the prover's reach:
`EveryTaskFinishes`, `CancellationSettles`, `GarbageCollected`, `QueueServed`,
`SessionSettles`, `BindingConverges`. All other properties of the passing runs
are also theorems, under the hypotheses above; the ones of the other runs are
refuted.

## Findings

Each is a run that TLC refutes; `PROJECT.json` quotes the text it contradicts.

1. `TaskDuplicateWorkers`: writing `runtime_json` or the display name refreshes
   the guard and not the lease. If heartbeats fail meanwhile, the row is taken
   over while the first worker runs. Its writes are still fenced.
2. `BlobCleanupRace`: an upload finds the shared object of a row that is being
   cleaned up, and publishes after object and row are gone.
3. `UploadUncertainCommit`: the publishing transaction commits, its answer is
   lost, and the error path turns the completed session into a failed one.
4. `LateUpload`: an upload publishes into a folder trashed meanwhile; purging
   the folder erases a file that never was in the trash.
5. `LateMove`: a migration attempt without its lease moves the row between the
   check and the deletion of the attempt that took over.

Limits met on the way, without a run of their own:

- Tasks: a manual retry tests `can_retry` on a row read earlier, so of two
  retries the second may reset a failure recorded as not retryable; it deletes
  the task's directory before it looks at the row again.
- Blobs: a failed upload looks for a row and then deletes the shared object, as
  in 2. A copy reads its source before its transaction; if the source is purged
  and a cleanup deletes the object, fails on the row and gives its claim back,
  the copy refers to a row without object.
- Migration: a row that a cleaner had claimed and an attempt moved leaves its
  target object without a row; a resumed task does not look for conflicts again.
- Uploads: a relayed part's claim left by a crash is never released; a relayed
  part whose commit answer is lost may be counted twice; a copied final object
  is left over if the process dies before its commit.
- Tree: restoring does not look at resource locks; a task's staged rows outlive
  an unlock by the owner; a lock's recorded path goes stale when an ancestor is
  moved; locks are taken in different orders, which the database resolves by a
  deadlock error; `cleanup_expired` does not test the cutoff again.
- Shares: if the paying range request fails later, ranges served meanwhile were
  free; a dropped request leaves the marker pending; a rollback that fails in
  the database is not tried again; a job pushed between the worker's last drain
  and the end of the channel is lost; a push to the overflow after the worker's
  drain waits for the next job.
- Login: concurrent wrong attempts may exceed the budget by the number of
  requests in flight.
- Remote nodes: overlapping edits may leave `binding_revision` where it was or
  lower it; a revision may be marked as applied although a push wrote the row
  after the reload (the loop's next round repairs it).

## What is not modelled

Parts of the modelled components: dedupe keys and recurring system tasks;
virtual-empty blobs outside the migration; provider ranges and the replay of a
completed upload's answer; shared locks and their expiry, names and renames,
copies of trees; changes of a quota; editing of shares and their tickets; access
tokens; setting up an authenticator and the login policy's switches; dry runs of
a migration; deletion of a node, the tunnel's data path and its owner among
several primaries. SQL isolation is taken as given: a transaction with its row
locks is one step. Clocks of the processes run at the same speed.

Other components are in `components` with the reason each is left out: mostly
protocol adapters, drivers, parsing and single-row changes. WOPI locks are
resource locks with a string that clients compare; the mail outbox has its
protocol in a library outside the repository.

The definitions stand for about 4% of the lines of `src/src`, which has some
313,000 lines of Rust including tests inside modules, API adapters and drivers.
The parts were chosen by how much concurrency they have, not by their size.
