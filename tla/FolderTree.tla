----------------------------- MODULE FolderTree -----------------------------
(***************************************************************************)
(* One workspace's folder tree: creating, moving, trashing, restoring and  *)
(* purging folders and files, the resource locks that guard them, the      *)
(* background task that trashes or restores a large tree in many short     *)
(* transactions, and the background task that empties the trash            *)
(* (services/files/{folder,batch,trash,lock}, services/task/folder_tree.rs *)
(* and services/task/trash.rs).                                            *)
(*                                                                         *)
(* Nearly every transaction takes the workspace's lock-namespace row FOR   *)
(* UPDATE before it reads the tree, so it is one step here.  The steps     *)
(* that are split are the ones the code splits: a move reads the target's  *)
(* chain before it waits for the namespace row, a batch move plans from    *)
(* reads made before its transaction, an upload checks its folder when it  *)
(* starts and inserts the file much later without taking the namespace     *)
(* row, and the two background tasks commit again and again.               *)
(*                                                                         *)
(* Plain reads see the last commit (PostgreSQL READ COMMITTED, and SQLite  *)
(* with its single writer connection).  A name is the identity of its      *)
(* item, so name conflicts do not arise.                                   *)
(***************************************************************************)
EXTENDS Naturals, FiniteSets, Sequences

CONSTANTS
    Folders,        \* folder ids
    Files,          \* file ids
    Root,           \* the workspace root (parent_id NULL)
    Holders,        \* the lock tokens clients may hold
    OpToken,        \* the token of the folder-tree task's operation lock
    Movers,         \* requests that move things
    BatchSets,      \* the selections a batch move may be given
    PurgeWorkers,   \* workers that may run the empty-trash task
    MaxClaims,      \* bound: how often the empty-trash task is claimed
    Casts,          \* which kinds of actors take part together
    None

ASSUME TreeAssumption ==
    /\ IsFiniteSet(Folders) /\ IsFiniteSet(Files)
    /\ Folders \cap Files = {} /\ Root \notin Folders \cup Files
    /\ BatchSets \subseteq (SUBSET (Folders \cup Files)) \ {{}}
    /\ None \notin Folders \cup Files \cup {Root}
    /\ OpToken \notin Holders /\ MaxClaims \in Nat

VARIABLES
    cast,       \* the actors of this behaviour, chosen once
    item,       \* the folders and files tables: parent, and live/trash/gone/absent
    lock,       \* the resource_locks table, by token
    mover,      \* per move request: what it read and intends
    session,    \* per file: the folder an upload in flight is bound for
    task,       \* the folder-tree mutation task and its staged members
    purge,      \* the empty-trash task row
    purger      \* per worker: its processing token and the page it listed

treeVars == <<cast, item, lock, mover, session, task, purge, purger>>

Items == Folders \cup Files
Tokens == Holders \cup {OpToken}
Acting(kind) == kind \in cast

-----------------------------------------------------------------------------
(***************************************************************************)
(* Reading the tree.                                                       *)
(***************************************************************************)
\* The workspace root has no row and is always there.
Live(n) == IF n = Root THEN TRUE ELSE item[n].st = "live"
Exists(n) == IF n = Root THEN TRUE ELSE item[n].st \in {"live", "trash"}
ParentOf(n) == IF n = Root THEN Root ELSE item[n].parent

\* A set of folders that has every folder above its members.
UpClosed(S) == \A d \in S : item[d].parent \in S \cup {Root}

\* find_ancestor_models, load_folder_chain_in_scope: p and the folders above it,
\* the least such set with p in it.
Chain(p) ==
    {d \in Folders : \A S \in SUBSET Folders : UpClosed(S) /\ p \in S \cup {Root} => d \in S}

\* resolve_entity_path: the ids from the workspace root down to n.
PathOf(n) ==
    LET path[k \in Nat] ==
            IF k = 0 THEN IF n = Root THEN <<>> ELSE <<n>>
            ELSE IF path[k-1] = <<>> \/ item[Head(path[k-1])].parent = Root
                 THEN path[k-1]
                 ELSE <<item[Head(path[k-1])].parent>> \o path[k-1]
    IN  path[Cardinality(Folders)]

Children(d, states) == {n \in Items : item[n].parent = d /\ item[n].st \in states}

\* A set of rows that has every child, in the given states, of its members.
DownClosed(S, states) == \A d \in S : Children(d, states) \subseteq S

\* collect_folder_forest_in_resource_scope: n and everything below it that is
\* reached through rows in the given states (include_deleted or not).
Subtree(n, states) ==
    {m \in Items : \A S \in SUBSET Items : DownClosed(S, states) /\ n \in S => m \in S}

Active == {"live"}
Present == {"live", "trash"}

\* The rows of S get a new state.
Marked(S, st) == [n \in Items |-> IF n \in S THEN [item[n] EXCEPT !.st = st] ELSE item[n]]

-----------------------------------------------------------------------------
(***************************************************************************)
(* Resource locks.  Only exclusive locks are modelled.                     *)
(***************************************************************************)
NoLock == [root |-> None, deep |-> FALSE, path |-> <<>>]
Held == {l \in Tokens : lock[l].root # None}

\* lock_covers_target: directly, or from an ancestor with infinite depth.
Covers(l, n) ==
    \/ lock[l].root = n
    \/ lock[l].deep /\ lock[l].root \in Chain(ParentOf(n)) \cup {Root}

\* Mutant: locks inherited from above are overlooked.
Free_DirectOnly(n, tokens) == \A l \in Held \ tokens : lock[l].root # n

\* enforce_mutation_locks_in_namespace_on: every covering lock is presented.
Free(n, tokens) == \A l \in Held \ tokens : ~Covers(l, n)

\* enforce_collection_membership_mutation_on also locks the parent's row, so
\* the row must exist; whether it is in the trash is not looked at.
MemberFree(p, tokens) == Exists(p) /\ Free(p, tokens)

\* path_is_ancestor, on the ids of a path.
Leads(p, q) == Len(p) <= Len(q) /\ SubSeq(q, 1, Len(p)) = p

\* locks_overlap: by the root's identity, by a workspace-wide lock, and
\* otherwise by comparing the paths recorded at acquisition.
Overlap(l, root, deep, path) ==
    \/ lock[l].root = root
    \/ lock[l].root = Root /\ lock[l].deep
    \/ root = Root /\ deep
    \/ Leads(lock[l].path, path) /\ lock[l].deep
    \/ Leads(path, lock[l].path) /\ deep

\* acquire_after_namespace_lock_on
Acquirable(root, deep, path) ==
    /\ Exists(root)
    /\ \A l \in Held : ~Overlap(l, root, deep, path)

AcquireLock(h, root, deep) ==
    /\ Acting("lock")
    /\ h \notin Held
    /\ Acquirable(root, deep, PathOf(root))
    /\ lock' = [lock EXCEPT ![h] = [root |-> root, deep |-> deep, path |-> PathOf(root)]]
    /\ UNCHANGED <<cast, item, mover, session, task, purge, purger>>

\* unlock, unlock_by_token, force_unlock and expiry.  The owner of a folder may
\* drop every lock on it, the operation lock of a task included.
ReleaseLock(l) ==
    /\ IF l = OpToken THEN Acting("unlock") ELSE Acting("lock")
    /\ l \in Held
    /\ lock' = [lock EXCEPT ![l] = NoLock]
    /\ UNCHANGED <<cast, item, mover, session, task, purge, purger>>

\* Rows of resource_locks go with the folder or file they lock (ON DELETE CASCADE).
LocksWithout(S) == [l \in Tokens |-> IF lock[l].root \in S THEN NoLock ELSE lock[l]]

-----------------------------------------------------------------------------
(***************************************************************************)
(* Creating and moving.                                                    *)
(***************************************************************************)

\* folder::create_in_scope; the request may carry the token of a lock.
CreateFolder(d, p, tokens) ==
    /\ Acting("create")
    /\ item[d].st = "absent"
    /\ MemberFree(p, tokens)
    /\ Live(p)
    /\ item' = [item EXCEPT ![d] = [parent |-> p, st |-> "live"]]
    /\ UNCHANGED <<cast, lock, mover, session, task, purge, purger>>

\* folder::update_in_scope up to the row locks: the folder is live, and so is
\* the whole chain of the target.
MoveRead(m, d, p) ==
    /\ Acting("move") /\ Acting(m)
    /\ mover[m] = None
    /\ d # p /\ Live(d)
    /\ \A q \in Chain(p) : Live(q)
    /\ mover' = [mover EXCEPT ![m] = [set |-> {d}, to |-> p, rows |-> {d} \cup Chain(p),
                                      from |-> {}, batch |-> FALSE]]
    /\ UNCHANGED <<cast, item, lock, session, task, purge, purger>>

\* The rest of it: the rows read before must still be there to be locked, and
\* then everything is checked again under the namespace row.
MoveCommit(m) ==
    /\ mover[m] # None /\ ~mover[m].batch
    /\ \E d \in mover[m].set :
          LET p == mover[m].to IN
          /\ \A q \in mover[m].rows : Exists(q)
          /\ Free(d, {}) /\ Live(d)
          /\ \A q \in Chain(p) : Live(q)
          /\ p # item[d].parent => MemberFree(item[d].parent, {}) /\ MemberFree(p, {})
          /\ d \notin Chain(p)
          /\ item' = [item EXCEPT ![d].parent = p]
    /\ mover' = [mover EXCEPT ![m] = None]
    /\ UNCHANGED <<cast, lock, session, task, purge, purger>>

\* batch_move_in_scope before its transaction.  S is what remains of the
\* selection: not below another selected folder, not refused, not there already.
BatchRead(m, S, p) ==
    /\ Acting("batch") /\ Acting(m)
    /\ mover[m] = None
    /\ \A q \in Chain(p) : Live(q)
    /\ \A n \in S : /\ Live(n) /\ Free(n, {})
                    /\ item[n].parent # p /\ n \notin Chain(p)
                    /\ Chain(item[n].parent) \cap S = {}
    /\ mover' = [mover EXCEPT ![m] = [set |-> S, to |-> p, rows |-> {},
                                      from |-> {item[n].parent : n \in S}, batch |-> TRUE]]
    /\ UNCHANGED <<cast, item, lock, session, task, purge, purger>>

\* Mutant: the folders are not looked for in the target's chain again.
BatchCommit_PlannedChain(m) ==
    /\ mover[m] # None /\ mover[m].batch
    /\ Live(mover[m].to)
    /\ \A n \in mover[m].set : Live(n)
    /\ item' = [n \in Items |-> IF n \in mover[m].set
                                THEN [item[n] EXCEPT !.parent = mover[m].to] ELSE item[n]]
    /\ mover' = [mover EXCEPT ![m] = None]
    /\ UNCHANGED <<cast, lock, session, task, purge, purger>>

\* The transaction of batch_move_in_scope with revalidate_batch_folder_move:
\* all of it or nothing.
BatchCommit(m) ==
    /\ mover[m] # None /\ mover[m].batch
    /\ LET S == mover[m].set
           p == mover[m].to
       IN  /\ Live(p)
           /\ \A q \in mover[m].from \cup {p} : MemberFree(q, {})
           /\ \A n \in S : Live(n) /\ Free(n, {})
           /\ S \cap Folders # {} => \A q \in Chain(p) : Live(q)
           /\ S \cap Chain(p) = {}
           /\ item' = [n \in Items |-> IF n \in S THEN [item[n] EXCEPT !.parent = p]
                                       ELSE item[n]]
    /\ mover' = [mover EXCEPT ![m] = None]
    /\ UNCHANGED <<cast, lock, session, task, purge, purger>>

\* A refused check, a database deadlock or a lost request rolls back.
MoveRollsBack(m) ==
    /\ mover[m] # None
    /\ mover' = [mover EXCEPT ![m] = None]
    /\ UNCHANGED <<cast, item, lock, session, task, purge, purger>>

\* An upload session, or a direct upload, checks that its folder is live ...
UploadOpen(f, d, direct) ==
    /\ Acting("upload")
    /\ item[f].st = "absent" /\ session[f] = None
    /\ Live(d)
    /\ session' = [session EXCEPT ![f] = [to |-> d, direct |-> direct]]
    /\ UNCHANGED <<cast, item, lock, mover, task, purge, purger>>

\* ... and when its bytes are stored inserts the file row.  The foreign key
\* needs the folder's row; a direct upload also enforces the locks.
UploadPublish(f) ==
    /\ session[f] # None
    /\ Exists(session[f].to)
    /\ session[f].direct => MemberFree(session[f].to, {})
    /\ item' = [item EXCEPT ![f] = [parent |-> session[f].to, st |-> "live"]]
    /\ session' = [session EXCEPT ![f] = None]
    /\ UNCHANGED <<cast, lock, mover, task, purge, purger>>

-----------------------------------------------------------------------------
(***************************************************************************)
(* Trash.                                                                  *)
(***************************************************************************)
\* The statuses find_active_by_kind_in_workspace looks for.
PurgeActive == purge.st \in {"pending", "processing", "canceling"}

\* Mutant: a task that waits for a worker does not count.
Admitted_WhileQueued == purge.st \notin {"processing", "canceling"}

\* coordination::admit_mutation_on
Admitted == ~PurgeActive

\* folder::delete_in_scope (lock_tree_for_deletion_on, then
\* apply_locked_tree_deletion_on) and the soft deletion of one file.
TrashItem(n) ==
    /\ Acting("trash")
    /\ Admitted
    /\ Live(n)
    /\ \A d \in Subtree(n, Active) : Free(d, {})
    /\ item' = Marked(Subtree(n, Active), "trash")
    /\ UNCHANGED <<cast, lock, mover, session, task, purge, purger>>

\* restore_file_in_scope and restore_folder_in_scope: back under its parent if
\* that is live, else to the workspace root, with everything below it.
TargetOf(n) == IF Live(item[n].parent) THEN item[n].parent ELSE Root

RestoreItem(n) ==
    /\ Acting("restore")
    /\ Admitted
    /\ item[n].st = "trash"
    /\ item' = [Marked(Subtree(n, Present), "live") EXCEPT ![n].parent = TargetOf(n)]
    /\ UNCHANGED <<cast, lock, mover, session, task, purge, purger>>

\* purge_folder_forest_in_resource_scope and purge_files_on: the roots still in
\* the trash go, with every row below them; the rows' locks go by cascade.
PurgeForest(roots) ==
    LET dead == UNION {Subtree(n, Present) : n \in {r \in roots : item[r].st = "trash"}}
    IN  /\ item' = [n \in Items |-> IF n \in dead THEN [parent |-> Root, st |-> "gone"]
                                    ELSE item[n]]
        /\ lock' = LocksWithout(dead)

\* purge_file, purge_folder, and the items cleanup_expired finds past their
\* retention (PurgeGuard::Mutation).
PurgeItem(n) ==
    /\ Acting("purge")
    /\ Admitted
    /\ item[n].st = "trash"
    /\ PurgeForest({n})
    /\ UNCHANGED <<cast, mover, session, task, purge, purger>>

-----------------------------------------------------------------------------
(***************************************************************************)
(* The task that empties the trash.                                        *)
(***************************************************************************)
Trashed == {n \in Items : item[n].st = "trash"}
TopTrashed == {n \in Trashed : item[n].parent # Root => item[item[n].parent].st # "trash"}

\* create_trash_purge_all_task_in_scope, and a manual retry of an ended task.
PurgeRequest ==
    /\ Acting("empty")
    /\ ~PurgeActive
    /\ purge' = [purge EXCEPT !.st = "pending", !.asked = Trashed]
    /\ UNCHANGED <<cast, item, lock, mover, session, task, purger>>

\* try_claim by a worker: the task waits, or its holder's lease has run out.
PurgeClaim(w) ==
    /\ purge.st = "pending" \/ (purge.st = "processing" /\ ~purge.lease)
    /\ purge.token < MaxClaims
    /\ purge' = [purge EXCEPT !.st = "processing", !.token = @ + 1, !.lease = TRUE]
    /\ purger' = [purger EXCEPT ![w] = [token |-> purge.token + 1, page |-> {}]]
    /\ UNCHANGED <<cast, item, lock, mover, session, task>>

PurgeLeaseEnds ==
    /\ purge.st \in {"processing", "canceling"} /\ purge.lease
    /\ purge' = [purge EXCEPT !.lease = FALSE]
    /\ UNCHANGED <<cast, item, lock, mover, session, task, purger>>

\* purge_all_in_scope_silent lists a page of top-level trash outside any
\* transaction.
PurgeList(w) ==
    /\ purger[w] # None
    /\ TopTrashed # {}
    /\ purger' = [purger EXCEPT ![w].page = TopTrashed]
    /\ UNCHANGED <<cast, item, lock, mover, session, task, purge>>

\* coordination::fence_purge_on
Fenced(w) ==
    /\ purge.st = "processing" /\ purge.lease
    /\ purge.token = purger[w].token

\* One destructive transaction: the page, or after a failure one item of it.
PurgeBatch(w) ==
    /\ purger[w] # None /\ purger[w].page # {}
    /\ Fenced(w)
    /\ \E roots \in {purger[w].page} \cup {{n} : n \in purger[w].page} :
          /\ PurgeForest(roots)
          /\ purger' = [purger EXCEPT ![w].page = @ \ roots]
    /\ UNCHANGED <<cast, mover, session, task, purge>>

\* mark_task_succeeded once a page comes back empty, or mark_task_failed.
PurgeEnds(w) ==
    /\ purger[w] # None
    /\ purge.st = "processing" /\ purge.token = purger[w].token
    /\ purge' = [purge EXCEPT !.st = "ended", !.lease = FALSE]
    /\ purger' = [purger EXCEPT ![w] = None]
    /\ UNCHANGED <<cast, item, lock, mover, session, task>>

\* A worker stops: its fence failed, or its process died.
PurgeWorkerStops(w) ==
    /\ purger[w] # None
    /\ purger' = [purger EXCEPT ![w] = None]
    /\ UNCHANGED <<cast, item, lock, mover, session, task, purge>>

\* cancel: a waiting task ends at once, a running one is asked to stop.
PurgeCancel ==
    /\ purge.st \in {"pending", "processing"}
    /\ purge' = [purge EXCEPT !.st = IF purge.st = "pending" THEN "ended" ELSE "canceling"]
    /\ UNCHANGED <<cast, item, lock, mover, session, task, purger>>

\* cancel::acknowledge by the worker that holds the token, or the recovery of a
\* canceling task whose lease has run out.
PurgeCanceled ==
    /\ purge.st = "canceling"
    /\ ~purge.lease \/ \E w \in PurgeWorkers : purger[w] # None /\ purger[w].token = purge.token
    /\ purge' = [purge EXCEPT !.st = "ended", !.lease = FALSE]
    /\ UNCHANGED <<cast, item, lock, mover, session, task, purger>>

-----------------------------------------------------------------------------
(***************************************************************************)
(* The task that trashes or restores a large tree.  Its operation lock     *)
(* (exclusive, infinite depth, no timeout) is what keeps the tree still    *)
(* while its members are staged in many short transactions.                *)
(***************************************************************************)
NoTask == [st |-> "none", op |-> "delete", root |-> Root, path |-> <<>>,
           staged |-> {}, todo |-> {}, scan |-> {}]

\* ensure_operation_state
RightState(op, d) == item[d].st = (IF op = "delete" THEN "live" ELSE "trash")

\* create_folder_tree_mutation_task_in_scope
TaskCreate(op, d) ==
    /\ Acting("task")
    /\ Admitted
    /\ task.st = "none"
    /\ RightState(op, d)
    /\ task' = [NoTask EXCEPT !.st = "queued", !.op = op, !.root = d]
    /\ UNCHANGED <<cast, item, lock, mover, session, purge, purger>>

\* Mutant: an attempt that finds the lock takes the staging for complete.
TaskRead_TakesStaged ==
    /\ task.st = "queued"
    /\ RightState(task.op, task.root)
    /\ task' = IF OpToken \in Held
               THEN [task EXCEPT !.st = "staging", !.todo = {}, !.scan = {}]
               ELSE [task EXCEPT !.st = "locking", !.path = PathOf(task.root)]
    /\ UNCHANGED <<cast, item, lock, mover, session, purge, purger>>

\* A claimed attempt reads the root and, in ensure_operation_lock, finds the
\* lock of an earlier attempt or resolves the path for a new one.
TaskRead ==
    /\ task.st = "queued"
    /\ RightState(task.op, task.root)
    /\ task' = IF OpToken \in Held
               THEN [task EXCEPT !.st = "staging", !.todo = {task.root}, !.scan = {}]
               ELSE [task EXCEPT !.st = "locking", !.path = PathOf(task.root)]
    /\ UNCHANGED <<cast, item, lock, mover, session, purge, purger>>

TaskLock ==
    /\ task.st = "locking"
    /\ Acquirable(task.root, TRUE, task.path)
    /\ lock' = [lock EXCEPT ![OpToken] = [root |-> task.root, deep |-> TRUE,
                                          path |-> task.path]]
    /\ task' = [task EXCEPT !.st = "staging", !.path = <<>>, !.todo = {task.root}, !.scan = {}]
    /\ UNCHANGED <<cast, item, mover, session, purge, purger>>

\* enforce_task_root_lock
RootLocked == Exists(task.root) /\ Free(task.root, {OpToken})

Walked == IF task.op = "delete" THEN Active ELSE Present

\* process_staging enters a folder: the folder and its files are staged ...
TaskStageFolder(d) ==
    /\ task.st = "staging" /\ d \in task.todo
    /\ RootLocked
    /\ task' = [task EXCEPT !.todo = @ \ {d}, !.scan = @ \cup {d},
                            !.staged = @ \cup {d} \cup (Children(d, Walked) \cap Files)]
    /\ UNCHANGED <<cast, item, lock, mover, session, purge, purger>>

\* ... and then its child folders are paged in.
TaskStageChildren(d) ==
    /\ task.st = "staging" /\ d \in task.scan
    /\ RootLocked
    /\ task' = [task EXCEPT !.scan = @ \ {d},
                            !.todo = @ \cup (Children(d, Walked) \cap Folders)]
    /\ UNCHANGED <<cast, item, lock, mover, session, purge, purger>>

StagedRows(states) == {n \in task.staged : item[n].st \in states}

\* finalize_operation: one transaction applies what was staged, drops the
\* staging rows and the lock, and marks the task succeeded.
TaskFinalize ==
    /\ task.st = "staging" /\ task.todo = {} /\ task.scan = {}
    /\ Admitted
    /\ RootLocked
    /\ OpToken \in Held /\ lock[OpToken].root = task.root
    /\ item' = IF task.op = "delete"
               THEN Marked(StagedRows(Present), "trash")
               ELSE [Marked(StagedRows(Present) \cup {task.root}, "live")
                        EXCEPT ![task.root].parent = TargetOf(task.root)]
    /\ lock' = [lock EXCEPT ![OpToken] = NoLock]
    /\ task' = NoTask
    /\ UNCHANGED <<cast, mover, session, purge, purger>>

\* An error that is not retried, or a cancellation: cleanup_operation or
\* cleanup_terminal_operation_on drop the staging rows and the lock.
TaskEnds ==
    /\ task.st # "none"
    /\ lock' = [lock EXCEPT ![OpToken] = NoLock]
    /\ task' = NoTask
    /\ UNCHANGED <<cast, item, mover, session, purge, purger>>

\* A lost lease, a shutdown or a retryable error keeps the staging rows and the
\* lock for the next attempt (should_preserve_resumable_state).
TaskInterrupted ==
    /\ Acting("crash")
    /\ task.st \in {"locking", "staging"}
    /\ task' = [task EXCEPT !.st = "queued", !.path = <<>>, !.todo = {}, !.scan = {}]
    /\ UNCHANGED <<cast, item, lock, mover, session, purge, purger>>

-----------------------------------------------------------------------------
TreeInit ==
    /\ cast \in Casts
    /\ item \in [Items -> [parent : Folders \cup {Root}, st : {"live", "absent"}]]
    /\ \A n \in Items : IF Live(n) THEN /\ Live(item[n].parent)
                                        /\ n \notin Chain(item[n].parent)
                        ELSE item[n].parent = Root
    /\ \A f \in Files : Live(f) <=> ~Acting("upload")
    /\ lock = [l \in Tokens |-> NoLock]
    /\ mover = [m \in Movers |-> None]
    /\ session = [f \in Files |-> None]
    /\ task = NoTask
    /\ purge = [st |-> "none", token |-> 0, lease |-> FALSE, asked |-> {}]
    /\ purger = [w \in PurgeWorkers |-> None]

Places == Folders \cup {Root}

TreeNext ==
    \/ \E h \in Holders, r \in Items \cup {Root}, deep \in BOOLEAN : AcquireLock(h, r, deep)
    \/ \E l \in Tokens : ReleaseLock(l)
    \/ \E d \in Folders, p \in Places, ts \in {{}} \cup {{h} : h \in Holders} :
          CreateFolder(d, p, ts)
    \/ \E m \in Movers :
          \/ \E d \in Folders, p \in Places : MoveRead(m, d, p)
          \/ \E S \in BatchSets, p \in Places : BatchRead(m, S, p)
          \/ MoveCommit(m) \/ BatchCommit(m) \/ MoveRollsBack(m)
    \/ \E f \in Files :
          \/ \E d \in Places, direct \in BOOLEAN : UploadOpen(f, d, direct)
          \/ UploadPublish(f)
    \/ \E n \in Items : TrashItem(n) \/ RestoreItem(n) \/ PurgeItem(n)
    \/ PurgeRequest \/ PurgeLeaseEnds \/ PurgeCancel \/ PurgeCanceled
    \/ \E w \in PurgeWorkers :
          \/ PurgeClaim(w) \/ PurgeList(w) \/ PurgeBatch(w)
          \/ PurgeEnds(w) \/ PurgeWorkerStops(w)
    \/ \E op \in {"delete", "restore"}, d \in Folders : TaskCreate(op, d)
    \/ TaskRead \/ TaskLock \/ TaskFinalize \/ TaskEnds \/ TaskInterrupted
    \/ \E d \in Folders : TaskStageFolder(d) \/ TaskStageChildren(d)

TreeSpec == TreeInit /\ [][TreeNext]_treeVars

-----------------------------------------------------------------------------
(***************************************************************************)
(* Companies of actors.  An upload's last step does not look whether its   *)
(* folder is in the trash; a restore does not look for locks; and the      *)
(* owner may drop a task's lock, after which a later attempt takes it      *)
(* again and trusts what was staged before.  The tree is kept where these  *)
(* do not meet.                                                            *)
(***************************************************************************)
TameCasts ==
    \A c \in Casts :
       /\ "upload" \in c => "trash" \notin c /\ "task" \notin c
       /\ "task" \in c => "restore" \notin c /\ ~({"unlock", "crash"} \subseteq c)

\* A batch move checks the folders it planned to take its rows from, and the
\* path of a lock is the one at its acquisition: clients' locks are kept where
\* neither batch moves nor the task, which relies on paths, take part.
SteadyCasts == \A c \in Casts : "lock" \in c => "batch" \notin c /\ "task" \notin c

-----------------------------------------------------------------------------
(***************************************************************************)
(* Properties.                                                             *)
(***************************************************************************)
\* No folder is its own ancestor.  update_in_scope and batch_move_in_scope both
\* look for the moved folder in the target's chain; two moves that planned from
\* the same tree must not each pass the test and close a loop.
TreeAcyclic == \A d \in Folders : Exists(d) => d \notin Chain(item[d].parent)

\* What is live hangs below live folders up to the root, so it can be reached,
\* and a purge of trash cannot take it along.  A move, a creation, a restore and
\* a tree being trashed row by row each look at only part of that.
LiveUnderLive == \A n \in Items : Live(n) => Live(item[n].parent)

\* The tree is a tree of live folders with the trash below and beside it
\* (update_in_scope, batch_move_in_scope, restore, trash).
TreeSound == TreeAcyclic /\ LiveUnderLive

\* Nothing under somebody's lock is moved or trashed while the lock stays:
\* neither an item the lock covers, nor the membership of a folder it covers by
\* a move.  Product requests present no token, so even the holder is refused.
LockedUntouched ==
    [][\A l \in Held, n \in Items :
          lock'[l] = lock[l] /\ Live(n) /\ item'[n] # item[n] =>
              /\ ~Covers(l, n)
              /\ item'[n].parent # item[n].parent =>
                    ~Covers(l, item[n].parent) /\ ~Covers(l, item'[n].parent)]_treeVars

\* Emptying the trash destroys only what was in the trash when the user asked
\* for it, however its workers are replaced: fence_purge_on stops a worker that
\* lost its lease, and admit_mutation_on keeps restores and deletions out.
EmptiesWhatWasAsked ==
    [][\A w \in PurgeWorkers, n \in Items :
          PurgeBatch(w) /\ item[n].st # "gone" /\ item'[n].st = "gone"
              => n \in purge.asked]_treeVars

\* A purge never destroys an item that is not in the trash: a deletion goes through the
\* trash first, and purge_folder_forest_in_resource_scope starts from trashed folders.
PurgedWasTrashed ==
    [][\A n \in Items : item[n].st = "live" => item'[n].st # "gone"]_treeVars

\* The tree as clients see it: each operation takes effect on a whole subtree
\* in a single step, although the folder-tree task stages it row by row and a
\* move plans from rows it read before it got the namespace row.
Atomic == INSTANCE AtomicTree WITH Folders <- Folders, Files <- Files, Root <- Root, item <- item
ActsAtomically == Atomic!AtomicSpec
=============================================================================
