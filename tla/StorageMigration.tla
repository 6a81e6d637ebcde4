-------------------------- MODULE StorageMigration --------------------------
(***************************************************************************)
(* Moving every blob of one storage policy to another while files go on    *)
(* being used (services/task/storage_migration.rs).  For each row the      *)
(* worker copies the object and then changes the row in a transaction that *)
(* also advances the task's checkpoint; a row whose content the target has *)
(* already is merged into that row instead.                                *)
(*                                                                         *)
(* A worker may lose its lease between any two of its calls and another    *)
(* one resumes from the checkpoint: the transactions are not fenced by the *)
(* lease, only guarded by ensure_active before them.  Cleaners and purges  *)
(* of BlobLifecycle run beside it.                                         *)
(***************************************************************************)
EXTENDS Integers, FiniteSets, FiniteSetsExt

CONSTANTS
    MgScenes,       \* what the policies hold when the task is created
    MgIds,          \* blob ids, numbers: the scan is in their order
    MgRevs,         \* revisions that refer to blobs
    ContentKeys,    \* keys that are the SHA-256 of their content
    FreshKeys,      \* "migration-<uuid>" keys, one per attempt and blob
    EmptyKey,       \* the key of a virtual-empty blob
    BatchSize,      \* MIGRATION_BATCH_SIZE
    MaxTries       \* bound: attempts

ASSUME MigrationAssumption ==
    /\ MgIds \subseteq Nat \ {0} /\ IsFiniteSet(MgIds) /\ IsFiniteSet(MgRevs)
    /\ BatchSize \in Nat \ {0} /\ MaxTries \in Nat
    /\ EmptyKey \notin ContentKeys

VARIABLES
    scene,      \* the scene of this behaviour
    row,        \* file_blobs: policy, key (hash and path), ref_count
    mgRef,      \* the blob each revision refers to, 0 for none
    store,      \* objects: <<policy, key, content>>
    cursor,     \* last_processed_blob_id of the checkpoint
    holder,     \* the attempt that has the lease, a number, 0 for none
    claims,     \* attempts so far
    mg,         \* what each attempt is doing
    sweep,      \* a cleaner and the row it read
    ended       \* has the task succeeded?

mgVars == <<scene, row, mgRef, store, cursor, holder, claims, mg, sweep, ended>>

NoBlobRow == [pol |-> "none", key |-> EmptyKey, count |-> 0]
Off == [pc |-> "off", todo |-> {}, id |-> 0, twin |-> 0, key |-> EmptyKey, seen |-> 0]
NoSweep == [id |-> 0, pol |-> "none", key |-> EmptyKey, claimed |-> FALSE]
Attempts == 1..MaxTries

MgKeys == ContentKeys \cup {EmptyKey} \cup {FreshKeys[a][i] : a \in Attempts, i \in MgIds}
          \cup {s.start[i].key : s \in MgScenes, i \in MgIds} \cup {s.upkey : s \in MgScenes}

\* A new key is like no other key.
ASSUME FreshKeyAssumption ==
    \A a, b \in Attempts, i, j \in MgIds :
       /\ FreshKeys[a][i] \notin ContentKeys \cup {EmptyKey} \cup {s.upkey : s \in MgScenes}
       /\ \A s \in MgScenes : FreshKeys[a][i] # s.start[j].key
       /\ FreshKeys[a][i] = FreshKeys[b][j] => a = b /\ i = j

\* The database is in order: a policy has a key once (the unique index), references are
\* to rows that count them, and equal hashes mean equal content, also for what is
\* uploaded.  Only objects of the source are missing.
ASSUME SceneAssumption ==
    /\ Max(MgIds) \in MgIds
    /\ \A s \in MgScenes :
          /\ s.start \in [MgIds -> [pol : {"src", "tgt", "none"}, key : MgKeys, count : Int]]
          /\ s.refs \in [MgRevs -> MgIds \cup {0}]
          /\ \A i, j \in MgIds : s.start[i].pol # "none" /\ s.start[j].pol = s.start[i].pol
                                 /\ s.start[j].key = s.start[i].key => i = j
          /\ \A i \in MgIds : s.start[i].count = Cardinality({r \in MgRevs : s.refs[r] = i})
          /\ \A r \in MgRevs : s.refs[r] # 0 => s.start[s.refs[r]].pol # "none"
          /\ \A i \in s.missing : i \in MgIds /\ s.start[i].pol = "src"
          /\ s.uploads => s.upkey \in ContentKeys \cup {EmptyKey}
          /\ \A i \in MgIds : s.start[i].pol # "none" /\ s.start[i].key \in ContentKeys \cup {EmptyKey} =>
                /\ \A j \in MgIds : s.start[j].pol # "none" /\ s.start[j].key = s.start[i].key =>
                      s.content[i] = s.content[j]
                /\ s.uploads /\ s.start[i].key = s.upkey => s.content[i] = s.content[Max(MgIds)]

ContentOf(i) == scene.content[i]
RowAt(p, k) == {i \in MgIds : row[i].pol = p /\ row[i].key = k}
Stored(p, k, c) == <<p, k, c>> \in store
ObjectAt(p, k) == {o \in store : o[1] = p /\ o[2] = k}
Put(p, k, c) == (store \ ObjectAt(p, k)) \cup {<<p, k, c>>}

MgGoto(a, pc) == mg' = [mg EXCEPT ![a].pc = pc]
MgAt(a, pc) == mg[a].pc = pc

\* context.ensure_active: the guard of an attempt ends no later than its lease.
MgActive(a) == holder = a

\* The transactions follow such a check but are not fenced: in a scene with late commits
\* they run although the lease has ended since.
MgCommits(a) == MgActive(a) \/ scene.late

-----------------------------------------------------------------------------
\* The task is claimed, after the lease of the last attempt ended, and prepares.
MgClaim ==
    /\ ~ended /\ claims < MaxTries
    /\ claims' = claims + 1
    /\ holder' = claims + 1
    /\ mg' = [mg EXCEPT ![claims + 1] =
                [Off EXCEPT !.pc = IF scene.recover THEN "empties" ELSE "scan", !.seen = cursor]]
    /\ UNCHANGED <<scene, row, mgRef, store, cursor, sweep, ended>>

\* The attempt ends with an error or its process dies; the task will be tried again.
MgStops(a) ==
    /\ ~MgAt(a, "off")
    /\ mg' = [mg EXCEPT ![a] = Off]
    /\ holder' = IF holder = a THEN 0 ELSE holder
    /\ UNCHANGED <<scene, row, mgRef, store, cursor, claims, sweep, ended>>

\* The outcome of one blob is recorded with last_processed_blob_id = i, whatever the
\* checkpoint holds by now, and the attempt goes on with its batch.
Advance(a, i) ==
    /\ cursor' = i
    /\ mg' = [mg EXCEPT ![a] = [@ EXCEPT !.pc = "next", !.todo = mg[a].todo \ {i}]]

\* Mutant: rows that are not stored are left out in every mode.
Scannable_Stored == {i \in MgIds : row[i].pol = "src" /\ row[i].key # EmptyKey /\ i > cursor}

\* find_blobs_by_policy_paginated, find_stored_blobs_by_policy_paginated
Scannable ==
    {i \in MgIds : row[i].pol = "src" /\ i > cursor
                   /\ (scene.recover => row[i].key # EmptyKey)}

\* The next batch, or the end of the task: mark_task_succeeded is fenced by the lease.
MgScan(a) ==
    /\ MgAt(a, "scan") /\ MgActive(a)
    /\ IF Scannable = {}
       THEN /\ ended' = TRUE /\ holder' = 0
            /\ mg' = [mg EXCEPT ![a] = Off]
       ELSE /\ mg' = [mg EXCEPT ![a] = [@ EXCEPT !.pc = "next",
                        !.todo = {i \in Scannable :
                                    Cardinality({j \in Scannable : j < i}) < BatchSize}]]
            /\ UNCHANGED <<ended, holder>>
    /\ UNCHANGED <<scene, row, mgRef, store, cursor, claims, sweep>>

\* migrate_recovery_virtual_empty: the source's virtual-empty row and its twin are read,
\* and the cursor that was read before is written back.
MgEmpties(a) ==
    /\ MgAt(a, "empties") /\ MgActive(a)
    /\ IF RowAt("src", EmptyKey) = {}
       THEN MgGoto(a, "scan")
       ELSE \E i \in RowAt("src", EmptyKey) :
               IF RowAt("tgt", EmptyKey) = {}
               THEN mg' = [mg EXCEPT ![a] = [@ EXCEPT !.pc = "emptymove", !.id = i]]
               ELSE \E t \in RowAt("tgt", EmptyKey) :
                       mg' = [mg EXCEPT ![a] = [@ EXCEPT !.pc = "emptymerge", !.id = i,
                                                         !.twin = t]]
    /\ UNCHANGED <<scene, row, mgRef, store, cursor, holder, claims, sweep, ended>>

\* Mutant: the key alone decides, also when it says nothing about the content.
Mergeable_AnyKey(k) == TRUE

\* is_content_sha256_blob_key
Mergeable(k) == k \in ContentKeys \/ k = EmptyKey

\* migrate_one_blob up to the copy: the row is read again and the way it goes is chosen.
Choose(a, i) ==
    LET twins == RowAt("tgt", row[i].key) IN
    IF row[i].pol # "src"
    THEN Advance(a, i)
    ELSE IF twins # {} /\ Mergeable(row[i].key)
    THEN \* verify_existing_target reads the twin's object before the merge
         \E t \in twins :
            IF row[i].key = EmptyKey \/ ObjectAt("tgt", row[t].key) # {}
            THEN /\ mg' = [mg EXCEPT ![a] = [@ EXCEPT !.pc = "merge", !.id = i, !.twin = t,
                                                      !.key = row[i].key]]
                 /\ UNCHANGED cursor
            ELSE scene.recover /\ Advance(a, i)
    ELSE /\ mg' = [mg EXCEPT ![a] = [@ EXCEPT !.id = i, !.twin = 0,
                     !.pc = IF row[i].key = EmptyKey THEN "move" ELSE "copy",
                     !.key = IF twins = {} THEN row[i].key ELSE FreshKeys[a][i]]]
         /\ UNCHANGED cursor

\* The next blob of the batch, in the order of the ids.
MgNext(a) ==
    /\ MgAt(a, "next") /\ MgActive(a)
    /\ IF mg[a].todo = {}
       THEN MgGoto(a, "scan") /\ UNCHANGED cursor
       ELSE \E i \in mg[a].todo : (\A j \in mg[a].todo : i <= j) /\ Choose(a, i)
    /\ UNCHANGED <<scene, row, mgRef, store, holder, claims, sweep, ended>>

\* copy_blob_streaming, copy_blob_multipart: the object is written at the target.  The
\* row was read a step ago: its source object may be gone by now, which ends the
\* attempt or, in recovery, counts the blob as failed.
MgCopy(a) ==
    /\ MgAt(a, "copy")
    /\ LET i == mg[a].id IN
       IF Stored("src", scene.start[i].key, ContentOf(i))
       THEN /\ store' = Put("tgt", mg[a].key, ContentOf(i))
            /\ \/ MgGoto(a, "verify")
               \/ scene.breaks /\ MgGoto(a, "undo")
            /\ UNCHANGED cursor
       ELSE /\ scene.recover
            /\ Advance(a, i)
            /\ UNCHANGED store
    /\ UNCHANGED <<scene, row, mgRef, holder, claims, sweep, ended>>

\* verify_target_object; without the lease the attempt ends here and the object stays.
MgVerify(a) ==
    /\ MgAt(a, "verify") /\ MgActive(a)
    /\ \/ Stored("tgt", mg[a].key, ContentOf(mg[a].id)) /\ MgGoto(a, "move")
       \/ scene.breaks /\ MgGoto(a, "undo")
    /\ UNCHANGED <<scene, row, mgRef, store, cursor, holder, claims, sweep, ended>>

\* Mutant: whatever was copied and is not used any more is deleted without a look at
\* the rows.
MgTidy_Blind(a) ==
    /\ MgAt(a, "tidy")
    /\ MgGoto(a, "delete")
    /\ UNCHANGED <<scene, row, mgRef, store, cursor, holder, claims, sweep, ended>>

\* cleanup_unmoved_target_object: does a row of the target refer to the path?
MgTidy(a) ==
    /\ MgAt(a, "tidy")
    /\ MgGoto(a, IF RowAt("tgt", mg[a].key) = {} THEN "delete" ELSE "next")
    /\ UNCHANGED <<scene, row, mgRef, store, cursor, holder, claims, sweep, ended>>

MgDelete(a) ==
    /\ MgAt(a, "delete")
    /\ store' = store \ ObjectAt("tgt", mg[a].key)
    /\ MgGoto(a, "next")
    /\ UNCHANGED <<scene, row, mgRef, cursor, holder, claims, sweep, ended>>

\* cleanup_failed_target_object after a failed copy or verification: the lease is looked
\* at before and after the reference check.  The error ends the attempt.
MgUndo(a) ==
    /\ MgAt(a, "undo") /\ MgActive(a) /\ RowAt("tgt", mg[a].key) = {}
    /\ MgGoto(a, "undodelete")
    /\ UNCHANGED <<scene, row, mgRef, store, cursor, holder, claims, sweep, ended>>

MgUndoDelete(a) ==
    /\ MgAt(a, "undodelete") /\ MgActive(a)
    /\ store' = store \ ObjectAt("tgt", mg[a].key)
    /\ mg' = [mg EXCEPT ![a] = Off]
    /\ holder' = 0
    /\ UNCHANGED <<scene, row, mgRef, cursor, claims, sweep, ended>>

\* The guard of move_blob_policy_if_current and of merge_blob_records.
StillInSource(i) == row[i].pol = "src"

\* The transaction that moves the row, unless it has left the source.  A row that the
\* target got meanwhile breaks the unique index: for a virtual-empty blob the merge is
\* tried next, for another the attempt ends.
MgMove(a) ==
    /\ MgAt(a, "move") /\ MgCommits(a)
    /\ LET i == mg[a].id
           twins == RowAt("tgt", mg[a].key) \ {i} IN
       IF ~StillInSource(i)
       THEN /\ cursor' = i
            /\ mg' = [mg EXCEPT ![a] = [@ EXCEPT
                        !.pc = IF mg[a].key = EmptyKey THEN "next" ELSE "tidy",
                        !.todo = mg[a].todo \ {i}]]
            /\ UNCHANGED row
       ELSE IF twins # {}
       THEN /\ mg[a].key = EmptyKey
            /\ \E t \in twins : mg' = [mg EXCEPT ![a] = [@ EXCEPT !.pc = "merge", !.twin = t]]
            /\ UNCHANGED <<row, cursor>>
       ELSE /\ row' = [row EXCEPT ![i] = [pol |-> "tgt", key |-> mg[a].key, count |-> @.count]]
            /\ Advance(a, i)
    /\ UNCHANGED <<scene, mgRef, store, holder, claims, sweep, ended>>

\* increment_blob_ref_count_by
Counted(i, t) == row[t].count + row[i].count

\* Repointing, counting and deleting in one transaction; it fails on a claimed row.
Merged(i, t) ==
    /\ row[t].pol # "none" /\ row[t].key = row[i].key
    /\ row[i].count >= 0
    /\ row[i].count > 0 => row[t].count >= 0
    /\ mgRef' = [r \in MgRevs |-> IF mgRef[r] = i THEN t ELSE mgRef[r]]
    /\ row' = [row EXCEPT ![i] = NoBlobRow,
                          ![t].count = IF row[i].count = 0 THEN row[t].count ELSE Counted(i, t)]

\* merge_blob_records
MgMerge(a) ==
    /\ MgAt(a, "merge") /\ MgCommits(a)
    /\ LET i == mg[a].id IN
       /\ row[i].pol # "none"
       /\ IF StillInSource(i) THEN Merged(i, mg[a].twin) ELSE UNCHANGED <<row, mgRef>>
       /\ Advance(a, i)
    /\ UNCHANGED <<scene, store, holder, claims, sweep, ended>>

\* The transactions of migrate_recovery_virtual_empty; the cursor is the one the attempt
\* read when it began.
MgEmptyDone(a) ==
    /\ MgAt(a, "emptymove") \/ MgAt(a, "emptymerge")
    /\ MgCommits(a)
    /\ LET i == mg[a].id IN
       IF MgAt(a, "emptymerge")
       THEN /\ row[i].pol # "none"
            /\ IF StillInSource(i) THEN Merged(i, mg[a].twin) ELSE UNCHANGED <<row, mgRef>>
       ELSE /\ IF StillInSource(i)
               THEN /\ RowAt("tgt", EmptyKey) = {}
                    /\ row' = [row EXCEPT ![i].pol = "tgt"]
               ELSE UNCHANGED row
            /\ UNCHANGED mgRef
    /\ cursor' = mg[a].seen
    /\ MgGoto(a, "scan")
    /\ UNCHANGED <<scene, store, holder, claims, sweep, ended>>

-----------------------------------------------------------------------------
\* Beside the migration: a revision is purged, a file is copied, and content is uploaded
\* into the target, new or onto the row that has it (see BlobLifecycle).
RefDropped(r) ==
    /\ scene.faults /\ mgRef[r] # 0
    /\ row' = [row EXCEPT ![mgRef[r]].count = @ - 1]
    /\ mgRef' = [mgRef EXCEPT ![r] = 0]
    /\ UNCHANGED <<scene, store, cursor, holder, claims, mg, sweep, ended>>

RefCopied(r, s) ==
    /\ scene.copies /\ mgRef[r] = 0 /\ mgRef[s] # 0 /\ row[mgRef[s]].count >= 0
    /\ row' = [row EXCEPT ![mgRef[s]].count = @ + 1]
    /\ mgRef' = [mgRef EXCEPT ![r] = mgRef[s]]
    /\ UNCHANGED <<scene, store, cursor, holder, claims, mg, sweep, ended>>

Uploaded(r) ==
    /\ scene.uploads /\ mgRef[r] = 0
    /\ LET new == Max(MgIds)
           k == scene.upkey
           have == RowAt("tgt", k) IN
       \E i \in IF have = {} THEN {new} ELSE have :
       /\ have = {} => row[new].pol = "none"
       /\ row[i].count >= 0
       /\ row' = [row EXCEPT ![i] = [pol |-> "tgt", key |-> k, count |-> @.count + 1]]
       /\ mgRef' = [mgRef EXCEPT ![r] = i]
       /\ store' = IF k = EmptyKey THEN store ELSE Put("tgt", k, ContentOf(new))
    /\ UNCHANGED <<scene, cursor, holder, claims, mg, sweep, ended>>

\* cleanup_unreferenced_blob: the row is read, claimed by its id, and the object is
\* deleted at the place that was read, before the row.
SweepLoads(i) ==
    /\ scene.faults /\ sweep = NoSweep
    /\ row[i].pol # "none" /\ row[i].count = 0
    /\ sweep' = [id |-> i, pol |-> row[i].pol, key |-> row[i].key, claimed |-> FALSE]
    /\ UNCHANGED <<scene, row, mgRef, store, cursor, holder, claims, mg, ended>>

\* claim_blob_cleanup
SweepMayClaim(i) == row[i].pol # "none" /\ row[i].count = 0

SweepClaims ==
    /\ sweep # NoSweep /\ ~sweep.claimed
    /\ IF SweepMayClaim(sweep.id)
       THEN /\ row' = [row EXCEPT ![sweep.id].count = 0 - 1]
            /\ sweep' = [sweep EXCEPT !.claimed = TRUE]
       ELSE /\ sweep' = NoSweep
            /\ UNCHANGED row
    /\ UNCHANGED <<scene, mgRef, store, cursor, holder, claims, mg, ended>>

SweepDeletes ==
    /\ sweep.claimed
    /\ store' = store \ ObjectAt(sweep.pol, sweep.key)
    /\ row' = [row EXCEPT ![sweep.id] = IF @.count = 0 - 1 THEN NoBlobRow ELSE @]
    /\ sweep' = NoSweep
    /\ UNCHANGED <<scene, mgRef, cursor, holder, claims, mg, ended>>

-----------------------------------------------------------------------------
MigrationInit ==
    /\ scene \in MgScenes
    /\ row = scene.start
    /\ mgRef = scene.refs
    /\ store = {<<scene.start[i].pol, scene.start[i].key, scene.content[i]>> :
                  i \in {j \in MgIds : /\ scene.start[j].pol # "none"
                                       /\ scene.start[j].key # EmptyKey
                                       /\ j \notin scene.missing}}
    /\ cursor = 0 /\ holder = 0 /\ claims = 0 /\ ended = FALSE
    /\ mg = [a \in Attempts |-> Off]
    /\ sweep = NoSweep

MigrationNext ==
    \/ MgClaim
    \/ \E a \in Attempts :
          \/ MgStops(a) \/ MgScan(a) \/ MgEmpties(a) \/ MgEmptyDone(a) \/ MgNext(a)
          \/ MgCopy(a) \/ MgVerify(a) \/ MgMove(a) \/ MgMerge(a)
          \/ MgTidy(a) \/ MgDelete(a) \/ MgUndo(a) \/ MgUndoDelete(a)
    \/ \E r \in MgRevs :
          \/ RefDropped(r) \/ Uploaded(r)
          \/ \E s \in MgRevs : RefCopied(r, s)
    \/ \E i \in MgIds : SweepLoads(i)
    \/ SweepClaims
    \/ SweepDeletes

MigrationSpec == MigrationInit /\ [][MigrationNext]_mgVars

-----------------------------------------------------------------------------
\* A failing copy does not meet a commit without the lease, nor an upload; an upload
\* does not meet the cleaner: cleanup_failed_target_object, cleanup_unmoved_target_object
\* and cleanup_unreferenced_blob look at the rows before they delete an object, not with
\* the deletion.
TameScenes ==
    \A s \in MgScenes : ~(s.breaks /\ s.late) /\ ~(s.uploads /\ (s.breaks \/ s.faults))

\* While blobs move, also with an attempt that lost its lease still at work, every
\* revision's blob has its content at the place the row names (migrate_one_blob,
\* cleanup_unmoved_target_object).
MigrationKeepsContent ==
    \A r \in MgRevs : mgRef[r] # 0 =>
       LET i == mgRef[r] IN
       /\ row[i].pol # "none"
       /\ \/ row[i].key = EmptyKey
          \/ i \in scene.missing
          \/ Stored(row[i].pol, row[i].key, ContentOf(i))

\* ref_count is the number of revisions that refer to the row, whatever was merged into
\* it while references came and went (merge_blob_records).
MigrationCountsExact ==
    \A i \in MgIds : row[i].count >= 0 =>
       row[i].count = Cardinality({r \in MgRevs : mgRef[r] = i})

\* Both at once: what a migration must not lose while references come and go
\* (migrate_one_blob, merge_blob_records, cleanup_unmoved_target_object).
MigrationSound == MigrationKeepsContent /\ MigrationCountsExact

\* A task that succeeded left no blob behind in the source that was there when it was
\* created: the cursor only passes what was dealt with, although attempts without the
\* lease write it too.  Recovery leaves those it could not read.
NothingLeftBehind ==
    ended => \A i \in MgIds :
       scene.start[i].pol = "src" /\ row[i].pol = "src" => scene.recover /\ i \in scene.missing

\* A revision never changes its content by a migration: a merge joins only blobs of
\* equal content (is_content_sha256_blob_key: opaque keys say nothing about it).
ContentUnchanged ==
    [][\A r \in MgRevs : mgRef[r] # 0 /\ mgRef'[r] # 0 =>
          ContentOf(mgRef[r]) = ContentOf(mgRef'[r])]_mgVars

\* "The blob row has not moved yet" (copy_blob_streaming, before the target object of a
\* failed copy is deleted): no row names the object that the attempt with the lease is
\* about to delete.
FailedCopyUnmoved ==
    \A a \in Attempts : MgAt(a, "undodelete") /\ MgActive(a) => RowAt("tgt", mg[a].key) = {}
=============================================================================
