---------------------------- MODULE FileRevisions ----------------------------
(***************************************************************************)
(* The revision ledger of a workspace's files and the storage quota it is  *)
(* charged to: creating, overwriting, restoring a version, deleting one,   *)
(* trimming old versions and purging files (services/content/version.rs,   *)
(* services/workspace/storage/store, storage_core/quota.rs,                *)
(* db/repository/revision_repo.rs).                                        *)
(*                                                                         *)
(* Four tables change together: the file row repeats the content of its    *)
(* current revision, the owner's storage_used is the sum over revisions,   *)
(* and a blob's ref_count is their number.  Each transaction is one step   *)
(* (it holds the history row and the owner's row FOR UPDATE); what a       *)
(* request read before its transaction is remembered in its job.           *)
(***************************************************************************)
EXTENDS Naturals, FiniteSets, Sequences, FiniteSetsExt

CONSTANTS
    RvFiles,        \* file ids; an id is used once
    RvBlobs,        \* contents; with deduplication two writes may share one
    SizeOf,         \* size of each content
    Jobs,           \* concurrent requests
    Quota,          \* storage_quota of the owner, 0 for none
    MaxVersions,    \* get_max_versions: revisions kept besides the current one
    MaxRevs,        \* bound: revisions ever inserted
    NoJob

ASSUME RevisionAssumption ==
    /\ IsFiniteSet(RvFiles) /\ IsFiniteSet(RvBlobs)
    /\ SizeOf \in [RvBlobs -> Nat]
    /\ Quota \in Nat /\ MaxVersions \in Nat /\ MaxRevs \in Nat

VARIABLES
    file,       \* the files table: state, content, size, updated_at
    rev,        \* file_revisions, in order of insertion
    head,       \* file_revision_histories.current_revision_id, 0 for NULL
    used,       \* storage_used of the owner
    refs,       \* file_blobs.ref_count
    job         \* what each request read and intends

rvVars == <<file, rev, head, used, refs, job>>

Absent == [st |-> "absent", blob |-> 0, size |-> 0, stamp |-> 0]
Ids == 1..Len(rev)
LiveRevs(f) == {r \in Ids : rev[r].file = f /\ rev[r].live}
MaxSeq(S) == IF S = {} THEN 0 ELSE Max({rev[r].seq : r \in S})

\* The bytes of a set of revisions; how many there are is the sum of the sizes.
Bytes(S) == UNION {{r} \X (1..rev[r].size) : r \in S}

-----------------------------------------------------------------------------
\* update_storage_used for a positive delta: the conditional UPDATE.
MayGrow(delta) == Quota = 0 \/ used + delta <= Quota

\* ... and for a negative one: never below zero.
Shrunk(by) == IF used < by THEN 0 ELSE used - by

\* next_sequence of a history; its first revision has number 1.
NextSeq(f) == MaxSeq({r \in Ids : rev[r].file = f}) + 1

\* insert_revision
Inserted(f, b) ==
    Append(rev, [file |-> f, seq |-> NextSeq(f), pred |-> head[f], blob |-> b,
                 size |-> SizeOf[b], live |-> TRUE])

\* What creating, overwriting and restoring have in common: a new revision is the
\* head (create_initial, append_locked), the file row repeats it, the blob gains a
\* reference and the owner pays.
Publish(f, b, st) ==
    /\ Len(rev) < MaxRevs
    /\ MayGrow(SizeOf[b])
    /\ rev' = Inserted(f, b)
    /\ head' = [head EXCEPT ![f] = Len(rev) + 1]
    /\ file' = [file EXCEPT ![f] = [st |-> st, blob |-> b, size |-> SizeOf[b],
                                    stamp |-> Len(rev) + 1]]
    /\ used' = used + SizeOf[b]
    /\ refs' = [refs EXCEPT ![b] = @ + 1]

\* write_file_record_from_temp and store_preuploaded_nondedup for a new file,
\* finalize_upload_session_file
RvCreate(f, b) ==
    /\ file[f].st = "absent"
    /\ Publish(f, b, "live")
    /\ UNCHANGED job

\* load_overwrite_context: the file as it is before its new bytes are stored ("write"),
\* or, in store_preuploaded_nondedup, after they are ("stored").
WriteRead(j, f, b) ==
    /\ job[j] = NoJob
    /\ file[f].st = "live"
    /\ \E way \in {"write", "stored"} :
          job' = [job EXCEPT ![j] = [op |-> way, file |-> f, row |-> file[f], blob |-> b]]
    /\ UNCHANGED <<file, rev, head, used, refs>>

\* Mutant: an unchanged content is taken for an unchanged file.
Unchanged_Content(j) ==
    /\ file[job[j].file].st = "live"
    /\ file[job[j].file].blob = job[j].row.blob

\* revalidate_overwrite_target
Unchanged(j) == file[job[j].file] = job[j].row

\* The transaction of persist_temp_store; cleanup_excess follows.
WriteCommit(j) ==
    /\ job[j] # NoJob /\ job[j].op = "write"
    /\ Unchanged(j)
    /\ Publish(job[j].file, job[j].blob, "live")
    /\ job' = [job EXCEPT ![j].op = "tidy"]

\* The transaction of store_preuploaded_nondedup: its blob is a new row, and
\* revalidate_preuploaded_overwrite_target compares the content only.
StoredCommit(j) ==
    /\ job[j] # NoJob /\ job[j].op = "stored"
    /\ file[job[j].file].st = "live"
    /\ file[job[j].file].blob = job[j].row.blob
    /\ \A r \in Ids : rev[r].blob # job[j].blob
    /\ Publish(job[j].file, job[j].blob, "live")
    /\ job' = [job EXCEPT ![j].op = "tidy"]

\* restore_version_in_scope: the file is read, ...
RestoreRead(j, f) ==
    /\ job[j] = NoJob
    /\ file[f].st = "live"
    /\ job' = [job EXCEPT ![j] = [op |-> "restore", file |-> f, row |-> file[f],
                                  blob |-> file[f].blob]]
    /\ UNCHANGED <<file, rev, head, used, refs>>

\* Mutant: the restored content gains no reference.
RestoreCommit_Unreferenced(j, r) ==
    /\ job[j] # NoJob /\ job[j].op = "restore"
    /\ r \in LiveRevs(job[j].file)
    /\ LET f == job[j].file  b == rev[r].blob IN
       /\ file[f].blob = job[j].row.blob
       /\ Len(rev) < MaxRevs /\ MayGrow(SizeOf[b])
       /\ rev' = Inserted(f, b)
       /\ head' = [head EXCEPT ![f] = Len(rev) + 1]
       /\ file' = [file EXCEPT ![f] = [@ EXCEPT !.blob = b, !.size = SizeOf[b],
                                                !.stamp = Len(rev) + 1]]
       /\ used' = used + SizeOf[b]
    /\ job' = [job EXCEPT ![j].op = "tidy"]
    /\ UNCHANGED refs

\* ... and in restore_version_inner its content must be the one read.  The file may
\* have been trashed meanwhile: the restore then changes it in the trash.
RestoreCommit(j, r) ==
    /\ job[j] # NoJob /\ job[j].op = "restore"
    /\ r \in LiveRevs(job[j].file)
    /\ file[job[j].file].blob = job[j].row.blob
    /\ Publish(job[j].file, rev[r].blob, file[job[j].file].st)
    /\ job' = [job EXCEPT ![j].op = "tidy"]

-----------------------------------------------------------------------------
\* Mutant: the successor keeps pointing at the revision that went.
Tombstoned_Unlinked(r) == [rev EXCEPT ![r].live = FALSE]

\* revision_repo::tombstone: the live successor is linked past the revision.
Tombstoned(r) ==
    [i \in Ids |->
        IF i = r THEN [rev[i] EXCEPT !.live = FALSE]
        ELSE IF rev[i].live /\ rev[i].file = rev[r].file /\ rev[i].pred = r
             THEN [rev[i] EXCEPT !.pred = rev[r].pred]
             ELSE rev[i]]

\* tombstone, decrement_blob_ref_count and the bytes given back.
Retire(r) ==
    /\ rev' = Tombstoned(r)
    /\ refs' = [refs EXCEPT ![rev[r].blob] = @ - 1]
    /\ used' = Shrunk(rev[r].size)
    /\ UNCHANGED <<file, head>>

\* delete_version_inner; the file was verified to be live before the transaction.
DeleteVersion(f, r) ==
    /\ head[f] # 0
    /\ r \in LiveRevs(f) /\ r # head[f]
    /\ Retire(r)
    /\ UNCHANGED job

\* find_oldest_non_current
Oldest(f, r) ==
    /\ r \in LiveRevs(f) \ {head[f]}
    /\ \A q \in LiveRevs(f) \ {head[f]} : rev[r].seq <= rev[q].seq

\* One transaction of cleanup_excess, or its end; a file that was purged meanwhile
\* has no history any more, which ends it too.
TidyStep(j) ==
    /\ job[j] # NoJob /\ job[j].op = "tidy"
    /\ LET f == job[j].file IN
       IF head[f] # 0 /\ Cardinality(LiveRevs(f)) > MaxVersions + 1
       THEN (\E r \in Ids : Oldest(f, r) /\ Retire(r)) /\ UNCHANGED job
       ELSE /\ job' = [job EXCEPT ![j] = NoJob]
            /\ UNCHANGED <<file, rev, head, used, refs>>

\* The request fails or its process ends.
JobDrops(j) ==
    /\ job[j] # NoJob
    /\ job' = [job EXCEPT ![j] = NoJob]
    /\ UNCHANGED <<file, rev, head, used, refs>>

-----------------------------------------------------------------------------
\* Deleting the file itself sets deleted_at, ...
RvTrash(f) ==
    /\ file[f].st = "live"
    /\ file' = [file EXCEPT ![f].st = "trash"]
    /\ UNCHANGED <<rev, head, used, refs, job>>

\* ... restoring it from the trash clears it.
RvUntrash(f) ==
    /\ file[f].st = "trash"
    /\ file' = [file EXCEPT ![f].st = "live"]
    /\ UNCHANGED <<rev, head, used, refs, job>>

\* A purge is handed the rows that somebody listed before.
PurgeListed(j, f) ==
    /\ job[j] = NoJob
    /\ file[f].st = "trash"
    /\ job' = [job EXCEPT ![j] = [op |-> "purge", file |-> f, row |-> file[f],
                                  blob |-> file[f].blob]]
    /\ UNCHANGED <<file, rev, head, used, refs>>

\* Mutant: the bytes of the current content only are given back.
FreedBytes_Current(f) == file[f].size

\* The logical sizes of the revisions that retire_histories returns, added up.
FreedBytes(f) == Cardinality(Bytes(LiveRevs(f)))

\* purge_files_on reads the rows again: only what is still there and still in the
\* trash goes; retire_histories takes all of its revisions.
PurgeCommit(j) ==
    /\ job[j] # NoJob /\ job[j].op = "purge"
    /\ LET f == job[j].file IN
       IF file[f].st = "trash"
       THEN /\ rev' = [i \in Ids |-> IF i \in LiveRevs(f) THEN [rev[i] EXCEPT !.live = FALSE]
                                     ELSE rev[i]]
            /\ refs' = [b \in RvBlobs |->
                          refs[b] - Cardinality({r \in LiveRevs(f) : rev[r].blob = b})]
            /\ used' = Shrunk(FreedBytes(f))
            /\ head' = [head EXCEPT ![f] = 0]
            /\ file' = [file EXCEPT ![f] = [Absent EXCEPT !.st = "gone"]]
       ELSE UNCHANGED <<file, rev, head, used, refs>>
    /\ job' = [job EXCEPT ![j] = NoJob]

-----------------------------------------------------------------------------
RevisionInit ==
    /\ file = [f \in RvFiles |-> Absent]
    /\ rev = <<>>
    /\ head = [f \in RvFiles |-> 0]
    /\ used = 0
    /\ refs = [b \in RvBlobs |-> 0]
    /\ job = [j \in Jobs |-> NoJob]

RevisionNext ==
    \/ \E f \in RvFiles :
          \/ RvTrash(f) \/ RvUntrash(f)
          \/ \E b \in RvBlobs : RvCreate(f, b)
          \/ \E r \in 1..MaxRevs : DeleteVersion(f, r)
    \/ \E j \in Jobs :
          \/ \E f \in RvFiles : RestoreRead(j, f) \/ PurgeListed(j, f)
          \/ \E f \in RvFiles, b \in RvBlobs : WriteRead(j, f, b)
          \/ \E r \in 1..MaxRevs : RestoreCommit(j, r)
          \/ WriteCommit(j) \/ StoredCommit(j) \/ TidyStep(j) \/ PurgeCommit(j) \/ JobDrops(j)

RevisionSpec == RevisionInit /\ [][RevisionNext]_rvVars

-----------------------------------------------------------------------------
\* storage_used is what the live revisions of the owner's files add up to, which is
\* what load_actual_storage_usage_for_owners recomputes: no order of writes, restores,
\* trims and purges loses a charge or takes one back twice, and the floor at zero in
\* update_storage_used is never what makes it so.  And the quota is kept whatever
\* requests passed check_quota at the same time.
UsageExact ==
    /\ used = Cardinality(Bytes({r \in Ids : rev[r].live}))
    /\ Quota > 0 => used <= Quota

\* audit_revision_ledger: a file has a live current revision of its own, the file row
\* repeats it, and a purged file keeps no live revision.
HeadsMatch ==
    \A f \in RvFiles :
        IF file[f].st \in {"live", "trash"}
        THEN /\ head[f] \in LiveRevs(f)
             /\ rev[head[f]].blob = file[f].blob /\ rev[head[f]].size = file[f].size
        ELSE head[f] = 0 /\ LiveRevs(f) = {}

\* The live revisions of a file are one chain in the order of their numbers: each one
\* but the oldest names the live one just before it.
HistoryIsChain ==
    \A r \in Ids : rev[r].live =>
        LET older == {q \in LiveRevs(rev[r].file) : rev[q].seq < rev[r].seq} IN
        IF older = {} THEN rev[r].pred = 0
        ELSE rev[r].pred \in older /\ rev[rev[r].pred].seq = MaxSeq(older)

\* The ledger of revisions: the row of a file repeats its current revision, and the
\* history behind it is whole, also after any version of it was deleted or trimmed
\* (append_locked, tombstone, retire_histories).
LedgerSound == HeadsMatch /\ HistoryIsChain

\* A blob's ref_count is the number of live revisions with its content: the count that
\* blob cleanup trusts.
RefsMatchLedger ==
    \A b \in RvBlobs : refs[b] = Cardinality({r \in Ids : rev[r].live /\ rev[r].blob = b})

\* An overwrite from a temp file replaces exactly the version its request saw: whatever
\* was written in between, even the same content again, makes
\* revalidate_overwrite_target refuse it (two writes have different updated_at).
NoLostUpdate ==
    [][\A j \in Jobs : WriteCommit(j) => job[j].row.stamp = head[job[j].file]]_rvVars
=============================================================================
