---------------------------- MODULE BlobLifecycle ----------------------------
(***************************************************************************)
(* The life of stored content: uploads stage an object in the store and    *)
(* then publish a row of file_blobs in a transaction; copies, versions and *)
(* purges change its ref_count; cleaners claim rows whose count is 0 by    *)
(* setting it to -1, delete the object and then the row; maintenance       *)
(* recomputes counts and takes claims back that have grown stale.          *)
(*                                                                         *)
(* The store and the database are not changed together, every process may  *)
(* crash between two steps, and any call to the store may fail.  A row is  *)
(* named by the upload that inserted it; KeyOf gives the storage path,     *)
(* which for content-addressed storage (DedupKeys) several uploads share.  *)
(***************************************************************************)
EXTENDS Integers, FiniteSets

CONSTANTS
    Uploads,        \* upload attempts; each runs once
    Copies,         \* copied files: the source is read before the transaction
    Versions,       \* restored versions: read and written in one transaction
    Cleaners,       \* processes that clean up blobs, at the same time
    KeyOf,          \* the storage path of an upload's object
    DedupKeys,      \* the content-addressed paths
    Chunked,        \* uploads that finish through the chunked-session path
    ClaimTimeout,   \* BLOB_CLEANUP_CLAIM_TIMEOUT_SECS, in ticks
    TimelyCleanup,  \* does a live cleaner finish before its claim is stale?
    NoBlob          \* "no blob"

ASSUME BlobAssumption ==
    /\ NoBlob \notin Uploads
    /\ ClaimTimeout \in Nat \ {0}
    /\ TimelyCleanup \in BOOLEAN
    /\ IsFiniteSet(Uploads) /\ IsFiniteSet(Copies) /\ IsFiniteSet(Versions)
    /\ Uploads \cap Copies = {} /\ (Uploads \cup Copies) \cap Versions = {}

\* The path of an upload that is not content-addressed holds a fresh UUID.
ASSUME KeyAssumption ==
    \A u, v \in Uploads : KeyOf[u] = KeyOf[v] /\ KeyOf[u] \notin DedupKeys => u = v

Keys == {KeyOf[u] : u \in Uploads}
Refs == Uploads \cup Copies \cup Versions   \* file revisions that may refer to a blob

Claimed == -1                   \* BLOB_CLEANUP_CLAIMED_REF_COUNT

VARIABLES
    rows,      \* the blobs that have a row
    count,     \* ref_count of each row
    age,       \* time since updated_at of a claimed row
    ref,       \* the blob each file revision refers to
    object,    \* the paths at which the store has an object
    upload,    \* where each upload is
    source,    \* the blob a copy in progress has read from its source file
    cleaner    \* where each cleaner is, and the blob it works on

vars == <<rows, count, age, ref, object, upload, source, cleaner>>

Idle == [pc |-> "idle", blob |-> NoBlob]

Init ==
    /\ rows = {}
    /\ count = [b \in Uploads |-> 0]
    /\ age = [b \in Uploads |-> 0]
    /\ ref = [r \in Refs |-> NoBlob]
    /\ object = {}
    /\ upload = [u \in Uploads |-> "new"]
    /\ source = [c \in Copies |-> NoBlob]
    /\ cleaner = [c \in Cleaners |-> Idle]

----------------------------------------------------------------------------
(* Uploads. *)

\* stage_temp_blob_before_transaction / upload_temp_file_to_prepared_blob: the
\* object is linked into place unless the path already has one.
Stage(u) ==
    /\ upload[u] = "new"
    /\ object' = object \cup {KeyOf[u]}
    /\ upload' = [upload EXCEPT ![u] =
          IF KeyOf[u] \in object THEN "found" ELSE "created"]
    /\ UNCHANGED <<rows, count, age, ref, cleaner, source>>

RowsAt(k) == {b \in rows : KeyOf[b] = k}

\* Bug variant: the filter on the claim is forgotten.
MayIncrement_IgnoresClaim(b) == b \in rows

\* increment_blob_ref_count: the row is there and no cleaner has claimed it.
MayIncrement(b) == b \in rows /\ count[b] >= 0

AddRef(r, b) ==
    /\ count' = [count EXCEPT ![b] = @ + 1]
    /\ ref' = [ref EXCEPT ![r] = b]

\* Bug variant: a commit whose outcome is not known is taken for a failure.
Persist_UncertainRollback(u) ==
    /\ upload[u] \in {"found", "created"}
    /\ RowsAt(KeyOf[u]) = {}
    /\ rows' = rows \cup {u}
    /\ AddRef(u, u)
    /\ upload' = [upload EXCEPT ![u] = "rollback"]
    /\ UNCHANGED <<age, object, cleaner, source>>

\* The transaction of persist_temp_store and of persist_chunked_upload:
\* find_or_create_blob counts one more reference to the row at this path if no
\* cleaner has claimed it, inserts a row if there is none, and the file
\* revision that refers to it is written with it.
Persist(u) ==
    /\ upload[u] \in {"found", "created"}
    /\ \/ \E b \in RowsAt(KeyOf[u]) :
            /\ MayIncrement(b)
            /\ AddRef(u, b)
            /\ UNCHANGED rows
       \/ /\ RowsAt(KeyOf[u]) = {}
          /\ rows' = rows \cup {u}
          /\ AddRef(u, u)
    /\ upload' = [upload EXCEPT ![u] = "done"]
    /\ UNCHANGED <<age, object, cleaner, source>>

\* What a failed upload still has to do (TempStoreBlobCleanupPlan and, for
\* Chunked, UploadCleanupPlan): delete its own object, roll back the shared
\* object that it created, or leave the shared object alone.
CleanupPlan(u) ==
    IF KeyOf[u] \notin DedupKeys THEN "rollback"
    ELSE IF upload[u] = "created" /\ u \notin Chunked THEN "failed"
    ELSE "done"

\* The transaction fails (quota, precondition, cancellation, or the contention
\* budget of find_or_create_blob is used up on a claimed row).
FailTransaction(u) ==
    /\ upload[u] \in {"found", "created"}
    /\ upload' = [upload EXCEPT ![u] = CleanupPlan(u)]
    /\ UNCHANGED <<rows, count, age, ref, object, cleaner, source>>

\* rollback_staged_dedup_blob: look for a row with this hash ...
RollbackCheck(u) ==
    /\ upload[u] = "failed"
    /\ upload' = [upload EXCEPT ![u] =
          IF RowsAt(KeyOf[u]) = {} THEN "rollback" ELSE "done"]
    /\ UNCHANGED <<rows, count, age, ref, object, cleaner, source>>

\* ... and delete the object if there was none.  cleanup_preuploaded_blob_upload
\* deletes its own object without looking.  A failed delete is only logged.
RollbackDelete(u) ==
    /\ upload[u] = "rollback"
    /\ object' \in {object, object \ {KeyOf[u]}}
    /\ upload' = [upload EXCEPT ![u] = "done"]
    /\ UNCHANGED <<rows, count, age, ref, cleaner, source>>

\* The process dies, or the outcome of the commit is not known and the object
\* is kept.
AbandonUpload(u) ==
    /\ upload[u] \in {"found", "created", "failed", "rollback"}
    /\ upload' = [upload EXCEPT ![u] = "done"]
    /\ UNCHANGED <<rows, count, age, ref, object, cleaner, source>>

----------------------------------------------------------------------------
(* References. *)

RefsTo(b) == {r \in Refs : ref[r] = b}

\* copy_file_in_scope and the batch copies read the source file ...
CopyRead(c, r) ==
    /\ ref[c] = NoBlob
    /\ source[c] = NoBlob
    /\ ref[r] # NoBlob
    /\ source' = [source EXCEPT ![c] = ref[r]]
    /\ UNCHANGED <<rows, count, age, ref, object, upload, cleaner>>

\* ... and later, in a transaction, add a reference to the blob they read; the
\* source file is not looked at again.
CopyCommit(c) ==
    /\ source[c] # NoBlob
    /\ MayIncrement(source[c])
    /\ AddRef(c, source[c])
    /\ source' = [source EXCEPT ![c] = NoBlob]
    /\ UNCHANGED <<rows, age, object, upload, cleaner>>

\* The copy is refused: the blob is claimed or gone, the name is taken, the
\* quota is used up; or the process dies.
CopyFails(c) ==
    /\ source[c] # NoBlob
    /\ source' = [source EXCEPT ![c] = NoBlob]
    /\ UNCHANGED <<rows, count, age, ref, object, upload, cleaner>>

\* restore_version_inner: the revision is read with its history locked, in the
\* transaction that adds the reference.
RestoreVersion(v, r) ==
    /\ ref[v] = NoBlob
    /\ ref[r] # NoBlob
    /\ MayIncrement(ref[r])
    /\ AddRef(v, ref[r])
    /\ UNCHANGED <<rows, age, object, upload, source, cleaner>>

\* decrement_blob_ref_count_by: floor 0, without a look at the claim.
Decremented(n, delta) == IF n < delta THEN 0 ELSE n - delta

\* Files are purged or a version deleted: the revisions go in one transaction,
\* and each blob they refer to loses as many counts.
Purge(S) ==
    /\ S # {}
    /\ ref' = [r \in Refs |-> IF r \in S THEN NoBlob ELSE ref[r]]
    /\ count' = [b \in Uploads |->
          IF b \in rows /\ RefsTo(b) \cap S # {}
          THEN Decremented(count[b], Cardinality(RefsTo(b) \cap S))
          ELSE count[b]]
    /\ UNCHANGED <<rows, age, object, upload, cleaner, source>>

----------------------------------------------------------------------------
(* Cleanup. *)

\* ensure_blob_cleanup_if_unreferenced and cleanup_unreferenced_blob read the
\* row and go on only if its count is 0 ...
Load(c, b) ==
    /\ cleaner[c].pc = "idle"
    /\ b \in rows
    /\ count[b] = 0
    /\ cleaner' = [cleaner EXCEPT ![c] = [pc |-> "loaded", blob |-> b]]
    /\ UNCHANGED <<rows, count, age, ref, object, upload, source>>

\* ... claim_blob_cleanup: 0 becomes -1, or another process was faster ...
ClaimCleanup(c) ==
    LET b == cleaner[c].blob
    IN  /\ cleaner[c].pc = "loaded"
        /\ IF b \in rows /\ count[b] = 0
           THEN /\ count' = [count EXCEPT ![b] = Claimed]
                /\ age' = [age EXCEPT ![b] = 0]
                /\ cleaner' = [cleaner EXCEPT ![c].pc = "claimed"]
           ELSE /\ cleaner' = [cleaner EXCEPT ![c] = Idle]
                /\ UNCHANGED <<count, age>>
        /\ UNCHANGED <<rows, ref, object, upload, source>>

\* ... the object (and its thumbnail) is deleted, or was absent already ...
DeleteObject(c) ==
    /\ cleaner[c].pc = "claimed"
    /\ object' = object \ {KeyOf[cleaner[c].blob]}
    /\ cleaner' = [cleaner EXCEPT ![c].pc = "deleted"]
    /\ UNCHANGED <<rows, count, age, ref, upload, source>>

\* ... or a step fails: thumbnail, policy, driver, or the delete itself, after
\* which the object may or may not be gone ...
DeleteFails(c) ==
    /\ cleaner[c].pc = "claimed"
    /\ object' \in {object, object \ {KeyOf[cleaner[c].blob]}}
    /\ cleaner' = [cleaner EXCEPT ![c].pc = "restore"]
    /\ UNCHANGED <<rows, count, age, ref, upload, source>>

\* ... delete_blob_if_cleanup_claimed: the row goes if it is still claimed;
\* otherwise the claim was lost ...
DeleteRow(c) ==
    LET b == cleaner[c].blob
    IN  /\ cleaner[c].pc = "deleted"
        /\ IF b \in rows /\ count[b] = Claimed
           THEN /\ rows' = rows \ {b}
                /\ count' = [count EXCEPT ![b] = 0]
                /\ age' = [age EXCEPT ![b] = 0]
                /\ cleaner' = [cleaner EXCEPT ![c] = Idle]
           ELSE /\ cleaner' = [cleaner EXCEPT ![c].pc = "restore"]
                /\ UNCHANGED <<rows, count, age>>
        /\ UNCHANGED <<ref, object, upload, source>>

\* ... or the database refuses.
DeleteRowFails(c) ==
    /\ cleaner[c].pc = "deleted"
    /\ cleaner' = [cleaner EXCEPT ![c].pc = "restore"]
    /\ UNCHANGED <<rows, count, age, ref, object, upload, source>>

\* restore_blob_cleanup_claim: -1 becomes 0, whoever set it.
RestoreClaim(c) ==
    LET b == cleaner[c].blob
    IN  /\ cleaner[c].pc = "restore"
        /\ IF b \in rows /\ count[b] = Claimed
           THEN /\ count' = [count EXCEPT ![b] = 0]
                /\ age' = [age EXCEPT ![b] = 0]
           ELSE UNCHANGED <<count, age>>
        /\ cleaner' = [cleaner EXCEPT ![c] = Idle]
        /\ UNCHANGED <<rows, ref, object, upload, source>>

CrashCleaner(c) ==
    /\ cleaner[c].pc # "idle"
    /\ cleaner' = [cleaner EXCEPT ![c] = Idle]
    /\ UNCHANGED <<rows, count, age, ref, object, upload, source>>

\* Bug variant: stale claims are not taken back.
Reconcile_NoClaims(b) ==
    /\ b \in rows
    /\ count[b] # Claimed
    /\ count[b] # Cardinality(RefsTo(b))
    /\ count' = [count EXCEPT ![b] = Cardinality(RefsTo(b))]
    /\ age' = [age EXCEPT ![b] = 0]
    /\ UNCHANGED <<rows, ref, object, upload, cleaner, source>>

\* reconcile_single_blob_ref_count, under the row lock: a claim that is not
\* stale is left alone, else the count becomes the number of references.
Reconcile(b) ==
    /\ b \in rows
    /\ count[b] = Claimed => age[b] = ClaimTimeout
    /\ count[b] # Cardinality(RefsTo(b))
    /\ count' = [count EXCEPT ![b] = Cardinality(RefsTo(b))]
    /\ age' = [age EXCEPT ![b] = 0]
    /\ UNCHANGED <<rows, ref, object, upload, cleaner, source>>

\* Cleaners that have claimed a row and not let go of it.
Holds(c, b) == cleaner[c].pc \in {"claimed", "deleted", "restore"} /\ cleaner[c].blob = b

\* Time passes; only the age of a claim matters.
Tick ==
    /\ TimelyCleanup => \A c \in Cleaners, b \in rows :
                           Holds(c, b) => age[b] + 1 < ClaimTimeout
    /\ age' = [b \in Uploads |->
          IF b \in rows /\ count[b] = Claimed /\ age[b] < ClaimTimeout
          THEN age[b] + 1 ELSE age[b]]
    /\ UNCHANGED <<rows, count, ref, object, upload, cleaner, source>>

UploadStep(u) ==
    \/ Stage(u)
    \/ Persist(u)
    \/ FailTransaction(u)
    \/ RollbackCheck(u)
    \/ RollbackDelete(u)
    \/ AbandonUpload(u)

CopyStep(c) ==
    \/ \E r \in Refs : CopyRead(c, r)
    \/ CopyCommit(c)
    \/ CopyFails(c)

CleanerStep(c) ==
    \/ \E b \in Uploads : Load(c, b)
    \/ ClaimCleanup(c)
    \/ DeleteObject(c)
    \/ DeleteFails(c)
    \/ DeleteRow(c)
    \/ DeleteRowFails(c)
    \/ RestoreClaim(c)
    \/ CrashCleaner(c)

Next ==
    \/ \E u \in Uploads : UploadStep(u)
    \/ \E c \in Copies : CopyStep(c)
    \/ \E v \in Versions, r \in Refs : RestoreVersion(v, r)
    \/ \E S \in SUBSET {r \in Refs : ref[r] # NoBlob} : Purge(S)
    \/ \E c \in Cleaners : CleanerStep(c)
    \/ \E b \in Uploads : Reconcile(b)
    \/ Tick

Spec == Init /\ [][Next]_vars

\* Fairness: maintenance runs periodically and looks at every row, and a step
\* of a cleanup that is tried again and again succeeds at last.
Fairness ==
    /\ WF_vars(Tick)
    /\ \A b \in Uploads : /\ WF_vars(Reconcile(b))
                          /\ SF_vars(\E c \in Cleaners : Load(c, b))
    /\ \A c \in Cleaners : /\ SF_vars(ClaimCleanup(c))
                           /\ SF_vars(DeleteObject(c))
                           /\ SF_vars(DeleteRow(c))
                           /\ WF_vars(RestoreClaim(c))

FairSpec == Spec /\ Fairness

----------------------------------------------------------------------------
(* Properties. *)

\* Rows, counts, references and processes have their types.
TypeOK ==
    /\ rows \subseteq Uploads
    /\ count \in [Uploads -> Int] /\ \A b \in Uploads : count[b] >= Claimed
    /\ age \in [Uploads -> 0..ClaimTimeout]
    /\ ref \in [Refs -> Uploads \cup {NoBlob}]
    /\ object \subseteq Keys
    /\ upload \in [Uploads -> {"new", "found", "created", "failed", "rollback", "done"}]
    /\ source \in [Copies -> Uploads \cup {NoBlob}]
    /\ cleaner \in [Cleaners ->
          [pc : {"idle", "loaded", "claimed", "deleted", "restore"},
           blob : Uploads \cup {NoBlob}]]

\* No file revision refers to a blob whose row has been deleted.
RefsHaveRows == \A r \in Refs : ref[r] # NoBlob => ref[r] \in rows

\* ref_count is exact: it is the number of references, and a row that a cleaner
\* has claimed has none, so the decrement that would undo a claim never meets
\* one and no reference is ever added to content about to be deleted.
RefCountExact ==
    \A b \in rows :
        \/ count[b] = Cardinality(RefsTo(b))
        \/ count[b] = Claimed /\ RefsTo(b) = {}

\* The count that cleanup trusts: a revision refers to a row that is there, and the
\* row counts it, however many uploads, copies, purges and cleaners with stale claims
\* run at once (find_or_create_blob, claim_blob_cleanup, delete_blob_if_cleanup_claimed).
RefsCounted == RefsHaveRows /\ RefCountExact

\* At most one row per path: the unique index and find_or_create_blob.
OneRowPerKey == \A b, d \in rows : KeyOf[b] = KeyOf[d] => b = d

\* Content that a file refers to is in the store, for storage that is not
\* content-addressed: through crashes, failed deletes, lost and stale claims.
OwnedContentKept ==
    \A r \in Refs : ref[r] # NoBlob /\ KeyOf[ref[r]] \notin DedupKeys
                        => KeyOf[ref[r]] \in object

\* The same for content-addressed storage.
DedupContentKept ==
    \A r \in Refs : ref[r] # NoBlob /\ KeyOf[ref[r]] \in DedupKeys
                        => KeyOf[ref[r]] \in object

\* A claim is exclusive: two cleaners never work on the same blob past the
\* claim, whatever was restored, lost or taken back before.
ClaimExclusive ==
    \A c, d \in Cleaners, b \in Uploads : Holds(c, b) /\ Holds(d, b) => c = d

\* A row is deleted only while nothing refers to it, and its object is gone
\* when the row goes unless an upload has staged new content at the path.
RowGoesLast ==
    [][\A b \in rows \ rows' :
          /\ RefsTo(b) = {} /\ RefsTo(b)' = {}
          /\ \/ KeyOf[b] \notin object
             \/ \E u \in Uploads : KeyOf[u] = KeyOf[b] /\ u # b /\ upload[u] # "new"]_vars

\* Content without references does not stay: its row is deleted in the end or
\* it is referred to again, also when cleaners crash while they hold a claim.
GarbageCollected ==
    \A b \in Uploads :
        b \in rows /\ RefsTo(b) = {} ~> b \notin rows \/ RefsTo(b) # {}

=============================================================================
