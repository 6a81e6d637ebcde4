---------------------------- MODULE UploadSession ----------------------------
(***************************************************************************)
(* One upload session: the row of upload_sessions, its part rows, the      *)
(* staging directory or provider object it fills, and the requests that    *)
(* work on it at once: chunk PUTs, complete, cancel, and the periodic      *)
(* sweep of expired sessions.  Every request reads the row first and acts  *)
(* later; only the conditional updates of upload_session_repo keep them    *)
(* apart.                                                                  *)
(*                                                                         *)
(* Kinds (aster_drive_model UploadSessionKind, grouped by the code path):  *)
(*   "staging"  OffsetStaging, StreamStaging: chunks in a local file       *)
(*   "relay"    Provider/RemoteRelayMultipart: chunks relayed as parts     *)
(*   "parts"    Provider/RemotePresignedMultipart: browser uploads parts   *)
(*   "single"   Provider/RemotePresignedSingle: browser uploads one object *)
(*   "direct"   ProviderDirectResumable: browser uploads to the provider   *)
(* The completed object of "relay", "parts" and "direct" IS the object at  *)
(* object_temp_key; "single" and "staging" copy to a key of their own.     *)
(***************************************************************************)
EXTENDS Integers, FiniteSets

CONSTANTS
    Scenes,         \* per behaviour: the session's kind, whether the answer to a COMMIT
                    \* may be lost, and the requests that take part
    Parts,          \* the chunks (part numbers) of the upload
    Putters,        \* concurrent chunk PUT requests
    Completers,     \* concurrent complete requests
    Cancels,        \* cancel requests, one each
    SweeperTask,    \* the cleanup_expired task
    LeaseTimeout,   \* ASSEMBLY_LEASE_TIMEOUT_SECS, in ticks
    Grace,          \* DEFERRED_UPLOAD_SESSION_CLEANUP_GRACE_SECS, in ticks
    SessionTtl      \* expires_at - created_at, in ticks

ASSUME UploadAssumption ==
    /\ Scenes \subseteq [kind : {"staging", "relay", "parts", "single", "direct"},
                       lossy : BOOLEAN, crew : SUBSET (Putters \cup Completers)]
    /\ IsFiniteSet(Parts) /\ Parts # {} /\ Parts \subseteq Nat \ {0}
    /\ LeaseTimeout \in Nat \ {0} /\ Grace \in Nat /\ SessionTtl \in Nat
    /\ SweeperTask \notin Putters \cup Cancels
    /\ Putters \cap Cancels = {}

VARIABLES
    sess,    \* the upload_sessions row: kind, status, count, age of updated_at, ttl;
             \* and the scene's choices
    part,    \* upload_session_parts: "none", "claimed" (empty etag) or "done"
    staged,  \* the temp dir of the session: present?, chunks written
    store,   \* the provider: multipart/session open, parts, temp object, finals
    files,   \* per completion: "none", or which object its file row points to
    comp,    \* the complete requests
    agent    \* chunk PUTs, cancels and the sweeper

upVars == <<sess, part, staged, store, files, comp, agent>>

Agents == Putters \cup Cancels \cup {SweeperTask}
Statuses == {"uploading", "presigned", "assembling", "completed", "failed", "deleted"}
Total == Cardinality(Parts)
Idle == [pc |-> "idle", n |-> 0, seen |-> "deleted"]

\* The status a session of this kind is created in and completed from.
ActiveStatus(kind) == IF kind \in {"parts", "single"} THEN "presigned" ELSE "uploading"
Multipart == sess.kind \in {"relay", "parts"}
Expired == sess.ttl = 0

-----------------------------------------------------------------------------
(* The row, as upload_session_repo changes it.                             *)

Transition(status) == [sess EXCEPT !.status = status, !.age = 0]
FailWithExpiration(ttl) == [sess EXCEPT !.status = "failed", !.age = 0, !.ttl = ttl]

\* Deleting the row cascades to its parts.
DeleteRow ==
    /\ sess' = [sess EXCEPT !.status = "deleted"]
    /\ part' = [n \in Parts |-> "none"]

-----------------------------------------------------------------------------
(* Browser uploads straight to the provider; the presigned URL or upload   *)
(* session outlives the row, so they may land at any time.                 *)

BrowserPut ==
    /\ \/ /\ sess.kind = "single"
          /\ store' = [store EXCEPT !.temp = Parts]
       \/ /\ sess.kind = "direct" /\ store.open
          /\ store' = [store EXCEPT !.temp = Parts, !.open = FALSE]
       \/ /\ sess.kind = "parts" /\ store.open
          /\ \E n \in Parts : store' = [store EXCEPT !.parts = @ \cup {n}]
    /\ UNCHANGED <<sess, part, staged, files, comp, agent>>

-----------------------------------------------------------------------------
(* Chunk PUT: upload_chunk_impl under run_upload_stage_operation.          *)

Chunk(p) == agent[p].n
At(a, pc) == agent[a].pc = pc
Goto(a, pc) == agent' = [agent EXCEPT ![a].pc = pc]
Leave(a) == agent' = [agent EXCEPT ![a] = Idle]

\* An error either keeps the session (PreserveSession) or goes on to end it.
PutError(p) == \/ Leave(p) \/ Goto(p, "terminate")

\* A PUT refused up front (session expired, wrong chunk size) also ends the session.
PutRefused(p) ==
    /\ At(p, "idle") /\ p \in sess.crew
    /\ sess.kind \in {"staging", "relay"} /\ sess.status = "uploading"
    /\ agent' = [agent EXCEPT ![p] = [pc |-> "terminate", n |-> 0, seen |-> "uploading"]]
    /\ UNCHANGED <<sess, part, staged, store, files, comp>>

\* The chunk file lock of the staging path; a stored receipt is answered OK.
PutStaged(p, n) ==
    /\ sess.kind = "staging"
    /\ At(p, "idle") /\ p \in sess.crew
    /\ sess.status = "uploading" /\ ~Expired
    /\ staged.dir
    /\ part[n] = "none"
    /\ \A q \in Putters : Chunk(q) = n => agent[q].pc \notin {"write", "receipt"}
    /\ agent' = [agent EXCEPT ![p] = [pc |-> "write", n |-> n, seen |-> "uploading"]]
    /\ UNCHANGED <<sess, part, staged, store, files, comp>>

\* write_chunk_to_staging_file: the range is written and synced, or the write fails.
PutWrite(p) ==
    /\ At(p, "write")
    /\ \/ /\ staged.dir
          /\ staged' = [staged EXCEPT !.written = @ \cup {Chunk(p)}]
          /\ Goto(p, "receipt")
       \/ /\ PutError(p)
          /\ UNCHANGED staged
    /\ UNCHANGED <<sess, part, store, files, comp>>

\* commit_staged_chunk_receipt: receipt and received_count in one transaction,
\* rolled back when the session no longer is uploading.
PutReceipt(p) ==
    /\ At(p, "receipt")
    /\ IF sess.status = "uploading"
       THEN /\ part' = [part EXCEPT ![Chunk(p)] = "done"]
            /\ sess' = [sess EXCEPT !.count = @ + 1, !.age = 0]
            /\ Leave(p)
       ELSE /\ Goto(p, "terminate")
            /\ UNCHANGED <<sess, part>>
    /\ UNCHANGED <<staged, store, files, comp>>

\* try_claim_part: a part that is claimed or stored is answered OK at once.
PutClaim(p, n) ==
    /\ sess.kind = "relay"
    /\ At(p, "idle") /\ p \in sess.crew
    /\ sess.status = "uploading" /\ ~Expired
    /\ part[n] = "none"
    /\ part' = [part EXCEPT ![n] = "claimed"]
    /\ agent' = [agent EXCEPT ![p] = [pc |-> "relay", n |-> n, seen |-> "uploading"]]
    /\ UNCHANGED <<sess, staged, store, files, comp>>

\* delete_by_upload_and_part: the claim is released by its number alone.
ReleaseClaim(p) == part' = [part EXCEPT ![Chunk(p)] = "none"]

\* upload_multipart_part_*: the provider stores the part, or the claim is released.
PutRelay(p) ==
    /\ At(p, "relay")
    /\ \/ /\ store.open
          /\ store' = [store EXCEPT !.parts = @ \cup {Chunk(p)}]
          /\ Goto(p, "stored")
          /\ UNCHANGED part
       \/ /\ ReleaseClaim(p)
          /\ PutError(p)
          /\ UNCHANGED store
    /\ UNCHANGED <<sess, staged, files, comp>>

\* upsert_part and received_count in one transaction; a failed transaction, or one
\* whose answer is lost, releases the part row again.
PutRelayCommit(p) ==
    /\ At(p, "stored")
    /\ \/ /\ sess.status = "uploading"
          /\ part' = [part EXCEPT ![Chunk(p)] = "done"]
          /\ sess' = [sess EXCEPT !.count = @ + 1, !.age = 0]
          /\ Leave(p)
       \/ /\ sess.status = "uploading" /\ sess.lossy
          /\ sess.count < Total      \* bound
          /\ ReleaseClaim(p)
          /\ sess' = [sess EXCEPT !.count = @ + 1, !.age = 0]
          /\ Leave(p)
       \/ /\ ReleaseClaim(p)
          /\ \/ Leave(p)
             \/ sess.status # "uploading" /\ Goto(p, "terminate")
          /\ UNCHANGED sess
    /\ UNCHANGED <<staged, store, files, comp>>

\* terminate_upload_stage_session: only a session still in the status the request
\* read is failed, then cleaned like a cancelled one.
PutTerminate(p) ==
    /\ At(p, "terminate")
    /\ IF sess.status = agent[p].seen
       THEN /\ sess' = FailWithExpiration(Grace)
            /\ Goto(p, "clean")
       ELSE /\ Leave(p)
            /\ UNCHANGED sess
    /\ UNCHANGED <<part, staged, store, files, comp>>

-----------------------------------------------------------------------------
(* Cancel: cancel_upload_impl on the row it read.                          *)

CancelRead(k) ==
    /\ At(k, "idle")
    /\ sess.status # "deleted"
    /\ agent' = [agent EXCEPT ![k] = [pc |-> "cancel", n |-> 0, seen |-> sess.status]]
    /\ UNCHANGED <<sess, part, staged, store, files, comp>>

CancelClaim(k) ==
    /\ At(k, "cancel")
    /\ LET seen == agent[k].seen IN
       \/ /\ seen = "assembling" /\ sess.status = seen
          /\ sess' = FailWithExpiration(LeaseTimeout)
          /\ staged' = [dir |-> FALSE, written |-> {}]
          /\ Goto(k, "done")
       \/ /\ seen \in {"uploading", "presigned", "failed"} /\ sess.status = seen
          /\ sess' = FailWithExpiration(Grace)
          /\ Goto(k, "clean")
          /\ UNCHANGED staged
       \/ /\ seen = "completed" \/ sess.status # seen
          /\ Goto(k, "done")
          /\ UNCHANGED <<sess, staged>>
    /\ UNCHANGED <<part, store, files, comp>>

-----------------------------------------------------------------------------
(* Sweep: cleanup_expired on one row that find_expired returned.           *)

\* Mutant: sessions that are assembling are left alone.
SweepRead_SkipsAssembling ==
    /\ At(SweeperTask, "idle")
    /\ Expired
    /\ sess.status \in {"uploading", "presigned", "failed"}
    /\ sess.status = "failed" => sess.age >= LeaseTimeout
    /\ agent' = [agent EXCEPT ![SweeperTask] = [pc |-> "clean", n |-> 0, seen |-> sess.status]]
    /\ UNCHANGED <<sess, part, staged, store, files, comp>>

SweepRead ==
    /\ At(SweeperTask, "idle")
    /\ Expired
    /\ sess.status \in {"uploading", "presigned", "failed", "assembling"}
    /\ sess.status \in {"failed", "assembling"} => sess.age >= LeaseTimeout
    /\ agent' = [agent EXCEPT ![SweeperTask] =
            [pc |-> IF sess.status = "assembling" THEN "stale" ELSE "clean",
             n |-> 0, seen |-> sess.status]]
    /\ UNCHANGED <<sess, part, staged, store, files, comp>>

\* try_fail_with_expiration_if_lease_stale
SweepStale ==
    /\ At(SweeperTask, "stale")
    /\ IF sess.status = "assembling" /\ sess.age >= LeaseTimeout
       THEN sess' = FailWithExpiration(Grace) /\ Goto(SweeperTask, "clean")
       ELSE Leave(SweeperTask) /\ UNCHANGED sess
    /\ UNCHANGED <<part, staged, store, files, comp>>

-----------------------------------------------------------------------------
(* What every one of them ends with: cleanup_remote_upload_state, the temp *)
(* dir, and the row once the provider confirmed.                           *)

\* The multipart upload or provider session is aborted, then the temp object deleted.
Cleaned == [store EXCEPT !.open = FALSE, !.parts = {}, !.temp = {}]
Finished(a) == IF a \in Cancels THEN Goto(a, "done") ELSE Leave(a)

Clean(a) ==
    /\ At(a, "clean")
    /\ staged' = [dir |-> FALSE, written |-> {}]
    /\ \/ /\ sess.kind = "staging"
          /\ Goto(a, "delete")
          /\ UNCHANGED store
       \/ /\ sess.kind # "staging"
          /\ store' = Cleaned
          /\ Goto(a, "delete")
    /\ UNCHANGED <<sess, part, files, comp>>

\* Mutant: the row goes although the provider refused.
CleanBlocked_GoesOn(a) ==
    /\ At(a, "clean")
    /\ sess.kind # "staging"
    /\ staged' = [dir |-> FALSE, written |-> {}]
    /\ Goto(a, "delete")
    /\ UNCHANGED <<sess, part, store, files, comp>>

\* The provider refuses (Deferred...): the row stays for a later sweep.
CleanBlocked(a) ==
    /\ At(a, "clean")
    /\ sess.kind # "staging"
    /\ staged' = [dir |-> FALSE, written |-> {}]
    /\ store' \in {store, [store EXCEPT !.open = FALSE, !.parts = {}]}
    /\ Finished(a)
    /\ UNCHANGED <<sess, part, files, comp>>

\* delete_if_cancellable for a cancel, delete for the others.
Delete(a) ==
    /\ At(a, "delete")
    /\ IF a \in Cancels => sess.status \in {"uploading", "presigned", "failed"}
       THEN DeleteRow
       ELSE UNCHANGED <<sess, part>>
    /\ Finished(a)
    /\ UNCHANGED <<staged, store, files, comp>>

\* The request is dropped (client gone, process restarted) wherever it is.
AgentDrops(a) ==
    /\ agent[a].pc \notin {"idle", "done"}
    /\ Finished(a)
    /\ UNCHANGED <<sess, part, staged, store, files, comp>>

-----------------------------------------------------------------------------
(* Complete: complete_upload_impl_with_hints.                              *)

CompAt(c, pc) == comp[c] = pc
CompGoto(c, pc) == comp' = [comp EXCEPT ![c] = pc]

\* The read and what is checked on it before anything is claimed.
CompletionReady ==
    /\ sess.status = ActiveStatus(sess.kind) /\ ~Expired
    /\ sess.kind = "staging" => sess.count = Total
    /\ sess.kind = "relay" => \A n \in Parts : part[n] = "done"
    /\ sess.kind \in {"single", "direct"} => store.temp = Parts

CompleteRead(c) ==
    /\ CompAt(c, "idle") /\ c \in sess.crew
    /\ CompletionReady
    /\ CompGoto(c, "ready")
    /\ UNCHANGED <<sess, part, staged, store, files, agent>>

\* Mutant: the claim tests the status only, not expires_at.
CompleteClaim_AnyTime(c) ==
    /\ CompAt(c, "ready")
    /\ IF sess.status = ActiveStatus(sess.kind)
       THEN /\ sess' = Transition("assembling")
            /\ CompGoto(c, IF sess.kind = "direct" THEN "stored" ELSE "assemble")
       ELSE CompGoto(c, "idle") /\ UNCHANGED sess
    /\ UNCHANGED <<part, staged, store, files, agent>>

\* transition_upload_session_to_assembling
CompleteClaim(c) ==
    /\ CompAt(c, "ready")
    /\ IF sess.status = ActiveStatus(sess.kind) /\ ~Expired
       THEN /\ sess' = Transition("assembling")
            /\ CompGoto(c, IF sess.kind = "direct" THEN "stored" ELSE "assemble")
       ELSE CompGoto(c, "idle") /\ UNCHANGED sess
    /\ UNCHANGED <<part, staged, store, files, agent>>

\* finalize_chunked_upload_session, copy_presigned_object_to_final_key: the content
\* goes to a key of this completion's own.
StoreCopy(c) ==
    /\ CompAt(c, "assemble")
    /\ \/ /\ sess.kind = "staging"
          /\ staged.dir
          /\ \A n \in Parts : part[n] = "done"
          /\ store' = [store EXCEPT !.final[c] = staged.written]
       \/ /\ sess.kind = "single"
          /\ store.temp # {}
          /\ store' = [store EXCEPT !.final[c] = store.temp]
    /\ CompGoto(c, "stored")
    /\ UNCHANGED <<sess, part, staged, files, agent>>

\* Mutant: the parts the provider lists are not compared with the plan.
VerifyParts_Any(c) ==
    /\ CompAt(c, "assemble") /\ Multipart /\ store.open
    /\ CompGoto(c, "verified")
    /\ UNCHANGED <<sess, part, staged, store, files, agent>>

\* verify_uploaded_multipart_parts and the quota check pass; or they fail for good and
\* abort the multipart upload.
VerifyParts(c) ==
    /\ CompAt(c, "assemble") /\ Multipart /\ store.open
    /\ \/ /\ store.parts = Parts
          /\ CompGoto(c, "verified")
          /\ UNCHANGED store
       \/ /\ CompGoto(c, "fatal")
          /\ store' \in {store, [store EXCEPT !.open = FALSE, !.parts = {}]}
    /\ UNCHANGED <<sess, part, staged, files, agent>>

\* complete_multipart_upload; its answer may be lost, and the object then found by
\* ensure_uploaded_object_size.
CompleteParts(c) ==
    /\ CompAt(c, "verified") /\ store.open
    /\ store' = [store EXCEPT !.open = FALSE, !.temp = store.parts, !.parts = {}]
    /\ \/ CompGoto(c, "stored")
       \/ CompGoto(c, "retryable")
    /\ UNCHANGED <<sess, part, staged, files, agent>>

\* Any storage step may fail instead, retryably or for good.
StoreFails(c) ==
    /\ comp[c] \in {"assemble", "verified"}
    /\ comp' \in {[comp EXCEPT ![c] = "retryable"], [comp EXCEPT ![c] = "fatal"]}
    /\ UNCHANGED <<sess, part, staged, store, files, agent>>

\* cleanup_verified_upload_after_db_failure by the plan of the verified object: a copy
\* and a provider object are deleted, a completed multipart object is kept.
AfterRollback(c) ==
    IF Multipart THEN store
    ELSE IF sess.kind = "direct" THEN [store EXCEPT !.temp = {}]
    ELSE [store EXCEPT !.final[c] = {}]

FileObject == IF sess.kind \in {"staging", "single"} THEN "final" ELSE "temp"

\* Mutant: the session is not marked completed in the transaction of the file.
Finalize_Unmarked(c) ==
    /\ CompAt(c, "stored")
    /\ sess.status = "assembling"
    /\ files' = [files EXCEPT ![c] = FileObject]
    /\ CompGoto(c, "committed")
    /\ UNCHANGED <<sess, part, staged, store, agent>>

\* The transaction of finalize_upload_session_file: file, quota, complete_if_assembling.
Finalize(c) ==
    /\ CompAt(c, "stored")
    /\ sess.status = "assembling"
    /\ sess' = Transition("completed")
    /\ files' = [files EXCEPT ![c] = FileObject]
    /\ CompGoto(c, "committed")
    /\ UNCHANGED <<part, staged, store, agent>>

\* The transaction rolls back: the session was failed meanwhile, or the quota, a lock
\* or the database refused.
FinalizeRollsBack(c) ==
    /\ CompAt(c, "stored")
    /\ store' = AfterRollback(c)
    /\ CompGoto(c, "fatal")
    /\ UNCHANGED <<sess, part, staged, files, agent>>

\* COMMIT fails with an unknown outcome: the object is kept either way.
FinalizeUnknown(c) ==
    /\ sess.lossy
    /\ CompAt(c, "stored")
    /\ \/ /\ sess.status = "assembling"
          /\ sess' = Transition("completed")
          /\ files' = [files EXCEPT ![c] = FileObject]
       \/ UNCHANGED <<sess, files>>
    /\ CompGoto(c, "fatal")
    /\ UNCHANGED <<part, staged, store, agent>>

\* After the commit: the temp dir, and the temp object of a copied upload (best effort).
CompleteTidies(c) ==
    /\ CompAt(c, "committed")
    /\ staged' = [dir |-> FALSE, written |-> {}]
    /\ \/ sess.kind = "single" /\ store' = [store EXCEPT !.temp = {}]
       \/ UNCHANGED store
    /\ CompGoto(c, "idle")
    /\ UNCHANGED <<sess, part, files, agent>>

\* restore_session_status_after_retryable_completion_error
RestoreStatus(c) ==
    /\ CompAt(c, "retryable")
    /\ sess' = IF sess.status = "assembling" THEN Transition(ActiveStatus(sess.kind)) ELSE sess
    /\ CompGoto(c, "idle")
    /\ UNCHANGED <<part, staged, store, files, agent>>

\* mark_session_failed: an update by id, whatever the status has become.
MarkFailed(c) ==
    /\ CompAt(c, "fatal")
    /\ sess' = IF sess.status = "deleted" THEN sess ELSE Transition("failed")
    /\ CompGoto(c, "idle")
    /\ UNCHANGED <<part, staged, store, files, agent>>

\* run_with_assembly_lease: touch_assembling, or the completion is dropped where it is.
RefreshLease(c) ==
    /\ comp[c] # "idle"
    /\ IF sess.status = "assembling"
       THEN sess' = [sess EXCEPT !.age = 0] /\ UNCHANGED comp
       ELSE CompGoto(c, "idle") /\ UNCHANGED sess
    /\ UNCHANGED <<part, staged, store, files, agent>>

CompleterDrops(c) ==
    /\ comp[c] # "idle"
    /\ CompGoto(c, "idle")
    /\ UNCHANGED <<sess, part, staged, store, files, agent>>

-----------------------------------------------------------------------------
\* One tick of the wall clock, for updated_at and expires_at alike.
UploadTick ==
    /\ sess' = [sess EXCEPT !.age = IF @ < LeaseTimeout THEN @ + 1 ELSE @,
                            !.ttl = IF @ > 0 THEN @ - 1 ELSE @]
    /\ sess' # sess
    /\ UNCHANGED <<part, staged, store, files, comp, agent>>

UploadInit ==
    /\ \E s \in Scenes :
          /\ sess = [kind |-> s.kind, status |-> ActiveStatus(s.kind), count |-> 0, age |-> 0,
                     ttl |-> SessionTtl, lossy |-> s.lossy, crew |-> s.crew]
          /\ staged = [dir |-> s.kind = "staging", written |-> {}]
          /\ store = [open |-> s.kind \in {"relay", "parts", "direct"}, parts |-> {},
                      temp |-> {}, final |-> [c \in Completers |-> {}]]
    /\ part = [n \in Parts |-> "none"]
    /\ files = [c \in Completers |-> "none"]
    /\ comp = [c \in Completers |-> "idle"]
    /\ agent = [a \in Agents |-> Idle]

PutNext(p) ==
    \/ \E n \in Parts : PutStaged(p, n) \/ PutClaim(p, n)
    \/ PutRefused(p) \/ PutWrite(p) \/ PutReceipt(p) \/ PutRelay(p) \/ PutRelayCommit(p) \/ PutTerminate(p)

CompleteWork(c) ==
    \/ CompleteClaim(c) \/ StoreCopy(c) \/ VerifyParts(c) \/ CompleteParts(c) \/ StoreFails(c)
    \/ Finalize(c) \/ FinalizeRollsBack(c) \/ FinalizeUnknown(c)
    \/ CompleteTidies(c) \/ RestoreStatus(c) \/ MarkFailed(c)

UploadNext ==
    \/ BrowserPut \/ UploadTick \/ SweepRead \/ SweepStale
    \/ \E p \in Putters : PutNext(p)
    \/ \E k \in Cancels : CancelRead(k) \/ CancelClaim(k)
    \/ \E a \in Agents : Clean(a) \/ CleanBlocked(a) \/ Delete(a) \/ AgentDrops(a)
    \/ \E c \in Completers :
          CompleteRead(c) \/ CompleteWork(c) \/ RefreshLease(c) \/ CompleterDrops(c)

UploadSpec == UploadInit /\ [][UploadNext]_upVars

\* The periodic task keeps running, a started request keeps being polled, and a
\* provider that refuses a cleanup does not refuse every one.
UploadFair ==
    /\ WF_upVars(UploadTick) /\ WF_upVars(SweepRead) /\ SF_upVars(SweepStale)
    /\ SF_upVars(Clean(SweeperTask)) /\ SF_upVars(Delete(SweeperTask))
    /\ WF_upVars(CleanBlocked(SweeperTask) \/ AgentDrops(SweeperTask))
    /\ \A c \in Completers : WF_upVars(CompleteWork(c))

UploadFairSpec == UploadSpec /\ UploadFair

-----------------------------------------------------------------------------
AgentPcs == {"idle", "write", "receipt", "relay", "stored", "terminate", "cancel",
             "stale", "clean", "delete", "done"}
CompPcs == {"idle", "ready", "assemble", "verified", "stored", "committed",
            "retryable", "fatal"}

\* finalize.rs: a session that reads "completed" has exactly one file, and no
\* interleaving of completes, cancels and sweeps leaves a second one or a file of a
\* session that is reported cancelled.  (A COMMIT whose answer is lost can do the latter.)
OneFilePerSession ==
    LET done == {c \in Completers : files[c] # "none"} IN
    /\ Cardinality(done) <= 1
    /\ sess.status = "completed" => done # {}
    /\ sess.status # "completed" /\ ~sess.lossy => done = {}

\* The object behind a created file holds every chunk and outlives whatever cancels,
\* sweeps and rollbacks still do to object_temp_key: always when it was copied to a key
\* of its own, and while answers are not lost when it is the object at that key.
FileWhole ==
    \A c \in Completers :
        /\ files[c] = "temp" /\ ~sess.lossy => store.temp = Parts
        /\ files[c] = "final" => store.final[c] = Parts

\* received_count is the number of stored chunks as long as chunks are accepted: the
\* receipt and the increment are one transaction, and a chunk is never counted twice.
\* Only a relayed part whose COMMIT is lost may be counted without being kept.
CountExact ==
    sess.kind \in {"staging", "relay"} /\ sess.status = "uploading" =>
        LET kept == Cardinality({n \in Parts : part[n] = "done"}) IN
        /\ sess.count >= kept
        /\ sess.kind = "staging" \/ ~sess.lossy => sess.count = kept

\* Chunks are accounted for from their receipt to the file (commit_staged_chunk_receipt,
\* require_all_chunks_received, finalize).
ChunksKept == CountExact /\ FileWhole

\* Once a session row is gone, the provider holds neither an open upload nor an object
\* for it: the row is the only record that something is left to clean.
RowGoesAfterRemote ==
    sess.status = "deleted" /\ sess.kind \in {"relay", "parts", "direct"} =>
        ~store.open /\ store.temp = {} /\ store.parts = {}

\* While a session is assembling nobody but the completing request takes away its
\* chunks, parts or object: cancels defer to the lease and the sweep to expiry.
AssemblyUndisturbed ==
    [][sess.status = "assembling" /\ sess'.status = "assembling" /\ comp' = comp =>
          /\ staged.written \subseteq staged'.written
          /\ store.parts \subseteq store'.parts
          /\ store.temp \subseteq store'.temp]_upVars

\* upload_session_repo.rs:95 "Completed sessions are retained for response-loss
\* reconciliation and result replay": no step takes a session out of "completed".
CompletedRetained ==
    [][sess.status = "completed" => sess'.status = "completed"]_upVars

\* A session does not linger: it ends completed or is swept away, however requests
\* crash, stall or fail on the way.
SessionSettles == <>[](sess.status \in {"completed", "deleted"})

=============================================================================
