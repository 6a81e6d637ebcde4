----------------------- MODULE MigrationObjectsProofs -----------------------
(***************************************************************************)
(* The objects and the checkpoint of a migration: the steps keep ObjectInv *)
(* and CursorInv, the last layers of the invariant of StorageMigration.    *)
(***************************************************************************)
EXTENDS StorageMigrationProofs

\* Steps that name no prover are Zenon's; arithmetic goes to Z3, by two routes.
USE ZenonT(60)

(***************************************************************************)
(* Objects are where the rows say.                                         *)
(***************************************************************************)
\* A row of the source has its object unless it was missing at first,
SourceStored ==
    \A i \in MgIds : row[i].pol = "src" /\ row[i].key # EmptyKey /\ i \notin scene.missing =>
       Stored("src", row[i].key, ContentOf(i))

\* and a row of the target has it.
TargetStored ==
    \A i \in MgIds : row[i].pol = "tgt" /\ row[i].key # EmptyKey =>
       Stored("tgt", row[i].key, ContentOf(i))

\* What was verified is there when the row moves,
CopyStored(a) ==
    MgAt(a, "move") /\ MgCommits(a) /\ mg[a].key # EmptyKey /\ row[mg[a].id].pol = "src" =>
       Stored("tgt", mg[a].key, ContentOf(mg[a].id))

\* and what is undone no row names.
UndoUnnamed(a) ==
    MgAt(a, "undodelete") /\ MgActive(a) =>
       \A t \in MgIds : ~(row[t].pol = "tgt" /\ row[t].key = mg[a].key)

ObjectInv ==
    SourceStored /\ TargetStored /\ \A a \in Attempts : CopyStored(a) /\ UndoUnnamed(a)

\* Objects that stay when one is written or deleted.
LEMMA PutStored ==
  ASSUME NEW q, NEW l, NEW d, NEW p, NEW k, NEW c, Stored(q, l, d), store' = Put(p, k, c),
         q = p /\ l = k => d = c
  PROVE  <<q, l, d>> \in store'
<1>1. <<q, l, d>>[1] = q /\ <<q, l, d>>[2] = l
  OBVIOUS
<1>2. CASE q = p /\ l = k
  BY <1>2 DEF Put
<1>3. CASE ~(q = p /\ l = k)
  BY <1>1, <1>3 DEF Put, ObjectAt, Stored
<1> QED BY <1>2, <1>3

\* The same for a deletion.
LEMMA DropStored ==
  ASSUME NEW q, NEW l, NEW d, NEW p, NEW k, Stored(q, l, d), store' = store \ ObjectAt(p, k),
         ~(q = p /\ l = k)
  PROVE  <<q, l, d>> \in store'
<1>1. <<q, l, d>>[1] = q /\ <<q, l, d>>[2] = l
  OBVIOUS
<1> QED BY <1>1 DEF ObjectAt, Stored

\* Content that goes by one key is the same.
LEMMA SceneContent ==
  ASSUME NEW s \in MgScenes, NEW i \in MgIds, s.start[i].pol # "none",
         s.start[i].key \in ContentKeys \cup {EmptyKey}
  PROVE  /\ \A j \in MgIds : s.start[j].pol # "none" /\ s.start[j].key = s.start[i].key =>
               s.content[i] = s.content[j]
         /\ s.uploads /\ s.start[i].key = s.upkey => s.content[i] = s.content[Max(MgIds)]
  BY SceneAssumption, ZenonT(30)

\* What was uploaded under a key is what its row had.
LEMMA UploadContent ==
  ASSUME Types, RowsInv, NEW t \in MgIds, row[t].pol = "tgt", row[t].key = scene.upkey, scene.uploads
  PROVE  ContentOf(t) = ContentOf(Max(MgIds))
<1>1. \A a \in Attempts : FreshKeys[a][t] # scene.upkey
  BY SMTT(60), Z3T(60), FreshKeyAssumption DEF Types
<1>2. scene \in MgScenes /\ scene.upkey \in ContentKeys \cup {EmptyKey}
  BY SceneAssumption DEF Types
<1>3. CASE scene.start[t].pol # "none" /\ row[t].key = StartKey(t)
  BY <1>2, <1>3, SceneContent DEF StartKey, ContentOf
<1>4. CASE t = Max(MgIds)
  BY <1>4
<1> QED BY <1>1, <1>3, <1>4 DEF RowsInv, TargetInv

\* What an attempt writes under a hash is what the rows with that hash have.
LEMMA JobContent ==
  ASSUME Types, RowsInv, NEW a \in Attempts, JobInv(a), mg[a].pc \in Writing \cup Undoing \cup Tidying,
         Mergeable(mg[a].key)
  PROVE  /\ \A t \in MgIds : row[t].pol = "tgt" /\ row[t].key = mg[a].key =>
                ContentOf(t) = ContentOf(mg[a].id)
         /\ scene.uploads /\ mg[a].key = scene.upkey => ContentOf(mg[a].id) = ContentOf(Max(MgIds))
<1> DEFINE i == mg[a].id
<1>1. /\ i \in MgIds /\ FromSource(i) /\ mg[a].key = StartKey(i) /\ scene \in MgScenes
      /\ StartKey(i) \in ContentKeys \cup {EmptyKey}
  BY NewKey DEF JobInv, JobKey, Types, Mergeable
<1>2. scene.uploads /\ mg[a].key = scene.upkey => ContentOf(i) = ContentOf(Max(MgIds))
  BY <1>1, SceneContent DEF StartKey, FromSource, ContentOf
<1>3. ASSUME NEW t \in MgIds, row[t].pol = "tgt", row[t].key = mg[a].key
      PROVE  ContentOf(t) = ContentOf(i)
  <2>1. CASE scene.start[t].pol # "none" /\ row[t].key = StartKey(t)
    BY <1>1, <1>3, <2>1, SceneContent DEF StartKey, FromSource, ContentOf
  <2>2. CASE scene.uploads /\ t = Max(MgIds) /\ row[t].key = scene.upkey
    BY <1>2, <1>3, <2>2
  <2>3. \A b \in Attempts : row[t].key # FreshKeys[b][t]
    BY <1>3, NewKey
  <2> QED BY <1>3, <2>1, <2>2, <2>3 DEF RowsInv, TargetInv
<1> QED BY <1>2, <1>3

-----------------------------------------------------------------------------
\* What a step may do to the objects: an attempt writes its blob's content,
Writes(a) == MgAt(a, "copy") /\ store' = Put("tgt", mg[a].key, ContentOf(mg[a].id))

\* an upload its own,
Uploads == scene.uploads /\ scene.upkey # EmptyKey
           /\ store' = Put("tgt", scene.upkey, ContentOf(Max(MgIds)))

\* an attempt deletes what it copied,
Discards(a) ==
    /\ MgAt(a, "delete") \/ (MgAt(a, "undodelete") /\ MgActive(a))
    /\ store' = store \ ObjectAt("tgt", mg[a].key)

\* or the cleaner what was its row's.
Cleans ==
    /\ sweep # NoSweep /\ sweep.id \in MgIds
    /\ store' = store \ ObjectAt(sweep.pol, sweep.key) /\ row'[sweep.id].pol = "none"

StoreStep ==
    store' = store \/ Uploads \/ Cleans \/ \E a \in Attempts : Writes(a) \/ Discards(a)

\* Nothing else changes objects.
LEMMA StepStore ==
  ASSUME MergeInv, CountInv, PlaceInv, MigrationNext
  PROVE  StoreStep
<1> USE DEF MergeInv
<1>1. ASSUME NEW a \in Attempts, MgCopy(a) PROVE StoreStep
  BY <1>1, CopyFields DEF StoreStep, Writes, MgCopy
<1>2. ASSUME NEW a \in Attempts, MgDelete(a) \/ MgUndoDelete(a) PROVE StoreStep
  BY <1>2 DEF StoreStep, Discards, MgDelete, MgUndoDelete
<1>3. ASSUME NEW r \in MgRevs, Uploaded(r) PROVE StoreStep
  <2>1. PICK i \in MgIds : UploadsRow(r, i)
    BY <1>3, UploadRows
  <2> QED BY <2>1 DEF StoreStep, Uploads, UploadsRow
<1>4. CASE SweepDeletes
  <2>1. sweep.id \in MgIds /\ row[sweep.id].count = 0 - 1 /\ sweep # NoSweep
    BY SMTT(60), Z3T(60), <1>4, SweepHasRow DEF SweepDeletes, CountInv, NoSweep
  <2>2. DropsRow(sweep.id)
    BY <1>4, <2>1, SweepRows
  <2> QED BY <1>4, <2>1, <2>2 DEF StoreStep, Cleans, DropsRow, SweepDeletes
<1>5. CASE store' = store
  BY <1>5 DEF StoreStep
<1> QED BY <1>1, <1>2, <1>3, <1>4, <1>5 DEF MigrationNext, MgClaim, MgStops, MgScan, MgEmpties,
          MgEmptyDone, MgNext, MgVerify, MgMove, MgMerge, MgTidy, MgUndo, RefDropped, RefCopied,
          SweepLoads, SweepClaims

\* The objects of the source stay for the rows that stay there.
LEMMA SourceStays ==
  ASSUME MergeInv, CountInv, PlaceInv, ObjectInv, RowStep, StoreStep
  PROVE  SourceStored'
<1> USE DEF MergeInv, PlaceInv, RowsInv
<1> SUFFICES ASSUME NEW i \in MgIds, row'[i].pol = "src", row'[i].key # EmptyKey,
                    i \notin scene'.missing
             PROVE  Stored("src", row[i].key, ContentOf(i))' /\ row'[i].key = row[i].key
  BY DEF SourceStored, Stored, ContentOf
<1>1. scene' = scene /\ scene \in MgScenes
  BY DEF RowStep, Types
<1>2. row[i].pol = "src" /\ row'[i].key = row[i].key
  BY DEF RowStep, RowsStay, StaysRow, RowLeaves, RowMade, RowMoves
<1>3. FromSource(i) /\ row[i].key = StartKey(i) /\ Stored("src", row[i].key, ContentOf(i))
  BY <1>1, <1>2 DEF SourceInv, ObjectInv, SourceStored
<1> DEFINE k == row[i].key
           c == ContentOf(i)
<1>4. CASE store' = store
  BY <1>1, <1>2, <1>3, <1>4 DEF Stored, ContentOf
<1>5. ASSUME NEW l, NEW d, store' = Put("tgt", l, d) PROVE <<"src", k, c>> \in store'
  BY <1>3, <1>5, PutStored
<1>6. ASSUME NEW l, store' = store \ ObjectAt("tgt", l) PROVE <<"src", k, c>> \in store'
  BY <1>3, <1>6, DropStored
<1>7. CASE Cleans
  <2>1. i # sweep.id
    BY <1>7 DEF Cleans
  <2>2. sweep.pol = "src" => sweep.key # k
    <3>1. sweep.pol = "src" => FromSource(sweep.id) /\ StartKey(sweep.id) = sweep.key
      BY <1>7 DEF Cleans, SweepInv
    <3> QED BY SMTT(60), Z3T(60), <1>1, <1>3, <1>7, <2>1, <3>1, SceneAssumption DEF Cleans, FromSource, StartKey
  <2>3. <<"src", k, c>> \in store'
    BY <1>3, <1>7, <2>2, DropStored DEF Cleans
  <2> QED BY <1>1, <1>2, <2>3 DEF Stored, ContentOf
<1>8. (Uploads \/ \E a \in Attempts : Writes(a) \/ Discards(a)) => <<"src", k, c>> \in store'
  BY <1>5, <1>6 DEF Uploads, Writes, Discards
<1> QED BY <1>1, <1>2, <1>4, <1>7, <1>8 DEF StoreStep, Stored, ContentOf

\* The objects of the target stay for its rows, and rows that arrive have theirs.
LEMMA TargetStays ==
  ASSUME MergeInv, CountInv, PlaceInv, ObjectInv, RowStep, StoreStep
  PROVE  TargetStored'
<1> USE DEF MergeInv, PlaceInv, RowsInv
<1> SUFFICES ASSUME NEW t \in MgIds, row'[t].pol = "tgt", row'[t].key # EmptyKey
             PROVE  <<"tgt", row'[t].key, ContentOf(t)>> \in store'
  BY DEF TargetStored, Stored, ContentOf, RowStep
<1> DEFINE k == row'[t].key
           c == ContentOf(t)
<1>1. scene' = scene /\ scene \in MgScenes
  BY DEF RowStep, Types
<1>2. CASE row[t].pol = "tgt" /\ row[t].key = k
  <2>1. Stored("tgt", k, c)
    BY <1>2 DEF ObjectInv, TargetStored
  <2>2. CASE store' = store
    BY <2>1, <2>2 DEF Stored
  <2>3. CASE Uploads
    <3>1. k = scene.upkey => c = ContentOf(Max(MgIds))
      BY <1>2, <2>3, UploadContent DEF Uploads
    <3> QED BY <2>1, <2>3, <3>1, PutStored DEF Uploads
  <2>4. ASSUME NEW a \in Attempts, Writes(a) PROVE <<"tgt", k, c>> \in store'
    <3>1. mg[a].pc \in Writing \cup Undoing \cup Tidying
      BY <2>4 DEF Writes, MgAt, Writing
    <3>2. ASSUME k = mg[a].key PROVE c = ContentOf(mg[a].id)
      <4>1. t = mg[a].id \/ Mergeable(mg[a].key)
        BY <1>2, <3>1, <3>2 DEF JobInv, JobRows
      <4>2. JobInv(a)
        OBVIOUS
      <4> QED BY <1>2, <3>1, <3>2, <4>1, <4>2, JobContent
    <3> QED BY <2>1, <2>4, <3>2, PutStored DEF Writes
  <2>5. ASSUME NEW a \in Attempts, Discards(a) PROVE <<"tgt", k, c>> \in store'
    <3>1. k # mg[a].key
      BY SMTT(60), Z3T(60), <1>2, <2>5 DEF Discards, MgAt, JobInv, JobDone, RowAt, ObjectInv, UndoUnnamed
    <3> QED BY <2>1, <2>5, <3>1, DropStored DEF Discards
  <2>6. CASE Cleans
    <3>1. t # sweep.id /\ sweep.id \in MgIds
      BY <2>6 DEF Cleans
    <3>2. sweep.pol = "tgt" => k # sweep.key
      BY <1>2, <2>6, <3>1 DEF Cleans, SweepInv, UniqueInv
    <3> QED BY <2>1, <2>6, <3>2, DropStored DEF Cleans
  <2> QED BY <2>2, <2>3, <2>4, <2>5, <2>6 DEF StoreStep
<1>3. ASSUME RowMade(t) PROVE <<"tgt", k, c>> \in store'
  BY <1>3 DEF RowMade, Put
<1>4. ASSUME NEW a \in Attempts, NEW l \in MgKeys, RowMoves(a, t, l) PROVE <<"tgt", k, c>> \in store'
  <2>1. k = l /\ MgAt(a, "move") /\ MgCommits(a) /\ mg[a].id = t /\ mg[a].key = l /\ store' = store
        /\ row[t].pol = "src"
    BY <1>4 DEF RowMoves
  <2> QED BY <2>1 DEF ObjectInv, CopyStored, Stored
<1>5. (row[t].pol = "tgt" /\ row[t].key = k) \/ RowMade(t)
      \/ \E a \in Attempts, l \in MgKeys : RowMoves(a, t, l)
  BY SMTT(60), Z3T(60) DEF RowStep, RowsStay, StaysRow, RowLeaves, RowMade, RowMoves
<1> QED BY <1>2, <1>3, <1>4, <1>5

\* A lease begins with an attempt.
LEMMA LeaseBegins ==
  ASSUME Types, MigrationNext, NEW b \in Attempts, holder' = b, holder # b
  PROVE  mg'[b].pc \in {"empties", "scan"}
<1>1. b # 0
  BY SMTT(60), Z3T(60), MigrationAssumption DEF Attempts
<1>2. MgClaim
  BY <1>1 DEF MigrationNext, MgStops, MgScan, MgEmpties, MgEmptyDone, MgNext, MgCopy, MgVerify, MgMove,
     MgMerge, MgTidy, MgDelete, MgUndo, MgUndoDelete, RefDropped, RefCopied, Uploaded, SweepLoads,
     SweepClaims, SweepDeletes
<1> QED BY <1>2, ClaimFields

\* What others verified stays,
LEMMA CopyStays ==
  ASSUME TameScenes, MergeInv, CountInv, PlaceInv, ObjectInv, MigrationNext, RowStep, StoreStep,
         NEW b \in Attempts, mg'[b] = mg[b]
  PROVE  CopyStored(b)'
<1> USE DEF MergeInv, PlaceInv
<1>s. scene' = scene /\ scene \in MgScenes /\ mg'[b] = mg[b]
  BY DEF RowStep, Types
<1> DEFINE k == mg[b].key
           i == mg[b].id
           c == ContentOf(mg[b].id)
<1> SUFFICES ASSUME mg[b].pc = "move", MgCommits(b)', k # EmptyKey, row'[i].pol = "src"
             PROVE  <<"tgt", k, c>> \in store'
  BY <1>s DEF CopyStored, Stored, ContentOf, MgAt
<1>1. MgCommits(b)
  BY <1>s, LeaseBegins DEF MgCommits, MgActive
<1>2. JobInv(b) /\ i \in MgIds /\ FromSource(i) /\ (k = StartKey(i) \/ k = FreshKeys[b][i])
  BY DEF JobInv, JobKey, Writing
<1>3. row[i].pol = "src"
  BY <1>2 DEF RowStep, RowsStay, StaysRow, RowLeaves, RowMade, RowMoves
<1>4. Stored("tgt", k, c)
  BY <1>1, <1>3 DEF ObjectInv, CopyStored, MgAt
<1>5. ASSUME NEW a \in Attempts, mg[a].pc \in Writing \cup Undoing \cup Tidying, mg[a].key = k
      PROVE  mg[a].id = i /\ JobInv(a)
  <2>1. /\ JobInv(a) /\ mg[a].id \in MgIds /\ FromSource(mg[a].id)
        /\ k = StartKey(mg[a].id) \/ k = FreshKeys[a][mg[a].id]
    BY <1>5 DEF JobInv, JobKey
  <2> QED BY SMTT(60), Z3T(60), <1>s, <1>2, <2>1, SameKey
<1>6. CASE store' = store
  BY <1>4, <1>6 DEF Stored
<1>7. CASE Uploads
  <2>1. k = scene.upkey => Mergeable(k)
    BY <1>s, <1>7, SceneAssumption DEF Uploads, Mergeable
  <2>2. k = scene.upkey => c = ContentOf(Max(MgIds))
    BY <1>2, <1>7, <2>1, JobContent DEF Uploads, Writing
  <2> QED BY <1>4, <1>7, <2>2, PutStored DEF Uploads
<1>8. ASSUME NEW a \in Attempts, Writes(a) PROVE <<"tgt", k, c>> \in store'
  <2>1. mg[a].key = k => mg[a].id = i
    BY <1>5, <1>8 DEF Writes, MgAt, Writing
  <2> QED BY <1>4, <1>8, <2>1, PutStored DEF Writes
<1>9. ASSUME NEW a \in Attempts, Discards(a) PROVE <<"tgt", k, c>> \in store'
  <2>1. ASSUME mg[a].key = k PROVE FALSE
    <3>1. mg[a].id = i /\ JobInv(a)
      BY <1>5, <1>9, <2>1 DEF Discards, MgAt, Undoing, Tidying
    <3>2. CASE MgAt(a, "delete")
      BY <1>3, <3>1, <3>2 DEF JobInv, JobDone, MgAt, Tidying
    <3>3. CASE MgAt(a, "undodelete") /\ MgActive(a)
      <4>1. scene.breaks /\ a # b
        BY <3>1, <3>3 DEF JobInv, JobDone, MgAt, Undoing
      <4>2. scene.late
        BY <1>1, <3>3, <4>1 DEF MgCommits, MgActive
      <4> QED BY <1>s, <4>1, <4>2 DEF TameScenes
    <3> QED BY <1>9, <3>2, <3>3 DEF Discards
  <2> QED BY <1>4, <1>9, <2>1, DropStored DEF Discards
<1>10. CASE Cleans
  <2>1. ASSUME sweep.pol = "tgt", sweep.key = k PROVE FALSE
    <3>1. row[sweep.id].pol = "tgt" /\ row[sweep.id].key = k /\ sweep.id \in MgIds /\ scene.faults
      BY <1>10, <2>1 DEF Cleans, SweepInv
    <3>2. ~scene.uploads
      BY <1>s, <3>1 DEF TameScenes
    <3> QED BY <1>2, <1>3, <3>1, <3>2 DEF JobInv, JobRows, Writing
  <2> QED BY <1>4, <1>10, <2>1, DropStored DEF Cleans
<1> QED BY <1>6, <1>7, <1>8, <1>9, <1>10 DEF StoreStep

\* and no row gets the key of what others undo.
LEMMA UndoStays ==
  ASSUME TameScenes, MergeInv, CountInv, PlaceInv, ObjectInv, MigrationNext, RowStep,
         NEW b \in Attempts, mg'[b] = mg[b]
  PROVE  UndoUnnamed(b)'
<1> USE DEF MergeInv, PlaceInv
<1>s. scene' = scene /\ scene \in MgScenes /\ mg'[b] = mg[b]
  BY DEF RowStep, Types
<1> SUFFICES ASSUME mg[b].pc = "undodelete", holder' = b, NEW t \in MgIds,
                    row'[t].pol = "tgt", row'[t].key = mg[b].key
             PROVE  FALSE
  BY <1>s DEF UndoUnnamed, MgAt, MgActive
<1>1. holder = b
  BY <1>s, LeaseBegins
<1>2. ~(row[t].pol = "tgt" /\ row[t].key = mg[b].key)
  BY <1>1 DEF ObjectInv, UndoUnnamed, MgAt, MgActive
<1>3. scene.breaks /\ mg[b].key # EmptyKey
  BY DEF JobInv, JobDone, JobKey, Undoing
<1>4. ~scene.uploads /\ ~scene.late
  BY <1>s, <1>3 DEF TameScenes
<1>5. ASSUME NEW a \in Attempts, NEW l \in MgKeys, RowMoves(a, t, l) PROVE FALSE
  <2>1. MgAt(a, "move") /\ MgCommits(a)
    BY <1>3, <1>5 DEF RowMoves
  <2>2. a # b /\ holder = a
    BY <1>4, <2>1 DEF MgAt, MgCommits, MgActive
  <2> QED BY <1>1, <2>2
<1>6. (row[t].pol = "tgt" /\ row[t].key = mg[b].key) \/ RowMade(t)
      \/ \E a \in Attempts, l \in MgKeys : RowMoves(a, t, l)
  BY SMTT(60), Z3T(60) DEF RowStep, RowsStay, StaysRow, RowLeaves, RowMade, RowMoves
<1> QED BY <1>2, <1>4, <1>5, <1>6 DEF RowMade

\* An attempt moves what it verified and undoes what no row names.
LEMMA OwnCopy ==
  ASSUME MergeInv, CountInv, NEW a \in Attempts,
         \/ MgStops(a) \/ MgScan(a) \/ MgEmpties(a) \/ MgEmptyDone(a) \/ MgNext(a)
         \/ MgCopy(a) \/ MgVerify(a) \/ MgMove(a) \/ MgMerge(a)
         \/ MgTidy(a) \/ MgDelete(a) \/ MgUndo(a) \/ MgUndoDelete(a)
  PROVE  CopyStored(a)' /\ UndoUnnamed(a)'
<1> USE DEF MergeInv
<1>s. TwinAway(a)
  BY DEF CountInv
<1>1. ASSUME mg'[a].pc \notin {"move", "undodelete"} PROVE CopyStored(a)' /\ UndoUnnamed(a)'
  BY <1>1 DEF CopyStored, UndoUnnamed, MgAt
<1>2. CASE MgStops(a) \/ MgUndoDelete(a)
  BY <1>1, <1>2, OffFields DEF MgStops, MgUndoDelete
<1>3. CASE MgScan(a)
  BY <1>1, <1>3, ScanFields
<1>4. CASE MgEmpties(a)
  BY <1>1, <1>4, EmptiesFields
<1>5. CASE MgEmptyDone(a)
  BY <1>s, <1>1, <1>5, EmptyDoneFields
<1>6. CASE MgNext(a)
  <2>1. ASSUME NEW i \in MgIds, NextCase(a, i) PROVE CopyStored(a)' /\ UndoUnnamed(a)'
    <3>1. CASE mg'[a].pc \notin {"move", "undodelete"}
      BY <1>1, <3>1
    <3>2. CASE mg'[a].pc \in {"move", "undodelete"}
      <4>1. mg'[a].pc = "move" /\ mg'[a].key = EmptyKey
        BY <2>1, <3>2 DEF NextCase, Mergeable
      <4> QED BY <4>1 DEF CopyStored, UndoUnnamed, MgAt
    <3> QED BY <3>1, <3>2
  <2> QED BY <1>1, <1>6, <2>1, NextFields
<1>7. CASE MgCopy(a)
  BY <1>1, <1>7, CopyFields
<1>8. CASE MgVerify(a)
  <2>1. CASE mg'[a].pc = "undo"
    BY <1>1, <2>1
  <2>2. CASE mg'[a].pc = "move"
    <3>1. Stored("tgt", mg[a].key, ContentOf(mg[a].id)) /\ mg'[a].id = mg[a].id /\ mg'[a].key = mg[a].key
      BY <1>8, <2>2, VerifyFields
    <3> QED BY <1>8, <2>2, <3>1 DEF MgVerify, CopyStored, UndoUnnamed, MgAt, Stored, ContentOf
  <2>3. mg'[a].pc = "undo" \/ mg'[a].pc = "move"
    BY <1>8, VerifyFields
  <2> QED BY <2>1, <2>2, <2>3
<1>9. CASE MgMove(a)
  BY <1>1, <1>9, MoveFields
<1>10. CASE MgMerge(a)
  BY <1>s, <1>1, <1>10, MergeFields
<1>11. CASE MgTidy(a)
  BY SMTT(60), Z3T(60), <1>1, <1>11, GotoFields DEF MgTidy
<1>12. CASE MgDelete(a)
  BY SMTT(60), Z3T(60), <1>1, <1>12, GotoFields DEF MgDelete
<1>13. CASE MgUndo(a)
  <2>1. mg'[a].pc = "undodelete" /\ mg'[a].key = mg[a].key /\ row' = row /\ RowAt("tgt", mg[a].key) = {}
    BY <1>13, GotoFields DEF MgUndo
  <2> QED BY <2>1 DEF CopyStored, UndoUnnamed, MgAt, RowAt
<1> QED BY <1>2, <1>3, <1>4, <1>5, <1>6, <1>7, <1>8, <1>9, <1>10, <1>11, <1>12, <1>13

\* Objects are where the rows say at first, but for the missing ones.
LEMMA ObjectInit == MigrationInit => ObjectInv
<1> SUFFICES ASSUME MigrationInit PROVE ObjectInv
  OBVIOUS
<1>1. scene \in MgScenes /\ row = scene.start
  BY DEF MigrationInit
<1>2. ASSUME NEW i \in MgIds, row[i].pol # "none", row[i].key # EmptyKey, i \notin scene.missing
      PROVE  Stored(row[i].pol, row[i].key, ContentOf(i))
  BY <1>1, <1>2 DEF MigrationInit, Stored, ContentOf
<1>3. \A i \in MgIds : row[i].pol = "tgt" => i \notin scene.missing
  BY <1>1, SceneAssumption
<1>4. \A a \in Attempts : mg[a].pc = "off"
  BY DEF MigrationInit, Off
<1>5. SourceStored /\ TargetStored
  BY <1>2, <1>3 DEF SourceStored, TargetStored
<1> QED BY <1>4, <1>5 DEF ObjectInv, CopyStored, UndoUnnamed, MgAt

\* Objects stay where the rows say.
LEMMA ObjectStep ==
  ASSUME TameScenes, MergeInv, CountInv, PlaceInv, ObjectInv, [MigrationNext]_mgVars
  PROVE  ObjectInv'
<1>1. CASE UNCHANGED mgVars
  <2>1. UNCHANGED <<scene, row, mg, store, holder>>
    BY <1>1 DEF mgVars
  <2>2. SourceStored' /\ TargetStored'
    BY <2>1 DEF ObjectInv, SourceStored, TargetStored, Stored, ContentOf
  <2>3. \A a \in Attempts : CopyStored(a)' /\ UndoUnnamed(a)'
    BY <2>1 DEF ObjectInv, CopyStored, UndoUnnamed, Stored, ContentOf, MgAt, MgActive, MgCommits
  <2> QED BY <2>2, <2>3 DEF ObjectInv
<1>2. CASE MigrationNext
  <2>1. RowStep /\ StoreStep
    BY <1>2, StepRows, StepStore
  <2>2. SourceStored' /\ TargetStored'
    BY <2>1, SourceStays, TargetStays
  <2>3. ASSUME NEW b \in Attempts, mg'[b] = mg[b] PROVE CopyStored(b)' /\ UndoUnnamed(b)'
    BY <1>2, <2>1, <2>3, CopyStays, UndoStays
  <2>4. ASSUME MgClaim, NEW b \in Attempts PROVE CopyStored(b)' /\ UndoUnnamed(b)'
    <3>1. PICK a \in Attempts : OthersStay(a) /\ mg'[a].pc \in {"empties", "scan"}
      BY <2>4, ClaimFields DEF MergeInv
    <3>2. CASE a = b
      BY <3>1, <3>2 DEF CopyStored, UndoUnnamed, MgAt
    <3> QED BY <2>3, <3>1, <3>2 DEF OthersStay
  <2>5. ASSUME NEW a \in Attempts,
               \/ MgStops(a) \/ MgScan(a) \/ MgEmpties(a) \/ MgEmptyDone(a) \/ MgNext(a)
               \/ MgCopy(a) \/ MgVerify(a) \/ MgMove(a) \/ MgMerge(a)
               \/ MgTidy(a) \/ MgDelete(a) \/ MgUndo(a) \/ MgUndoDelete(a),
               NEW b \in Attempts
        PROVE  CopyStored(b)' /\ UndoUnnamed(b)'
    <3>1. CopyStored(a)' /\ UndoUnnamed(a)' /\ OthersStay(a)
      BY <2>5, OwnCopy, OwnJob
    <3> QED BY <2>3, <3>1 DEF OthersStay
  <2>6. ASSUME \/ \E r \in MgRevs : RefDropped(r) \/ Uploaded(r) \/ \E s \in MgRevs : RefCopied(r, s)
               \/ (\E i \in MgIds : SweepLoads(i)) \/ SweepClaims \/ SweepDeletes
        PROVE  mg' = mg
    BY <2>6 DEF RefDropped, RefCopied, Uploaded, SweepLoads, SweepClaims, SweepDeletes
  <2>7. \A b \in Attempts : CopyStored(b)' /\ UndoUnnamed(b)'
    BY <1>2, <2>3, <2>4, <2>5, <2>6 DEF MigrationNext
  <2> QED BY <2>2, <2>7 DEF ObjectInv
<1> QED BY <1>1, <1>2

-----------------------------------------------------------------------------
(***************************************************************************)
(* The checkpoint passes only what has left the source.                    *)
(***************************************************************************)
\* The rows that the scan must still come to.
ToMove(i) ==
    row[i].pol = "src" /\ ~(scene.recover /\ (i \in scene.missing \/ row[i].key = EmptyKey))

\* They are behind a place that was passed,
Ahead(n) == \A i \in MgIds : ToMove(i) => i > n

\* and behind a batch unless they are in it;
BatchAhead(a) == \A i \in MgIds : ToMove(i) /\ i \notin mg[a].todo => \A j \in mg[a].todo : i > j

\* a batch is worked on from its start.
BatchFirst(a) ==
    mg[a].pc \in Writing \cup {"merge"} =>
       mg[a].id \in mg[a].todo /\ \A j \in mg[a].todo : mg[a].id <= j

\* A recovery deals with the virtual-empty row before it scans.
EmptyPcs == {"empties", "emptymove", "emptymerge"}
EmptiesFirst(a) ==
    /\ mg[a].pc \in {"emptymove", "emptymerge"} => RowAt("src", EmptyKey) \subseteq {mg[a].id}
    /\ scene.recover /\ mg[a].pc \notin EmptyPcs \cup {"off"} => RowAt("src", EmptyKey) = {}

BatchInv(a) == Ahead(mg[a].seen) /\ BatchAhead(a) /\ BatchFirst(a) /\ EmptiesFirst(a)

CursorInv == Ahead(cursor) /\ (\A a \in Attempts : BatchInv(a)) /\ NothingLeftBehind

\* Rows only leave the source.
LEMMA OnlyLess ==
  ASSUME SourceKept, scene' = scene
  PROVE  /\ \A i \in MgIds : ToMove(i)' => ToMove(i)
         /\ RowAt("src", EmptyKey)' \subseteq RowAt("src", EmptyKey)
  BY DEF SourceKept, ToMove, RowAt

\* What others know of their batch stays true.
LEMMA BatchStays ==
  ASSUME SourceKept, scene' = scene, NEW b \in Attempts, BatchInv(b), mg'[b] = mg[b]
  PROVE  BatchInv(b)'
<1>1. /\ \A i \in MgIds : ToMove(i)' => ToMove(i)
      /\ RowAt("src", EmptyKey)' \subseteq RowAt("src", EmptyKey)
  BY OnlyLess
<1> HIDE DEF ToMove
<1>2. Ahead(mg[b].seen)' /\ BatchAhead(b)' /\ BatchFirst(b)'
  BY <1>1 DEF BatchInv, Ahead, BatchAhead, BatchFirst
<1>3. EmptiesFirst(b)'
  BY <1>1 DEF BatchInv, EmptiesFirst
<1> QED BY <1>2, <1>3 DEF BatchInv

\* An attempt goes on in its batch,
LEMMA BatchGoesOn ==
  ASSUME SourceKept, scene' = scene, NEW a \in Attempts, BatchInv(a), mg'[a].seen = mg[a].seen,
         mg'[a].todo = mg[a].todo, mg[a].pc \notin EmptyPcs \cup {"off"},
         mg'[a].pc \notin EmptyPcs \cup {"off"}, BatchFirst(a)'
  PROVE  BatchInv(a)'
<1>1. /\ \A i \in MgIds : ToMove(i)' => ToMove(i)
      /\ RowAt("src", EmptyKey)' \subseteq RowAt("src", EmptyKey)
  BY OnlyLess
<1>2. Ahead(mg[a].seen)' /\ BatchAhead(a)'
  BY <1>1 DEF BatchInv, Ahead, BatchAhead
<1>3. EmptiesFirst(a)'
  BY <1>1 DEF BatchInv, EmptiesFirst, EmptyPcs
<1> QED BY <1>2, <1>3 DEF BatchInv

\* and past the first blob of it, once that need not move any more.
LEMMA BatchPasses ==
  ASSUME Types, SourceKept, scene' = scene, NEW a \in Attempts, BatchInv(a), mg'[a].seen = mg[a].seen,
         NEW i \in MgIds, i \in mg[a].todo, \A j \in mg[a].todo : i <= j, ~ToMove(i)',
         mg'[a].todo = mg[a].todo \ {i}, cursor' = i,
         mg[a].pc \notin EmptyPcs \cup {"off"}, mg'[a].pc \in {"next", "tidy"}
  PROVE  BatchInv(a)' /\ Ahead(cursor)'
<1>1. /\ \A j \in MgIds : ToMove(j)' => ToMove(j)
      /\ RowAt("src", EmptyKey)' \subseteq RowAt("src", EmptyKey)
  BY OnlyLess
<1>2. mg[a].todo \subseteq MgIds /\ MgIds \subseteq Int
  BY SMTT(60), Z3T(60), MigrationAssumption DEF Types, AttemptType
<1>3. ASSUME NEW j \in MgIds, ToMove(j)' PROVE j > i
  <2>1. ToMove(j) /\ j # i
    BY <1>1, <1>3
  <2>2. j \notin mg[a].todo => j > i
    BY <2>1 DEF BatchInv, BatchAhead
  <2> QED BY SMTT(60), Z3T(60), <1>2, <2>1, <2>2
<1>4. Ahead(mg[a].seen)' /\ Ahead(cursor)'
  BY <1>1, <1>3 DEF BatchInv, Ahead
<1>5. BatchAhead(a)'
  BY <1>1, <1>3 DEF BatchInv, BatchAhead
<1>6. EmptiesFirst(a)' /\ BatchFirst(a)'
  BY <1>1 DEF BatchInv, EmptiesFirst, BatchFirst, EmptyPcs, Writing
<1> QED BY <1>4, <1>5, <1>6 DEF BatchInv

\* An attempt that has ended.
LEMMA BatchOver ==
  ASSUME NEW a \in Attempts, mg'[a].pc = "off", mg'[a].todo = {}, mg'[a].seen = 0
  PROVE  BatchInv(a)'
<1>1. Ahead(mg[a].seen)'
  BY SMTT(60), Z3T(60), MigrationAssumption DEF Ahead
<1>2. BatchAhead(a)' /\ BatchFirst(a)' /\ EmptiesFirst(a)'
  BY DEF BatchAhead, BatchFirst, EmptiesFirst, EmptyPcs, Writing
<1> QED BY <1>1, <1>2 DEF BatchInv

\* What must move is found by the scan.
LEMMA ScanFinds ==
  ASSUME CursorInv, NEW i \in MgIds, ToMove(i) PROVE i \in Scannable
  BY DEF CursorInv, Ahead, ToMove, Scannable

\* The batch is the first of what is found.
BatchesAreFirst ==
    \A i, j \in Scannable :
       /\ Cardinality({l \in Scannable : l < j}) < BatchSize
       /\ ~(Cardinality({l \in Scannable : l < i}) < BatchSize)
       => i > j

\* A scan takes a batch, or ends the task when nothing is left to move.
LEMMA ScanCursor ==
  ASSUME BatchesAreFirst, MergeInv, CursorInv, NEW a \in Attempts, MgScan(a)
  PROVE  BatchInv(a)' /\ NothingLeftBehind'
<1>1. UNCHANGED <<scene, row, cursor>> /\ MgAt(a, "scan") /\ SourceKept /\ BatchInv(a) /\ NothingLeftBehind
  BY DEF MgScan, SourceKept, CursorInv
<1>2. RowAt("src", EmptyKey)' = RowAt("src", EmptyKey)
      /\ (scene.recover => RowAt("src", EmptyKey) = {})
  BY <1>1 DEF RowAt, BatchInv, EmptiesFirst, MgAt, EmptyPcs
<1>3. CASE mg'[a].pc = "off" /\ mg'[a].todo = {} /\ mg'[a].seen = 0 /\ Scannable = {}
  <2>1. \A i \in MgIds : ~ToMove(i)
    BY <1>3, ScanFinds
  <2>2. \A i \in MgIds : row[i].pol = "src" => scene.recover /\ i \in scene.missing
    BY <1>2, <2>1 DEF ToMove, RowAt
  <2>3. NothingLeftBehind'
    BY <1>1, <2>2 DEF NothingLeftBehind
  <2> QED BY <1>3, <2>3, BatchOver
<1>4. CASE /\ mg'[a].pc = "next" /\ mg'[a].seen = mg[a].seen /\ ended' = ended
           /\ mg'[a].todo = {i \in Scannable : Cardinality({j \in Scannable : j < i}) < BatchSize}
  <2>1. \A i \in MgIds : ToMove(i)' => ToMove(i)
    BY <1>1, OnlyLess
  <2>2. BatchAhead(a)'
    <3> SUFFICES ASSUME NEW i \in MgIds, ToMove(i), i \notin mg'[a].todo, NEW j \in mg'[a].todo
                 PROVE  i > j
      BY <2>1 DEF BatchAhead
    <3>1. i \in Scannable /\ ~(Cardinality({l \in Scannable : l < i}) < BatchSize)
      BY <1>4, ScanFinds
    <3>2. j \in Scannable /\ Cardinality({l \in Scannable : l < j}) < BatchSize
      BY <1>4
    <3> QED BY <3>1, <3>2 DEF BatchesAreFirst
  <2>3. Ahead(mg[a].seen)'
    BY <1>1, <1>4, <2>1 DEF BatchInv, Ahead
  <2>4. BatchFirst(a)' /\ EmptiesFirst(a)'
    BY <1>1, <1>2, <1>4 DEF BatchFirst, EmptiesFirst, Writing, EmptyPcs
  <2>5. NothingLeftBehind'
    BY <1>1, <1>4 DEF NothingLeftBehind
  <2> QED BY <2>2, <2>3, <2>4, <2>5 DEF BatchInv
<1> QED BY <1>3, <1>4, ScanFields DEF MergeInv

\* The steps of an attempt within its batch.
LEMMA WorkCursor ==
  ASSUME MergeInv, CountInv, PlaceInv, ObjectInv, CursorInv, NEW a \in Attempts,
         MgNext(a) \/ MgCopy(a) \/ MgVerify(a) \/ MgMove(a) \/ MgMerge(a), SourceKept, scene' = scene
  PROVE  BatchInv(a)' /\ Ahead(cursor)'
<1> USE DEF MergeInv
<1>s. BatchInv(a) /\ TwinAway(a) /\ Ahead(cursor)
  BY DEF CursorInv, CountInv
<1>1. mg[a].pc \notin EmptyPcs \cup {"off"}
  BY DEF MgNext, MgCopy, MgVerify, MgMove, MgMerge, MgAt, EmptyPcs
<1>2. ASSUME cursor' = cursor, mg'[a].seen = mg[a].seen, mg'[a].todo = mg[a].todo,
             mg'[a].pc \notin EmptyPcs \cup {"off"}, BatchFirst(a)'
      PROVE  BatchInv(a)' /\ Ahead(cursor)'
  <2>1. Ahead(cursor)'
    BY <1>s, <1>2, OnlyLess DEF Ahead
  <2> QED BY <1>s, <1>1, <1>2, <2>1, BatchGoesOn
<1>3. ASSUME NEW i \in MgIds, i \in mg[a].todo, \A j \in mg[a].todo : i <= j, ~ToMove(i)',
             mg'[a].seen = mg[a].seen, mg'[a].todo = mg[a].todo \ {i}, cursor' = i,
             mg'[a].pc \in {"next", "tidy"}
      PROVE  BatchInv(a)' /\ Ahead(cursor)'
  BY <1>s, <1>1, <1>3, BatchPasses
<1>4. ASSUME mg[a].pc \in Writing \cup {"merge"}
      PROVE  mg[a].id \in MgIds /\ mg[a].id \in mg[a].todo /\ \A j \in mg[a].todo : mg[a].id <= j
  BY <1>s, <1>4 DEF BatchInv, BatchFirst, Types, AttemptType
<1>5. CASE MgNext(a)
  <2>1. UNCHANGED <<scene, row>>
    BY <1>5 DEF MgNext
  <2>2. CASE mg[a].todo = {} /\ mg'[a].pc = "scan" /\ mg'[a].todo = {} /\ cursor' = cursor
             /\ mg'[a].seen = mg[a].seen
    BY <1>2, <2>2 DEF BatchFirst, EmptyPcs, Writing
  <2>3. ASSUME NEW i \in MgIds, NextCase(a, i), mg'[a].seen = mg[a].seen
        PROVE  BatchInv(a)' /\ Ahead(cursor)'
    <3>1. i \in mg[a].todo /\ \A j \in mg[a].todo : i <= j
      BY <2>3 DEF NextCase
    <3>2. CASE mg'[a].pc = "next"
      <4>1. mg'[a].todo = mg[a].todo \ {i} /\ cursor' = i
        BY <2>3, <3>2 DEF NextCase
      <4>2. ~(row[i].key # EmptyKey /\ RowAt("tgt", row[i].key) # {} /\ ObjectAt("tgt", row[i].key) = {})
        <5> SUFFICES ASSUME row[i].key # EmptyKey, NEW t \in RowAt("tgt", row[i].key)
                     PROVE  ObjectAt("tgt", row[i].key) # {}
          OBVIOUS
        <5>1. Stored("tgt", row[i].key, ContentOf(t))
          BY DEF RowAt, ObjectInv, TargetStored
        <5> QED BY SMTT(60), Z3T(60), <5>1 DEF Stored, ObjectAt
      <4>3. row[i].pol # "src"
        BY <2>3, <3>2, <4>2 DEF NextCase
      <4>4. ~ToMove(i)'
        BY <2>1, <4>3 DEF ToMove
      <4> QED BY <1>3, <2>3, <3>1, <3>2, <4>1, <4>4
    <3>3. CASE mg'[a].pc # "next"
      <4>1. mg'[a].id = i /\ mg'[a].todo = mg[a].todo /\ cursor' = cursor
            /\ mg'[a].pc \in {"merge", "move", "copy"}
        BY <2>3, <3>3 DEF NextCase
      <4> QED BY <1>2, <2>3, <3>1, <4>1 DEF BatchFirst, EmptyPcs
    <3> QED BY <3>2, <3>3
  <2> QED BY <1>5, <2>2, <2>3, NextFields
<1>6. CASE MgCopy(a)
  <2>1. UNCHANGED <<scene, row>> /\ mg[a].pc = "copy"
    BY <1>6 DEF MgCopy, MgAt
  <2>2. mg[a].id \in MgIds /\ mg[a].id \in mg[a].todo /\ \A j \in mg[a].todo : mg[a].id <= j
    BY <1>4, <2>1 DEF Writing
  <2>3. CASE mg'[a].pc \in {"verify", "undo"}
    <3>1. /\ mg'[a].seen = mg[a].seen /\ mg'[a].id = mg[a].id /\ mg'[a].todo = mg[a].todo
          /\ cursor' = cursor
      BY <1>6, <2>3, CopyFields
    <3> QED BY <1>2, <2>2, <2>3, <3>1 DEF BatchFirst, EmptyPcs
  <2>4. CASE mg'[a].pc = "next"
    <3>1. /\ mg'[a].seen = mg[a].seen /\ mg'[a].todo = mg[a].todo \ {mg[a].id} /\ cursor' = mg[a].id
          /\ scene.recover /\ ~Stored("src", scene.start[mg[a].id].key, ContentOf(mg[a].id))
      BY <1>6, <2>4, CopyFields
    <3>2. ~ToMove(mg[a].id)
      <4>1. row[mg[a].id].pol = "src" => row[mg[a].id].key = scene.start[mg[a].id].key
        BY <2>2 DEF PlaceInv, RowsInv, SourceInv, StartKey
      <4> QED BY <2>2, <3>1, <4>1 DEF ToMove, ObjectInv, SourceStored
    <3>3. PICK i \in MgIds : i = mg[a].id
      BY <2>2
    <3>4. ~ToMove(i)'
      BY <3>2, <3>3, OnlyLess
    <3> QED BY <1>3, <2>2, <2>4, <3>1, <3>3, <3>4
  <2> QED BY <1>6, <2>3, <2>4, CopyFields
<1>7. CASE MgVerify(a)
  <2>1. mg[a].pc = "verify" /\ cursor' = cursor
    BY <1>7 DEF MgVerify, MgAt
  <2>2. mg[a].id \in MgIds /\ mg[a].id \in mg[a].todo /\ \A j \in mg[a].todo : mg[a].id <= j
    BY <1>4, <2>1 DEF Writing
  <2>3. /\ mg'[a].seen = mg[a].seen /\ mg'[a].id = mg[a].id /\ mg'[a].todo = mg[a].todo
        /\ mg'[a].pc \in {"move", "undo"}
    BY <1>7, VerifyFields
  <2> QED BY <1>2, <2>1, <2>2, <2>3 DEF BatchFirst, EmptyPcs
<1>8. CASE MgMove(a)
  <2>1. mg[a].pc = "move"
    BY <1>8 DEF MgMove, MgAt
  <2>2. mg[a].id \in MgIds /\ mg[a].id \in mg[a].todo /\ \A j \in mg[a].todo : mg[a].id <= j
    BY <1>4, <2>1 DEF Writing
  <2>3. CASE mg'[a].pc = "merge"
    <3>1. /\ mg'[a].seen = mg[a].seen /\ mg'[a].id = mg[a].id /\ mg'[a].todo = mg[a].todo
          /\ cursor' = cursor
      BY <1>8, <2>3, MoveFields
    <3> QED BY <1>2, <2>2, <2>3, <3>1 DEF BatchFirst, EmptyPcs
  <2>4. CASE mg'[a].pc # "merge"
    <3>1. /\ mg'[a].seen = mg[a].seen /\ mg'[a].todo = mg[a].todo \ {mg[a].id} /\ cursor' = mg[a].id
          /\ mg'[a].pc \in {"next", "tidy"} /\ row'[mg[a].id].pol # "src"
      BY <1>8, <2>4, MoveFields DEF MovesRow
    <3>2. \A i \in MgIds : row'[i].pol # "src" => ~ToMove(i)'
      BY DEF ToMove
    <3> QED BY <1>3, <2>2, <3>1, <3>2
  <2> QED BY <2>3, <2>4
<1>9. CASE MgMerge(a)
  <2>1. mg[a].pc = "merge"
    BY <1>9 DEF MgMerge, MgAt
  <2>2. mg[a].id \in MgIds /\ mg[a].id \in mg[a].todo /\ \A j \in mg[a].todo : mg[a].id <= j
    BY <1>4, <2>1
  <2>3. /\ mg'[a].seen = mg[a].seen /\ mg'[a].todo = mg[a].todo \ {mg[a].id} /\ cursor' = mg[a].id
        /\ mg'[a].pc = "next" /\ row'[mg[a].id].pol # "src"
    BY <1>s, <1>9, MergeFields DEF MergesRow
  <2>4. \A i \in MgIds : row'[i].pol # "src" => ~ToMove(i)'
    BY DEF ToMove
  <2> QED BY <1>3, <2>2, <2>3, <2>4
<1> QED BY <1>5, <1>6, <1>7, <1>8, <1>9

\* The virtual-empty row of a recovery.
LEMMA EmptiesCursor ==
  ASSUME MergeInv, CountInv, PlaceInv, CursorInv, NEW a \in Attempts,
         MgEmpties(a) \/ MgEmptyDone(a), SourceKept, scene' = scene
  PROVE  BatchInv(a)' /\ Ahead(cursor)'
<1> USE DEF MergeInv
<1>s. BatchInv(a) /\ TwinAway(a) /\ Ahead(cursor) /\ scene \in MgScenes
  BY DEF CursorInv, CountInv, Types
<1>1. /\ \A i \in MgIds : ToMove(i)' => ToMove(i)
      /\ RowAt("src", EmptyKey)' \subseteq RowAt("src", EmptyKey)
  BY OnlyLess
<1>2. mg'[a].seen = mg[a].seen /\ mg'[a].todo = mg[a].todo /\ cursor' \in {cursor, mg[a].seen}
      /\ mg'[a].pc \in {"scan", "emptymove", "emptymerge"}
  BY <1>s, EmptiesFields, EmptyDoneFields DEF MgEmpties
<1>3. Ahead(mg[a].seen)' /\ Ahead(cursor)' /\ BatchAhead(a)'
  BY <1>s, <1>1, <1>2 DEF BatchInv, Ahead, BatchAhead
<1>4. BatchFirst(a)'
  BY <1>2 DEF BatchFirst, Writing
<1>5. EmptiesFirst(a)'
  <2>1. CASE MgEmpties(a) /\ mg'[a].pc = "scan"
    <3>1. RowAt("src", EmptyKey)' = {}
      BY <1>1, <2>1, EmptiesFields
    <3> QED BY <2>1, <3>1 DEF EmptiesFirst
  <2>2. CASE MgEmpties(a) /\ mg'[a].pc # "scan"
    <3>1. mg'[a].id \in RowAt("src", EmptyKey) /\ mg'[a].pc \in EmptyPcs
      BY <2>2, EmptiesFields DEF EmptyPcs
    <3>2. ASSUME NEW i \in RowAt("src", EmptyKey), NEW j \in RowAt("src", EmptyKey) PROVE i = j
      <4>1. i \in MgIds /\ j \in MgIds /\ FromSource(i) /\ FromSource(j) /\ StartKey(i) = StartKey(j)
        BY DEF RowAt, PlaceInv, RowsInv, SourceInv
      <4> QED BY SMTT(60), Z3T(60), <1>s, <4>1, SceneAssumption DEF FromSource, StartKey
    <3>3. RowAt("src", EmptyKey) \subseteq {mg'[a].id}
      BY <3>1, <3>2
    <3> QED BY <1>1, <3>1, <3>3 DEF EmptiesFirst
  <2>3. CASE MgEmptyDone(a)
    <3>1. mg[a].pc \in {"emptymove", "emptymerge"} /\ mg'[a].pc = "scan"
      BY <1>s, <2>3, EmptyDoneFields DEF MgEmptyDone, MgAt
    <3>2. row'[mg[a].id].pol # "src"
      BY <1>s, <2>3, EmptyDoneFields DEF MergesRow, MovesRow
    <3>3. RowAt("src", EmptyKey) \subseteq {mg[a].id}
      BY <1>s, <3>1 DEF BatchInv, EmptiesFirst
    <3>4. mg[a].id \notin RowAt("src", EmptyKey)'
      BY <3>2 DEF RowAt
    <3>5. RowAt("src", EmptyKey)' = {}
      BY <1>1, <3>3, <3>4
    <3> QED BY <3>1, <3>5 DEF EmptiesFirst
  <2> QED BY <2>1, <2>2, <2>3
<1> QED BY <1>3, <1>4, <1>5 DEF BatchInv

\* Nothing is passed at first.
LEMMA CursorInit == MigrationInit => CursorInv
<1> SUFFICES ASSUME MigrationInit PROVE CursorInv
  OBVIOUS
<1>1. Off.pc = "off" /\ Off.todo = {} /\ Off.seen = 0
  BY DEF Off
<1>2. \A a \in Attempts : mg[a] = Off
  BY DEF MigrationInit
<1>3. Ahead(0)
  BY SMTT(60), Z3T(60), MigrationAssumption DEF Ahead
<1>4. cursor = 0 /\ ~ended
  BY DEF MigrationInit
<1>5. \A a \in Attempts : BatchInv(a)
  BY <1>1, <1>2, <1>3 DEF BatchInv, BatchAhead, BatchFirst, EmptiesFirst, EmptyPcs, Writing
<1> QED BY <1>3, <1>4, <1>5 DEF CursorInv, NothingLeftBehind

\* The other steps of an attempt.
LEMMA PlainCursor ==
  ASSUME MergeInv, CursorInv, NEW a \in Attempts, SourceKept, scene' = scene,
         MgStops(a) \/ MgTidy(a) \/ MgDelete(a) \/ MgUndo(a) \/ MgUndoDelete(a)
  PROVE  BatchInv(a)' /\ Ahead(cursor)'
<1>1. cursor' = cursor /\ Ahead(cursor)' /\ BatchInv(a)
  BY OnlyLess DEF MgStops, MgTidy, MgDelete, MgUndo, MgUndoDelete, CursorInv, Ahead
<1>2. CASE MgStops(a) \/ MgUndoDelete(a)
  BY <1>1, <1>2, OffFields, BatchOver DEF MgStops, MgUndoDelete, MergeInv
<1>3. CASE MgTidy(a) \/ MgDelete(a) \/ MgUndo(a)
  <2>1. PICK pc \in {"delete", "next", "undodelete"} : MgGoto(a, pc)
    BY <1>3 DEF MgTidy, MgDelete, MgUndo
  <2>2. mg'[a].pc = pc /\ mg'[a].todo = mg[a].todo /\ mg'[a].seen = mg[a].seen
    BY <2>1, GotoFields DEF MergeInv
  <2>3. mg[a].pc \notin EmptyPcs \cup {"off"}
    BY <1>3 DEF MgTidy, MgDelete, MgUndo, MgAt, EmptyPcs
  <2> QED BY <1>1, <2>2, <2>3, BatchGoesOn DEF EmptyPcs, BatchFirst, Writing
<1> QED BY <1>2, <1>3

\* The checkpoint stays behind what must move.
LEMMA CursorStep ==
  ASSUME TameScenes, BatchesAreFirst, MergeInv, CountInv, PlaceInv, ObjectInv, CursorInv,
         [MigrationNext]_mgVars
  PROVE  CursorInv'
<1>1. CASE UNCHANGED mgVars
  <2>1. UNCHANGED <<scene, row, mg, cursor, ended>>
    BY <1>1 DEF mgVars
  <2>2. SourceKept
    BY <2>1 DEF SourceKept
  <2>3. Ahead(cursor)' /\ NothingLeftBehind'
    BY <2>1 DEF CursorInv, Ahead, ToMove, NothingLeftBehind
  <2> QED BY <2>1, <2>2, <2>3, BatchStays DEF CursorInv
<1>2. CASE MigrationNext
  <2>1. RowStep
    BY <1>2, StepRows
  <2>2. SourceKept /\ scene' = scene
    BY <2>1 DEF RowStep, RowsStay, StaysRow, RowLeaves, RowMade, RowMoves, SourceKept
  <2>3. ended' = ended => NothingLeftBehind'
    BY <2>2 DEF CursorInv, NothingLeftBehind, SourceKept
  <2>4. cursor' = cursor => Ahead(cursor)'
    BY <2>2, OnlyLess DEF CursorInv, Ahead
  <2>5. ASSUME NEW a \in Attempts, BatchInv(a)', OthersStay(a) PROVE \A b \in Attempts : BatchInv(b)'
    BY <2>2, <2>5, BatchStays DEF OthersStay, CursorInv
  <2>6. CASE MgClaim
    <3>1. PICK a \in Attempts : /\ OthersStay(a) /\ mg'[a].todo = {} /\ mg'[a].seen = cursor
                                /\ mg'[a].pc \in {"empties", "scan"}
                                /\ mg'[a].pc = "scan" => ~scene.recover
      BY <2>6, ClaimFields DEF MergeInv
    <3>2. cursor' = cursor /\ ended' = ended
      BY <2>6 DEF MgClaim
    <3>3. Ahead(mg[a].seen)'
      BY <2>4, <3>1, <3>2 DEF Ahead
    <3>4. BatchAhead(a)' /\ BatchFirst(a)' /\ EmptiesFirst(a)'
      BY <2>2, <3>1 DEF BatchAhead, BatchFirst, EmptiesFirst, EmptyPcs, Writing
    <3> QED BY <2>3, <2>4, <2>5, <3>1, <3>2, <3>3, <3>4 DEF BatchInv, CursorInv
  <2>7. ASSUME NEW a \in Attempts,
               \/ MgNext(a) \/ MgCopy(a) \/ MgVerify(a) \/ MgMove(a) \/ MgMerge(a)
               \/ MgEmpties(a) \/ MgEmptyDone(a)
               \/ MgStops(a) \/ MgTidy(a) \/ MgDelete(a) \/ MgUndo(a) \/ MgUndoDelete(a)
        PROVE  CursorInv'
    <3>1. BatchInv(a)' /\ Ahead(cursor)'
      BY <2>2, <2>7, WorkCursor, EmptiesCursor, PlainCursor
    <3>2. OthersStay(a)
      BY <2>7, OwnJob
    <3>3. ended' = ended
      BY <2>7 DEF MgNext, MgCopy, MgVerify, MgMove, MgMerge, MgEmpties, MgEmptyDone, MgStops, MgTidy,
                  MgDelete, MgUndo, MgUndoDelete
    <3> QED BY <2>3, <2>5, <3>1, <3>2, <3>3 DEF CursorInv
  <2>8. ASSUME NEW a \in Attempts, MgScan(a) PROVE CursorInv'
    <3>1. BatchInv(a)' /\ NothingLeftBehind' /\ OthersStay(a) /\ cursor' = cursor
      BY <2>8, ScanCursor, OwnJob DEF MgScan
    <3> QED BY <2>4, <2>5, <3>1 DEF CursorInv
  <2>9. ASSUME \/ \E r \in MgRevs : RefDropped(r) \/ Uploaded(r) \/ \E s \in MgRevs : RefCopied(r, s)
               \/ (\E i \in MgIds : SweepLoads(i)) \/ SweepClaims \/ SweepDeletes
        PROVE  CursorInv'
    <3>1. UNCHANGED <<mg, cursor, ended>>
      BY <2>9 DEF RefDropped, RefCopied, Uploaded, SweepLoads, SweepClaims, SweepDeletes
    <3> QED BY <2>2, <2>3, <2>4, <3>1, BatchStays DEF CursorInv
  <2> QED BY <1>2, <2>6, <2>7, <2>8, <2>9 DEF MigrationNext
<1> QED BY <1>1, <1>2
=============================================================================
