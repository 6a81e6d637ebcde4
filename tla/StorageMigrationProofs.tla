----------------------- MODULE StorageMigrationProofs -----------------------
(***************************************************************************)
(* Proofs about StorageMigration, for any blobs, keys, revisions, scenes   *)
(* and number of attempts.  The inductive invariant has five layers, each  *)
(* resting on the ones before it:                                          *)
(*                                                                         *)
(*   MergeInv   rows are merged only when their keys say that their        *)
(*              content is equal, and what an attempt read about a row     *)
(*              stays true of it for as long as the row is in the source;  *)
(*   CountInv   ref_count is the number of revisions that refer to a row;  *)
(*   PlaceInv   which keys rows and attempts may have: the target has a    *)
(*              key once, and an attempt writes under a key no other       *)
(*              blob's row names;                                          *)
(*   ObjectInv  the object is where the row says, also for the copy that   *)
(*              the next commit will make the row name;                    *)
(*   CursorInv  the checkpoint has passed only what has left the source.   *)
(*                                                                         *)
(* The last three hold in tame scenes.  Here are MergeInv, what each step  *)
(* does to the rows and to an attempt, and the steps of PlaceInv;          *)
(* MigrationObjectsProofs has the steps of ObjectInv and CursorInv, and    *)
(* MigrationCountsProofs has CountInv and puts the layers together.        *)
(***************************************************************************)
EXTENDS StorageMigration, TLAPS

\* Steps that name no prover are Zenon's; arithmetic goes to Z3, by two routes.
USE ZenonT(60)

\* Nothing is counted twice where nothing is shared.
LEMMA NothingLess == \A m, n \in Nat : m + n - 0 = m + n
  BY SMTT(60), Z3T(60)

RowType == [pol : {"src", "tgt", "none"}, key : MgKeys, count : Int]
MgPcs == {"off", "empties", "emptymove", "emptymerge", "scan", "next", "copy", "verify", "move",
          "merge", "tidy", "delete", "undo", "undodelete"}
AttemptType == [pc : MgPcs, todo : SUBSET MgIds, id : MgIds \cup {0}, twin : MgIds \cup {0},
                key : MgKeys, seen : MgIds \cup {0}]
SweepType == [id : MgIds \cup {0}, pol : {"src", "tgt", "none"}, key : MgKeys, claimed : BOOLEAN]

Types ==
    /\ scene \in MgScenes
    /\ row \in [MgIds -> RowType]
    /\ mgRef \in [MgRevs -> MgIds \cup {0}]
    /\ mg \in [Attempts -> AttemptType]
    /\ sweep \in SweepType
    /\ sweep # NoSweep => sweep.id \in MgIds
    /\ cursor \in MgIds \cup {0}
    /\ claims \in 0..MaxTries

\* Equal keys that speak of content mean equal content.
KeysTell ==
    \A i \in MgIds : row[i].pol # "none" /\ Mergeable(row[i].key) =>
        /\ \A j \in MgIds : row[j].pol # "none" /\ row[j].key = row[i].key =>
              scene.content[i] = scene.content[j]
        /\ scene.uploads /\ row[i].key = scene.upkey =>
              scene.content[i] = scene.content[Max(MgIds)]

\* What an attempt remembers of a row that is still in the source.
Remembered(a) ==
    LET g == mg[a] IN
    /\ g.pc \in {"merge", "emptymerge", "emptymove", "copy", "verify", "move"} => g.id \in MgIds
    /\ g.pc \in {"merge", "emptymerge"} =>
          /\ g.twin \in MgIds
          /\ row[g.id].pol = "src" => Mergeable(row[g.id].key)
    /\ g.pc \in {"copy", "verify", "move"} /\ row[g.id].pol = "src" =>
          g.key = row[g.id].key \/ g.key = FreshKeys[a][g.id]

MergeInv == Types /\ KeysTell /\ \A a \in Attempts : Remembered(a)

\* The keys the module speaks of.
LEMMA SomeKeys ==
  EmptyKey \in MgKeys /\ \A a \in Attempts, i \in MgIds : FreshKeys[a][i] \in MgKeys
  BY SMTT(60), Z3T(60) DEF MgKeys

\* A new key says nothing about content.
LEMMA NewKey == ASSUME NEW a \in Attempts, NEW i \in MgIds PROVE ~Mergeable(FreshKeys[a][i])
  BY FreshKeyAssumption DEF Mergeable

\* The keys of a scene are among them.
LEMMA SceneKeys == ASSUME NEW s \in MgScenes PROVE s.upkey \in MgKeys
  BY SMTT(60), Z3T(60) DEF MgKeys

\* An attempt that has not begun.
LEMMA OffType == Off \in AttemptType /\ Off.pc = "off"
<1>1. EmptyKey \in MgKeys /\ {} \in SUBSET MgIds /\ 0 \in MgIds \cup {0}
  BY SomeKeys
<1> QED BY <1>1 DEF Off, AttemptType, MgPcs

\* Nothing is remembered at first, and the assumption speaks of the rows.
LEMMA InitInv == MigrationInit => MergeInv
<1> SUFFICES ASSUME MigrationInit PROVE MergeInv
  OBVIOUS
<1> USE SceneAssumption, MigrationAssumption
<1>1. scene \in MgScenes /\ row = scene.start /\ mgRef = scene.refs
  BY DEF MigrationInit
<1>2. Off \in AttemptType /\ Off.pc = "off"
  BY OffType
<1>3. NoSweep \in SweepType
  BY SomeKeys DEF NoSweep, SweepType
<1>4. Types
  BY SMTT(60), Z3T(60), <1>1, <1>2, <1>3 DEF MigrationInit, Types, RowType
<1>5. KeysTell
  BY SMTT(60), Z3T(60), <1>1 DEF KeysTell, Mergeable
<1>6. \A a \in Attempts : Remembered(a)
  BY <1>2 DEF Remembered, MigrationInit
<1> QED BY <1>4, <1>5, <1>6 DEF MergeInv

-----------------------------------------------------------------------------
\* A row of the source keeps its key, and no row comes back to the source.
SourceKept ==
    \A i \in MgIds : row'[i].pol = "src" => row[i].pol = "src" /\ row'[i].key = row[i].key

\* No row appears, and a row keeps its key or gets one that says nothing about content.
RowsKept ==
    \A i \in MgIds : row'[i].pol # "none" =>
        row[i].pol # "none" /\ (row'[i].key = row[i].key \/ ~Mergeable(row'[i].key))

\* An entry changes alone.
LEMMA EntrySets ==
  ASSUME Types, NEW a \in Attempts, NEW g \in AttemptType, mg' = [mg EXCEPT ![a] = g]
  PROVE  /\ mg' \in [Attempts -> AttemptType] /\ mg'[a] = g
         /\ \A b \in Attempts : b # a => mg'[b] = mg[b]
  BY DEF Types

\* The same for a change of place,
LEMMA GotoSets ==
  ASSUME Types, NEW a \in Attempts, NEW pc \in MgPcs, MgGoto(a, pc)
  PROVE  /\ mg' \in [Attempts -> AttemptType]
         /\ mg'[a].pc = pc /\ mg'[a].id = mg[a].id /\ mg'[a].key = mg[a].key
         /\ \A b \in Attempts : b # a => mg'[b] = mg[b]
  BY DEF Types, MgGoto, AttemptType

\* and where the checkpoint advances.
LEMMA AdvanceSets ==
  ASSUME Types, NEW a \in Attempts, NEW i \in MgIds, NEW pc \in MgPcs,
         mg' = [mg EXCEPT ![a] = [@ EXCEPT !.pc = pc, !.todo = mg[a].todo \ {i}]]
  PROVE  /\ mg' \in [Attempts -> AttemptType] /\ mg'[a].pc = pc
         /\ \A b \in Attempts : b # a => mg'[b] = mg[b]
<1> DEFINE g == [mg[a] EXCEPT !.pc = pc]
           k == [g EXCEPT !.todo = mg[a].todo \ {i}]
<1>1. g \in AttemptType /\ g.pc = pc /\ mg[a].todo \subseteq MgIds
  BY DEF Types, AttemptType
<1> HIDE DEF g
<1>2. k \in AttemptType /\ k.pc = pc
  BY <1>1 DEF AttemptType
<1>3. mg' = [mg EXCEPT ![a] = k]
  BY DEF g
<1> HIDE DEF k
<1> QED BY <1>2, <1>3, EntrySets

\* What the other attempts remember stays true.
LEMMA OthersRemember ==
  ASSUME Types, SourceKept, NEW b \in Attempts, Remembered(b), mg'[b] = mg[b]
  PROVE  Remembered(b)'
  BY DEF Remembered, SourceKept, Mergeable

\* Keys go on telling where no row appears.
LEMMA TellingKept ==
  ASSUME KeysTell, RowsKept, scene' = scene
  PROVE  KeysTell'
  BY SMTT(60), Z3T(60) DEF KeysTell, RowsKept, Mergeable

\* A step of attempt a that does not make rows.
LEMMA AttemptStep ==
  ASSUME MergeInv, NEW a \in Attempts, RowsKept, SourceKept, Remembered(a)',
         mg' \in [Attempts -> AttemptType], \A b \in Attempts : b # a => mg'[b] = mg[b],
         scene' = scene, sweep' = sweep, row' \in [MgIds -> RowType],
         mgRef' \in [MgRevs -> MgIds \cup {0}], cursor' \in MgIds \cup {0},
         claims' \in 0..MaxTries
  PROVE  MergeInv'
<1>1. Types'
  BY DEF MergeInv, Types
<1>2. KeysTell'
  BY TellingKept DEF MergeInv
<1>3. ASSUME NEW b \in Attempts PROVE Remembered(b)'
  BY <1>3, OthersRemember DEF MergeInv
<1> QED BY <1>1, <1>2, <1>3 DEF MergeInv

\* A step of attempt a that changes no row.
LEMMA QuietStep ==
  ASSUME MergeInv, NEW a \in Attempts, Remembered(a)',
         mg' \in [Attempts -> AttemptType], \A b \in Attempts : b # a => mg'[b] = mg[b],
         UNCHANGED <<scene, row, mgRef, claims, sweep>>, cursor' \in MgIds \cup {0}
  PROVE  MergeInv'
<1>1. RowsKept /\ SourceKept
  BY DEF RowsKept, SourceKept
<1> QED BY <1>1, AttemptStep DEF MergeInv, Types

\* A row changes alone.
LEMMA RowSets ==
  ASSUME Types, NEW i \in MgIds, NEW q \in RowType, row' = [row EXCEPT ![i] = q]
  PROVE  /\ row' \in [MgIds -> RowType] /\ row'[i] = q
         /\ \A j \in MgIds : j # i => row'[j] = row[j]
  BY DEF Types

\* A merge drops one row, recounts another, and repoints revisions to the other one.
LEMMA MergedSets ==
  ASSUME Types, NEW i \in MgIds, NEW t \in MgIds, row[i].pol = "src", Merged(i, t)
  PROVE  /\ row' \in [MgIds -> RowType] /\ RowsKept /\ SourceKept
         /\ mgRef' \in [MgRevs -> MgIds \cup {0}]
         /\ row[t].pol # "none" /\ row[t].key = row[i].key
         /\ \A r \in MgRevs : mgRef'[r] = mgRef[r] \/ (mgRef[r] = i /\ mgRef'[r] = t)
<1> DEFINE mid == [row EXCEPT ![i] = NoBlobRow]
           n == IF row[i].count = 0 THEN row[t].count ELSE Counted(i, t)
<1>1. NoBlobRow \in RowType /\ NoBlobRow.pol = "none"
  BY SMTT(60), Z3T(60), SomeKeys DEF NoBlobRow, RowType
<1>2. mid \in [MgIds -> RowType] /\ mid[i] = NoBlobRow
      /\ \A j \in MgIds : j # i => mid[j] = row[j]
  BY <1>1 DEF Types
<1>3. n \in Int
  BY SMTT(60), Z3T(60) DEF Counted, Types, RowType
<1>4. row' = [mid EXCEPT ![t].count = n]
  BY DEF Merged
<1> HIDE DEF mid, n
<1>6. row' \in [MgIds -> RowType]
      /\ \A j \in MgIds : row'[j].pol = mid[j].pol /\ row'[j].key = mid[j].key
  BY <1>2, <1>3, <1>4 DEF RowType
<1>7. RowsKept /\ SourceKept
  BY <1>1, <1>2, <1>6 DEF RowsKept, SourceKept
<1>8. mgRef' = [r \in MgRevs |-> IF mgRef[r] = i THEN t ELSE mgRef[r]]
      /\ row[t].pol # "none" /\ row[t].key = row[i].key
  BY DEF Merged
<1> QED BY <1>6, <1>7, <1>8 DEF Types

-----------------------------------------------------------------------------
\* Claiming the task, and an attempt that ends.
LEMMA ClaimKeeps == ASSUME MergeInv, MgClaim PROVE MergeInv'
<1> USE DEF MergeInv
<1>1. PICK a \in Attempts : a = claims + 1
  BY SMTT(60), Z3T(60), MigrationAssumption DEF MgClaim, Types, Attempts
<1> DEFINE pc == IF scene.recover THEN "empties" ELSE "scan"
           g == [Off EXCEPT !.pc = pc]
           k == [g EXCEPT !.seen = cursor]
<1>2. pc \in {"empties", "scan"}
  OBVIOUS
<1>3. mg' = [mg EXCEPT ![a] = k]
  BY <1>1 DEF MgClaim
<1> HIDE DEF pc
<1>4. g \in AttemptType /\ g.pc = pc
  BY <1>2, OffType DEF AttemptType, MgPcs
<1> HIDE DEF g
<1>5. k \in AttemptType /\ k.pc = pc
  BY <1>4 DEF AttemptType, Types
<1> HIDE DEF k
<1>6. mg' \in [Attempts -> AttemptType] /\ mg'[a] = k
      /\ \A b \in Attempts : b # a => mg'[b] = mg[b]
  BY <1>1, <1>3, <1>5, EntrySets
<1>7. mg'[a].pc \in {"empties", "scan"}
  BY <1>2, <1>5, <1>6
<1>10. Remembered(a)'
  BY <1>7 DEF Remembered
<1>8. RowsKept /\ SourceKept /\ UNCHANGED <<scene, row, mgRef, cursor, sweep>>
  BY DEF MgClaim, RowsKept, SourceKept
<1>9. claims' \in 0..MaxTries
  BY SMTT(60), Z3T(60), MigrationAssumption DEF MgClaim, Types
<1> QED BY <1>6, <1>8, <1>9, <1>10, AttemptStep DEF Types

\* An attempt in a place where it remembers nothing keeps the invariant.
LEMMA ForgetKeeps ==
  ASSUME MergeInv, NEW a \in Attempts, UNCHANGED <<scene, row, mgRef, claims, sweep>>,
         cursor' \in MgIds \cup {0},
         mg' \in [Attempts -> AttemptType], \A b \in Attempts : b # a => mg'[b] = mg[b],
         mg'[a].pc \in {"off", "scan", "next", "tidy", "delete", "undo", "undodelete"}
  PROVE  MergeInv'
<1>1. Remembered(a)'
  BY DEF Remembered
<1> QED BY <1>1, QuietStep

\* The places where an attempt only looks, or ends.
LEMMA PlainKeeps ==
  ASSUME MergeInv, NEW a \in Attempts,
         MgStops(a) \/ MgTidy(a) \/ MgDelete(a) \/ MgUndo(a) \/ MgUndoDelete(a)
  PROVE  MergeInv'
<1> USE DEF MergeInv
<1>1. UNCHANGED <<scene, row, mgRef, claims, sweep>> /\ cursor' \in MgIds \cup {0}
  BY DEF MgStops, MgTidy, MgDelete, MgUndo, MgUndoDelete, Types
<1>2. CASE mg' = [mg EXCEPT ![a] = Off]
  BY <1>1, <1>2, OffType, EntrySets, ForgetKeeps
<1>3. ASSUME NEW pc \in {"delete", "next", "undodelete"}, MgGoto(a, pc) PROVE MergeInv'
  <2>1. pc \in MgPcs
    BY DEF MgPcs
  <2> QED BY <1>1, <1>3, <2>1, GotoSets, ForgetKeeps
<1> QED BY <1>2, <1>3 DEF MgStops, MgTidy, MgDelete, MgUndo, MgUndoDelete

\* The checkpoint advances past a blob; the rows may have changed with it.
LEMMA AdvanceKeeps ==
  ASSUME MergeInv, NEW a \in Attempts, NEW i \in MgIds, NEW pc \in {"next", "tidy"},
         cursor' = i,
         mg' = [mg EXCEPT ![a] = [@ EXCEPT !.pc = pc, !.todo = mg[a].todo \ {i}]],
         RowsKept, SourceKept, row' \in [MgIds -> RowType],
         mgRef' \in [MgRevs -> MgIds \cup {0}], UNCHANGED <<scene, claims, sweep>>
  PROVE  MergeInv'
<1>1. pc \in MgPcs
  BY DEF MgPcs
<1>2. mg' \in [Attempts -> AttemptType] /\ mg'[a].pc = pc
      /\ \A b \in Attempts : b # a => mg'[b] = mg[b]
  BY <1>1, AdvanceSets DEF MergeInv
<1>3. Remembered(a)'
  BY <1>2 DEF Remembered
<1> QED BY <1>2, <1>3, AttemptStep DEF MergeInv, Types

\* The next batch, or the end of the task.
LEMMA ScanKeeps == ASSUME MergeInv, NEW a \in Attempts, MgScan(a) PROVE MergeInv'
<1> USE DEF MergeInv
<1>1. UNCHANGED <<scene, row, mgRef, claims, sweep>> /\ cursor' \in MgIds \cup {0}
  BY DEF MgScan, Types
<1>2. CASE mg' = [mg EXCEPT ![a] = Off]
  BY <1>1, <1>2, OffType, EntrySets, ForgetKeeps
<1>3. ASSUME NEW T \in SUBSET MgIds,
             mg' = [mg EXCEPT ![a] = [@ EXCEPT !.pc = "next", !.todo = T]]
      PROVE  MergeInv'
  <2> DEFINE g == [mg[a] EXCEPT !.pc = "next"]
             k == [g EXCEPT !.todo = T]
  <2>1. g \in AttemptType /\ g.pc = "next"
    BY DEF AttemptType, Types, MgPcs
  <2> HIDE DEF g
  <2>2. k \in AttemptType /\ k.pc = "next"
    BY <2>1 DEF AttemptType
  <2>3. mg' = [mg EXCEPT ![a] = k]
    BY <1>3 DEF g
  <2> HIDE DEF k
  <2> QED BY <1>1, <2>2, <2>3, EntrySets, ForgetKeeps
<1>4. {i \in Scannable : Cardinality({j \in Scannable : j < i}) < BatchSize} \in SUBSET MgIds
  BY DEF Scannable
<1> QED BY <1>2, <1>3, <1>4 DEF MgScan

\* Reading the virtual-empty rows.
LEMMA EmptiesKeeps == ASSUME MergeInv, NEW a \in Attempts, MgEmpties(a) PROVE MergeInv'
<1> USE DEF MergeInv
<1>1. UNCHANGED <<scene, row, mgRef, claims, sweep>> /\ cursor' \in MgIds \cup {0}
  BY DEF MgEmpties, Types
<1>2. CASE MgGoto(a, "scan")
  BY <1>1, <1>2, GotoSets, ForgetKeeps DEF MgPcs
<1>3. ASSUME NEW i \in RowAt("src", EmptyKey),
             mg' = [mg EXCEPT ![a] = [@ EXCEPT !.pc = "emptymove", !.id = i]]
      PROVE  MergeInv'
  <2> DEFINE g == [mg[a] EXCEPT !.pc = "emptymove"]
             k == [g EXCEPT !.id = i]
  <2>1. g \in AttemptType /\ g.pc = "emptymove" /\ i \in MgIds
    BY DEF AttemptType, Types, MgPcs, RowAt
  <2> HIDE DEF g
  <2>2. k \in AttemptType /\ k.pc = "emptymove" /\ k.id = i
    BY <2>1 DEF AttemptType
  <2>3. mg' = [mg EXCEPT ![a] = k]
    BY <1>3 DEF g
  <2> HIDE DEF k
  <2>4. mg' \in [Attempts -> AttemptType] /\ mg'[a] = k
        /\ \A b \in Attempts : b # a => mg'[b] = mg[b]
    BY <2>2, <2>3, EntrySets
  <2>5. Remembered(a)'
    BY <2>1, <2>2, <2>4 DEF Remembered
  <2> QED BY <1>1, <2>4, <2>5, QuietStep
<1>4. ASSUME NEW i \in RowAt("src", EmptyKey), NEW t \in RowAt("tgt", EmptyKey),
             mg' = [mg EXCEPT ![a] = [@ EXCEPT !.pc = "emptymerge", !.id = i, !.twin = t]]
      PROVE  MergeInv'
  <2> DEFINE g == [mg[a] EXCEPT !.pc = "emptymerge"]
             k == [g EXCEPT !.id = i]
             l == [k EXCEPT !.twin = t]
  <2>1. g \in AttemptType /\ g.pc = "emptymerge" /\ i \in MgIds /\ t \in MgIds
    BY DEF AttemptType, Types, MgPcs, RowAt
  <2> HIDE DEF g
  <2>2. k \in AttemptType /\ k.pc = "emptymerge" /\ k.id = i
    BY <2>1 DEF AttemptType
  <2> HIDE DEF k
  <2>3. l \in AttemptType /\ l.pc = "emptymerge" /\ l.id = i /\ l.twin = t
    BY <2>1, <2>2 DEF AttemptType
  <2>4. mg' = [mg EXCEPT ![a] = l]
    BY <1>4 DEF g, k
  <2> HIDE DEF l
  <2>5. mg' \in [Attempts -> AttemptType] /\ mg'[a] = l
        /\ \A b \in Attempts : b # a => mg'[b] = mg[b]
    BY <2>3, <2>4, EntrySets
  <2>6. row[i].key = EmptyKey /\ UNCHANGED row
    BY <1>1 DEF RowAt
  <2>7. Remembered(a)'
    BY <2>1, <2>3, <2>5, <2>6 DEF Remembered, Mergeable
  <2> QED BY <1>1, <2>5, <2>7, QuietStep
<1> QED BY <1>2, <1>3, <1>4 DEF MgEmpties

\* What the transactions of an attempt do to rows and revisions.
Harmless ==
    /\ row' \in [MgIds -> RowType] /\ RowsKept /\ SourceKept
    /\ mgRef' \in [MgRevs -> MgIds \cup {0}]
    /\ \A r \in MgRevs : mgRef[r] # 0 /\ mgRef'[r] # 0 =>
          scene.content[mgRef[r]] = scene.content[mgRef'[r]]

\* Rows and revisions that stay are harmed by nobody.
LEMMA StayHarmless == ASSUME Types, UNCHANGED <<row, mgRef>> PROVE Harmless
  BY DEF Types, Harmless, RowsKept, SourceKept

\* A merge is harmless when the key of the row speaks of its content.
LEMMA MergeHarmless ==
  ASSUME Types, KeysTell, NEW i \in MgIds, NEW t \in MgIds, row[i].pol = "src",
         Mergeable(row[i].key), Merged(i, t)
  PROVE  Harmless
<1>1. row[t].pol # "none" /\ row[t].key = row[i].key
  BY MergedSets
<1>2. scene.content[i] = scene.content[t]
  BY <1>1 DEF KeysTell
<1>3. /\ row' \in [MgIds -> RowType] /\ RowsKept /\ SourceKept
      /\ mgRef' \in [MgRevs -> MgIds \cup {0}]
      /\ \A r \in MgRevs : mgRef'[r] = mgRef[r] \/ (mgRef[r] = i /\ mgRef'[r] = t)
  BY MergedSets
<1> QED BY <1>2, <1>3 DEF Harmless

\* The transactions of an attempt are harmless.
LEMMA EmptyDoneHarmless ==
  ASSUME MergeInv, NEW a \in Attempts, MgEmptyDone(a) PROVE Harmless
<1> USE DEF MergeInv
<1>1. mg[a].id \in MgIds
  BY DEF MgEmptyDone, MgAt, Remembered
<1>2. CASE UNCHANGED <<row, mgRef>>
  BY <1>2, StayHarmless
<1>3. CASE MgAt(a, "emptymerge") /\ StillInSource(mg[a].id)
  <2>1. mg[a].twin \in MgIds /\ row[mg[a].id].pol = "src" /\ Mergeable(row[mg[a].id].key)
    BY <1>3 DEF MgAt, StillInSource, Remembered
  <2> QED BY <1>1, <1>3, <2>1, MergeHarmless DEF MgEmptyDone
<1>4. CASE row' = [row EXCEPT ![mg[a].id].pol = "tgt"] /\ UNCHANGED mgRef
           /\ StillInSource(mg[a].id)
  BY <1>1, <1>4 DEF Harmless, RowsKept, SourceKept, Types, RowType, StillInSource
<1> QED BY <1>2, <1>3, <1>4 DEF MgEmptyDone

\* So is merge_blob_records.
LEMMA MergeStepHarmless ==
  ASSUME MergeInv, NEW a \in Attempts, MgMerge(a) PROVE Harmless
<1> USE DEF MergeInv
<1>1. mg[a].id \in MgIds /\ mg[a].twin \in MgIds
  BY DEF MgMerge, MgAt, Remembered
<1>2. CASE UNCHANGED <<row, mgRef>>
  BY <1>2, StayHarmless
<1>3. CASE StillInSource(mg[a].id)
  <2>1. row[mg[a].id].pol = "src" /\ Mergeable(row[mg[a].id].key)
    BY <1>3 DEF MgMerge, MgAt, StillInSource, Remembered
  <2> QED BY <1>1, <1>3, <2>1, MergeHarmless DEF MgMerge
<1> QED BY <1>2, <1>3 DEF MgMerge

\* The row that moves takes its own key along, or a new one that is no hash.
LEMMA MoveHarmless ==
  ASSUME MergeInv, NEW a \in Attempts, MgMove(a) PROVE Harmless
<1> USE DEF MergeInv
<1> DEFINE i == mg[a].id
           q == [pol |-> "tgt", key |-> mg[a].key, count |-> row[i].count]
<1>1. i \in MgIds /\ mg[a].key \in MgKeys
  BY DEF MgMove, MgAt, Remembered, Types, AttemptType
<1>2. CASE UNCHANGED row
  BY <1>2, StayHarmless DEF MgMove
<1>3. CASE row' = [row EXCEPT ![i] = q] /\ StillInSource(i)
  <2>1. q \in RowType /\ q.pol = "tgt" /\ q.key = mg[a].key
    BY <1>1 DEF Types, RowType
  <2>2. q.key = row[i].key \/ ~Mergeable(q.key)
    <3>1. mg[a].key = row[i].key \/ mg[a].key = FreshKeys[a][i]
      BY <1>3 DEF MgMove, MgAt, Remembered, StillInSource
    <3> QED BY <1>1, <2>1, <3>1, NewKey
  <2> HIDE DEF q
  <2>3. row' \in [MgIds -> RowType] /\ row'[i] = q
        /\ \A j \in MgIds : j # i => row'[j] = row[j]
    BY <1>1, <1>3, <2>1, RowSets
  <2>4. RowsKept
    <3>1. row[i].pol # "none"
      BY <1>3 DEF StillInSource
    <3> HIDE DEF i
    <3> QED BY <2>2, <2>3, <3>1 DEF RowsKept
  <2>5. SourceKept
    <3> HIDE DEF i
    <3> QED BY <2>1, <2>3 DEF SourceKept
  <2> QED BY <2>3, <2>4, <2>5 DEF Harmless, MgMove, Types
<1> QED BY <1>2, <1>3 DEF MgMove

\* The transactions keep the invariant.
LEMMA TransactionKeeps ==
  ASSUME MergeInv, NEW a \in Attempts, MgEmptyDone(a) \/ MgMerge(a) \/ MgMove(a)
  PROVE  MergeInv'
<1> USE DEF MergeInv
<1>1. Harmless /\ UNCHANGED <<scene, claims, sweep>>
  BY EmptyDoneHarmless, MergeStepHarmless, MoveHarmless DEF MgEmptyDone, MgMerge, MgMove
<1>2. /\ row' \in [MgIds -> RowType] /\ RowsKept /\ SourceKept
      /\ mgRef' \in [MgRevs -> MgIds \cup {0}]
  BY <1>1 DEF Harmless
<1>3. CASE MgEmptyDone(a)
  <2>1. MgGoto(a, "scan") /\ cursor' \in MgIds \cup {0} /\ "scan" \in MgPcs
    BY <1>3 DEF MgEmptyDone, Types, AttemptType, MgPcs
  <2>2. mg' \in [Attempts -> AttemptType] /\ mg'[a].pc = "scan"
        /\ \A b \in Attempts : b # a => mg'[b] = mg[b]
    BY <2>1, GotoSets
  <2>3. Remembered(a)'
    BY <2>2 DEF Remembered
  <2>4. claims' \in 0..MaxTries
    BY <1>1 DEF Types
  <2> QED BY <1>1, <1>2, <2>1, <2>2, <2>3, <2>4, AttemptStep
<1>4. ASSUME NEW i \in MgIds, Advance(a, i) PROVE MergeInv'
  BY <1>1, <1>2, <1>4, AdvanceKeeps DEF Advance
<1>5. CASE MgMerge(a)
  <2>1. mg[a].id \in MgIds
    BY <1>5 DEF MgMerge, MgAt, Remembered
  <2> QED BY <1>4, <1>5, <2>1 DEF MgMerge
<1>6. CASE MgMove(a)
  <2>1. mg[a].id \in MgIds
    BY <1>6 DEF MgMove, MgAt, Remembered
  <2>2. CASE ~StillInSource(mg[a].id)
    <3>1. PICK pc \in {"next", "tidy"} :
             mg' = [mg EXCEPT ![a] = [@ EXCEPT !.pc = pc, !.todo = mg[a].todo \ {mg[a].id}]]
      BY <1>6, <2>2 DEF MgMove
    <3>2. cursor' = mg[a].id
      BY <1>6, <2>2 DEF MgMove
    <3> QED BY <1>1, <1>2, <2>1, <3>1, <3>2, AdvanceKeeps
  <2>3. CASE StillInSource(mg[a].id) /\ RowAt("tgt", mg[a].key) \ {mg[a].id} # {}
    <3>1. PICK t \in RowAt("tgt", mg[a].key) :
             mg' = [mg EXCEPT ![a] = [@ EXCEPT !.pc = "merge", !.twin = t]]
      BY <1>6, <2>3 DEF MgMove
    <3>2. mg[a].key = EmptyKey /\ UNCHANGED <<row, cursor, mgRef>> /\ mg[a].pc = "move"
      BY <1>6, <2>3 DEF MgMove, MgAt
    <3>3. Mergeable(row[mg[a].id].key)
      BY <2>1, <2>3, <3>2, FreshKeyAssumption DEF Remembered, StillInSource, Mergeable
    <3> DEFINE g == [mg[a] EXCEPT !.pc = "merge"]
               k == [g EXCEPT !.twin = t]
    <3>4. g \in AttemptType /\ g.pc = "merge" /\ g.id = mg[a].id /\ t \in MgIds
      BY DEF AttemptType, Types, MgPcs, RowAt
    <3> HIDE DEF g
    <3>5. k \in AttemptType /\ k.pc = "merge" /\ k.id = mg[a].id /\ k.twin = t
      BY <3>4 DEF AttemptType
    <3>6. mg' = [mg EXCEPT ![a] = k]
      BY <3>1 DEF g
    <3> HIDE DEF k
    <3>7. mg' \in [Attempts -> AttemptType] /\ mg'[a] = k
          /\ \A b \in Attempts : b # a => mg'[b] = mg[b]
      BY <3>5, <3>6, EntrySets
    <3>8. Remembered(a)'
      BY <2>1, <3>2, <3>3, <3>4, <3>5, <3>7 DEF Remembered, Mergeable
    <3>9. cursor' \in MgIds \cup {0}
      BY <3>2 DEF Types
    <3> QED BY <1>1, <3>2, <3>7, <3>8, <3>9, QuietStep
  <2>4. CASE StillInSource(mg[a].id) /\ RowAt("tgt", mg[a].key) \ {mg[a].id} = {}
    BY <1>4, <1>6, <2>1, <2>4 DEF MgMove
  <2> QED BY <2>2, <2>3, <2>4
<1> QED BY <1>3, <1>5, <1>6

\* The choice what to do with a blob is remembered as the row is.
LEMMA ChooseKeeps ==
  ASSUME MergeInv, NEW a \in Attempts, NEW i \in MgIds, Choose(a, i),
         UNCHANGED <<scene, row, mgRef, claims, sweep>>
  PROVE  MergeInv'
<1> USE DEF MergeInv
<1>1. RowsKept /\ SourceKept /\ row' \in [MgIds -> RowType]
      /\ mgRef' \in [MgRevs -> MgIds \cup {0}]
  BY DEF RowsKept, SourceKept, Types
<1>2. CASE Advance(a, i)
  BY <1>1, <1>2, AdvanceKeeps DEF Advance
<1>3. ASSUME NEW t \in MgIds, Mergeable(row[i].key), UNCHANGED cursor,
             mg' = [mg EXCEPT ![a] = [@ EXCEPT !.pc = "merge", !.id = i, !.twin = t,
                                               !.key = row[i].key]]
      PROVE  MergeInv'
  <2> DEFINE g == [mg[a] EXCEPT !.pc = "merge"]
             k == [g EXCEPT !.id = i]
             l == [k EXCEPT !.twin = t]
             m == [l EXCEPT !.key = row[i].key]
  <2>1. g \in AttemptType /\ g.pc = "merge" /\ row[i].key \in MgKeys
    BY DEF AttemptType, Types, MgPcs, RowType
  <2> HIDE DEF g
  <2>2. k \in AttemptType /\ k.pc = "merge" /\ k.id = i
    BY <2>1 DEF AttemptType
  <2> HIDE DEF k
  <2>3. l \in AttemptType /\ l.pc = "merge" /\ l.id = i /\ l.twin = t
    BY <2>2 DEF AttemptType
  <2> HIDE DEF l
  <2>4. m \in AttemptType /\ m.pc = "merge" /\ m.id = i /\ m.twin = t
    BY <2>1, <2>3 DEF AttemptType
  <2>5. mg' = [mg EXCEPT ![a] = m]
    BY <1>3 DEF g, k, l
  <2> HIDE DEF m
  <2>6. mg' \in [Attempts -> AttemptType] /\ mg'[a] = m
        /\ \A b \in Attempts : b # a => mg'[b] = mg[b]
    BY <2>4, <2>5, EntrySets
  <2>7. Remembered(a)' /\ cursor' \in MgIds \cup {0}
    BY <1>3, <2>4, <2>6 DEF Remembered, Mergeable, Types
  <2> QED BY <2>6, <2>7, QuietStep
<1>4. ASSUME NEW pc \in {"move", "copy"}, NEW n \in {row[i].key, FreshKeys[a][i]},
             UNCHANGED cursor,
             mg' = [mg EXCEPT ![a] = [@ EXCEPT !.id = i, !.twin = 0, !.pc = pc, !.key = n]]
      PROVE  MergeInv'
  <2> DEFINE g == [mg[a] EXCEPT !.id = i]
             k == [g EXCEPT !.twin = 0]
             l == [k EXCEPT !.pc = pc]
             m == [l EXCEPT !.key = n]
  <2>1. g \in AttemptType /\ g.id = i /\ n \in MgKeys
    <3>1. n \in MgKeys
      BY SomeKeys DEF Types, RowType
    <3>2. mg[a] \in AttemptType
      BY DEF Types
    <3> QED BY SMTT(60), Z3T(60), <3>1, <3>2 DEF AttemptType
  <2> HIDE DEF g
  <2>2. k \in AttemptType /\ k.id = i
    BY <2>1 DEF AttemptType
  <2> HIDE DEF k
  <2>3. l \in AttemptType /\ l.pc = pc /\ l.id = i
    BY <2>2 DEF AttemptType, MgPcs
  <2> HIDE DEF l
  <2>4. m \in AttemptType /\ m.pc = pc /\ m.id = i /\ m.key = n
    BY <2>1, <2>3 DEF AttemptType
  <2>5. mg' = [mg EXCEPT ![a] = m]
    BY <1>4 DEF g, k, l
  <2> HIDE DEF m
  <2>6. mg' \in [Attempts -> AttemptType] /\ mg'[a] = m
        /\ \A b \in Attempts : b # a => mg'[b] = mg[b]
    BY <2>4, <2>5, EntrySets
  <2>7. Remembered(a)' /\ cursor' \in MgIds \cup {0}
    BY <1>4, <2>4, <2>6 DEF Remembered, Types
  <2> QED BY <2>6, <2>7, QuietStep
<1>5. \A t \in RowAt("tgt", row[i].key) : t \in MgIds
  BY DEF RowAt
<1> QED BY <1>2, <1>3, <1>4, <1>5 DEF Choose

\* Choosing, copying and verifying keep the invariant.
LEMMA WorkKeeps ==
  ASSUME MergeInv, NEW a \in Attempts, MgNext(a) \/ MgCopy(a) \/ MgVerify(a)
  PROVE  MergeInv'
<1> USE DEF MergeInv
<1>1. UNCHANGED <<scene, row, mgRef, claims, sweep>>
  BY DEF MgNext, MgCopy, MgVerify
<1>2. mg[a].todo \subseteq MgIds
  BY DEF Types, AttemptType
<1>3. ASSUME NEW pc \in {"scan", "undo"}, MgGoto(a, pc), UNCHANGED cursor PROVE MergeInv'
  <2>1. pc \in MgPcs /\ cursor' \in MgIds \cup {0}
    BY <1>3 DEF MgPcs, Types
  <2> QED BY <1>1, <1>3, <2>1, GotoSets, ForgetKeeps
<1>4. ASSUME NEW pc \in {"verify", "move"}, MgGoto(a, pc), UNCHANGED cursor,
             mg[a].pc \in {"copy", "verify"}
      PROVE  MergeInv'
  <2>1. pc \in MgPcs /\ cursor' \in MgIds \cup {0}
    BY <1>4 DEF MgPcs, Types
  <2>2. /\ mg' \in [Attempts -> AttemptType]
        /\ mg'[a].pc = pc /\ mg'[a].id = mg[a].id /\ mg'[a].key = mg[a].key
        /\ \A b \in Attempts : b # a => mg'[b] = mg[b]
    BY <1>4, <2>1, GotoSets
  <2>3. Remembered(a)'
    BY <1>1, <1>4, <2>2 DEF Remembered
  <2> QED BY <1>1, <2>1, <2>2, <2>3, QuietStep
<1>5. CASE MgNext(a)
  BY <1>1, <1>2, <1>3, <1>5, ChooseKeeps DEF MgNext
<1>6. CASE MgCopy(a)
  <2>1. mg[a].id \in MgIds /\ mg[a].pc = "copy"
    BY <1>6 DEF MgCopy, MgAt, Remembered
  <2>2. RowsKept /\ SourceKept /\ row' \in [MgIds -> RowType]
        /\ mgRef' \in [MgRevs -> MgIds \cup {0}]
    BY <1>1 DEF RowsKept, SourceKept, Types
  <2>3. ASSUME Advance(a, mg[a].id) PROVE MergeInv'
    BY <1>1, <2>1, <2>2, <2>3, AdvanceKeeps DEF Advance
  <2> QED BY <1>3, <1>4, <1>6, <2>1, <2>3 DEF MgCopy
<1>7. CASE MgVerify(a)
  BY <1>3, <1>4, <1>7 DEF MgVerify, MgAt
<1> QED BY <1>5, <1>6, <1>7

\* A step beside the migration that makes no row.
LEMMA SideStep ==
  ASSUME MergeInv, RowsKept, SourceKept, row' \in [MgIds -> RowType],
         mgRef' \in [MgRevs -> MgIds \cup {0}], sweep' \in SweepType,
         sweep' # NoSweep => sweep'.id \in MgIds,
         UNCHANGED <<scene, cursor, claims, mg>>
  PROVE  MergeInv'
<1>1. Types'
  BY DEF MergeInv, Types
<1>2. KeysTell'
  BY TellingKept DEF MergeInv
<1>3. ASSUME NEW b \in Attempts PROVE Remembered(b)'
  BY <1>3, OthersRemember DEF MergeInv
<1> QED BY <1>1, <1>2, <1>3 DEF MergeInv

\* Purges, copies and the cleaner keep it: they change counts, or drop a row.
LEMMA SideKeeps ==
  ASSUME MergeInv,
         \/ \E r \in MgRevs : RefDropped(r) \/ \E s \in MgRevs : RefCopied(r, s)
         \/ \E i \in MgIds : SweepLoads(i)
         \/ SweepClaims \/ SweepDeletes
  PROVE  MergeInv'
<1> USE DEF MergeInv
<1>1. UNCHANGED <<scene, cursor, claims, mg>>
  BY DEF RefDropped, RefCopied, SweepLoads, SweepClaims, SweepDeletes
<1>2. ASSUME NEW i \in MgIds, NEW n \in Int, row' = [row EXCEPT ![i].count = n]
      PROVE  row' \in [MgIds -> RowType] /\ RowsKept /\ SourceKept
  BY <1>2 DEF Types, RowType, RowsKept, SourceKept
<1>3. ASSUME UNCHANGED row PROVE row' \in [MgIds -> RowType] /\ RowsKept /\ SourceKept
  BY <1>3 DEF Types, RowsKept, SourceKept
<1>4. ASSUME NEW r \in MgRevs, RefDropped(r) PROVE MergeInv'
  <2>1. mgRef[r] \in MgIds /\ row[mgRef[r]].count - 1 \in Int
    BY SMTT(60), Z3T(60), <1>4 DEF RefDropped, Types, RowType
  <2>2. row' = [row EXCEPT ![mgRef[r]].count = row[mgRef[r]].count - 1]
    BY <1>4 DEF RefDropped
  <2>3. row' \in [MgIds -> RowType] /\ RowsKept /\ SourceKept
    BY <1>2, <2>1, <2>2
  <2>4. mgRef' \in [MgRevs -> MgIds \cup {0}] /\ sweep' = sweep
    BY <1>4 DEF RefDropped, Types
  <2> QED BY <1>1, <2>3, <2>4, SideStep DEF Types
<1>5. ASSUME NEW r \in MgRevs, NEW s \in MgRevs, RefCopied(r, s) PROVE MergeInv'
  <2>1. mgRef[s] \in MgIds /\ row[mgRef[s]].count + 1 \in Int
    BY SMTT(60), Z3T(60), <1>5 DEF RefCopied, Types, RowType
  <2>2. row' = [row EXCEPT ![mgRef[s]].count = row[mgRef[s]].count + 1]
    BY <1>5 DEF RefCopied
  <2>3. row' \in [MgIds -> RowType] /\ RowsKept /\ SourceKept
    BY <1>2, <2>1, <2>2
  <2>4. mgRef' \in [MgRevs -> MgIds \cup {0}] /\ sweep' = sweep
    BY <1>5 DEF RefCopied, Types
  <2> QED BY <1>1, <2>3, <2>4, SideStep DEF Types
<1>6. ASSUME NEW i \in MgIds, SweepLoads(i) PROVE MergeInv'
  <2>1. sweep' = [id |-> i, pol |-> row[i].pol, key |-> row[i].key, claimed |-> FALSE]
    BY <1>6 DEF SweepLoads
  <2>2. sweep' \in SweepType /\ sweep'.id = i
    BY <2>1 DEF SweepType, Types, RowType
  <2>3. UNCHANGED <<row, mgRef>>
    BY <1>6 DEF SweepLoads
  <2> QED BY <1>1, <1>3, <2>2, <2>3, SideStep DEF Types
<1>7. CASE SweepClaims
  <2>1. sweep.id \in MgIds /\ UNCHANGED mgRef
    BY <1>7 DEF SweepClaims, Types
  <2>2. row' \in [MgIds -> RowType] /\ RowsKept /\ SourceKept
    BY SMTT(60), Z3T(60), <1>2, <1>3, <1>7, <2>1 DEF SweepClaims
  <2>3. sweep' = NoSweep \/ (sweep' \in SweepType /\ sweep'.id = sweep.id)
    BY <1>7 DEF SweepClaims, Types, SweepType
  <2>4. NoSweep \in SweepType
    BY SomeKeys DEF NoSweep, SweepType
  <2> QED BY <1>1, <2>1, <2>2, <2>3, <2>4, SideStep DEF Types
<1>8. CASE SweepDeletes
  <2>1. sweep # NoSweep /\ UNCHANGED mgRef /\ sweep' = NoSweep
    BY SMTT(60), Z3T(60), <1>8 DEF SweepDeletes, NoSweep
  <2>2. sweep.id \in MgIds
    BY <2>1 DEF Types
  <2>3. NoBlobRow \in RowType /\ NoBlobRow.pol = "none" /\ NoSweep \in SweepType
    BY SMTT(60), Z3T(60), SomeKeys DEF NoBlobRow, RowType, NoSweep, SweepType
  <2>4. PICK q \in {row[sweep.id], NoBlobRow} : row' = [row EXCEPT ![sweep.id] = q]
    BY <1>8 DEF SweepDeletes
  <2>5. q \in RowType
    BY <2>2, <2>3 DEF Types
  <2>6. row' \in [MgIds -> RowType] /\ row'[sweep.id] = q
        /\ \A j \in MgIds : j # sweep.id => row'[j] = row[j]
    BY <2>2, <2>4, <2>5, RowSets
  <2>7. RowsKept /\ SourceKept
    BY <2>3, <2>4, <2>6 DEF RowsKept, SourceKept
  <2> QED BY <1>1, <2>1, <2>3, <2>6, <2>7, SideStep DEF Types
<1> QED BY <1>4, <1>5, <1>6, <1>7, <1>8

\* An upload into the target makes a row, or counts one, whose key is that of the
\* content uploaded.
LEMMA UploadKeeps == ASSUME MergeInv, NEW r \in MgRevs, Uploaded(r) PROVE MergeInv'
<1> USE DEF MergeInv
<1> DEFINE new == Max(MgIds)
           k == scene.upkey
<1>1. new \in MgIds /\ k \in MgKeys
  BY SceneAssumption, SceneKeys DEF Types
<1>2. PICK i \in IF RowAt("tgt", k) = {} THEN {new} ELSE RowAt("tgt", k) :
          /\ row' = [row EXCEPT ![i] = [pol |-> "tgt", key |-> k, count |-> row[i].count + 1]]
          /\ mgRef' = [mgRef EXCEPT ![r] = i]
          /\ RowAt("tgt", k) = {} => row[new].pol = "none"
  BY DEF Uploaded
<1>3. i \in MgIds /\ row[i].pol # "src"
  BY <1>1, <1>2 DEF RowAt
<1>4. i = new \/ (row[i].pol = "tgt" /\ row[i].key = k)
  BY <1>2 DEF RowAt
<1> DEFINE q == [pol |-> "tgt", key |-> k, count |-> row[i].count + 1]
<1>5. q \in RowType /\ q.pol = "tgt" /\ q.key = k
  BY SMTT(60), Z3T(60), <1>1, <1>3 DEF RowType, Types
<1> HIDE DEF new, k
<1>6. row' = [row EXCEPT ![i] = q]
  BY <1>2
<1> HIDE DEF q
<1>7. row' \in [MgIds -> RowType] /\ row'[i] = q /\ \A j \in MgIds : j # i => row'[j] = row[j]
  BY <1>3, <1>5, <1>6, RowSets
<1>8. SourceKept
  BY <1>5, <1>7 DEF SourceKept
<1>9. UNCHANGED <<scene, cursor, claims, mg, sweep>> /\ scene.uploads
  BY DEF Uploaded
<1>10. mgRef' \in [MgRevs -> MgIds \cup {0}]
  BY <1>2, <1>3 DEF Types
<1>11. Types'
  BY <1>7, <1>9, <1>10 DEF Types
<1>12. Mergeable(k) => \A j \in MgIds : row[j].pol # "none" /\ row[j].key = k =>
                          scene.content[j] = scene.content[new]
  BY <1>9 DEF KeysTell, new, k
<1>13. Mergeable(k) => scene.content[i] = scene.content[new]
  BY <1>3, <1>4, <1>12
<1>14. KeysTell'
  <2> SUFFICES ASSUME NEW j \in MgIds, row'[j].pol # "none", Mergeable(row'[j].key)
               PROVE  /\ \A l \in MgIds : row'[l].pol # "none" /\ row'[l].key = row'[j].key =>
                            scene.content[j] = scene.content[l]
                      /\ row'[j].key = k => scene.content[j] = scene.content[new]
    BY <1>9 DEF KeysTell, Mergeable, new, k
  <2>1. CASE row'[j].key = k
    BY <1>5, <1>7, <1>12, <1>13, <2>1
  <2>2. CASE row'[j].key # k
    BY <1>5, <1>7, <2>2 DEF KeysTell
  <2> QED BY <2>1, <2>2
<1>15. ASSUME NEW b \in Attempts PROVE Remembered(b)'
  BY <1>8, <1>9, OthersRemember
<1> QED BY <1>11, <1>14, <1>15

-----------------------------------------------------------------------------
\* The invariant holds throughout.
THEOREM MergeInvHolds == MigrationSpec => []MergeInv
<1>1. MergeInv /\ [MigrationNext]_mgVars => MergeInv'
  <2> SUFFICES ASSUME MergeInv, [MigrationNext]_mgVars PROVE MergeInv'
    OBVIOUS
  <2>1. CASE UNCHANGED mgVars
    <3>1. RowsKept /\ SourceKept
      BY <2>1 DEF mgVars, RowsKept, SourceKept
    <3> QED BY <2>1, <3>1, SideStep DEF mgVars, MergeInv, Types
  <2>2. CASE MigrationNext
    BY <2>2, ClaimKeeps, PlainKeeps, ScanKeeps, EmptiesKeeps, TransactionKeeps, WorkKeeps,
       SideKeeps, UploadKeeps DEF MigrationNext
  <2> QED BY <2>1, <2>2
<1> QED BY <1>1, InitInv, PTL DEF MigrationSpec

\* No migration changes what a revision contains, for any blobs, revisions, uploads,
\* number of attempts and order of late commits.
THEOREM MigrationKeepsRevisions == MigrationSpec => ContentUnchanged
<1>1. MergeInv /\ [MigrationNext]_mgVars =>
         [\A r \in MgRevs : mgRef[r] # 0 /\ mgRef'[r] # 0 =>
             ContentOf(mgRef[r]) = ContentOf(mgRef'[r])]_mgVars
  <2> SUFFICES ASSUME MergeInv, MigrationNext, NEW r \in MgRevs, mgRef[r] # 0, mgRef'[r] # 0
               PROVE  scene.content[mgRef[r]] = scene.content[mgRef'[r]]
    BY DEF ContentOf
  <2>1. CASE UNCHANGED mgRef
    BY <2>1
  <2>2. CASE Harmless
    BY <2>2 DEF Harmless
  <2>3. CASE MgClaim \/ SweepClaims \/ SweepDeletes \/ \E i \in MgIds : SweepLoads(i)
    BY <2>1, <2>3 DEF MgClaim, SweepClaims, SweepDeletes, SweepLoads
  <2>4. ASSUME NEW a \in Attempts, MgEmptyDone(a) \/ MgMerge(a) \/ MgMove(a)
        PROVE  scene.content[mgRef[r]] = scene.content[mgRef'[r]]
    BY <2>2, <2>4, EmptyDoneHarmless, MergeStepHarmless, MoveHarmless
  <2>5. ASSUME NEW a \in Attempts,
               MgStops(a) \/ MgScan(a) \/ MgEmpties(a) \/ MgNext(a) \/ MgCopy(a)
               \/ MgVerify(a) \/ MgTidy(a) \/ MgDelete(a) \/ MgUndo(a) \/ MgUndoDelete(a)
        PROVE  scene.content[mgRef[r]] = scene.content[mgRef'[r]]
    BY <2>1, <2>5 DEF MgStops, MgScan, MgEmpties, MgNext, MgCopy, MgVerify, MgTidy, MgDelete,
                      MgUndo, MgUndoDelete
  <2>6. ASSUME NEW q \in MgRevs, NEW n, mgRef' = [mgRef EXCEPT ![q] = n],
               mgRef[q] = 0 \/ n = 0
        PROVE  mgRef'[r] = mgRef[r]
    BY <2>6 DEF MergeInv, Types
  <2>7. ASSUME NEW q \in MgRevs,
               RefDropped(q) \/ Uploaded(q) \/ \E s \in MgRevs : RefCopied(q, s)
        PROVE  scene.content[mgRef[r]] = scene.content[mgRef'[r]]
    BY <2>6, <2>7 DEF RefDropped, Uploaded, RefCopied
  <2> QED BY <2>3, <2>4, <2>5, <2>7 DEF MigrationNext
<1> QED BY <1>1, MergeInvHolds, PTL DEF MigrationSpec, ContentUnchanged

-----------------------------------------------------------------------------
(***************************************************************************)
(* What each step leaves in an attempt's entry.                            *)
(***************************************************************************)
OthersStay(a) == \A b \in Attempts : b # a => mg'[b] = mg[b]
SetsBatch(a, pc, T) == mg' = [mg EXCEPT ![a] = [@ EXCEPT !.pc = pc, !.todo = T]]
SetsId(a, pc, i) == mg' = [mg EXCEPT ![a] = [@ EXCEPT !.pc = pc, !.id = i]]
SetsTwin(a, pc, t) == mg' = [mg EXCEPT ![a] = [@ EXCEPT !.pc = pc, !.twin = t]]
SetsPair(a, pc, i, t) == mg' = [mg EXCEPT ![a] = [@ EXCEPT !.pc = pc, !.id = i, !.twin = t]]
SetsJob(a, pc, i, t, k) ==
    \/ mg' = [mg EXCEPT ![a] = [@ EXCEPT !.pc = pc, !.id = i, !.twin = t, !.key = k]]
    \/ mg' = [mg EXCEPT ![a] = [@ EXCEPT !.id = i, !.twin = t, !.pc = pc, !.key = k]]

\* Only the place changes,
LEMMA GotoFields ==
  ASSUME Types, NEW a \in Attempts, NEW pc, MgGoto(a, pc)
  PROVE  /\ OthersStay(a)
         /\ mg'[a].pc = pc /\ mg'[a].todo = mg[a].todo /\ mg'[a].id = mg[a].id
         /\ mg'[a].twin = mg[a].twin /\ mg'[a].key = mg[a].key /\ mg'[a].seen = mg[a].seen
  BY DEF Types, MgGoto, AttemptType, OthersStay

\* the place and the batch,
LEMMA BatchFields ==
  ASSUME Types, NEW a \in Attempts, NEW pc, NEW T,
         SetsBatch(a, pc, T)
  PROVE  /\ OthersStay(a)
         /\ mg'[a].pc = pc /\ mg'[a].todo = T /\ mg'[a].id = mg[a].id
         /\ mg'[a].twin = mg[a].twin /\ mg'[a].key = mg[a].key /\ mg'[a].seen = mg[a].seen
<1>1. mg \in [Attempts -> AttemptType]
  BY DEF Types
<1> QED BY <1>1 DEF AttemptType, OthersStay, SetsBatch

\* the place and the blob,
LEMMA IdFields ==
  ASSUME Types, NEW a \in Attempts, NEW pc, NEW i,
         SetsId(a, pc, i)
  PROVE  /\ OthersStay(a)
         /\ mg'[a].pc = pc /\ mg'[a].todo = mg[a].todo /\ mg'[a].id = i
         /\ mg'[a].twin = mg[a].twin /\ mg'[a].key = mg[a].key /\ mg'[a].seen = mg[a].seen
<1>1. mg \in [Attempts -> AttemptType]
  BY DEF Types
<1> QED BY <1>1 DEF AttemptType, OthersStay, SetsId

\* the place and the twin,
LEMMA TwinFields ==
  ASSUME Types, NEW a \in Attempts, NEW pc, NEW t,
         SetsTwin(a, pc, t)
  PROVE  /\ OthersStay(a)
         /\ mg'[a].pc = pc /\ mg'[a].todo = mg[a].todo /\ mg'[a].id = mg[a].id
         /\ mg'[a].twin = t /\ mg'[a].key = mg[a].key /\ mg'[a].seen = mg[a].seen
<1>1. mg \in [Attempts -> AttemptType]
  BY DEF Types
<1> QED BY <1>1 DEF AttemptType, OthersStay, SetsTwin

\* the place, the blob and the twin,
LEMMA PairFields ==
  ASSUME Types, NEW a \in Attempts, NEW pc, NEW i, NEW t,
         SetsPair(a, pc, i, t)
  PROVE  /\ OthersStay(a)
         /\ mg'[a].pc = pc /\ mg'[a].todo = mg[a].todo /\ mg'[a].id = i
         /\ mg'[a].twin = t /\ mg'[a].key = mg[a].key /\ mg'[a].seen = mg[a].seen
<1>1. mg \in [Attempts -> AttemptType]
  BY DEF Types
<1> QED BY <1>1 DEF AttemptType, OthersStay, SetsPair

\* and all but the batch.
LEMMA JobFields ==
  ASSUME Types, NEW a \in Attempts, NEW pc, NEW i, NEW t, NEW k,
         SetsJob(a, pc, i, t, k)
  PROVE  /\ OthersStay(a)
         /\ mg'[a].pc = pc /\ mg'[a].todo = mg[a].todo /\ mg'[a].id = i
         /\ mg'[a].twin = t /\ mg'[a].key = k /\ mg'[a].seen = mg[a].seen
<1>1. mg \in [Attempts -> AttemptType] /\ mg[a] \in AttemptType
  BY DEF Types
<1> DEFINE x == [mg[a] EXCEPT !.pc = pc, !.id = i, !.twin = t, !.key = k]
           y == [mg[a] EXCEPT !.id = i, !.twin = t, !.pc = pc, !.key = k]
<1>2. x.pc = pc /\ x.todo = mg[a].todo /\ x.id = i /\ x.twin = t /\ x.key = k
      /\ x.seen = mg[a].seen
  BY <1>1 DEF AttemptType
<1>3. y.pc = pc /\ y.todo = mg[a].todo /\ y.id = i /\ y.twin = t /\ y.key = k
      /\ y.seen = mg[a].seen
  BY <1>1 DEF AttemptType
<1>4. mg' = [mg EXCEPT ![a] = x] \/ mg' = [mg EXCEPT ![a] = y]
  BY DEF SetsJob
<1> HIDE DEF x, y
<1> QED BY <1>1, <1>2, <1>3, <1>4 DEF OthersStay

\* An attempt begins.
LEMMA ClaimFields ==
  ASSUME Types, MgClaim
  PROVE  \E a \in Attempts :
            /\ OthersStay(a) /\ holder' = a
            /\ mg'[a].pc \in {"empties", "scan"} /\ (mg'[a].pc = "scan" => ~scene.recover)
            /\ mg'[a].todo = {} /\ mg'[a].seen = cursor
<1>1. PICK a \in Attempts : a = claims + 1
  BY SMTT(60), Z3T(60), MigrationAssumption DEF MgClaim, Types, Attempts
<1> DEFINE pc == IF scene.recover THEN "empties" ELSE "scan"
           k == [Off EXCEPT !.pc = pc, !.seen = cursor]
<1>2. mg' = [mg EXCEPT ![a] = k] /\ holder' = a
  BY <1>1 DEF MgClaim
<1>3. pc \in {"empties", "scan"} /\ (pc = "scan" => ~scene.recover)
  OBVIOUS
<1> HIDE DEF pc
<1>4. k.pc = pc /\ k.todo = {} /\ k.seen = cursor
  BY DEF Off
<1> HIDE DEF k
<1>5. mg'[a] = k /\ OthersStay(a)
  BY <1>2 DEF Types, OthersStay
<1> QED BY <1>2, <1>3, <1>4, <1>5

\* An attempt ends.
LEMMA OffFields ==
  ASSUME Types, NEW a \in Attempts, mg' = [mg EXCEPT ![a] = Off]
  PROVE  OthersStay(a) /\ mg'[a].pc = "off" /\ mg'[a].todo = {} /\ mg'[a].seen = 0
<1>1. Off.pc = "off" /\ Off.todo = {} /\ Off.seen = 0
  BY DEF Off
<1> QED BY <1>1 DEF Types, OthersStay

-----------------------------------------------------------------------------
(***************************************************************************)
(* References are counted exactly.                                         *)
(***************************************************************************)
RefsTo(i) == {r \in MgRevs : mgRef[r] = i}

\* What is merged into is not in the source.
TwinAway(a) == mg[a].pc \in {"merge", "emptymerge"} => row[mg[a].twin].pol # "src"

\* A row that is gone, or that the cleaner has, is referred to by nobody.
CountInv ==
    /\ \A i \in MgIds : row[i].count >= 0 => row[i].count = Cardinality(RefsTo(i))
    /\ \A i \in MgIds : row[i].pol = "none" \/ row[i].count < 0 => RefsTo(i) = {}
    /\ sweep.claimed => row[sweep.id].count = 0 - 1
    /\ \A a \in Attempts : TwinAway(a)

\* The cleaner's row is a row.
LEMMA SweepHasRow == ASSUME Types, sweep.claimed PROVE sweep.id \in MgIds
  BY SMTT(60), Z3T(60) DEF Types, NoSweep

\* The way migrate_one_blob takes for the next blob of the batch.
NextCase(a, i) ==
    /\ i \in mg[a].todo /\ \A j \in mg[a].todo : i <= j
    /\ \/ /\ mg'[a].pc = "next" /\ mg'[a].todo = mg[a].todo \ {i} /\ cursor' = i
          /\ \/ row[i].pol # "src"
             \/ /\ scene.recover /\ Mergeable(row[i].key) /\ row[i].key # EmptyKey
                /\ RowAt("tgt", row[i].key) # {} /\ ObjectAt("tgt", row[i].key) = {}
       \/ /\ mg'[a].pc = "merge" /\ mg'[a].id = i /\ mg'[a].twin \in RowAt("tgt", row[i].key)
          /\ mg'[a].todo = mg[a].todo /\ cursor' = cursor /\ row[i].pol = "src"
       \/ /\ mg'[a].pc = (IF row[i].key = EmptyKey THEN "move" ELSE "copy") /\ mg'[a].id = i
          /\ mg'[a].key = (IF RowAt("tgt", row[i].key) = {} THEN row[i].key ELSE FreshKeys[a][i])
          /\ mg'[a].todo = mg[a].todo /\ cursor' = cursor /\ row[i].pol = "src"
          /\ RowAt("tgt", row[i].key) # {} => ~Mergeable(row[i].key)

\* What choosing the next blob leaves.
LEMMA NextFields ==
  ASSUME Types, NEW a \in Attempts, MgNext(a)
  PROVE  /\ OthersStay(a) /\ mg'[a].seen = mg[a].seen
         /\ \/ mg[a].todo = {} /\ mg'[a].pc = "scan" /\ mg'[a].todo = {} /\ cursor' = cursor
            \/ \E i \in MgIds : NextCase(a, i)
<1>1. CASE mg[a].todo = {}
  BY SMTT(60), Z3T(60), <1>1, GotoFields DEF MgNext
<1>2. CASE mg[a].todo # {}
  <2>1. PICK i \in mg[a].todo : (\A j \in mg[a].todo : i <= j) /\ Choose(a, i)
    BY <1>2 DEF MgNext
  <2>2. i \in MgIds
    BY DEF Types, AttemptType
  <2> SUFFICES OthersStay(a) /\ mg'[a].seen = mg[a].seen /\ NextCase(a, i)
    BY <2>2
  <2>3. CASE row[i].pol # "src"
    <3>1. cursor' = i /\ SetsBatch(a, "next", mg[a].todo \ {i})
      BY <2>1, <2>3 DEF Choose, Advance, SetsBatch
    <3>2. OthersStay(a) /\ mg'[a].pc = "next" /\ mg'[a].todo = mg[a].todo \ {i}
          /\ mg'[a].seen = mg[a].seen
      BY <3>1, BatchFields
    <3> QED BY <2>1, <2>3, <3>1, <3>2 DEF NextCase
  <2>4. CASE row[i].pol = "src" /\ RowAt("tgt", row[i].key) # {} /\ Mergeable(row[i].key)
    <3>1. PICK t \in RowAt("tgt", row[i].key) :
            IF row[i].key = EmptyKey \/ ObjectAt("tgt", row[t].key) # {}
            THEN SetsJob(a, "merge", i, t, row[i].key) /\ UNCHANGED cursor
            ELSE scene.recover /\ Advance(a, i)
      BY <2>1, <2>4 DEF Choose, SetsJob
    <3>2. row[t].key = row[i].key
      BY DEF RowAt
    <3>3. CASE row[i].key = EmptyKey \/ ObjectAt("tgt", row[t].key) # {}
      <4>1. OthersStay(a) /\ mg'[a].pc = "merge" /\ mg'[a].id = i /\ mg'[a].twin = t
            /\ mg'[a].todo = mg[a].todo /\ mg'[a].seen = mg[a].seen
        BY SMTT(60), Z3T(60), <3>1, <3>3, JobFields
      <4> QED BY <2>1, <2>4, <3>1, <3>3, <4>1 DEF NextCase
    <3>4. CASE ~(row[i].key = EmptyKey \/ ObjectAt("tgt", row[t].key) # {})
      <4>1. cursor' = i /\ SetsBatch(a, "next", mg[a].todo \ {i})
        BY <3>1, <3>4 DEF Advance, SetsBatch
      <4>2. OthersStay(a) /\ mg'[a].pc = "next" /\ mg'[a].todo = mg[a].todo \ {i}
            /\ mg'[a].seen = mg[a].seen
        BY <4>1, BatchFields
      <4> QED BY <2>1, <2>4, <3>1, <3>2, <3>4, <4>1, <4>2 DEF NextCase
    <3> QED BY <3>3, <3>4
  <2>5. CASE row[i].pol = "src" /\ ~(RowAt("tgt", row[i].key) # {} /\ Mergeable(row[i].key))
    <3> DEFINE pc == IF row[i].key = EmptyKey THEN "move" ELSE "copy"
               k == IF RowAt("tgt", row[i].key) = {} THEN row[i].key ELSE FreshKeys[a][i]
    <3>1. SetsJob(a, pc, i, 0, k) /\ cursor' = cursor
      BY <2>1, <2>5 DEF Choose, SetsJob
    <3> HIDE DEF pc, k
    <3>2. OthersStay(a) /\ mg'[a].pc = pc /\ mg'[a].id = i /\ mg'[a].key = k
          /\ mg'[a].todo = mg[a].todo /\ mg'[a].seen = mg[a].seen
      BY <3>1, JobFields
    <3> QED BY <2>1, <2>5, <3>1, <3>2 DEF NextCase, pc, k
  <2> QED BY <2>3, <2>4, <2>5
<1> QED BY <1>1, <1>2

\* The virtual-empty row and its twin are read.
LEMMA EmptiesFields ==
  ASSUME Types, NEW a \in Attempts, MgEmpties(a)
  PROVE  /\ OthersStay(a) /\ mg'[a].seen = mg[a].seen /\ mg'[a].todo = mg[a].todo
         /\ \/ mg'[a].pc = "scan" /\ RowAt("src", EmptyKey) = {}
            \/ mg'[a].pc = "emptymove" /\ mg'[a].id \in RowAt("src", EmptyKey)
            \/ mg'[a].pc = "emptymerge" /\ mg'[a].id \in RowAt("src", EmptyKey)
               /\ mg'[a].twin \in RowAt("tgt", EmptyKey)
<1>1. CASE RowAt("src", EmptyKey) = {}
  BY <1>1, GotoFields DEF MgEmpties
<1>2. CASE RowAt("src", EmptyKey) # {}
  <2>1. PICK i \in RowAt("src", EmptyKey) :
               IF RowAt("tgt", EmptyKey) = {}
               THEN SetsId(a, "emptymove", i)
               ELSE \E t \in RowAt("tgt", EmptyKey) : SetsPair(a, "emptymerge", i, t)
    BY <1>2 DEF MgEmpties, SetsId, SetsPair
  <2>2. CASE RowAt("tgt", EmptyKey) = {}
    BY <2>1, <2>2, IdFields
  <2>3. CASE RowAt("tgt", EmptyKey) # {}
    <3>1. PICK t \in RowAt("tgt", EmptyKey) : SetsPair(a, "emptymerge", i, t)
      BY <2>1, <2>3
    <3> QED BY SMTT(60), Z3T(60), <3>1, PairFields
  <2> QED BY <2>2, <2>3
<1> QED BY <1>1, <1>2

\* The next batch, or the end.
LEMMA ScanFields ==
  ASSUME Types, NEW a \in Attempts, MgScan(a)
  PROVE  /\ OthersStay(a)
         /\ \/ mg'[a].pc = "off" /\ mg'[a].todo = {} /\ mg'[a].seen = 0 /\ Scannable = {} /\ ended'
            \/ /\ mg'[a].pc = "next" /\ mg'[a].seen = mg[a].seen /\ ended' = ended
               /\ mg'[a].todo = {i \in Scannable : Cardinality({j \in Scannable : j < i}) < BatchSize}
<1>1. CASE Scannable = {}
  BY <1>1, OffFields DEF MgScan
<1>2. CASE Scannable # {}
  <2> DEFINE T == {i \in Scannable : Cardinality({j \in Scannable : j < i}) < BatchSize}
  <2>1. SetsBatch(a, "next", T) /\ ended' = ended
    BY <1>2 DEF MgScan, SetsBatch
  <2> HIDE DEF T
  <2>2. OthersStay(a) /\ mg'[a].pc = "next" /\ mg'[a].todo = T /\ mg'[a].seen = mg[a].seen
    BY SMTT(60), Z3T(60), <2>1, BatchFields
  <2> QED BY <2>1, <2>2 DEF T
<1> QED BY <1>1, <1>2

\* Copying and verifying.
LEMMA CopyFields ==
  ASSUME Types, NEW a \in Attempts, MgCopy(a)
  PROVE  /\ OthersStay(a) /\ mg'[a].seen = mg[a].seen /\ mg'[a].id = mg[a].id /\ mg'[a].key = mg[a].key
         /\ \/ /\ mg'[a].pc = "verify" \/ (mg'[a].pc = "undo" /\ scene.breaks)
               /\ mg'[a].todo = mg[a].todo /\ cursor' = cursor
               /\ store' = Put("tgt", mg[a].key, ContentOf(mg[a].id))
            \/ /\ mg'[a].pc = "next" /\ mg'[a].todo = mg[a].todo \ {mg[a].id} /\ cursor' = mg[a].id
               /\ scene.recover /\ store' = store
               /\ ~Stored("src", scene.start[mg[a].id].key, ContentOf(mg[a].id))
<1>1. CASE Stored("src", scene.start[mg[a].id].key, ContentOf(mg[a].id))
  <2>1. PICK pc \in {"verify", "undo"} : MgGoto(a, pc) /\ (pc = "undo" => scene.breaks)
    BY <1>1 DEF MgCopy
  <2> QED BY <1>1, <2>1, GotoFields DEF MgCopy
<1>2. CASE ~Stored("src", scene.start[mg[a].id].key, ContentOf(mg[a].id))
  <2>1. cursor' = mg[a].id /\ SetsBatch(a, "next", mg[a].todo \ {mg[a].id})
        /\ scene.recover /\ store' = store
    BY <1>2 DEF MgCopy, Advance, SetsBatch
  <2> QED BY <1>2, <2>1, BatchFields
<1> QED BY <1>1, <1>2

\* The object is there, or the copy is undone.
LEMMA VerifyFields ==
  ASSUME Types, NEW a \in Attempts, MgVerify(a)
  PROVE  /\ OthersStay(a) /\ mg'[a].seen = mg[a].seen /\ mg'[a].id = mg[a].id /\ mg'[a].key = mg[a].key
         /\ mg'[a].todo = mg[a].todo
         /\ \/ mg'[a].pc = "move" /\ Stored("tgt", mg[a].key, ContentOf(mg[a].id))
            \/ mg'[a].pc = "undo" /\ scene.breaks
  BY GotoFields DEF MgVerify

\* What is used of the cardinalities of sets of revisions.
Counting ==
    /\ Cardinality({}) = 0
    /\ \A S \in SUBSET MgRevs : Cardinality(S) \in Nat /\ (Cardinality(S) = 0 => S = {})
    /\ \A S \in SUBSET MgRevs, r \in MgRevs :
          /\ r \notin S => Cardinality(S \cup {r}) = Cardinality(S) + 1
          /\ r \in S => Cardinality(S \ {r}) = Cardinality(S) - 1
    /\ \A S, T \in SUBSET MgRevs :
          S \cap T = {} => Cardinality(S \cup T) = Cardinality(S) + Cardinality(T)

\* The references to a row are counted.
LEMMA RefsCounted ==
  ASSUME Counting, NEW i
  PROVE  /\ RefsTo(i) \in SUBSET MgRevs /\ Cardinality(RefsTo(i)) \in Nat
         /\ Cardinality(RefsTo(i)) = 0 => RefsTo(i) = {}
<1>1. RefsTo(i) \in SUBSET MgRevs
  BY DEF RefsTo
<1> HIDE DEF RefsTo
<1> QED BY <1>1 DEF Counting

\* The database is in order at first.
LEMMA CountInit == ASSUME Counting PROVE MigrationInit => CountInv
<1> SUFFICES ASSUME MigrationInit PROVE CountInv
  OBVIOUS
<1>1. scene \in MgScenes /\ row = scene.start /\ mgRef = scene.refs
  BY DEF MigrationInit
<1>2. \A i \in MgIds : row[i].count = Cardinality(RefsTo(i))
  BY SMTT(60), Z3T(60), <1>1, SceneAssumption DEF RefsTo
<1>3. ASSUME NEW i \in MgIds, row[i].pol = "none" \/ row[i].count < 0 PROVE RefsTo(i) = {}
  <2>1. row[i].pol = "none"
    BY SMTT(60), Z3T(60), <1>2, <1>3, RefsCounted
  <2>2. i # 0
    BY MigrationAssumption
  <2> QED BY SMTT(60), Z3T(60), <1>1, <2>1, <2>2, SceneAssumption DEF RefsTo
<1>4. ~sweep.claimed
  BY DEF MigrationInit, NoSweep
<1>5. \A a \in Attempts : TwinAway(a)
  BY DEF MigrationInit, Off, TwinAway
<1> QED BY <1>2, <1>3, <1>4, <1>5 DEF CountInv

\* A step that leaves counts and references alone and makes no row disappear.
LEMMA CountFrame ==
  ASSUME CountInv, UNCHANGED <<mgRef, sweep>>,
         \A i \in MgIds : row'[i].count = row[i].count /\ (row'[i].pol = "none" => row[i].pol = "none"),
         sweep.claimed => sweep.id \in MgIds,
         \A a \in Attempts : TwinAway(a)'
  PROVE  CountInv'
  BY DEF CountInv, RefsTo

\* What the others merge into stays where it is.
LEMMA TwinsStay ==
  ASSUME MergeInv, CountInv, SourceKept, NEW a \in Attempts, OthersStay(a), TwinAway(a)'
  PROVE  \A b \in Attempts : TwinAway(b)'
<1> SUFFICES ASSUME NEW b \in Attempts, b # a PROVE TwinAway(b)'
  OBVIOUS
<1>1. mg'[b] = mg[b] /\ TwinAway(b) /\ Remembered(b)
  BY DEF OthersStay, CountInv, MergeInv
<1> QED BY <1>1 DEF TwinAway, Remembered, SourceKept

\* The steps of an attempt that change no row.
LEMMA CountQuiet ==
  ASSUME MergeInv, CountInv, NEW a \in Attempts, UNCHANGED <<row, mgRef, sweep>>, OthersStay(a),
         TwinAway(a)'
  PROVE  CountInv'
<1>1. SourceKept
  BY DEF SourceKept
<1>2. \A b \in Attempts : TwinAway(b)'
  BY <1>1, TwinsStay
<1>3. sweep.claimed => sweep.id \in MgIds
  BY SweepHasRow DEF MergeInv
<1> QED BY <1>2, <1>3, CountFrame

-----------------------------------------------------------------------------
\* One row moves to the target,
MovesRow(i, k) ==
    /\ row'[i].pol = "tgt" /\ row'[i].key = k /\ row'[i].count = row[i].count
    /\ \A j \in MgIds : j # i => row'[j] = row[j]

\* one is merged into another,
MergesRow(i, t) ==
    /\ row[i].pol = "src" /\ row[t].pol # "none" /\ row[t].key = row[i].key
    /\ row[i].count >= 0 /\ (row[i].count > 0 => row[t].count >= 0)
    /\ row'[i].pol = "none" /\ row'[i].count = 0
    /\ row'[t].pol = row[t].pol /\ row'[t].key = row[t].key
    /\ row'[t].count = row[t].count + row[i].count
    /\ \A j \in MgIds : j # i /\ j # t => row'[j] = row[j]
    /\ \A r \in MgRevs : mgRef'[r] = IF mgRef[r] = i THEN t ELSE mgRef[r]

\* and one changes its count at most.
CountsRow(i, n) ==
    /\ row'[i].pol = row[i].pol /\ row'[i].key = row[i].key /\ row'[i].count = n
    /\ \A j \in MgIds : j # i => row'[j] = row[j]

\* merge_blob_records does that,
LEMMA MergeRows ==
  ASSUME Types, NEW i \in MgIds, NEW t \in MgIds, i # t, row[i].pol = "src", Merged(i, t)
  PROVE  MergesRow(i, t)
<1> DEFINE mid == [row EXCEPT ![i] = NoBlobRow]
           n == IF row[i].count = 0 THEN row[t].count ELSE Counted(i, t)
<1>1. NoBlobRow.pol = "none" /\ NoBlobRow.count = 0
  BY DEF NoBlobRow
<1>2. mid \in [MgIds -> RowType] /\ mid[i] = NoBlobRow
      /\ \A j \in MgIds : j # i => mid[j] = row[j]
  BY SMTT(60), Z3T(60), SomeKeys DEF Types, NoBlobRow, RowType
<1>3. n = row[t].count + row[i].count
  BY SMTT(60), Z3T(60) DEF Counted, Types, RowType
<1>4. row' = [mid EXCEPT ![t].count = n]
  BY DEF Merged
<1> HIDE DEF mid, n
<1>5. /\ row'[t].pol = mid[t].pol /\ row'[t].key = mid[t].key /\ row'[t].count = n
      /\ \A j \in MgIds : j # t => row'[j] = mid[j]
  BY <1>2, <1>4 DEF RowType
<1>6. /\ row[t].pol # "none" /\ row[t].key = row[i].key
      /\ row[i].count >= 0 /\ (row[i].count > 0 => row[t].count >= 0)
      /\ mgRef' = [r \in MgRevs |-> IF mgRef[r] = i THEN t ELSE mgRef[r]]
  BY DEF Merged
<1> QED BY <1>1, <1>2, <1>3, <1>5, <1>6 DEF MergesRow

\* move_blob_policy_if_current does,
LEMMA MoveRows ==
  ASSUME Types, NEW i \in MgIds, NEW k,
         row' = [row EXCEPT ![i] = [pol |-> "tgt", key |-> k, count |-> @.count]]
  PROVE  MovesRow(i, k)
  BY DEF Types, MovesRow

\* and so do the changes of ref_count.
LEMMA CountRows ==
  ASSUME Types, NEW i \in MgIds, NEW n, row' = [row EXCEPT ![i].count = n]
  PROVE  CountsRow(i, n)
  BY DEF Types, RowType, CountsRow

\* The transaction that moves a row, what it finds and what it leaves.
LEMMA MoveFields ==
  ASSUME MergeInv, NEW a \in Attempts, MgMove(a)
  PROVE  /\ OthersStay(a) /\ mg'[a].seen = mg[a].seen /\ mg'[a].id = mg[a].id /\ mg'[a].key = mg[a].key
         /\ mg[a].id \in MgIds
         /\ \/ /\ row[mg[a].id].pol # "src" /\ row' = row /\ cursor' = mg[a].id
               /\ mg'[a].pc = (IF mg[a].key = EmptyKey THEN "next" ELSE "tidy")
               /\ mg'[a].todo = mg[a].todo \ {mg[a].id}
            \/ /\ row[mg[a].id].pol = "src" /\ row' = row /\ cursor' = cursor
               /\ mg'[a].pc = "merge" /\ mg'[a].twin \in RowAt("tgt", mg[a].key)
               /\ mg'[a].todo = mg[a].todo
            \/ /\ row[mg[a].id].pol = "src" /\ MovesRow(mg[a].id, mg[a].key) /\ cursor' = mg[a].id
               /\ RowAt("tgt", mg[a].key) \subseteq {mg[a].id}
               /\ mg'[a].pc = "next" /\ mg'[a].todo = mg[a].todo \ {mg[a].id}
<1> USE DEF MergeInv
<1>1. mg[a].id \in MgIds
  BY DEF MgMove, MgAt, Remembered
<1> DEFINE i == mg[a].id
           T == mg[a].todo \ {i}
<1>2. CASE ~StillInSource(i)
  <2>1. PICK pc : /\ pc = (IF mg[a].key = EmptyKey THEN "next" ELSE "tidy")
                  /\ SetsBatch(a, pc, T)
    BY <1>2 DEF MgMove, SetsBatch
  <2>2. row' = row /\ cursor' = i /\ row[i].pol # "src"
    BY <1>2 DEF MgMove, StillInSource
  <2> QED BY SMTT(60), Z3T(60), <1>1, <2>1, <2>2, BatchFields
<1>3. CASE StillInSource(i) /\ RowAt("tgt", mg[a].key) \ {i} # {}
  <2>1. PICK t \in RowAt("tgt", mg[a].key) : SetsTwin(a, "merge", t)
    BY <1>3 DEF MgMove, SetsTwin
  <2>2. row' = row /\ cursor' = cursor /\ row[i].pol = "src"
    BY <1>3 DEF MgMove, StillInSource
  <2> QED BY SMTT(60), Z3T(60), <1>1, <2>1, <2>2, TwinFields
<1>4. CASE StillInSource(i) /\ RowAt("tgt", mg[a].key) \ {i} = {}
  <2>1. SetsBatch(a, "next", T)
        /\ row' = [row EXCEPT ![i] = [pol |-> "tgt", key |-> mg[a].key, count |-> @.count]]
    BY <1>4 DEF MgMove, SetsBatch, Advance
  <2>2. cursor' = i /\ row[i].pol = "src"
    BY <1>4 DEF MgMove, StillInSource, Advance
  <2>3. MovesRow(i, mg[a].key)
    BY <1>1, <2>1, MoveRows
  <2>4. RowAt("tgt", mg[a].key) \subseteq {i}
    BY <1>4
  <2>5. OthersStay(a) /\ mg'[a].seen = mg[a].seen /\ mg'[a].id = mg[a].id /\ mg'[a].key = mg[a].key
        /\ mg'[a].pc = "next" /\ mg'[a].todo = T
    BY SMTT(60), Z3T(60), <2>1, BatchFields
  <2> QED BY <1>1, <2>2, <2>3, <2>4, <2>5
<1> QED BY <1>2, <1>3, <1>4

\* The transaction that merges rows.
LEMMA MergeFields ==
  ASSUME MergeInv, NEW a \in Attempts, TwinAway(a), MgMerge(a)
  PROVE  /\ OthersStay(a) /\ mg'[a].seen = mg[a].seen /\ mg'[a].pc = "next"
         /\ mg'[a].todo = mg[a].todo \ {mg[a].id} /\ cursor' = mg[a].id
         /\ mg[a].id \in MgIds /\ mg[a].twin \in MgIds
         /\ \/ row[mg[a].id].pol # "src" /\ UNCHANGED <<row, mgRef>>
            \/ mg[a].id # mg[a].twin /\ row[mg[a].twin].pol # "src" /\ MergesRow(mg[a].id, mg[a].twin)
<1> USE DEF MergeInv
<1>1. mg[a].id \in MgIds /\ mg[a].twin \in MgIds /\ row[mg[a].twin].pol # "src"
  BY DEF MgMerge, MgAt, Remembered, TwinAway
<1>2. SetsBatch(a, "next", mg[a].todo \ {mg[a].id}) /\ cursor' = mg[a].id
  BY DEF MgMerge, Advance, SetsBatch
<1>3. /\ OthersStay(a) /\ mg'[a].seen = mg[a].seen /\ mg'[a].pc = "next"
      /\ mg'[a].todo = mg[a].todo \ {mg[a].id}
  BY SMTT(60), Z3T(60), <1>2, BatchFields
<1>4. CASE ~StillInSource(mg[a].id)
  BY <1>1, <1>2, <1>3, <1>4 DEF MgMerge, StillInSource
<1>5. CASE StillInSource(mg[a].id)
  <2>1. Merged(mg[a].id, mg[a].twin) /\ row[mg[a].id].pol = "src"
    BY <1>5 DEF MgMerge, StillInSource
  <2>2. MergesRow(mg[a].id, mg[a].twin)
    BY <1>1, <2>1, MergeRows
  <2> QED BY <1>1, <1>2, <1>3, <2>1, <2>2
<1> QED BY <1>4, <1>5

\* The transactions of migrate_recovery_virtual_empty.
LEMMA EmptyDoneFields ==
  ASSUME MergeInv, NEW a \in Attempts, TwinAway(a), MgEmptyDone(a)
  PROVE  /\ OthersStay(a) /\ mg'[a].seen = mg[a].seen /\ mg'[a].pc = "scan"
         /\ mg'[a].todo = mg[a].todo /\ cursor' = mg[a].seen /\ mg[a].id \in MgIds
         /\ \/ row[mg[a].id].pol # "src" /\ UNCHANGED <<row, mgRef>>
            \/ /\ mg[a].twin \in MgIds /\ mg[a].id # mg[a].twin /\ row[mg[a].twin].pol # "src"
               /\ MergesRow(mg[a].id, mg[a].twin)
            \/ /\ mg[a].pc = "emptymove" /\ row[mg[a].id].pol = "src" /\ UNCHANGED mgRef
               /\ RowAt("tgt", EmptyKey) = {} /\ MovesRow(mg[a].id, row[mg[a].id].key)
<1> USE DEF MergeInv
<1>1. mg[a].id \in MgIds
  BY DEF MgEmptyDone, MgAt, Remembered
<1>2. /\ OthersStay(a) /\ mg'[a].seen = mg[a].seen /\ mg'[a].pc = "scan"
      /\ mg'[a].todo = mg[a].todo /\ cursor' = mg[a].seen
  BY GotoFields DEF MgEmptyDone
<1>3. CASE ~StillInSource(mg[a].id)
  BY <1>1, <1>2, <1>3 DEF MgEmptyDone, StillInSource
<1>4. CASE StillInSource(mg[a].id) /\ mg[a].pc = "emptymerge"
  <2>1. mg[a].twin \in MgIds /\ row[mg[a].twin].pol # "src"
    BY <1>4 DEF Remembered, TwinAway
  <2>2. Merged(mg[a].id, mg[a].twin) /\ row[mg[a].id].pol = "src"
    BY <1>4 DEF MgEmptyDone, StillInSource, MgAt
  <2>3. MergesRow(mg[a].id, mg[a].twin)
    BY <1>1, <2>1, <2>2, MergeRows
  <2> QED BY <1>1, <1>2, <2>1, <2>2, <2>3
<1>5. CASE StillInSource(mg[a].id) /\ mg[a].pc # "emptymerge"
  <2>1. row' = [row EXCEPT ![mg[a].id].pol = "tgt"] /\ RowAt("tgt", EmptyKey) = {}
        /\ row[mg[a].id].pol = "src" /\ mgRef' = mgRef /\ mg[a].pc = "emptymove"
    BY <1>5 DEF MgEmptyDone, StillInSource, MgAt
  <2>2. MovesRow(mg[a].id, row[mg[a].id].key)
    BY <1>1, <2>1 DEF Types, RowType, MovesRow
  <2> QED BY <1>1, <1>2, <2>1, <2>2
<1> QED BY <1>3, <1>4, <1>5

\* An upload makes a row, or counts one.
UploadsRow(r, i) ==
    /\ UNCHANGED <<scene, cursor, holder, claims, mg, sweep, ended>> /\ scene.uploads
    /\ \/ RowAt("tgt", scene.upkey) = {} /\ i = Max(MgIds) /\ row[i].pol = "none"
       \/ row[i].pol = "tgt" /\ row[i].key = scene.upkey
    /\ row[i].count >= 0 /\ row'[i].count = row[i].count + 1
    /\ row'[i].pol = "tgt" /\ row'[i].key = scene.upkey
    /\ \A j \in MgIds : j # i => row'[j] = row[j]
    /\ mgRef[r] = 0 /\ mgRef' = [mgRef EXCEPT ![r] = i]
    /\ store' = IF scene.upkey = EmptyKey THEN store
                ELSE Put("tgt", scene.upkey, ContentOf(Max(MgIds)))

\* An upload has such a row.
LEMMA UploadRows ==
  ASSUME Types, NEW r \in MgRevs, Uploaded(r)
  PROVE  \E i \in MgIds : UploadsRow(r, i)
<1> DEFINE have == RowAt("tgt", scene.upkey)
<1>1. Max(MgIds) \in MgIds
  BY SceneAssumption
<1>2. PICK i \in IF have = {} THEN {Max(MgIds)} ELSE have :
          /\ have = {} => row[Max(MgIds)].pol = "none"
          /\ row[i].count >= 0
          /\ row' = [row EXCEPT ![i] = [pol |-> "tgt", key |-> scene.upkey, count |-> @.count + 1]]
          /\ mgRef' = [mgRef EXCEPT ![r] = i]
          /\ store' = IF scene.upkey = EmptyKey THEN store
                      ELSE Put("tgt", scene.upkey, ContentOf(Max(MgIds)))
  BY DEF Uploaded
<1>3. i \in MgIds
  BY <1>1, <1>2 DEF RowAt
<1>4. \/ have = {} /\ i = Max(MgIds) /\ row[i].pol = "none"
      \/ row[i].pol = "tgt" /\ row[i].key = scene.upkey
  BY <1>2 DEF RowAt
<1>5. /\ row'[i].pol = "tgt" /\ row'[i].key = scene.upkey /\ row'[i].count = row[i].count + 1
      /\ \A j \in MgIds : j # i => row'[j] = row[j]
  BY <1>2, <1>3 DEF Types
<1>6. UNCHANGED <<scene, cursor, holder, claims, mg, sweep, ended>> /\ scene.uploads /\ mgRef[r] = 0
  BY DEF Uploaded
<1> QED BY <1>2, <1>3, <1>4, <1>5, <1>6 DEF UploadsRow

\* The cleaner drops a row.
DropsRow(i) ==
    /\ row'[i].pol = "none" /\ row'[i].count = 0
    /\ \A j \in MgIds : j # i => row'[j] = row[j]

\* The row is claimed, so it goes.
LEMMA SweepRows ==
  ASSUME Types, SweepDeletes, sweep.id \in MgIds, row[sweep.id].count = 0 - 1
  PROVE  DropsRow(sweep.id)
<1>1. row' = [row EXCEPT ![sweep.id] = NoBlobRow]
  BY DEF SweepDeletes
<1>2. NoBlobRow.pol = "none" /\ NoBlobRow.count = 0
  BY DEF NoBlobRow
<1> HIDE DEF NoBlobRow
<1> QED BY <1>1, <1>2 DEF Types, DropsRow

-----------------------------------------------------------------------------
\* The steps of an attempt that change no row.
LEMMA CountWork ==
  ASSUME MergeInv, CountInv, NEW a \in Attempts,
         \/ MgStops(a) \/ MgScan(a) \/ MgEmpties(a) \/ MgNext(a) \/ MgCopy(a) \/ MgVerify(a)
         \/ MgTidy(a) \/ MgDelete(a) \/ MgUndo(a) \/ MgUndoDelete(a)
  PROVE  CountInv'
<1> USE DEF MergeInv
<1>1. UNCHANGED <<row, mgRef, sweep>>
  BY DEF MgStops, MgScan, MgEmpties, MgNext, MgCopy, MgVerify, MgTidy, MgDelete, MgUndo, MgUndoDelete
<1>2. ASSUME OthersStay(a), mg'[a].pc \notin {"merge", "emptymerge"} PROVE CountInv'
  BY <1>1, <1>2, CountQuiet DEF TwinAway
<1>3. ASSUME OthersStay(a), NEW k, mg'[a].twin \in RowAt("tgt", k) PROVE CountInv'
  <2>1. TwinAway(a)'
    BY <1>1, <1>3 DEF TwinAway, RowAt
  <2> QED BY <1>1, <1>3, <2>1, CountQuiet
<1>4. CASE MgStops(a) \/ MgUndoDelete(a)
  BY <1>2, <1>4, OffFields DEF MgStops, MgUndoDelete
<1>5. CASE MgScan(a)
  BY <1>2, <1>5, ScanFields
<1>6. CASE MgEmpties(a)
  BY <1>2, <1>3, <1>6, EmptiesFields
<1>7. CASE MgNext(a)
  <2>1. OthersStay(a)
    BY <1>7, NextFields
  <2>2. CASE mg'[a].pc \notin {"merge", "emptymerge"}
    BY <1>2, <2>1, <2>2
  <2>3. CASE mg'[a].pc \in {"merge", "emptymerge"}
    <3>1. PICK i \in MgIds : NextCase(a, i)
      BY <1>7, <2>3, NextFields
    <3>2. mg'[a].twin \in RowAt("tgt", row[i].key)
      BY <2>3, <3>1 DEF NextCase
    <3> QED BY <1>3, <2>1, <3>2
  <2> QED BY <2>2, <2>3
<1>8. CASE MgCopy(a)
  BY <1>2, <1>8, CopyFields
<1>9. CASE MgVerify(a)
  BY <1>2, <1>9, VerifyFields
<1>10. CASE MgTidy(a) \/ MgDelete(a) \/ MgUndo(a)
  BY SMTT(60), Z3T(60), <1>2, <1>10, GotoFields DEF MgTidy, MgDelete, MgUndo
<1> QED BY <1>4, <1>5, <1>6, <1>7, <1>8, <1>9, <1>10

\* A row that moves takes its count along.
LEMMA CountMoves ==
  ASSUME MergeInv, CountInv, NEW a \in Attempts, OthersStay(a), mg'[a].pc \notin {"merge", "emptymerge"},
         NEW i \in MgIds, NEW k, MovesRow(i, k), UNCHANGED <<mgRef, sweep>>
  PROVE  CountInv'
<1>1. SourceKept
  BY DEF SourceKept, MovesRow
<1>2. \A b \in Attempts : TwinAway(b)'
  BY <1>1, TwinsStay DEF TwinAway
<1>3. sweep.claimed => sweep.id \in MgIds
  BY SweepHasRow DEF MergeInv
<1>4. \A j \in MgIds : row'[j].count = row[j].count /\ (row'[j].pol = "none" => row[j].pol = "none")
  BY DEF MovesRow
<1> QED BY <1>2, <1>3, <1>4, CountFrame

\* A merge adds the references of the row to those of its twin.
LEMMA CountMerges ==
  ASSUME Counting, MergeInv, CountInv, NEW a \in Attempts, OthersStay(a), mg'[a].pc \notin {"merge", "emptymerge"},
         NEW i \in MgIds, NEW t \in MgIds, i # t, row[t].pol # "src", MergesRow(i, t),
         UNCHANGED sweep
  PROVE  CountInv'
<1>1. SourceKept
  BY DEF SourceKept, MergesRow
<1>2. \A b \in Attempts : TwinAway(b)'
  BY <1>1, TwinsStay DEF TwinAway
<1>3. 0 \notin MgIds
  BY MigrationAssumption
<1>4. /\ RefsTo(i)' = {} /\ RefsTo(t)' = RefsTo(t) \cup RefsTo(i)
      /\ \A j \in MgIds : j # i /\ j # t => RefsTo(j)' = RefsTo(j)
  <2>1. \A r \in MgRevs : mgRef'[r] = IF mgRef[r] = i THEN t ELSE mgRef[r]
    BY DEF MergesRow
  <2>2. RefsTo(i)' = {}
    BY <2>1 DEF RefsTo
  <2>3. RefsTo(t)' = RefsTo(t) \cup RefsTo(i)
    BY <2>1 DEF RefsTo
  <2>4. \A j \in MgIds : j # i /\ j # t => RefsTo(j)' = RefsTo(j)
    BY <2>1 DEF RefsTo
  <2> QED BY <2>2, <2>3, <2>4
<1>5. row[i].count = Cardinality(RefsTo(i)) /\ row[i].count \in Nat /\ row[t].count \in Int
  <2>1. row[i].count \in Int /\ row[t].count \in Int /\ row[i].count >= 0
    BY DEF MergeInv, Types, RowType, MergesRow
  <2> QED BY SMTT(60), Z3T(60), <2>1 DEF CountInv
<1>6. ASSUME row'[t].count >= 0
      PROVE  row'[t].count = Cardinality(RefsTo(t) \cup RefsTo(i))
  <2>1. row'[t].count = row[t].count + row[i].count /\ (row[i].count > 0 => row[t].count >= 0)
    BY DEF MergesRow
  <2>2. row[t].count >= 0
    BY SMTT(60), Z3T(60), <1>5, <1>6, <2>1
  <2>3. row[t].count = Cardinality(RefsTo(t))
    BY <2>2 DEF CountInv
  <2>4. RefsTo(t) \cap RefsTo(i) = {}
    BY DEF RefsTo
  <2>5. Cardinality(RefsTo(t) \cup RefsTo(i)) = Cardinality(RefsTo(t)) + Cardinality(RefsTo(i))
    <3> HIDE DEF RefsTo
    <3> QED BY <2>4, RefsCounted DEF Counting
  <2> QED BY <1>5, <2>1, <2>3, <2>5
<1>7. row[t].count < 0 => RefsTo(t) = {} /\ RefsTo(i) = {}
  <2> SUFFICES ASSUME row[t].count < 0 PROVE RefsTo(t) = {} /\ RefsTo(i) = {}
    OBVIOUS
  <2>1. row[i].count = 0
    BY SMTT(60), Z3T(60), <1>5 DEF MergesRow
  <2>2. Cardinality(RefsTo(i)) = 0
    BY <1>5, <2>1
  <2>3. RefsTo(i) = {}
    BY <2>2, RefsCounted
  <2> QED BY <2>3 DEF CountInv
<1>8. \A j \in MgIds : row'[j].count >= 0 => row'[j].count = Cardinality(RefsTo(j)')
  <2> SUFFICES ASSUME NEW j \in MgIds, row'[j].count >= 0
               PROVE  row'[j].count = Cardinality(RefsTo(j)')
    OBVIOUS
  <2>1. CASE j = i
    BY <1>4, <2>1 DEF MergesRow, Counting
  <2>2. CASE j = t
    BY <1>4, <1>6, <2>2
  <2>3. CASE j # i /\ j # t
    BY <1>4, <2>3 DEF MergesRow, CountInv
  <2> QED BY <2>1, <2>2, <2>3
<1>9. \A j \in MgIds : row'[j].pol = "none" \/ row'[j].count < 0 => RefsTo(j)' = {}
  <2> SUFFICES ASSUME NEW j \in MgIds, row'[j].pol = "none" \/ row'[j].count < 0
               PROVE  RefsTo(j)' = {}
    OBVIOUS
  <2>1. CASE j = i
    BY <1>4, <2>1
  <2>2. CASE j = t
    <3>1. row'[t].pol # "none" /\ row'[t].count = row[t].count + row[i].count
      BY DEF MergesRow
    <3>2. row[t].count < 0
      BY SMTT(60), Z3T(60), <1>5, <2>2, <3>1
    <3> QED BY <1>4, <1>7, <2>2, <3>2
  <2>3. CASE j # i /\ j # t
    BY <1>4, <2>3 DEF MergesRow, CountInv
  <2> QED BY <2>1, <2>2, <2>3
<1>10. sweep.claimed => row'[sweep.id].count = 0 - 1
  <2> SUFFICES ASSUME sweep.claimed PROVE row'[sweep.id].count = 0 - 1
    OBVIOUS
  <2>1. sweep.id \in MgIds /\ row[sweep.id].count = 0 - 1
    BY SweepHasRow DEF MergeInv, CountInv
  <2>2. sweep.id # i
    BY SMTT(60), Z3T(60), <1>5, <2>1
  <2>3. CASE sweep.id = t
    BY SMTT(60), Z3T(60), <1>5, <2>1, <2>3 DEF MergesRow
  <2> QED BY <2>1, <2>2, <2>3 DEF MergesRow
<1> QED BY <1>2, <1>8, <1>9, <1>10 DEF CountInv, RefsTo

\* The transactions count exactly.
LEMMA CountTransactions ==
  ASSUME Counting, MergeInv, CountInv, NEW a \in Attempts, MgMove(a) \/ MgMerge(a) \/ MgEmptyDone(a)
  PROVE  CountInv'
<1>1. TwinAway(a) /\ UNCHANGED sweep
  BY DEF CountInv, MgMove, MgMerge, MgEmptyDone
<1>2. CASE MgMove(a)
  <2>1. mgRef' = mgRef
    BY <1>2 DEF MgMove
  <2>2. CASE row' = row
    <3>1. OthersStay(a) /\ (mg'[a].pc = "merge" => mg'[a].twin \in RowAt("tgt", mg[a].key))
          /\ mg'[a].pc # "emptymerge"
      BY <1>2, MoveFields
    <3>2. TwinAway(a)'
      BY <2>2, <3>1 DEF TwinAway, RowAt
    <3> QED BY <1>1, <2>1, <2>2, <3>1, <3>2, CountQuiet
  <2>3. CASE row' # row
    <3>1. /\ OthersStay(a) /\ mg'[a].pc = "next" /\ mg[a].id \in MgIds
          /\ MovesRow(mg[a].id, mg[a].key)
      BY <1>2, <2>3, MoveFields
    <3> QED BY <1>1, <2>1, <3>1, CountMoves
  <2> QED BY <2>2, <2>3
<1>3. CASE MgMerge(a)
  <2>1. CASE UNCHANGED <<row, mgRef>>
    BY <1>1, <1>3, <2>1, MergeFields, CountQuiet DEF TwinAway
  <2>2. CASE ~UNCHANGED <<row, mgRef>>
    <3>1. /\ OthersStay(a) /\ mg'[a].pc = "next" /\ mg[a].id \in MgIds /\ mg[a].twin \in MgIds
          /\ mg[a].id # mg[a].twin /\ row[mg[a].twin].pol # "src" /\ MergesRow(mg[a].id, mg[a].twin)
      BY <1>1, <1>3, <2>2, MergeFields
    <3> QED BY <1>1, <3>1, CountMerges
  <2> QED BY <2>1, <2>2
<1>4. CASE MgEmptyDone(a)
  <2>0. OthersStay(a) /\ mg'[a].pc = "scan" /\ mg[a].id \in MgIds
    BY <1>1, <1>4, EmptyDoneFields
  <2>1. CASE UNCHANGED <<row, mgRef>>
    BY <1>1, <2>0, <2>1, CountQuiet DEF TwinAway
  <2>2. CASE mg[a].twin \in MgIds /\ mg[a].id # mg[a].twin /\ row[mg[a].twin].pol # "src"
             /\ MergesRow(mg[a].id, mg[a].twin)
    BY <1>1, <2>0, <2>2, CountMerges
  <2>3. CASE UNCHANGED mgRef /\ MovesRow(mg[a].id, row[mg[a].id].key)
    BY <1>1, <2>0, <2>3, CountMoves
  <2> QED BY <1>1, <1>4, <2>1, <2>2, <2>3, EmptyDoneFields
<1> QED BY <1>2, <1>3, <1>4

-----------------------------------------------------------------------------
\* Beside the migration: what all attempts merge into stays where it is.
LEMMA TwinsBeside ==
  ASSUME MergeInv, CountInv, SourceKept, mg' = mg
  PROVE  \A b \in Attempts : TwinAway(b)'
<1> SUFFICES ASSUME NEW b \in Attempts PROVE TwinAway(b)'
  OBVIOUS
<1>1. TwinAway(b) /\ Remembered(b)
  BY DEF CountInv, MergeInv
<1> QED BY <1>1 DEF TwinAway, Remembered, SourceKept

\* A revision comes to refer to row i, or no longer does: the count follows.
LEMMA CountOne ==
  ASSUME Counting, MergeInv, CountInv, NEW r \in MgRevs, NEW i \in MgIds, NEW j \in MgIds \cup {0},
         mg' = mg, sweep' = sweep, SourceKept,
         mgRef' = [mgRef EXCEPT ![r] = j],
         \/ mgRef[r] = i /\ j = 0 /\ row'[i].count = row[i].count - 1
         \/ mgRef[r] = 0 /\ j = i /\ row'[i].count = row[i].count + 1 /\ row[i].count >= 0
                         /\ row'[i].pol # "none",
         row'[i].pol = "none" => row[i].pol = "none",
         \A l \in MgIds : l # i => row'[l] = row[l]
  PROVE  CountInv'
<1> USE DEF MergeInv
<1>1. \A b \in Attempts : TwinAway(b)'
  BY TwinsBeside
<1>2. i # 0 /\ mgRef \in [MgRevs -> MgIds \cup {0}] /\ row[i].count \in Int
  BY MigrationAssumption DEF Types, RowType
<1>3. \A l \in MgIds : l # i => RefsTo(l)' = RefsTo(l)
  <2> SUFFICES ASSUME NEW l \in MgIds, l # i PROVE RefsTo(l)' = RefsTo(l)
    OBVIOUS
  <2>1. l # 0
    BY MigrationAssumption
  <2> QED BY <1>2, <2>1 DEF RefsTo
<1>4. row[i].count = Cardinality(RefsTo(i)) /\ row[i].count >= 0
  <2>1. CASE row[i].count >= 0
    BY <2>1 DEF CountInv
  <2>2. CASE row[i].count < 0
    <3>1. mgRef[r] = i
      BY SMTT(60), Z3T(60), <1>2, <2>2
    <3> QED BY <2>2, <3>1 DEF CountInv, RefsTo
  <2> QED BY SMTT(60), Z3T(60), <1>2, <2>1, <2>2
<1>5. RefsTo(i) \in SUBSET MgRevs /\ Cardinality(RefsTo(i)) \in Nat
  BY RefsCounted
<1>6. row'[i].count = Cardinality(RefsTo(i)') /\ row'[i].count >= 0
      /\ (row'[i].pol = "none" => RefsTo(i)' = {})
  <2>1. CASE mgRef[r] = i /\ j = 0 /\ row'[i].count = row[i].count - 1
    <3>1. RefsTo(i)' = RefsTo(i) \ {r} /\ r \in RefsTo(i)
      BY <1>2, <2>1 DEF RefsTo
    <3>2. Cardinality(RefsTo(i) \ {r}) = Cardinality(RefsTo(i)) - 1
      BY <1>5, <3>1 DEF Counting
    <3>3. Cardinality(RefsTo(i) \ {r}) \in Nat
      <4>1. RefsTo(i) \ {r} \in SUBSET MgRevs
        BY <1>5
      <4> QED BY <4>1 DEF Counting
    <3>4. row'[i].pol = "none" => FALSE
      BY <3>1 DEF CountInv
    <3> QED BY SMTT(60), Z3T(60), <1>2, <1>4, <2>1, <3>1, <3>2, <3>3, <3>4
  <2>2. CASE mgRef[r] = 0 /\ j = i /\ row'[i].count = row[i].count + 1 /\ row'[i].pol # "none"
    <3>1. RefsTo(i)' = RefsTo(i) \cup {r} /\ r \notin RefsTo(i)
      BY <1>2, <2>2 DEF RefsTo
    <3>2. Cardinality(RefsTo(i) \cup {r}) = Cardinality(RefsTo(i)) + 1
      BY <1>5, <3>1 DEF Counting
    <3> QED BY SMTT(60), Z3T(60), <1>2, <1>4, <2>2, <3>1, <3>2
  <2> QED BY <2>1, <2>2
<1>7. sweep.claimed => sweep.id \in MgIds /\ row'[sweep.id].count = 0 - 1
  <2> SUFFICES ASSUME sweep.claimed PROVE sweep.id \in MgIds /\ row'[sweep.id].count = 0 - 1
    OBVIOUS
  <2>1. sweep.id \in MgIds /\ row[sweep.id].count = 0 - 1
    BY SweepHasRow DEF CountInv
  <2>2. sweep.id # i
    BY SMTT(60), Z3T(60), <1>4, <2>1
  <2> QED BY <2>1, <2>2
<1>8. \A l \in MgIds : row'[l].count >= 0 => row'[l].count = Cardinality(RefsTo(l)')
  BY <1>3, <1>6 DEF CountInv
<1>9. \A l \in MgIds : row'[l].pol = "none" \/ row'[l].count < 0 => RefsTo(l)' = {}
  <2> SUFFICES ASSUME NEW l \in MgIds, row'[l].pol = "none" \/ row'[l].count < 0
               PROVE  RefsTo(l)' = {}
    OBVIOUS
  <2>1. CASE l = i
    <3>1. ~(row'[i].count < 0)
      BY SMTT(60), Z3T(60), <1>2, <1>6
    <3> QED BY <1>6, <2>1, <3>1
  <2>2. CASE l # i
    BY <1>3, <2>2 DEF CountInv
  <2> QED BY <2>1, <2>2
<1> QED BY <1>1, <1>7, <1>8, <1>9 DEF CountInv, RefsTo

\* Purges, copies and uploads count what they refer to.
LEMMA CountRefs ==
  ASSUME Counting, MergeInv, CountInv,
         \E r \in MgRevs : RefDropped(r) \/ Uploaded(r) \/ \E s \in MgRevs : RefCopied(r, s)
  PROVE  CountInv'
<1> USE DEF MergeInv
<1>1. ASSUME NEW r \in MgRevs, RefDropped(r) PROVE CountInv'
  <2>1. mgRef[r] \in MgIds /\ UNCHANGED <<mg, sweep>> /\ mgRef' = [mgRef EXCEPT ![r] = 0]
    BY <1>1 DEF RefDropped, Types
  <2>2. row' = [row EXCEPT ![mgRef[r]].count = row[mgRef[r]].count - 1]
    BY <1>1 DEF RefDropped
  <2>3. CountsRow(mgRef[r], row[mgRef[r]].count - 1)
    BY <2>1, <2>2, CountRows
  <2>4. SourceKept
    BY <2>3 DEF SourceKept, CountsRow
  <2> QED BY <2>1, <2>3, <2>4, CountOne DEF CountsRow
<1>2. ASSUME NEW r \in MgRevs, NEW s \in MgRevs, RefCopied(r, s) PROVE CountInv'
  <2>1. mgRef[s] \in MgIds /\ UNCHANGED <<mg, sweep>> /\ mgRef' = [mgRef EXCEPT ![r] = mgRef[s]]
        /\ mgRef[r] = 0 /\ row[mgRef[s]].count >= 0
    BY <1>2 DEF RefCopied, Types
  <2>2. row' = [row EXCEPT ![mgRef[s]].count = row[mgRef[s]].count + 1]
    BY <1>2 DEF RefCopied
  <2>3. CountsRow(mgRef[s], row[mgRef[s]].count + 1)
    BY <2>1, <2>2, CountRows
  <2>4. SourceKept
    BY <2>3 DEF SourceKept, CountsRow
  <2>5. row[mgRef[s]].pol # "none"
    BY <2>1 DEF CountInv, RefsTo
  <2>6. /\ row'[mgRef[s]].pol # "none" /\ row'[mgRef[s]].count = row[mgRef[s]].count + 1
        /\ \A l \in MgIds : l # mgRef[s] => row'[l] = row[l]
    BY <2>3, <2>5 DEF CountsRow
  <2> QED BY <2>1, <2>4, <2>6, CountOne
<1>3. ASSUME NEW r \in MgRevs, Uploaded(r) PROVE CountInv'
  <2>1. PICK i \in MgIds : UploadsRow(r, i)
    BY <1>3, UploadRows
  <2>2. SourceKept
    BY <2>1 DEF SourceKept, UploadsRow
  <2>3. /\ UNCHANGED <<mg, sweep>> /\ mgRef' = [mgRef EXCEPT ![r] = i] /\ mgRef[r] = 0
        /\ row'[i].count = row[i].count + 1 /\ row[i].count >= 0 /\ row'[i].pol # "none"
        /\ \A l \in MgIds : l # i => row'[l] = row[l]
    BY <2>1 DEF UploadsRow
  <2> QED BY <2>2, <2>3, CountOne
<1> QED BY <1>1, <1>2, <1>3

\* The cleaner claims what nobody refers to.
LEMMA CountSweeps ==
  ASSUME Counting, MergeInv, CountInv, (\E i \in MgIds : SweepLoads(i)) \/ SweepClaims \/ SweepDeletes
  PROVE  CountInv'
<1> USE DEF MergeInv
<1>1. UNCHANGED <<mg, mgRef>> /\ \A i \in MgIds : RefsTo(i)' = RefsTo(i)
  BY DEF SweepLoads, SweepClaims, SweepDeletes, RefsTo
<1>2. ASSUME NEW i \in MgIds, SweepLoads(i) PROVE CountInv'
  <2>1. row' = row /\ ~sweep'.claimed
    BY <1>2 DEF SweepLoads
  <2>2. \A b \in Attempts : TwinAway(b)'
    BY <1>1, <2>1, TwinsBeside DEF SourceKept
  <2> QED BY <1>1, <2>1, <2>2 DEF CountInv
<1>3. CASE SweepClaims /\ ~SweepMayClaim(sweep.id)
  <2>1. row' = row /\ sweep' = NoSweep /\ ~NoSweep.claimed
    BY <1>3 DEF SweepClaims, NoSweep
  <2>2. \A b \in Attempts : TwinAway(b)'
    BY <1>1, <2>1, TwinsBeside DEF SourceKept
  <2> QED BY <1>1, <2>1, <2>2 DEF CountInv
<1>4. CASE SweepClaims /\ SweepMayClaim(sweep.id)
  <2>1. sweep.id \in MgIds /\ row[sweep.id].count = 0
        /\ row' = [row EXCEPT ![sweep.id].count = 0 - 1] /\ sweep' = [sweep EXCEPT !.claimed = TRUE]
    BY <1>4 DEF SweepClaims, SweepMayClaim, Types
  <2>2. CountsRow(sweep.id, 0 - 1)
    BY <2>1, CountRows
  <2>3. sweep'.id = sweep.id
    BY <2>1 DEF Types, SweepType
  <2>4. \A b \in Attempts : TwinAway(b)'
    BY <1>1, <2>2, TwinsBeside DEF SourceKept, CountsRow
  <2>5. RefsTo(sweep.id) = {}
    <3>1. Cardinality(RefsTo(sweep.id)) = 0
      BY SMTT(60), Z3T(60), <2>1 DEF CountInv
    <3> QED BY <3>1, RefsCounted
  <2>6. \A i \in MgIds : row'[i].count >= 0 => row'[i].count = Cardinality(RefsTo(i)')
    BY SMTT(60), Z3T(60), <1>1, <2>2 DEF CountInv, CountsRow
  <2>7. \A i \in MgIds : row'[i].pol = "none" \/ row'[i].count < 0 => RefsTo(i)' = {}
    BY <1>1, <2>2, <2>5 DEF CountInv, CountsRow
  <2>8. row'[sweep'.id].count = 0 - 1
    BY <2>2, <2>3 DEF CountsRow
  <2> QED BY <2>4, <2>6, <2>7, <2>8 DEF CountInv, RefsTo
<1>5. CASE SweepDeletes
  <2>1. sweep.id \in MgIds /\ row[sweep.id].count = 0 - 1
    BY <1>5, SweepHasRow DEF SweepDeletes, CountInv
  <2>2. DropsRow(sweep.id)
    BY <1>5, <2>1, SweepRows
  <2>3. sweep' = NoSweep /\ ~NoSweep.claimed
    BY <1>5 DEF SweepDeletes, NoSweep
  <2>4. \A b \in Attempts : TwinAway(b)'
    BY <1>1, <2>2, TwinsBeside DEF SourceKept, DropsRow
  <2>5. RefsTo(sweep.id) = {}
    BY SMTT(60), Z3T(60), <2>1 DEF CountInv
  <2>6. \A i \in MgIds : row'[i].count >= 0 => row'[i].count = Cardinality(RefsTo(i)')
    BY <1>1, <2>2, <2>5 DEF CountInv, DropsRow, Counting
  <2>7. \A i \in MgIds : row'[i].pol = "none" \/ row'[i].count < 0 => RefsTo(i)' = {}
    BY <1>1, <2>2, <2>5 DEF CountInv, DropsRow
  <2> QED BY <2>3, <2>4, <2>6, <2>7 DEF CountInv, RefsTo
<1> QED BY <1>2, <1>3, <1>4, <1>5

-----------------------------------------------------------------------------
(***************************************************************************)
(* Where rows are and which keys attempts write under.                     *)
(***************************************************************************)
StartKey(i) == scene.start[i].key
FromSource(i) == scene.start[i].pol = "src"

\* A row of the source is as it was at first.
SourceInv == \A i \in MgIds : row[i].pol = "src" => FromSource(i) /\ row[i].key = StartKey(i)

\* A row of the target has the key it began with, unless an attempt gave it a new one with
\* the move or an upload made the row.
TargetInv ==
    \A i \in MgIds : row[i].pol = "tgt" =>
       \/ scene.start[i].pol # "none" /\ row[i].key = StartKey(i)
       \/ \E a \in Attempts : row[i].key = FreshKeys[a][i]
       \/ scene.uploads /\ i = Max(MgIds) /\ row[i].key = scene.upkey

\* The target has a key once,
UniqueInv ==
    \A i, j \in MgIds :
       row[i].pol = "tgt" /\ row[j].pol = "tgt" /\ row[i].key = row[j].key => i = j

\* and, where nothing is cleaned, the key of every row that has left the source.
ArrivedInv ==
    ~scene.faults => \A i \in MgIds : FromSource(i) /\ row[i].pol # "src" =>
                        RowAt("tgt", StartKey(i)) # {}

RowsInv == SourceInv /\ TargetInv /\ UniqueInv /\ ArrivedInv

\* What the cleaner read of a row of the target stays true.
SweepInv ==
    /\ ~scene.faults => sweep = NoSweep
    /\ sweep # NoSweep => sweep.pol \in {"src", "tgt"}
    /\ sweep # NoSweep /\ sweep.pol = "src" => FromSource(sweep.id) /\ StartKey(sweep.id) = sweep.key
    /\ sweep # NoSweep /\ sweep.pol = "tgt" =>
          row[sweep.id].pol = "tgt" /\ row[sweep.id].key = sweep.key

Writing == {"copy", "verify", "move"}
Undoing == {"undo", "undodelete"}
Tidying == {"tidy", "delete"}

\* The key an attempt works under is its blob's.
JobKey(a) ==
    mg[a].pc \in Writing \cup Undoing \cup Tidying =>
       /\ mg[a].id \in MgIds /\ FromSource(mg[a].id)
       /\ mg[a].key = StartKey(mg[a].id) \/ mg[a].key = FreshKeys[a][mg[a].id]
       /\ mg[a].pc # "move" => mg[a].key # EmptyKey

\* No other blob's row names it, but for rows of the same content that are uploaded.
JobRows(a) ==
    mg[a].pc \in Writing \cup Undoing \cup Tidying =>
       \A t \in MgIds : row[t].pol = "tgt" /\ row[t].key = mg[a].key =>
          t = mg[a].id \/ (scene.uploads /\ Mergeable(mg[a].key))

\* A new key is taken where the target has the old one.
JobNew(a) ==
    mg[a].pc \in Writing /\ ~scene.faults /\ mg[a].key # StartKey(mg[a].id) =>
       RowAt("tgt", StartKey(mg[a].id)) # {}

\* What is tidied up belongs to a row that has left the source, and what is deleted then
\* no row names.
JobDone(a) ==
    /\ mg[a].pc \in {"emptymove", "emptymerge"} =>
          mg[a].id \in MgIds /\ (row[mg[a].id].pol = "src" => row[mg[a].id].key = EmptyKey)
    /\ mg[a].pc \in Undoing => scene.breaks
    /\ mg[a].pc \in Tidying => row[mg[a].id].pol # "src"
    /\ mg[a].pc = "delete" =>
          RowAt("tgt", mg[a].key) = {} /\ (scene.uploads => mg[a].key # scene.upkey)

JobInv(a) == JobKey(a) /\ JobRows(a) /\ JobNew(a) /\ JobDone(a)

PlaceInv == RowsInv /\ SweepInv /\ \A a \in Attempts : JobInv(a)

-----------------------------------------------------------------------------
\* What a step may do to the rows: they stay,
StaysRow(i) == row'[i].pol = row[i].pol /\ row'[i].key = row[i].key
RowsStay == \A i \in MgIds : StaysRow(i)

\* one goes that is cleaned or has its key in the target,
RowLeaves(i) ==
    /\ row'[i].pol = "none" /\ \A j \in MgIds : j # i => StaysRow(j)
    /\ \/ row[i].pol = "src" /\ RowAt("tgt", row[i].key) # {}
       \/ scene.faults /\ i = sweep.id /\ sweep' = NoSweep

\* one is uploaded,
RowMade(i) ==
    /\ row'[i].pol = "tgt" /\ row'[i].key = scene.upkey
    /\ \A j \in MgIds : j # i => StaysRow(j)
    /\ row[i].pol = "none" /\ scene.uploads /\ i = Max(MgIds) /\ RowAt("tgt", scene.upkey) = {}
    /\ scene.upkey = EmptyKey \/ store' = Put("tgt", scene.upkey, ContentOf(i))

\* or one moves, with a key that the target does not have.
RowMoves(a, i, k) ==
    /\ row'[i].pol = "tgt" /\ row'[i].key = k /\ \A j \in MgIds : j # i => StaysRow(j)
    /\ row[i].pol = "src" /\ RowAt("tgt", k) = {}
    /\ k = StartKey(i) \/ (k = FreshKeys[a][i]
                           /\ (scene.faults \/ RowAt("tgt", StartKey(i)) # {}))
    /\ k = EmptyKey \/ (/\ MgAt(a, "move") /\ MgCommits(a) /\ mg[a].id = i /\ mg[a].key = k
                        /\ store' = store)

RowStep ==
    /\ scene' = scene
    /\ RowsStay \/ \E i \in MgIds : \/ RowLeaves(i) \/ RowMade(i)
                                    \/ \E a \in Attempts, k \in MgKeys : RowMoves(a, i, k)

\* Two jobs under one key are for one blob, and by one attempt if the key is new.
LEMMA SameKey ==
  ASSUME scene \in MgScenes, NEW a \in Attempts, NEW b \in Attempts, NEW i \in MgIds,
         NEW j \in MgIds, FromSource(i), FromSource(j), NEW k,
         k = StartKey(i) \/ k = FreshKeys[a][i], k = StartKey(j) \/ k = FreshKeys[b][j]
  PROVE  i = j /\ (k # StartKey(i) => a = b)
<1>1. FreshKeys[a][i] # StartKey(j) /\ FreshKeys[b][j] # StartKey(i)
  BY SMTT(60), Z3T(60), FreshKeyAssumption DEF StartKey
<1>2. FreshKeys[a][i] = FreshKeys[b][j] => i = j /\ a = b
  BY SMTT(60), Z3T(60), FreshKeyAssumption
<1>3. StartKey(i) = StartKey(j) => i = j
  BY SMTT(60), Z3T(60), SceneAssumption DEF StartKey, FromSource
<1> QED BY <1>1, <1>2, <1>3

\* k is a path that attempt a may give to the blob of row i.
KeyOf(k, a, i) == k = StartKey(i) \/ k = FreshKeys[a][i]

\* The same, of paths that attempts give.
LEMMA SameKeyOf ==
  ASSUME scene \in MgScenes, NEW a \in Attempts, NEW b \in Attempts, NEW i \in MgIds,
         NEW j \in MgIds, FromSource(i), FromSource(j), NEW k, KeyOf(k, a, i), KeyOf(k, b, j)
  PROVE  i = j
BY SMTT(60), Z3T(60), SameKey DEF KeyOf

\* Such steps keep what is known of rows.
LEMMA RowsKeep == ASSUME Types, RowsInv, RowStep PROVE RowsInv'
<1> USE DEF RowsInv
<1>s. scene' = scene
  BY DEF RowStep
<1>1. CASE RowsStay
  BY SMTT(60), Z3T(60), <1>1, <1>s DEF RowsStay, StaysRow, SourceInv, TargetInv, UniqueInv, ArrivedInv, RowAt,
         FromSource, StartKey
<1>2. ASSUME NEW i \in MgIds, RowLeaves(i) PROVE RowsInv'
  <2>1. SourceInv' /\ TargetInv' /\ UniqueInv'
    BY SMTT(60), Z3T(60), <1>2, <1>s DEF RowLeaves, StaysRow, SourceInv, TargetInv, UniqueInv, FromSource, StartKey
  <2>2. ASSUME ~scene.faults, NEW j \in MgIds, FromSource(j), row'[j].pol # "src"
        PROVE  RowAt("tgt", StartKey(j))' # {}
    <3>1. row[i].pol = "src" /\ RowAt("tgt", row[i].key) # {} /\ row[i].key = StartKey(i)
      BY <1>2, <2>2 DEF RowLeaves, SourceInv
    <3>2. \A t \in MgIds : row[t].pol = "tgt" => row'[t].pol = "tgt" /\ row'[t].key = row[t].key
      BY <1>2, <3>1 DEF RowLeaves, StaysRow
    <3>3. RowAt("tgt", StartKey(j)) # {}
      BY <1>2, <2>2, <3>1 DEF ArrivedInv, RowLeaves, StaysRow
    <3> QED BY <1>s, <3>2, <3>3 DEF RowAt, StartKey
  <2> QED BY <1>s, <2>1, <2>2 DEF ArrivedInv, FromSource
<1>3. ASSUME NEW i \in MgIds, RowMade(i) PROVE RowsInv'
  <2>1. SourceInv' /\ TargetInv'
    BY <1>3, <1>s DEF RowMade, StaysRow, SourceInv, TargetInv, FromSource, StartKey
  <2>2. UniqueInv'
    BY SMTT(60), Z3T(60), <1>3 DEF RowMade, StaysRow, UniqueInv, RowAt
  <2>3. ArrivedInv'
    <3>1. \A t \in MgIds : row[t].pol = "tgt" => row'[t].pol = "tgt" /\ row'[t].key = row[t].key
      BY <1>3 DEF RowMade, StaysRow
    <3>2. \A j \in MgIds : row'[j].pol # "src" => row[j].pol # "src"
      BY <1>3 DEF RowMade, StaysRow
    <3> QED BY SMTT(60), Z3T(60), <1>s, <3>1, <3>2 DEF ArrivedInv, RowAt, StartKey, FromSource
  <2> QED BY <2>1, <2>2, <2>3
<1>4. ASSUME NEW i \in MgIds, NEW a \in Attempts, NEW k \in MgKeys, RowMoves(a, i, k) PROVE RowsInv'
  <2>0. FromSource(i) /\ scene.start[i].pol # "none"
    BY <1>4 DEF RowMoves, SourceInv, FromSource
  <2>1. SourceInv' /\ TargetInv'
    BY SMTT(60), Z3T(60), <1>4, <1>s, <2>0 DEF RowMoves, StaysRow, SourceInv, TargetInv, FromSource, StartKey
  <2>2. UniqueInv'
    BY SMTT(60), Z3T(60), <1>4 DEF RowMoves, StaysRow, UniqueInv, RowAt
  <2>3. \A t \in MgIds : row[t].pol = "tgt" => row'[t].pol = "tgt" /\ row'[t].key = row[t].key
    BY <1>4 DEF RowMoves, StaysRow
  <2>4. ~scene.faults => RowAt("tgt", StartKey(i))' # {}
    BY <1>4, <1>s, <2>3 DEF RowMoves, RowAt, StartKey
  <2>5. \A j \in MgIds : row'[j].pol # "src" /\ j # i => row[j].pol # "src"
    BY <1>4 DEF RowMoves, StaysRow
  <2>6. ArrivedInv'
    BY SMTT(60), Z3T(60), <1>s, <2>3, <2>4, <2>5 DEF ArrivedInv, RowAt, StartKey, FromSource
  <2> QED BY <2>1, <2>2, <2>6
<1> QED BY <1>1, <1>2, <1>3, <1>4 DEF RowStep

\* And what is known of jobs whose attempt does not take the step.
LEMMA JobKeeps ==
  ASSUME Types, RowsInv, RowStep, NEW b \in Attempts, JobInv(b), mg'[b] = mg[b]
  PROVE  JobInv(b)'
<1> USE DEF JobInv, RowsInv
<1> DEFINE g == mg[b]
<1>s. scene' = scene /\ scene \in MgScenes /\ mg'[b] = g
  BY DEF RowStep, Types
<1>1. JobKey(b)'
  BY <1>s DEF JobKey, StartKey, FromSource
<1>2. SourceKept
  BY DEF RowStep, RowsStay, StaysRow, RowLeaves, RowMade, RowMoves, SourceKept
<1>3. ASSUME NEW t \in MgIds, g.pc \in Writing \cup Undoing \cup Tidying,
             row'[t].pol = "tgt", row'[t].key = g.key,
             ~(row[t].pol = "tgt" /\ row[t].key = g.key)
      PROVE  (t = g.id /\ row[t].pol = "src") \/ (scene.uploads /\ Mergeable(g.key) /\ g.key = scene.upkey)
  <2>1. ~RowsStay /\ \A i \in MgIds : RowLeaves(i) => FALSE
    BY <1>3 DEF RowsStay, RowLeaves, StaysRow
  <2>2. ASSUME NEW i \in MgIds, RowMade(i) PROVE scene.uploads /\ Mergeable(g.key) /\ g.key = scene.upkey
    <3>1. i = t /\ g.key = scene.upkey /\ scene.uploads
      BY <1>3, <2>2 DEF RowMade, StaysRow
    <3> QED BY <1>s, <3>1, SceneAssumption DEF Mergeable
  <2>3. ASSUME NEW i \in MgIds, NEW a \in Attempts, NEW k \in MgKeys, RowMoves(a, i, k)
        PROVE  t = g.id /\ row[t].pol = "src"
    <3>1. i = t /\ g.key = k /\ row[i].pol = "src" /\ FromSource(i)
          /\ (k = StartKey(i) \/ k = FreshKeys[a][i])
      BY <1>3, <2>3 DEF RowMoves, StaysRow, SourceInv
    <3>2. PICK j \in MgIds : /\ j = g.id /\ FromSource(j)
                            /\ (k = StartKey(j) \/ k = FreshKeys[b][j])
      BY <1>3, <3>1 DEF JobKey
    <3>3. KeyOf(k, a, i) /\ KeyOf(k, b, j)
      BY <3>1, <3>2 DEF KeyOf
    <3>4. i = j
      BY <1>s, <3>1, <3>2, <3>3, SameKeyOf
    <3> QED BY <3>1, <3>2, <3>4
  <2> QED BY <2>1, <2>2, <2>3 DEF RowStep
<1>4. JobRows(b)'
  BY <1>s, <1>3 DEF JobRows, Mergeable
<1>5. JobNew(b)'
  <2>1. ASSUME ~scene.faults, NEW t \in MgIds, row[t].pol = "tgt"
        PROVE  row'[t].pol = "tgt" /\ row'[t].key = row[t].key
    BY <2>1 DEF RowStep, RowsStay, StaysRow, RowLeaves, RowMade, RowMoves
  <2> QED BY <1>s, <2>1 DEF JobNew, RowAt, StartKey
<1>6. JobDone(b)'
  <2>1. g.pc \in {"emptymove", "emptymerge"} =>
           g.id \in MgIds /\ (row'[g.id].pol = "src" => row'[g.id].key = EmptyKey)
    BY <1>2 DEF JobDone, SourceKept
  <2>2. g.pc \in Tidying => row'[g.id].pol # "src"
    BY <1>2 DEF JobDone, JobKey, SourceKept
  <2>3. ASSUME g.pc = "delete", NEW t \in MgIds, row'[t].pol = "tgt", row'[t].key = g.key PROVE FALSE
    <3>1. row[g.id].pol # "src" /\ RowAt("tgt", g.key) = {} /\ (scene.uploads => g.key # scene.upkey)
      BY <2>3 DEF JobDone, Tidying
    <3> QED BY <1>3, <2>3, <3>1 DEF RowAt, Tidying
  <2>4. g.pc = "delete" => RowAt("tgt", g.key)' = {}
    BY <1>s, <2>3 DEF RowAt
  <2> QED BY <1>s, <2>1, <2>2, <2>4 DEF JobDone
<1> QED BY <1>1, <1>4, <1>5, <1>6

\* The transactions of an attempt are such steps,
LEMMA TransactionRows ==
  ASSUME MergeInv, CountInv, PlaceInv, NEW a \in Attempts, MgMove(a) \/ MgMerge(a) \/ MgEmptyDone(a)
  PROVE  RowStep
<1> USE DEF MergeInv, PlaceInv, RowsInv
<1>1. scene' = scene /\ TwinAway(a) /\ JobInv(a)
  BY DEF MgMove, MgMerge, MgEmptyDone, CountInv
<1>2. ASSUME row' = row PROVE RowStep
  BY <1>1, <1>2 DEF RowStep, RowsStay, StaysRow
<1>3. ASSUME NEW i \in MgIds, NEW t \in MgIds, i # t, row[t].pol # "src", MergesRow(i, t)
      PROVE  RowStep
  <2>1. row[t].pol = "tgt"
    BY <1>3 DEF MergesRow, Types, RowType
  <2>2. t \in RowAt("tgt", row[i].key)
    BY <1>3, <2>1 DEF RowAt, MergesRow
  <2>3. RowLeaves(i)
    BY <1>3, <2>2 DEF RowLeaves, MergesRow, StaysRow
  <2> QED BY <1>1, <2>3 DEF RowStep
<1>4. ASSUME NEW i \in MgIds, NEW k \in MgKeys, row[i].pol = "src", MovesRow(i, k), RowAt("tgt", k) = {},
             k = StartKey(i) \/ (k = FreshKeys[a][i]
                                 /\ (scene.faults \/ RowAt("tgt", StartKey(i)) # {})),
             k = EmptyKey \/ (MgMove(a) /\ mg[a].id = i /\ mg[a].key = k)
      PROVE  RowStep
  <2>1. RowMoves(a, i, k)
    BY <1>4 DEF RowMoves, MovesRow, StaysRow, MgMove
  <2> QED BY <1>1, <2>1 DEF RowStep
<1>5. CASE MgMove(a)
  <2>1. mg[a].pc = "move" /\ mg[a].key \in MgKeys
    BY <1>5 DEF MgMove, MgAt, Types, AttemptType
  <2>2. CASE row' = row
    BY <1>2, <2>2
  <2>3. CASE /\ row[mg[a].id].pol = "src" /\ MovesRow(mg[a].id, mg[a].key) /\ mg[a].id \in MgIds
             /\ RowAt("tgt", mg[a].key) \subseteq {mg[a].id}
    <3>1. RowAt("tgt", mg[a].key) = {}
      BY <2>3 DEF RowAt
    <3>2. mg[a].key = StartKey(mg[a].id) \/ mg[a].key = FreshKeys[a][mg[a].id]
      BY <1>1, <2>1 DEF JobInv, JobKey, Writing
    <3>3. mg[a].key # StartKey(mg[a].id) => scene.faults \/ RowAt("tgt", StartKey(mg[a].id)) # {}
      BY <1>1, <2>1 DEF JobInv, JobNew, Writing
    <3> QED BY <1>4, <1>5, <2>1, <2>3, <3>1, <3>2, <3>3
  <2> QED BY <1>5, <2>2, <2>3, MoveFields
<1>6. CASE MgMerge(a)
  BY <1>1, <1>2, <1>3, <1>6, MergeFields
<1>7. CASE MgEmptyDone(a)
  <2>1. CASE row' = row
    BY <1>2, <2>1
  <2>2. CASE /\ mg[a].id \in MgIds /\ mg[a].twin \in MgIds /\ mg[a].id # mg[a].twin
             /\ row[mg[a].twin].pol # "src" /\ MergesRow(mg[a].id, mg[a].twin)
    BY <1>3, <2>2
  <2>3. CASE /\ mg[a].id \in MgIds /\ mg[a].pc = "emptymove" /\ row[mg[a].id].pol = "src"
             /\ RowAt("tgt", EmptyKey) = {} /\ MovesRow(mg[a].id, row[mg[a].id].key)
    <3>1. row[mg[a].id].key = EmptyKey /\ row[mg[a].id].key = StartKey(mg[a].id)
      BY <1>1, <2>3 DEF JobInv, JobDone, SourceInv
    <3> QED BY <1>4, <2>3, <3>1, SomeKeys
  <2> QED BY <1>1, <1>7, <2>1, <2>2, <2>3, EmptyDoneFields
<1> QED BY <1>5, <1>6, <1>7

\* and so are all others.
LEMMA StepRows ==
  ASSUME MergeInv, CountInv, PlaceInv, MigrationNext
  PROVE  RowStep
<1> USE DEF MergeInv, PlaceInv
<1>s. scene' = scene
  BY DEF MigrationNext, MgClaim, MgStops, MgScan, MgEmpties, MgEmptyDone, MgNext, MgCopy, MgVerify,
         MgMove, MgMerge, MgTidy, MgDelete, MgUndo, MgUndoDelete, RefDropped, RefCopied, Uploaded,
         SweepLoads, SweepClaims, SweepDeletes
<1>1. ASSUME row' = row PROVE RowStep
  BY <1>s, <1>1 DEF RowStep, RowsStay, StaysRow
<1>2. ASSUME NEW i \in MgIds, NEW n \in Int, row' = [row EXCEPT ![i].count = n] PROVE RowStep
  BY <1>s, <1>2, CountRows DEF RowStep, RowsStay, StaysRow, CountsRow
<1>3. ASSUME NEW r \in MgRevs, RefDropped(r) PROVE RowStep
  <2>1. mgRef[r] \in MgIds /\ row[mgRef[r]].count - 1 \in Int
        /\ row' = [row EXCEPT ![mgRef[r]].count = row[mgRef[r]].count - 1]
    BY SMTT(60), Z3T(60), <1>3 DEF RefDropped, Types, RowType
  <2> QED BY <1>2, <2>1
<1>4. ASSUME NEW r \in MgRevs, NEW s \in MgRevs, RefCopied(r, s) PROVE RowStep
  <2>1. mgRef[s] \in MgIds /\ row[mgRef[s]].count + 1 \in Int
        /\ row' = [row EXCEPT ![mgRef[s]].count = row[mgRef[s]].count + 1]
    BY SMTT(60), Z3T(60), <1>4 DEF RefCopied, Types, RowType
  <2> QED BY <1>2, <2>1
<1>5. ASSUME NEW r \in MgRevs, Uploaded(r) PROVE RowStep
  <2>1. PICK i \in MgIds : UploadsRow(r, i)
    BY <1>5, UploadRows
  <2>2. CASE RowAt("tgt", scene.upkey) = {} /\ i = Max(MgIds) /\ row[i].pol = "none"
    <3>1. RowMade(i)
      BY <2>1, <2>2 DEF UploadsRow, RowMade, StaysRow
    <3> QED BY <1>s, <3>1 DEF RowStep
  <2>3. CASE row[i].pol = "tgt" /\ row[i].key = scene.upkey
    <3>1. RowsStay
      BY <2>1, <2>3 DEF UploadsRow, RowsStay, StaysRow
    <3> QED BY <1>s, <3>1 DEF RowStep
  <2> QED BY <2>1, <2>2, <2>3 DEF UploadsRow
<1>6. CASE SweepClaims
  <2>1. sweep.id \in MgIds /\ 0 - 1 \in Int
    BY SMTT(60), Z3T(60), <1>6 DEF SweepClaims, Types
  <2> QED BY <1>1, <1>2, <1>6, <2>1 DEF SweepClaims
<1>7. CASE SweepDeletes
  <2>1. sweep.id \in MgIds /\ row[sweep.id].count = 0 - 1 /\ sweep # NoSweep
    BY SMTT(60), Z3T(60), <1>7, SweepHasRow DEF SweepDeletes, CountInv, NoSweep
  <2>2. DropsRow(sweep.id) /\ scene.faults
    BY <1>7, <2>1, SweepRows DEF SweepInv
  <2>3. RowLeaves(sweep.id)
    BY <1>7, <2>2 DEF DropsRow, RowLeaves, StaysRow, SweepDeletes
  <2> QED BY <1>s, <2>1, <2>3 DEF RowStep
<1>8. ASSUME NEW a \in Attempts, MgStops(a) \/ MgScan(a) \/ MgEmpties(a) \/ MgNext(a) \/ MgCopy(a)
                \/ MgVerify(a) \/ MgTidy(a) \/ MgDelete(a) \/ MgUndo(a) \/ MgUndoDelete(a)
      PROVE  RowStep
  BY <1>1, <1>8 DEF MgStops, MgScan, MgEmpties, MgNext, MgCopy, MgVerify, MgTidy, MgDelete, MgUndo,
         MgUndoDelete
<1>9. CASE MgClaim \/ \E i \in MgIds : SweepLoads(i)
  BY <1>1, <1>9 DEF MgClaim, SweepLoads
<1> QED BY <1>3, <1>4, <1>5, <1>6, <1>7, <1>8, <1>9, TransactionRows DEF MigrationNext

\* What the cleaner read stays true.
LEMMA SweepKeeps ==
  ASSUME TameScenes, MergeInv, CountInv, PlaceInv, MigrationNext
  PROVE  SweepInv'
<1> USE DEF MergeInv, PlaceInv, RowsInv
<1>s. scene' = scene /\ scene \in MgScenes /\ RowStep
  BY StepRows DEF RowStep, Types
<1>1. CASE sweep' = NoSweep
  BY <1>1 DEF SweepInv
<1>2. ASSUME sweep # NoSweep, sweep'.id = sweep.id, sweep'.pol = sweep.pol, sweep'.key = sweep.key,
             sweep.pol = "tgt" => StaysRow(sweep.id)
      PROVE  SweepInv'
  BY <1>s, <1>2 DEF SweepInv, StaysRow, FromSource, StartKey
<1>3. ASSUME NEW i \in MgIds, SweepLoads(i) PROVE SweepInv'
  <2>1. sweep' = [id |-> i, pol |-> row[i].pol, key |-> row[i].key, claimed |-> FALSE]
        /\ row[i].pol \in {"src", "tgt"} /\ row' = row /\ scene.faults
    BY <1>3 DEF SweepLoads, Types, RowType
  <2> QED BY <1>s, <2>1 DEF SweepInv, SourceInv, FromSource, StartKey
<1>4. CASE SweepClaims
  <2>1. CASE SweepMayClaim(sweep.id)
    <3>1. sweep.id \in MgIds /\ sweep # NoSweep /\ row' = [row EXCEPT ![sweep.id].count = 0 - 1]
          /\ sweep' = [sweep EXCEPT !.claimed = TRUE]
      BY <1>4, <2>1 DEF SweepClaims, Types
    <3>2. CountsRow(sweep.id, 0 - 1)
      BY <3>1, CountRows
    <3>3. sweep'.id = sweep.id /\ sweep'.pol = sweep.pol /\ sweep'.key = sweep.key
      BY <3>1 DEF Types, SweepType
    <3>4. StaysRow(sweep.id)
      BY <3>2 DEF CountsRow, StaysRow
    <3> QED BY <1>2, <3>1, <3>3, <3>4
  <2> QED BY <1>1, <1>4, <2>1 DEF SweepClaims
<1>5. CASE SweepDeletes
  BY <1>1, <1>5 DEF SweepDeletes
<1>6. CASE sweep' = sweep /\ sweep # NoSweep /\ ~SweepDeletes
  <2>1. scene.faults /\ ~scene.uploads /\ sweep.id \in MgIds
    BY <1>s, <1>6 DEF SweepInv, TameScenes, Types
  <2>2. ASSUME sweep.pol = "tgt" PROVE StaysRow(sweep.id)
    <3>1. row[sweep.id].pol = "tgt"
      BY <1>6, <2>2 DEF SweepInv
    <3>2. \A i \in MgIds : row[i].pol = "src" => i # sweep.id
      BY <3>1
    <3> QED BY <1>s, <1>6, <2>1, <3>2 DEF RowStep, RowsStay, RowLeaves, RowMade, RowMoves
  <2> QED BY <1>2, <1>6, <2>2
<1>7. CASE sweep' = sweep
  BY <1>1, <1>5, <1>6, <1>7
<1> QED BY <1>3, <1>4, <1>5, <1>7 DEF MigrationNext, MgClaim, MgStops, MgScan, MgEmpties, MgEmptyDone,
          MgNext, MgCopy, MgVerify, MgMove, MgMerge, MgTidy, MgDelete, MgUndo, MgUndoDelete,
          RefDropped, RefCopied, Uploaded

\* An attempt between two blobs, or at a merge, has no key.
LEMMA JobIdle ==
  ASSUME NEW a \in Attempts, mg'[a].pc \in {"off", "empties", "scan", "next", "merge"}
  PROVE  JobInv(a)'
  BY DEF JobInv, JobKey, JobRows, JobNew, JobDone, Writing, Undoing, Tidying

\* The job an attempt chooses.
LEMMA JobChosen ==
  ASSUME MergeInv, PlaceInv, NEW a \in Attempts, MgNext(a)
  PROVE  JobInv(a)'
<1> USE DEF MergeInv, PlaceInv, RowsInv
<1>1. UNCHANGED <<scene, row>> /\ scene \in MgScenes
  BY DEF MgNext, Types
<1>2. CASE mg'[a].pc \in {"scan", "next", "merge"}
  BY <1>2, JobIdle
<1>3. ASSUME NEW i \in MgIds, NextCase(a, i), mg'[a].pc \notin {"scan", "next", "merge"}
      PROVE  JobInv(a)'
  <2> DEFINE g == mg'[a]
  <2>1. /\ g.pc = (IF row[i].key = EmptyKey THEN "move" ELSE "copy") /\ g.id = i
        /\ g.key = (IF RowAt("tgt", row[i].key) = {} THEN row[i].key ELSE FreshKeys[a][i])
        /\ row[i].pol = "src" /\ row[i].key = StartKey(i) /\ FromSource(i)
    BY <1>3 DEF NextCase, SourceInv
  <2>2. FreshKeys[a][i] # EmptyKey /\ FreshKeys[a][i] # StartKey(i)
    BY <1>1, FreshKeyAssumption DEF StartKey
  <2>3. JobKey(a)'
    BY <1>1, <2>1, <2>2 DEF JobKey, StartKey, FromSource
  <2>4. ASSUME NEW t \in MgIds, row[t].pol = "tgt", row[t].key = g.key PROVE t = i
    <3>1. g.key = FreshKeys[a][i]
      BY <2>1, <2>4 DEF RowAt
    <3>2. /\ FreshKeys[a][i] # StartKey(t) /\ FreshKeys[a][i] # scene.upkey
          /\ \A b \in Attempts : FreshKeys[a][i] = FreshKeys[b][t] => i = t
      BY SMTT(60), Z3T(60), <1>1, FreshKeyAssumption DEF StartKey
    <3> QED BY <2>4, <3>1, <3>2 DEF TargetInv
  <2>5. JobRows(a)'
    BY <1>1, <2>1, <2>4 DEF JobRows
  <2>6. JobNew(a)'
    BY <1>1, <2>1 DEF JobNew, RowAt, StartKey
  <2>7. JobDone(a)'
    BY <2>1 DEF JobDone, Undoing, Tidying
  <2> QED BY <2>3, <2>5, <2>6, <2>7 DEF JobInv
<1> QED BY <1>2, <1>3, NextFields

\* The same job goes on.
LEMMA JobGoesOn ==
  ASSUME Types, NEW a \in Attempts, JobInv(a), UNCHANGED <<scene, row>>,
         mg'[a].id = mg[a].id, mg'[a].key = mg[a].key,
         \/ mg[a].pc = "copy" /\ mg'[a].pc = "verify"
         \/ mg[a].pc = "verify" /\ mg'[a].pc = "move"
         \/ mg[a].pc \in {"copy", "verify", "undo"} /\ mg'[a].pc \in Undoing /\ scene.breaks
         \/ /\ mg[a].pc = "move" /\ mg'[a].pc = "tidy" /\ mg[a].key # EmptyKey
            /\ row[mg[a].id].pol # "src"
         \/ /\ mg[a].pc = "tidy" /\ mg'[a].pc = "delete"
            /\ RowAt("tgt", mg[a].key) = {} /\ (scene.uploads => mg[a].key # scene.upkey)
  PROVE  JobInv(a)'
<1> USE DEF JobInv, Writing, Undoing, Tidying
<1>1. JobKey(a)'
  BY DEF JobKey, FromSource, StartKey
<1>2. JobRows(a)'
  BY DEF JobRows, Mergeable
<1>3. JobNew(a)'
  BY DEF JobNew, RowAt, StartKey
<1>4. JobDone(a)'
  BY DEF JobDone, RowAt
<1> QED BY <1>1, <1>2, <1>3, <1>4

\* Whatever an attempt does, its job is in order.
LEMMA OwnJob ==
  ASSUME TameScenes, MergeInv, CountInv, PlaceInv, NEW a \in Attempts,
         \/ MgStops(a) \/ MgScan(a) \/ MgEmpties(a) \/ MgEmptyDone(a) \/ MgNext(a)
         \/ MgCopy(a) \/ MgVerify(a) \/ MgMove(a) \/ MgMerge(a)
         \/ MgTidy(a) \/ MgDelete(a) \/ MgUndo(a) \/ MgUndoDelete(a)
  PROVE  JobInv(a)' /\ OthersStay(a)
<1> USE DEF MergeInv, PlaceInv, RowsInv
<1>s. scene \in MgScenes /\ JobInv(a) /\ TwinAway(a)
  BY DEF Types, CountInv
<1>1. CASE MgStops(a) \/ MgUndoDelete(a)
  BY <1>1, OffFields, JobIdle DEF MgStops, MgUndoDelete
<1>2. CASE MgScan(a)
  BY <1>2, ScanFields, JobIdle
<1>3. CASE MgEmpties(a)
  <2>1. UNCHANGED <<scene, row>>
    BY <1>3 DEF MgEmpties
  <2>2. CASE mg'[a].pc = "scan"
    BY <1>3, <2>2, EmptiesFields, JobIdle
  <2>3. CASE mg'[a].pc \in {"emptymove", "emptymerge"} /\ mg'[a].id \in RowAt("src", EmptyKey)
    <3>1. JobInv(a)'
      BY <2>1, <2>3 DEF JobInv, JobKey, JobRows, JobNew, JobDone, Writing, Undoing, Tidying, RowAt
    <3> QED BY <1>3, <3>1, EmptiesFields
  <2> QED BY <1>3, <2>2, <2>3, EmptiesFields
<1>4. CASE MgEmptyDone(a)
  BY <1>s, <1>4, EmptyDoneFields, JobIdle
<1>5. CASE MgNext(a)
  BY <1>5, NextFields, JobChosen
<1>6. CASE MgCopy(a)
  <2>1. UNCHANGED <<scene, row>> /\ mg[a].pc = "copy"
    BY <1>6 DEF MgCopy, MgAt
  <2>2. CASE mg'[a].pc = "next"
    BY <1>6, <2>2, CopyFields, JobIdle
  <2> QED BY <1>s, <1>6, <2>1, <2>2, CopyFields, JobGoesOn DEF Undoing
<1>7. CASE MgVerify(a)
  <2>1. UNCHANGED <<scene, row>> /\ mg[a].pc = "verify"
    BY <1>7 DEF MgVerify, MgAt
  <2> QED BY <1>s, <1>7, <2>1, VerifyFields, JobGoesOn DEF Undoing
<1>8. CASE MgMove(a)
  <2>1. scene' = scene /\ mg[a].pc = "move"
    BY <1>8 DEF MgMove, MgAt
  <2>2. CASE mg'[a].pc \in {"next", "merge"}
    BY <1>8, <2>2, MoveFields, JobIdle
  <2>3. CASE mg'[a].pc = "tidy"
    <3>1. mg[a].key # EmptyKey /\ row[mg[a].id].pol # "src" /\ row' = row
      BY <1>8, <2>3, MoveFields
    <3> QED BY <1>s, <1>8, <2>1, <2>3, <3>1, MoveFields, JobGoesOn
  <2> QED BY <1>8, <2>2, <2>3, MoveFields
<1>9. CASE MgMerge(a)
  BY <1>s, <1>9, MergeFields, JobIdle
<1>10. CASE MgTidy(a)
  <2>1. UNCHANGED <<scene, row>> /\ mg[a].pc = "tidy"
    BY <1>10 DEF MgTidy, MgAt
  <2>2. CASE RowAt("tgt", mg[a].key) # {}
    BY <1>10, <2>2, GotoFields, JobIdle DEF MgTidy
  <2>3. CASE RowAt("tgt", mg[a].key) = {}
    <3>1. /\ mg[a].id \in MgIds /\ FromSource(mg[a].id) /\ row[mg[a].id].pol # "src"
          /\ mg[a].key = StartKey(mg[a].id) \/ mg[a].key = FreshKeys[a][mg[a].id]
      BY <1>s, <2>1 DEF JobInv, JobKey, JobDone, Tidying
    <3>2. ASSUME scene.uploads PROVE mg[a].key # scene.upkey
      <4>1. ~scene.faults
        BY <1>s, <3>2 DEF TameScenes
      <4>2. RowAt("tgt", StartKey(mg[a].id)) # {}
        BY <3>1, <4>1 DEF ArrivedInv
      <4>3. mg[a].key = FreshKeys[a][mg[a].id]
        BY <2>3, <3>1, <4>2
      <4> QED BY SMTT(60), Z3T(60), <1>s, <3>1, <4>3, FreshKeyAssumption
    <3>3. mg'[a].pc = "delete" /\ mg'[a].id = mg[a].id /\ mg'[a].key = mg[a].key /\ OthersStay(a)
      BY <1>10, <2>3, GotoFields DEF MgTidy
    <3> QED BY <1>s, <2>1, <2>3, <3>2, <3>3, JobGoesOn
  <2> QED BY <2>2, <2>3
<1>11. CASE MgDelete(a)
  BY <1>11, GotoFields, JobIdle DEF MgDelete
<1>12. CASE MgUndo(a)
  <2>1. UNCHANGED <<scene, row>> /\ mg[a].pc = "undo" /\ scene.breaks
    BY <1>s, <1>12 DEF MgUndo, MgAt, JobInv, JobDone, Undoing
  <2>2. mg'[a].pc = "undodelete" /\ mg'[a].id = mg[a].id /\ mg'[a].key = mg[a].key /\ OthersStay(a)
    BY <1>12, GotoFields DEF MgUndo
  <2> QED BY <1>s, <2>1, <2>2, JobGoesOn DEF Undoing
<1> QED BY <1>1, <1>2, <1>3, <1>4, <1>5, <1>6, <1>7, <1>8, <1>9, <1>10, <1>11, <1>12

\* The rows are in order at first.
LEMMA PlaceInit == MigrationInit => PlaceInv
<1> SUFFICES ASSUME MigrationInit PROVE PlaceInv
  OBVIOUS
<1>1. scene \in MgScenes /\ row = scene.start /\ sweep = NoSweep
  BY DEF MigrationInit
<1>2. SourceInv /\ TargetInv /\ ArrivedInv
  BY <1>1 DEF SourceInv, TargetInv, ArrivedInv, FromSource, StartKey
<1>3. UniqueInv
  BY SMTT(60), Z3T(60), <1>1, SceneAssumption DEF UniqueInv
<1>4. SweepInv
  BY <1>1 DEF SweepInv
<1>5. \A a \in Attempts : mg[a].pc = "off"
  BY DEF MigrationInit, Off
<1>6. \A a \in Attempts : JobInv(a)
  BY <1>5 DEF JobInv, JobKey, JobRows, JobNew, JobDone, Writing, Undoing, Tidying
<1> QED BY <1>2, <1>3, <1>4, <1>6 DEF PlaceInv, RowsInv

\* Rows and jobs stay in order, whatever runs beside.
LEMMA PlaceStep ==
  ASSUME TameScenes, MergeInv, CountInv, PlaceInv, [MigrationNext]_mgVars
  PROVE  PlaceInv'
<1>1. CASE UNCHANGED mgVars
  <2>1. UNCHANGED <<scene, row, mg, sweep>>
    BY <1>1 DEF mgVars
  <2>2. RowStep
    BY <2>1 DEF RowStep, RowsStay, StaysRow
  <2>3. SweepInv'
    BY <2>1 DEF PlaceInv, SweepInv, FromSource, StartKey
  <2> QED BY <2>1, <2>2, <2>3, RowsKeep, JobKeeps DEF PlaceInv, MergeInv
<1>2. CASE MigrationNext
  <2>1. RowStep /\ RowsInv' /\ SweepInv'
    BY <1>2, StepRows, RowsKeep, SweepKeeps DEF MergeInv, PlaceInv
  <2>2. ASSUME NEW a \in Attempts, JobInv(a)', OthersStay(a) PROVE \A b \in Attempts : JobInv(b)'
    BY <2>1, <2>2, JobKeeps DEF OthersStay, MergeInv, PlaceInv
  <2>3. ASSUME mg' = mg PROVE \A b \in Attempts : JobInv(b)'
    BY <2>1, <2>3, JobKeeps DEF MergeInv, PlaceInv
  <2>4. ASSUME MgClaim PROVE \A b \in Attempts : JobInv(b)'
    <3>1. PICK a \in Attempts : OthersStay(a) /\ mg'[a].pc \in {"empties", "scan"}
      BY <2>4, ClaimFields DEF MergeInv
    <3> QED BY <2>2, <3>1, JobIdle
  <2>5. ASSUME NEW a \in Attempts,
               \/ MgStops(a) \/ MgScan(a) \/ MgEmpties(a) \/ MgEmptyDone(a) \/ MgNext(a)
               \/ MgCopy(a) \/ MgVerify(a) \/ MgMove(a) \/ MgMerge(a)
               \/ MgTidy(a) \/ MgDelete(a) \/ MgUndo(a) \/ MgUndoDelete(a)
        PROVE  \A b \in Attempts : JobInv(b)'
    <3>1. JobInv(a)' /\ OthersStay(a)
      BY <2>5, OwnJob
    <3> QED BY <2>2, <3>1
  <2>6. ASSUME \/ \E r \in MgRevs : RefDropped(r) \/ Uploaded(r) \/ \E s \in MgRevs : RefCopied(r, s)
               \/ (\E i \in MgIds : SweepLoads(i)) \/ SweepClaims \/ SweepDeletes
        PROVE  mg' = mg
    BY <2>6 DEF RefDropped, RefCopied, Uploaded, SweepLoads, SweepClaims, SweepDeletes
  <2>7. \A b \in Attempts : JobInv(b)'
    BY <1>2, <2>3, <2>4, <2>5, <2>6 DEF MigrationNext
  <2> QED BY <2>1, <2>7 DEF PlaceInv
<1> QED BY <1>1, <1>2

=============================================================================
