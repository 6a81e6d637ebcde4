----------------------- MODULE MigrationCountsProofs -----------------------
(***************************************************************************)
(* What StorageMigrationProofs and MigrationObjectsProofs use of the       *)
(* cardinalities of finite sets holds, so that the layers of the invariant *)
(* of StorageMigration hold together.                                      *)
(***************************************************************************)
EXTENDS MigrationObjectsProofs, FiniteSetTheorems

\* Steps that name no prover are Zenon's; arithmetic goes to Z3, by two routes.
USE ZenonT(60)

\* Revisions are counted one by one, and in disjoint sets.
LEMMA CountingHolds == Counting
<1>1. \A S \in SUBSET MgRevs : IsFiniteSet(S) /\ Cardinality(S) \in Nat
  BY MigrationAssumption, FS_Subset, FS_CardinalityType
<1>2. Cardinality({}) = 0 /\ \A S \in SUBSET MgRevs : Cardinality(S) = 0 => S = {}
  BY <1>1, FS_EmptySet
<1>3. ASSUME NEW S \in SUBSET MgRevs, NEW r \in MgRevs
      PROVE  /\ r \notin S => Cardinality(S \cup {r}) = Cardinality(S) + 1
             /\ r \in S => Cardinality(S \ {r}) = Cardinality(S) - 1
  BY <1>1, FS_AddElement, FS_RemoveElement
<1>4. ASSUME NEW S \in SUBSET MgRevs, NEW T \in SUBSET MgRevs, S \cap T = {}
      PROVE  Cardinality(S \cup T) = Cardinality(S) + Cardinality(T)
  <2>1. Cardinality(S) \in Nat /\ Cardinality(T) \in Nat
    BY <1>1
  <2>2. Cardinality(S \cup T) = Cardinality(S) + Cardinality(T) - Cardinality(S \cap T)
    BY <1>1, FS_Union
  <2> QED BY <1>2, <1>4, <2>1, <2>2, NothingLess
<1> QED BY <1>1, <1>2, <1>3, <1>4 DEF Counting

\* Counts are exact, and what is gone is not referred to, for any blobs, attempts, and
\* order of steps.
THEOREM CountInvHolds == MigrationSpec => []CountInv
<1>1. MergeInv /\ CountInv /\ [MigrationNext]_mgVars => CountInv'
  <2> SUFFICES ASSUME MergeInv, CountInv, [MigrationNext]_mgVars PROVE CountInv'
    OBVIOUS
  <2>1. CASE UNCHANGED mgVars
    <3>1. UNCHANGED <<row, mgRef, sweep, mg>>
      BY <2>1 DEF mgVars
    <3> QED BY <3>1 DEF CountInv, RefsTo, TwinAway
  <2>2. CASE MgClaim
    <3>1. PICK a \in Attempts : OthersStay(a) /\ mg'[a].pc \in {"empties", "scan"}
      BY <2>2, ClaimFields DEF MergeInv
    <3> QED BY <2>2, <3>1, CountQuiet DEF MgClaim, TwinAway
  <2>3. CASE MigrationNext /\ ~MgClaim
    BY <2>3, CountingHolds, CountWork, CountTransactions, CountRefs, CountSweeps DEF MigrationNext
  <2> QED BY <2>1, <2>2, <2>3
<1>2. MigrationInit => CountInv
  BY CountingHolds, CountInit
<1> QED BY <1>1, <1>2, MergeInvHolds, PTL DEF MigrationSpec

\* ref_count is exact throughout, also for rows that were merged while references came
\* and went.
THEOREM MigrationCounts == MigrationSpec => []MigrationCountsExact
<1>1. CountInv => MigrationCountsExact
  BY DEF CountInv, MigrationCountsExact, RefsTo
<1> QED BY <1>1, CountInvHolds, PTL

\* Rows, jobs and objects stay in order, for any blobs and any number of attempts.
THEOREM ObjectInvHolds == ASSUME TameScenes PROVE MigrationSpec => [](PlaceInv /\ ObjectInv)
<1>1. MigrationInit => PlaceInv /\ ObjectInv
  BY PlaceInit, ObjectInit
<1>2. MergeInv /\ CountInv /\ PlaceInv /\ ObjectInv /\ [MigrationNext]_mgVars => (PlaceInv /\ ObjectInv)'
  BY PlaceStep, ObjectStep
<1> QED BY <1>1, <1>2, MergeInvHolds, CountInvHolds, PTL DEF MigrationSpec

\* A migration loses no content and no reference, also with attempts that lost their lease
\* still at work and with purges, copies, uploads and the cleaner beside it.
THEOREM MigrationIsSound == ASSUME TameScenes PROVE MigrationSpec => []MigrationSound
<1>1. MergeInv /\ CountInv /\ PlaceInv /\ ObjectInv => MigrationSound
  <2> SUFFICES ASSUME MergeInv, CountInv, PlaceInv, ObjectInv PROVE MigrationSound
    OBVIOUS
  <2>1. MigrationCountsExact
    BY DEF CountInv, MigrationCountsExact, RefsTo
  <2>2. ASSUME NEW r \in MgRevs, mgRef[r] # 0
        PROVE  /\ row[mgRef[r]].pol # "none"
               /\ \/ row[mgRef[r]].key = EmptyKey
                  \/ mgRef[r] \in scene.missing
                  \/ Stored(row[mgRef[r]].pol, row[mgRef[r]].key, ContentOf(mgRef[r]))
    <3>1. mgRef[r] \in MgIds
      BY <2>2 DEF MergeInv, Types
    <3>2. row[mgRef[r]].pol # "none"
      BY <3>1 DEF CountInv, RefsTo
    <3>3. row[mgRef[r]].pol \in {"src", "tgt"}
      BY <3>1, <3>2 DEF MergeInv, Types, RowType
    <3> QED BY <3>1, <3>3 DEF ObjectInv, SourceStored, TargetStored
  <2>3. MigrationKeepsContent
    BY <2>2 DEF MigrationKeepsContent
  <2> QED BY <2>1, <2>3 DEF MigrationSound
<1> QED BY <1>1, MergeInvHolds, CountInvHolds, ObjectInvHolds, PTL

\* No row names an object that a failing copy is about to delete.
THEOREM FailedCopies == ASSUME TameScenes PROVE MigrationSpec => []FailedCopyUnmoved
<1>1. ObjectInv => FailedCopyUnmoved
  BY DEF ObjectInv, UndoUnnamed, FailedCopyUnmoved, RowAt
<1> QED BY <1>1, ObjectInvHolds, PTL
-----------------------------------------------------------------------------
\* A batch is the first of what the scan finds.
LEMMA BatchIsFirst == BatchesAreFirst
<1> SUFFICES ASSUME NEW i \in Scannable, NEW j \in Scannable,
              Cardinality({l \in Scannable : l < j}) < BatchSize,
              ~(Cardinality({l \in Scannable : l < i}) < BatchSize)
             PROVE  i > j
  BY DEF BatchesAreFirst
<1>1. Scannable \subseteq MgIds /\ IsFiniteSet(MgIds) /\ MgIds \subseteq Int /\ BatchSize \in Int
  BY SMTT(60), Z3T(60), MigrationAssumption DEF Scannable
<1> HIDE DEF Scannable
<1>2. PICK S, T : S = {l \in Scannable : l < i} /\ T = {l \in Scannable : l < j}
  OBVIOUS
<1>3. IsFiniteSet(S) /\ IsFiniteSet(T)
  <2>1. S \subseteq MgIds /\ T \subseteq MgIds
    BY <1>1, <1>2
  <2> QED BY <1>1, <2>1, FS_Subset
<1>4. Cardinality(S) \in Nat /\ Cardinality(T) \in Nat
  BY <1>3, FS_CardinalityType
<1> SUFFICES ASSUME ~(i > j) PROVE FALSE
  OBVIOUS
<1>5. S \subseteq T
  <2>1. i \in Int /\ j \in Int /\ i <= j
    BY SMTT(60), Z3T(60), <1>1
  <2>2. ASSUME NEW l \in S PROVE l \in Scannable /\ l < i /\ l \in Int
    BY <1>1, <1>2
  <2>3. ASSUME NEW l \in S PROVE l < j
    BY SMTT(60), Z3T(60), <2>1, <2>2
  <2> QED BY <1>2, <2>2, <2>3
<1>6. Cardinality(S) <= Cardinality(T)
  BY <1>3, <1>5, FS_Subset
<1>7. Cardinality(T) < BatchSize /\ ~(Cardinality(S) < BatchSize)
  BY <1>2
<1> QED BY SMTT(60), Z3T(60), <1>1, <1>4, <1>6, <1>7


\* A task that succeeds leaves nothing behind, for any batch size and number of attempts,
\* with old attempts writing the checkpoint too.
THEOREM MigrationIsComplete == ASSUME TameScenes PROVE MigrationSpec => []NothingLeftBehind
<1>1. MergeInv /\ CountInv /\ PlaceInv /\ ObjectInv /\ CursorInv /\ [MigrationNext]_mgVars => CursorInv'
  BY BatchIsFirst, CursorStep
<1>2. CursorInv => NothingLeftBehind
  BY DEF CursorInv
<1> QED BY <1>1, <1>2, CursorInit, MergeInvHolds, CountInvHolds, ObjectInvHolds, PTL DEF MigrationSpec
=============================================================================
