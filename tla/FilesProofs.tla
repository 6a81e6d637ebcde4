---------------------------- MODULE FilesProofs -----------------------------
(***************************************************************************)
(* Proofs about FileRevisions and BlobLifecycle: the revisions of files, and*)
(* the rows and objects of the blobs they refer to.                        *)
(***************************************************************************)
EXTENDS FileRevisions, BlobLifecycle, FiniteSetTheorems, TLAPS

\* Steps that name no prover are Zenon's; arithmetic goes to Z3, by two routes.
USE ZenonT(60)

-----------------------------------------------------------------------------
(***************************************************************************)
(* Proofs about FileRevisions, for any files, contents, quota, number of   *)
(* requests and number of versions kept: the ledger is sound, a blob's     *)
(* ref_count and the workspace's storage_used are what the ledger adds up  *)
(* to, and no overwrite is lost.                                           *)
(***************************************************************************)
FileType == [st : {"absent", "live", "trash", "gone"}, blob : RvBlobs \cup {0}, size : Nat,
             stamp : Nat]
RevType(Q) == [file : RvFiles, seq : Q, pred : Nat, blob : RvBlobs, size : Nat, live : BOOLEAN]
JobType == [op : {"write", "stored", "restore", "tidy", "purge"}, file : RvFiles, row : FileType,
            blob : RvBlobs \cup {0}]

Types ==
    /\ file \in [RvFiles -> FileType]
    /\ \E Q : rev \in Seq(RevType(Q))
    /\ head \in [RvFiles -> Nat]
    /\ job \in [Jobs -> JobType \cup {NoJob}]

\* A file row carries the number of its current revision, and a request that overwrites
\* has read a live one.
Stamped ==
    /\ \A f \in RvFiles : file[f].st \in {"live", "trash"} => file[f].stamp = head[f]
    /\ \A j \in Jobs : job[j] # NoJob /\ job[j].op \in {"write", "stored"} =>
          job[j].row.st = "live" /\ job[j].blob \in RvBlobs

RevisionInv == Types /\ HeadsMatch /\ Stamped

\* An empty workspace satisfies all of it.
LEMMA InitInv == RevisionInit => RevisionInv
<1> SUFFICES ASSUME RevisionInit PROVE RevisionInv
  OBVIOUS
<1>1. Absent \in FileType /\ Absent.st = "absent"
  BY DEF Absent, FileType
<1>2. rev = <<>> /\ rev \in Seq(RevType({})) /\ Len(rev) = 0
  BY SMTT(60), Z3T(60) DEF RevisionInit
<1>3. Types
  BY <1>1, <1>2 DEF RevisionInit, Types
<1>4. Ids = {}
  BY SMTT(60), Z3T(60), <1>2 DEF Ids
<1>5. HeadsMatch
  BY <1>1, <1>4 DEF RevisionInit, HeadsMatch, LiveRevs
<1>6. Stamped
  BY <1>1 DEF RevisionInit, Stamped
<1> QED BY <1>3, <1>5, <1>6 DEF RevisionInv

\* The revisions so far: a sequence of records.
LEMMA RevFacts ==
  ASSUME Types
  PROVE  /\ Len(rev) \in Nat
         /\ \A r \in Ids : rev[r].file \in RvFiles /\ rev[r].blob \in RvBlobs
                           /\ rev[r].live \in BOOLEAN
                           /\ rev[r].size \in Nat /\ rev[r].pred \in Nat
<1>1. PICK Q : rev \in Seq(RevType(Q))
  BY DEF Types
<1>2. Len(rev) \in Nat /\ \A r \in 1..Len(rev) : rev[r] \in RevType(Q)
  BY SMTT(60), Z3T(60), <1>1
<1> QED BY <1>2 DEF Ids, RevType

\* What insert_revision adds.
LEMMA InsertedFacts ==
  ASSUME Types, NEW f \in RvFiles, NEW b \in RvBlobs, rev' = Inserted(f, b)
  PROVE  /\ \E Q : rev' \in Seq(RevType(Q))
         /\ Len(rev') = Len(rev) + 1
         /\ \A r \in Ids : rev'[r] = rev[r]
         /\ rev'[Len(rev) + 1].file = f /\ rev'[Len(rev) + 1].blob = b
         /\ rev'[Len(rev) + 1].size = SizeOf[b] /\ rev'[Len(rev) + 1].live
         /\ rev'[Len(rev) + 1].seq = NextSeq(f) /\ rev'[Len(rev) + 1].pred = head[f]
<1> DEFINE e == [file |-> f, seq |-> NextSeq(f), pred |-> head[f], blob |-> b,
                 size |-> SizeOf[b], live |-> TRUE]
<1>1. PICK Q : rev \in Seq(RevType(Q))
  BY DEF Types
<1> DEFINE P == Q \cup {NextSeq(f)}
<1>2. RevType(Q) \subseteq RevType(P)
  BY DEF RevType
<1>3. rev \in Seq(RevType(P))
  <2> HIDE DEF P
  <2>1. Len(rev) \in Nat /\ rev \in [1..Len(rev) -> RevType(Q)]
    BY SMTT(60), Z3T(60), <1>1
  <2>2. rev \in [1..Len(rev) -> RevType(P)]
    BY <1>2, <2>1
  <2> QED BY SMTT(60), Z3T(60), <2>1, <2>2
<1>4. e \in RevType(P)
  BY RevisionAssumption DEF RevType, Types
<1>5. rev' = Append(rev, e)
  BY DEF Inserted
<1>6. /\ e.file = f /\ e.blob = b /\ e.size = SizeOf[b] /\ e.live
      /\ e.seq = NextSeq(f) /\ e.pred = head[f]
  OBVIOUS
<1> HIDE DEF e, P
<1>7. /\ rev' \in Seq(RevType(P)) /\ Len(rev') = Len(rev) + 1
      /\ \A r \in 1..Len(rev) : rev'[r] = rev[r]
      /\ rev'[Len(rev) + 1] = e
  BY SMTT(60), Z3T(60), <1>3, <1>4, <1>5
<1> QED BY <1>6, <1>7 DEF Ids

\* Publishing a version keeps the ledger sound.
LEMMA PublishKeeps ==
  ASSUME RevisionInv, NEW f \in RvFiles, NEW b \in RvBlobs, NEW st \in {"live", "trash"},
         Publish(f, b, st)
  PROVE  /\ file' \in [RvFiles -> FileType] /\ (\E Q : rev' \in Seq(RevType(Q)))
         /\ head' \in [RvFiles -> Nat] /\ HeadsMatch'
         /\ \A g \in RvFiles : file'[g].st \in {"live", "trash"} => file'[g].stamp = head'[g]
<1> USE DEF RevisionInv
<1> DEFINE n == Len(rev) + 1
           row == [st |-> st, blob |-> b, size |-> SizeOf[b], stamp |-> n]
<1>1. /\ rev' = Inserted(f, b) /\ head' = [head EXCEPT ![f] = n]
      /\ file' = [file EXCEPT ![f] = row]
  BY DEF Publish
<1>2. n \in Nat /\ n \notin Ids /\ \A r \in Ids : r # n
  BY SMTT(60), Z3T(60), RevFacts DEF Ids
<1>3. row \in FileType /\ row.st = st /\ row.blob = b /\ row.size = SizeOf[b] /\ row.stamp = n
  BY <1>2, RevisionAssumption DEF FileType
<1> HIDE DEF row
<1>4. file' \in [RvFiles -> FileType] /\ file'[f] = row
      /\ \A g \in RvFiles : g # f => file'[g] = file[g]
  BY <1>1, <1>3 DEF Types
<1>5. head' \in [RvFiles -> Nat] /\ head'[f] = n
      /\ \A g \in RvFiles : g # f => head'[g] = head[g]
  BY <1>1, <1>2 DEF Types
<1>6. /\ \E Q : rev' \in Seq(RevType(Q))
      /\ Len(rev') = Len(rev) + 1
      /\ \A r \in Ids : rev'[r] = rev[r]
      /\ rev'[n].file = f /\ rev'[n].blob = b /\ rev'[n].size = SizeOf[b] /\ rev'[n].live
  BY <1>1, InsertedFacts
<1>7. Ids' = Ids \cup {n}
  BY SMTT(60), Z3T(60), <1>6, RevFacts DEF Ids
<1> HIDE DEF n
<1>8. LiveRevs(f)' = LiveRevs(f) \cup {n}
      /\ \A g \in RvFiles : g # f => LiveRevs(g)' = LiveRevs(g)
  BY <1>2, <1>6, <1>7 DEF LiveRevs
<1>9. HeadsMatch'
  <2> SUFFICES ASSUME NEW g \in RvFiles
               PROVE  IF file'[g].st \in {"live", "trash"}
                      THEN /\ head'[g] \in LiveRevs(g)'
                           /\ rev'[head'[g]].blob = file'[g].blob
                           /\ rev'[head'[g]].size = file'[g].size
                      ELSE head'[g] = 0 /\ LiveRevs(g)' = {}
    BY DEF HeadsMatch
  <2>1. CASE g = f
    BY <1>3, <1>4, <1>5, <1>6, <1>8, <2>1
  <2>2. CASE g # f
    BY SMTT(60), Z3T(60), <1>4, <1>5, <1>6, <1>8, <2>2 DEF HeadsMatch, LiveRevs
  <2> QED BY <2>1, <2>2
<1>10. \A g \in RvFiles : file'[g].st \in {"live", "trash"} => file'[g].stamp = head'[g]
  BY <1>3, <1>4, <1>5 DEF Stamped
<1> QED BY <1>4, <1>5, <1>6, <1>9, <1>10

-----------------------------------------------------------------------------
\* A table of the same revisions, of which each is still a record, is a sequence.
LEMMA Rewritten ==
  ASSUME Types, NEW Q, NEW g, g = [i \in Ids |-> g[i]], \A i \in Ids : g[i] \in RevType(Q)
  PROVE  g \in Seq(RevType(Q)) /\ Len(g) = Len(rev)
<1>1. Len(rev) \in Nat
  BY RevFacts
<1>2. g \in [1..Len(rev) -> RevType(Q)]
  BY DEF Ids
<1>3. g \in Seq(RevType(Q))
  BY SMTT(60), Z3T(60), <1>1, <1>2
<1>4. DOMAIN g = 1..Len(rev)
  BY <1>2
<1>5. Len(g) \in Nat /\ DOMAIN g = 1..Len(g)
  BY SMTT(60), Z3T(60), <1>3
<1>6. Len(g) = Len(rev)
  BY SMTT(60), Z3T(60), <1>1, <1>4, <1>5
<1> QED BY <1>3, <1>6

\* Every revision is a record over one set of numbers.
LEMMA Records ==
  ASSUME Types
  PROVE  \E Q : \A i \in Ids : rev[i] \in RevType(Q)
<1>1. PICK Q : rev \in Seq(RevType(Q))
  BY DEF Types
<1> QED BY SMTT(60), Z3T(60), <1>1 DEF Ids

\* What tombstone leaves of the revisions.
LEMMA RetireFacts ==
  ASSUME Types, NEW r \in Ids, Retire(r)
  PROVE  /\ \E Q : rev' \in Seq(RevType(Q))
         /\ Ids' = Ids
         /\ \A i \in Ids :
              /\ rev'[i].file = rev[i].file /\ rev'[i].seq = rev[i].seq
              /\ rev'[i].blob = rev[i].blob /\ rev'[i].size = rev[i].size
              /\ rev'[i].live = (rev[i].live /\ i # r)
              /\ rev'[i].pred = IF /\ i # r /\ rev[i].live /\ rev[i].pred = r
                                   /\ rev[i].file = rev[r].file
                                THEN rev[r].pred ELSE rev[i].pred
<1>1. PICK Q : \A i \in Ids : rev[i] \in RevType(Q)
  BY Records
<1>2. rev' = Tombstoned(r)
  BY DEF Retire
<1>3. rev' = [i \in Ids |-> rev'[i]]
  BY <1>2 DEF Tombstoned
<1>4. ASSUME NEW i \in Ids
      PROVE  /\ rev'[i] \in RevType(Q)
             /\ rev'[i].file = rev[i].file /\ rev'[i].seq = rev[i].seq
             /\ rev'[i].blob = rev[i].blob /\ rev'[i].size = rev[i].size
             /\ rev'[i].live = (rev[i].live /\ i # r)
             /\ rev'[i].pred = IF /\ i # r /\ rev[i].live /\ rev[i].pred = r
                                  /\ rev[i].file = rev[r].file
                               THEN rev[r].pred ELSE rev[i].pred
  <2>1. rev[i] \in RevType(Q) /\ rev[r].pred \in Nat
    BY <1>1 DEF RevType
  <2>2. CASE i = r
    <3>1. rev'[i] = [rev[i] EXCEPT !.live = FALSE]
      BY <1>2, <2>2 DEF Tombstoned
    <3> QED BY <2>1, <2>2, <3>1 DEF RevType
  <2>3. CASE i # r /\ rev[i].live /\ rev[i].file = rev[r].file /\ rev[i].pred = r
    <3>1. rev'[i] = [rev[i] EXCEPT !.pred = rev[r].pred]
      BY <1>2, <2>3 DEF Tombstoned
    <3> QED BY <2>1, <2>3, <3>1 DEF RevType
  <2>4. CASE i # r /\ ~(rev[i].live /\ rev[i].file = rev[r].file /\ rev[i].pred = r)
    <3>1. rev'[i] = rev[i]
      BY <1>2, <2>4 DEF Tombstoned
    <3> QED BY <2>1, <2>4, <3>1 DEF RevType
  <2> QED BY <2>2, <2>3, <2>4
<1>5. rev' \in Seq(RevType(Q)) /\ Ids' = Ids
  BY <1>3, <1>4, Rewritten DEF Ids
<1> QED BY <1>4, <1>5

\* Retiring a revision that is not the current one keeps the heads.
LEMMA RetireKeeps ==
  ASSUME RevisionInv, NEW f \in RvFiles, NEW r \in LiveRevs(f), r # head[f], Retire(r)
  PROVE  /\ file' = file /\ head' = head /\ HeadsMatch'
         /\ \E Q : rev' \in Seq(RevType(Q))
<1> USE DEF RevisionInv
<1>1. file' = file /\ head' = head /\ r \in Ids /\ rev[r].file = f
  BY DEF Retire, LiveRevs
<1>2. /\ \E Q : rev' \in Seq(RevType(Q))
      /\ Ids' = Ids
      /\ \A i \in Ids : /\ rev'[i].file = rev[i].file /\ rev'[i].blob = rev[i].blob
                        /\ rev'[i].size = rev[i].size
                        /\ rev'[i].live = (rev[i].live /\ i # r)
  BY <1>1, RetireFacts
<1>3. \A g \in RvFiles : LiveRevs(g)' = LiveRevs(g) \ {r}
  BY ZenonT(60), <1>2 DEF LiveRevs
<1>4. \A g \in RvFiles : g # f => r \notin LiveRevs(g)
  BY <1>1 DEF LiveRevs
<1>5. HeadsMatch'
  BY SMTT(60), Z3T(60), <1>1, <1>2, <1>3, <1>4 DEF HeadsMatch, LiveRevs
<1> QED BY <1>1, <1>2, <1>5

\* What a purge does, apart from the file row.
Purged(f) ==
    /\ rev' = [i \in Ids |-> IF i \in LiveRevs(f) THEN [rev[i] EXCEPT !.live = FALSE]
                             ELSE rev[i]]
    /\ refs' = [b \in RvBlobs |->
                  refs[b] - Cardinality({r \in LiveRevs(f) : rev[r].blob = b})]
    /\ used' = Shrunk(FreedBytes(f))
    /\ head' = [head EXCEPT ![f] = 0]

\* What retire_histories leaves of the revisions.
LEMMA PurgeFacts ==
  ASSUME Types, NEW f \in RvFiles, Purged(f)
  PROVE  /\ \E Q : rev' \in Seq(RevType(Q))
         /\ Ids' = Ids
         /\ \A i \in Ids :
              /\ rev'[i].file = rev[i].file /\ rev'[i].seq = rev[i].seq
              /\ rev'[i].blob = rev[i].blob /\ rev'[i].size = rev[i].size
              /\ rev'[i].pred = rev[i].pred
              /\ rev'[i].live = (rev[i].live /\ i \notin LiveRevs(f))
<1>1. PICK Q : \A i \in Ids : rev[i] \in RevType(Q)
  BY Records
<1>2. rev' = [i \in Ids |-> IF i \in LiveRevs(f) THEN [rev[i] EXCEPT !.live = FALSE]
                            ELSE rev[i]]
  BY DEF Purged
<1>3. ASSUME NEW i \in Ids
      PROVE  /\ rev'[i] \in RevType(Q)
             /\ rev'[i].file = rev[i].file /\ rev'[i].seq = rev[i].seq
             /\ rev'[i].blob = rev[i].blob /\ rev'[i].size = rev[i].size
             /\ rev'[i].pred = rev[i].pred
             /\ rev'[i].live = (rev[i].live /\ i \notin LiveRevs(f))
  <2>1. rev[i] \in RevType(Q)
    BY <1>1
  <2>2. CASE i \in LiveRevs(f)
    BY <1>2, <2>1, <2>2 DEF RevType
  <2>3. CASE i \notin LiveRevs(f)
    BY <1>2, <2>1, <2>3 DEF RevType
  <2> QED BY <2>2, <2>3
<1>4. rev' = [i \in Ids |-> rev'[i]]
  BY <1>2
<1>5. rev' \in Seq(RevType(Q)) /\ Ids' = Ids
  BY <1>3, <1>4, Rewritten DEF Ids
<1> QED BY <1>3, <1>5

\* Purging a trashed file takes its row, its head and all of its revisions.
LEMMA PurgeKeeps ==
  ASSUME RevisionInv, NEW j \in Jobs, PurgeCommit(j)
  PROVE  RevisionInv'
<1> USE DEF RevisionInv
<1>0. job[j] \in JobType /\ job' = [job EXCEPT ![j] = NoJob]
  BY DEF PurgeCommit, Types
<1>1. PICK f \in RvFiles : f = job[j].file
  BY <1>0 DEF JobType
<1>2. CASE file[f].st # "trash"
  BY SMTT(60), Z3T(60), <1>0, <1>1, <1>2 DEF PurgeCommit, Types, HeadsMatch, Stamped, LiveRevs, Ids
<1>3. CASE file[f].st = "trash"
  <2> DEFINE row == [Absent EXCEPT !.st = "gone"]
  <2>1. row \in FileType /\ row.st = "gone"
    BY DEF FileType, Absent
  <2>2. Purged(f) /\ head' = [head EXCEPT ![f] = 0] /\ file' = [file EXCEPT ![f] = row]
    BY <1>1, <1>3 DEF PurgeCommit, Purged
  <2> HIDE DEF row
  <2>6. /\ \E Q : rev' \in Seq(RevType(Q))
        /\ Ids' = Ids
        /\ \A i \in Ids : /\ rev'[i].file = rev[i].file /\ rev'[i].blob = rev[i].blob
                          /\ rev'[i].size = rev[i].size
                          /\ rev'[i].live = (rev[i].live /\ i \notin LiveRevs(f))
    BY <2>2, PurgeFacts
  <2>7. \A g \in RvFiles : LiveRevs(g)' = IF g = f THEN {} ELSE LiveRevs(g)
    BY ZenonT(60), <2>6 DEF LiveRevs
  <2>8. /\ file' \in [RvFiles -> FileType] /\ file'[f] = row /\ head' \in [RvFiles -> Nat]
        /\ head'[f] = 0
        /\ \A g \in RvFiles : g # f => file'[g] = file[g] /\ head'[g] = head[g]
    BY <2>1, <2>2 DEF Types
  <2>9. HeadsMatch'
    <3> SUFFICES ASSUME NEW g \in RvFiles
                 PROVE  IF file'[g].st \in {"live", "trash"}
                        THEN /\ head'[g] \in LiveRevs(g)'
                             /\ rev'[head'[g]].blob = file'[g].blob
                             /\ rev'[head'[g]].size = file'[g].size
                        ELSE head'[g] = 0 /\ LiveRevs(g)' = {}
      BY DEF HeadsMatch
    <3>1. CASE g = f
      BY <2>1, <2>7, <2>8, <3>1
    <3>2. CASE g # f
      BY SMTT(60), Z3T(60), <2>6, <2>7, <2>8, <3>2 DEF HeadsMatch, LiveRevs
    <3> QED BY <3>1, <3>2
  <2>10. Types'
    BY <1>0, <2>6, <2>8 DEF Types
  <2>11. Stamped'
    BY <1>0, <2>1, <2>8 DEF Stamped, Types
  <2> QED BY <2>9, <2>10, <2>11
<1> QED BY <1>2, <1>3

-----------------------------------------------------------------------------
\* Steps that only change what a request remembers.
LEMMA JobKeeps ==
  ASSUME RevisionInv, NEW j \in Jobs, NEW v \in JobType \cup {NoJob},
         v # NoJob /\ v.op \in {"write", "stored"} => v.row.st = "live" /\ v.blob \in RvBlobs,
         job' = [job EXCEPT ![j] = v]
  PROVE  /\ job' \in [Jobs -> JobType \cup {NoJob}]
         /\ \A k \in Jobs : job'[k] # NoJob /\ job'[k].op \in {"write", "stored"} =>
               job'[k].row.st = "live" /\ job'[k].blob \in RvBlobs
<1> USE DEF RevisionInv
<1>1. job \in [Jobs -> JobType \cup {NoJob}]
  BY DEF Types
<1>2. \A k \in Jobs : job'[k] = IF k = j THEN v ELSE job[k]
  BY <1>1
<1> QED BY <1>1, <1>2 DEF Stamped

\* A request that has published goes on to trim the versions.
LEMMA TidyNext ==
  ASSUME RevisionInv, NEW j \in Jobs, job[j] \in JobType, job' = [job EXCEPT ![j].op = "tidy"]
  PROVE  /\ job' \in [Jobs -> JobType \cup {NoJob}]
         /\ \A k \in Jobs : job'[k] # NoJob /\ job'[k].op \in {"write", "stored"} =>
               job'[k].row.st = "live" /\ job'[k].blob \in RvBlobs
<1> DEFINE v == [job[j] EXCEPT !.op = "tidy"]
<1>1. v \in JobType /\ v.op = "tidy"
  BY DEF JobType
<1>2. job' = [job EXCEPT ![j] = v]
  OBVIOUS
<1> HIDE DEF v
<1> QED BY ZenonT(60), <1>1, <1>2, JobKeeps

\* Every step keeps the invariant.
LEMMA StepInv == RevisionInv /\ [RevisionNext]_rvVars => RevisionInv'
<1> SUFFICES ASSUME RevisionInv, [RevisionNext]_rvVars PROVE RevisionInv'
  OBVIOUS
<1> USE DEF RevisionInv
<1>1. ASSUME NEW f \in RvFiles, RvTrash(f) \/ RvUntrash(f)
      PROVE  RevisionInv'
  <2>1. PICK s \in {"live", "trash"} : file' = [file EXCEPT ![f].st = s]
    BY <1>1 DEF RvTrash, RvUntrash
  <2>2. file[f].st \in {"live", "trash"} /\ UNCHANGED <<rev, head, used, refs, job>>
    BY <1>1 DEF RvTrash, RvUntrash
  <2> DEFINE v == [file[f] EXCEPT !.st = s]
  <2>3. v \in FileType /\ v.st = s /\ v.blob = file[f].blob /\ v.size = file[f].size
        /\ v.stamp = file[f].stamp
    BY DEF Types, FileType
  <2>4. file' = [file EXCEPT ![f] = v]
    BY <2>1
  <2> HIDE DEF v
  <2>5. /\ file' \in [RvFiles -> FileType]
        /\ \A g \in RvFiles : file'[g] = IF g = f THEN v ELSE file[g]
    BY <2>3, <2>4 DEF Types
  <2>6. Types'
    BY <2>2, <2>5 DEF Types
  <2>7. HeadsMatch'
    BY SMTT(60), Z3T(60), <2>2, <2>3, <2>5 DEF HeadsMatch, LiveRevs, Ids
  <2>8. Stamped'
    BY <2>2, <2>3, <2>5 DEF Stamped
  <2> QED BY <2>6, <2>7, <2>8
<1>2. ASSUME NEW f \in RvFiles, NEW b \in RvBlobs, RvCreate(f, b)
      PROVE  RevisionInv'
  <2>1. Publish(f, b, "live") /\ job' = job
    BY <1>2 DEF RvCreate
  <2> QED BY <2>1, PublishKeeps DEF Types, Stamped
<1>3. ASSUME NEW f \in RvFiles, NEW r \in 1..MaxRevs, DeleteVersion(f, r)
      PROVE  RevisionInv'
  <2>1. r \in LiveRevs(f) /\ r # head[f] /\ Retire(r) /\ job' = job
    BY <1>3 DEF DeleteVersion
  <2>2. file' = file /\ head' = head /\ HeadsMatch' /\ \E Q : rev' \in Seq(RevType(Q))
    BY <2>1, RetireKeeps
  <2> QED BY <2>1, <2>2 DEF Types, Stamped
<1>4. ASSUME NEW j \in Jobs, NEW f \in RvFiles, NEW b \in RvBlobs,
             WriteRead(j, f, b)
      PROVE  RevisionInv'
  <2>1. file[f].st = "live" /\ UNCHANGED <<file, rev, head>>
    BY <1>4 DEF WriteRead
  <2>0. PICK o \in {"write", "stored"} :
          job' = [job EXCEPT ![j] = [op |-> o, file |-> f, row |-> file[f], blob |-> b]]
    BY <1>4 DEF WriteRead
  <2> DEFINE v == [op |-> o, file |-> f, row |-> file[f], blob |-> b]
  <2>2. v \in JobType /\ v.row = file[f] /\ v.blob = b
    BY DEF JobType, Types
  <2>3. job' = [job EXCEPT ![j] = v]
    BY <2>0
  <2> HIDE DEF v
  <2>4. /\ job' \in [Jobs -> JobType \cup {NoJob}]
        /\ \A k \in Jobs : job'[k] # NoJob /\ job'[k].op \in {"write", "stored"} =>
              job'[k].row.st = "live" /\ job'[k].blob \in RvBlobs
    BY <2>1, <2>2, <2>3, JobKeeps
  <2> QED BY SMTT(60), Z3T(60), <2>1, <2>4 DEF Types, Stamped, HeadsMatch, LiveRevs, Ids
<1>5. ASSUME NEW j \in Jobs, NEW r \in 1..MaxRevs, RestoreCommit(j, r)
      PROVE  RevisionInv'
  <2>1. job[j] \in JobType /\ job' = [job EXCEPT ![j].op = "tidy"]
    BY <1>5 DEF RestoreCommit, Types
  <2>2. PICK f \in RvFiles : f = job[j].file
    BY <2>1 DEF JobType
  <2>3. r \in LiveRevs(f) /\ Publish(f, rev[r].blob, file[f].st)
    BY <1>5, <2>2 DEF RestoreCommit
  <2>4. rev[r].blob \in RvBlobs /\ file[f].st \in {"live", "trash"}
    BY <2>3, RevFacts DEF LiveRevs, HeadsMatch
  <2>5. PICK b \in RvBlobs, st \in {"live", "trash"} : Publish(f, b, st)
    BY <2>3, <2>4
  <2>6. /\ file' \in [RvFiles -> FileType] /\ (\E Q : rev' \in Seq(RevType(Q)))
        /\ head' \in [RvFiles -> Nat] /\ HeadsMatch'
        /\ \A g \in RvFiles : file'[g].st \in {"live", "trash"} => file'[g].stamp = head'[g]
    BY <2>5, PublishKeeps
  <2> QED BY <2>1, <2>6, TidyNext DEF Types, Stamped
<1>6. ASSUME NEW j \in Jobs, WriteCommit(j) \/ StoredCommit(j)
      PROVE  RevisionInv'
  <2>1. job[j] \in JobType /\ job' = [job EXCEPT ![j].op = "tidy"] /\ job[j].blob \in RvBlobs
    BY <1>6 DEF WriteCommit, StoredCommit, Types, Stamped
  <2>2. job[j].file \in RvFiles /\ Publish(job[j].file, job[j].blob, "live")
    BY <1>6, <2>1 DEF WriteCommit, StoredCommit, JobType
  <2> QED BY <2>1, <2>2, PublishKeeps, TidyNext DEF Types, Stamped
<1>7. ASSUME NEW j \in Jobs, job' = [job EXCEPT ![j] = NoJob],
             UNCHANGED <<file, rev, head, used, refs>>
      PROVE  RevisionInv'
  <2>1. /\ job' \in [Jobs -> JobType \cup {NoJob}]
        /\ \A k \in Jobs : job'[k] # NoJob /\ job'[k].op \in {"write", "stored"} =>
              job'[k].row.st = "live" /\ job'[k].blob \in RvBlobs
    BY <1>7, JobKeeps
  <2> QED BY SMTT(60), Z3T(60), <1>7, <2>1 DEF Types, Stamped, HeadsMatch, LiveRevs, Ids
<1>8. ASSUME NEW j \in Jobs, TidyStep(j)
      PROVE  RevisionInv'
  <2>1. PICK f \in RvFiles : f = job[j].file
    BY <1>8 DEF TidyStep, Types, JobType
  <2>2. CASE head[f] # 0 /\ Cardinality(LiveRevs(f)) > MaxVersions + 1
    <3>1. PICK r \in Ids : Oldest(f, r) /\ Retire(r)
      BY <1>8, <2>1, <2>2 DEF TidyStep
    <3>2. job' = job
      BY <1>8, <2>1, <2>2 DEF TidyStep
    <3>3. r \in LiveRevs(f) /\ r # head[f]
      BY <3>1 DEF Oldest
    <3>4. file' = file /\ head' = head /\ HeadsMatch' /\ \E Q : rev' \in Seq(RevType(Q))
      BY <3>1, <3>3, RetireKeeps
    <3> QED BY <3>2, <3>4 DEF Types, Stamped
  <2>3. CASE ~(head[f] # 0 /\ Cardinality(LiveRevs(f)) > MaxVersions + 1)
    BY <1>7, <1>8, <2>1, <2>3 DEF TidyStep
  <2> QED BY <2>2, <2>3
<1>9. ASSUME NEW j \in Jobs, JobDrops(j)
      PROVE  RevisionInv'
  BY <1>7, <1>9 DEF JobDrops
<1>10. CASE UNCHANGED rvVars
  BY SMTT(60), Z3T(60), <1>10 DEF rvVars, Types, Stamped, HeadsMatch, LiveRevs, Ids
<1>11. ASSUME NEW j \in Jobs, NEW f \in RvFiles, RestoreRead(j, f) \/ PurgeListed(j, f)
       PROVE  RevisionInv'
  <2>1. PICK o \in {"restore", "purge"} :
          job' = [job EXCEPT ![j] = [op |-> o, file |-> f, row |-> file[f],
                                     blob |-> file[f].blob]]
    BY <1>11 DEF RestoreRead, PurgeListed
  <2>2. UNCHANGED <<file, rev, head>>
    BY <1>11 DEF RestoreRead, PurgeListed
  <2> DEFINE v == [op |-> o, file |-> f, row |-> file[f], blob |-> file[f].blob]
  <2>3. v \in JobType /\ v.op \notin {"write", "stored"}
    BY DEF JobType, Types, FileType
  <2>4. job' = [job EXCEPT ![j] = v]
    BY <2>1
  <2> HIDE DEF v
  <2>5. /\ job' \in [Jobs -> JobType \cup {NoJob}]
        /\ \A k \in Jobs : job'[k] # NoJob /\ job'[k].op \in {"write", "stored"} =>
              job'[k].row.st = "live" /\ job'[k].blob \in RvBlobs
    BY <2>3, <2>4, JobKeeps
  <2> QED BY SMTT(60), Z3T(60), <2>2, <2>5 DEF Types, Stamped, HeadsMatch, LiveRevs, Ids
<1> QED
  BY <1>1, <1>2, <1>3, <1>4, <1>5, <1>6, <1>8, <1>9, <1>10, <1>11, PurgeKeeps DEF RevisionNext

-----------------------------------------------------------------------------
\* Of the steps that keep the ledger's shape only these change it: a new revision, one
\* retired that is not current, a whole file purged.
LEMMA StepKinds ==
  ASSUME RevisionInv, [RevisionNext]_rvVars
  PROVE  \/ \E f \in RvFiles, b \in RvBlobs, st \in {"live", "trash"} : Publish(f, b, st)
         \/ \E f \in RvFiles : \E r \in LiveRevs(f) : r # head[f] /\ Retire(r)
         \/ \E f \in RvFiles : Purged(f)
         \/ UNCHANGED <<rev, head, used, refs>>
<1> DEFINE Kinds ==
      \/ \E f \in RvFiles, b \in RvBlobs, st \in {"live", "trash"} : Publish(f, b, st)
      \/ \E f \in RvFiles : \E r \in LiveRevs(f) : r # head[f] /\ Retire(r)
      \/ \E f \in RvFiles : Purged(f)
      \/ UNCHANGED <<rev, head, used, refs>>
<1> SUFFICES Kinds
  OBVIOUS
<1> USE DEF RevisionInv
<1>1. ASSUME NEW f \in RvFiles, RvTrash(f) \/ RvUntrash(f) PROVE Kinds
  BY <1>1 DEF RvTrash, RvUntrash
<1>2. ASSUME NEW f \in RvFiles, NEW b \in RvBlobs, RvCreate(f, b) PROVE Kinds
  BY <1>2 DEF RvCreate
<1>3. ASSUME NEW f \in RvFiles, NEW r \in 1..MaxRevs, DeleteVersion(f, r) PROVE Kinds
  BY <1>3 DEF DeleteVersion
<1>4. ASSUME NEW j \in Jobs, NEW f \in RvFiles, RestoreRead(j, f) \/ PurgeListed(j, f)
      PROVE  Kinds
  BY <1>4 DEF RestoreRead, PurgeListed
<1>5. ASSUME NEW j \in Jobs, NEW f \in RvFiles, NEW b \in RvBlobs, WriteRead(j, f, b)
      PROVE  Kinds
  BY <1>5 DEF WriteRead
<1>6. ASSUME NEW j \in Jobs, NEW r \in 1..MaxRevs, RestoreCommit(j, r) PROVE Kinds
  <2>1. PICK f \in RvFiles : f = job[j].file
    BY <1>6 DEF RestoreCommit, Types, JobType
  <2>2. r \in LiveRevs(f) /\ Publish(f, rev[r].blob, file[f].st)
    BY <1>6, <2>1 DEF RestoreCommit
  <2>3. rev[r].blob \in RvBlobs /\ file[f].st \in {"live", "trash"}
    BY <2>2, RevFacts DEF LiveRevs, HeadsMatch
  <2> QED BY <2>2, <2>3
<1>7. ASSUME NEW j \in Jobs, WriteCommit(j) \/ StoredCommit(j) PROVE Kinds
  <2>1. job[j] \in JobType /\ job[j].blob \in RvBlobs
    BY <1>7 DEF WriteCommit, StoredCommit, Types, Stamped
  <2>2. job[j].file \in RvFiles /\ Publish(job[j].file, job[j].blob, "live")
    BY <1>7, <2>1 DEF WriteCommit, StoredCommit, JobType
  <2> QED BY <2>1, <2>2
<1>8. ASSUME NEW j \in Jobs, TidyStep(j) PROVE Kinds
  <2>1. PICK f \in RvFiles : f = job[j].file
    BY <1>8 DEF TidyStep, Types, JobType
  <2>2. CASE head[f] # 0 /\ Cardinality(LiveRevs(f)) > MaxVersions + 1
    BY <1>8, <2>1, <2>2 DEF TidyStep, Oldest
  <2>3. CASE ~(head[f] # 0 /\ Cardinality(LiveRevs(f)) > MaxVersions + 1)
    BY <1>8, <2>1, <2>3 DEF TidyStep
  <2> QED BY <2>2, <2>3
<1>9. ASSUME NEW j \in Jobs, PurgeCommit(j) PROVE Kinds
  <2>1. PICK f \in RvFiles : f = job[j].file
    BY <1>9 DEF PurgeCommit, Types, JobType
  <2>2. CASE file[f].st = "trash"
    BY <1>9, <2>1, <2>2 DEF PurgeCommit, Purged
  <2>3. CASE file[f].st # "trash"
    BY <1>9, <2>1, <2>3 DEF PurgeCommit
  <2> QED BY <2>2, <2>3
<1>10. ASSUME NEW j \in Jobs, JobDrops(j) PROVE Kinds
  BY <1>10 DEF JobDrops
<1>11. CASE UNCHANGED rvVars
  BY <1>11 DEF rvVars
<1> HIDE DEF Kinds
<1> QED
  BY <1>1, <1>2, <1>3, <1>4, <1>5, <1>6, <1>7, <1>8, <1>9, <1>10, <1>11 DEF RevisionNext

\* Numbers grow with insertion within a file, and a file with revisions has a last one.
Numbers ==
    /\ \A r \in Ids : rev[r].seq \in Nat
    /\ \A q, r \in Ids : q < r /\ rev[q].file = rev[r].file => rev[q].seq < rev[r].seq
    /\ \A r \in Ids : \E l \in Ids :
          /\ rev[l].file = rev[r].file
          /\ \A q \in Ids : rev[q].file = rev[r].file => q <= l

\* The live revisions of a file are linked in the order of insertion, the head last.
Linked ==
    \A f \in RvFiles : \A r \in LiveRevs(f) :
       /\ r <= head[f]
       /\ IF rev[r].pred = 0 THEN \A q \in LiveRevs(f) : ~(q < r)
          ELSE /\ rev[r].pred \in LiveRevs(f) /\ rev[r].pred < r
               /\ \A q \in LiveRevs(f) : q < r => q <= rev[r].pred

LedgerInv == RevisionInv /\ Numbers /\ Linked

\* The maximum of a set of numbers that has one.
LEMMA MaxIs ==
  ASSUME NEW S \in SUBSET Nat, NEW m \in S, \A x \in S : x <= m
  PROVE  Max(S) = m
<1>1. \A x \in S : (\A y \in S : x >= y) <=> x = m
  BY SMTT(60), Z3T(60)
<1> QED BY <1>1 DEF Max

\* next_sequence gives a number above every one the file has had.
LEMMA NextSeqAbove ==
  ASSUME RevisionInv, Numbers, NEW f \in RvFiles
  PROVE  /\ NextSeq(f) \in Nat
         /\ \A q \in Ids : rev[q].file = f => rev[q].seq < NextSeq(f)
<1> DEFINE S == {r \in Ids : rev[r].file = f}
           N == {rev[r].seq : r \in S}
<1>1. CASE S = {}
  BY SMTT(60), Z3T(60), <1>1 DEF NextSeq, MaxSeq
<1>2. CASE S # {}
  <2>1. PICK l \in S : \A q \in S : q <= l
    <3>1. PICK r \in Ids : rev[r].file = f
      BY <1>2
    <3>2. PICK l \in Ids : /\ rev[l].file = rev[r].file
                           /\ \A q \in Ids : rev[q].file = rev[r].file => q <= l
      BY <3>1 DEF Numbers
    <3>3. l \in S /\ \A q \in S : q <= l
      BY <3>1, <3>2
    <3> QED BY <3>3
  <2>2. \A q \in S : q \in Nat /\ (q < l \/ q = l)
    BY SMTT(60), Z3T(60), <2>1, RevFacts DEF Ids, RevisionInv
  <2>3. \A q \in S : rev[q].seq <= rev[l].seq
    BY SMTT(60), Z3T(60), <2>2 DEF Numbers
  <2>4. N \in SUBSET Nat /\ rev[l].seq \in N /\ \A x \in N : x <= rev[l].seq
    BY <2>3 DEF Numbers
  <2>5. Max(N) = rev[l].seq
    BY <2>4, MaxIs
  <2>6. NextSeq(f) = rev[l].seq + 1
    BY <1>2, <2>5 DEF NextSeq, MaxSeq
  <2> QED BY SMTT(60), Z3T(60), <2>3, <2>6 DEF Numbers
<1> QED BY <1>1, <1>2

\* What publishing a version leaves of the revisions.
LEMMA PublishFacts ==
  ASSUME Types, NEW f \in RvFiles, NEW b \in RvBlobs, NEW st \in {"live", "trash"},
         Publish(f, b, st)
  PROVE  LET n == Len(rev) + 1 IN
         /\ Ids' = Ids \cup {n} /\ n \notin Ids /\ Len(rev) \in Nat
         /\ \A r \in Ids : rev'[r] = rev[r]
         /\ rev'[n].file = f /\ rev'[n].live /\ rev'[n].blob = b /\ rev'[n].size = SizeOf[b]
         /\ rev'[n].seq = NextSeq(f) /\ rev'[n].pred = head[f]
<1>1. rev' = Inserted(f, b)
  BY DEF Publish
<1>2. /\ Len(rev') = Len(rev) + 1
      /\ \A r \in Ids : rev'[r] = rev[r]
      /\ rev'[Len(rev) + 1].file = f /\ rev'[Len(rev) + 1].blob = b
      /\ rev'[Len(rev) + 1].size = SizeOf[b] /\ rev'[Len(rev) + 1].live
      /\ rev'[Len(rev) + 1].seq = NextSeq(f) /\ rev'[Len(rev) + 1].pred = head[f]
  BY <1>1, InsertedFacts
<1>3. Len(rev) \in Nat
  BY RevFacts
<1>4. Ids' = Ids \cup {Len(rev) + 1} /\ Len(rev) + 1 \notin Ids
  BY SMTT(60), Z3T(60), <1>2, <1>3 DEF Ids
<1> QED BY <1>2, <1>3, <1>4

\* A new revision is numbered above and linked behind the head it replaces.
LEMMA PublishLinks ==
  ASSUME LedgerInv, NEW f \in RvFiles, NEW b \in RvBlobs, NEW st \in {"live", "trash"},
         Publish(f, b, st)
  PROVE  Numbers' /\ Linked'
<1> USE DEF LedgerInv, RevisionInv
<1> DEFINE n == Len(rev) + 1
<1>1. /\ Ids' = Ids \cup {n} /\ n \notin Ids /\ Len(rev) \in Nat
      /\ \A r \in Ids : rev'[r] = rev[r]
      /\ rev'[n].file = f /\ rev'[n].live
      /\ rev'[n].seq = NextSeq(f) /\ rev'[n].pred = head[f]
  BY PublishFacts
<1>2. \A q \in Ids : q \in Nat /\ q < n /\ q # 0
  BY SMTT(60), Z3T(60), <1>1 DEF Ids
<1>3. n \in Nat /\ n # 0 /\ head' = [head EXCEPT ![f] = n] /\ head \in [RvFiles -> Nat]
  BY SMTT(60), Z3T(60), <1>1 DEF Publish, Types
<1>4. NextSeq(f) \in Nat /\ \A q \in Ids : rev[q].file = f => rev[q].seq < NextSeq(f)
  BY NextSeqAbove
<1> HIDE DEF n
<1>5. Numbers'
  <2>1. \A r \in Ids' : rev'[r].seq \in Nat
    BY <1>1, <1>4 DEF Numbers
  <2>2. \A q, r \in Ids' : q < r /\ rev'[q].file = rev'[r].file => rev'[q].seq < rev'[r].seq
    <3> SUFFICES ASSUME NEW q \in Ids', NEW r \in Ids', q < r, rev'[q].file = rev'[r].file
                 PROVE  rev'[q].seq < rev'[r].seq
      OBVIOUS
    <3>1. q \in Ids
      BY SMTT(60), Z3T(60), <1>1, <1>2, <1>3
    <3>2. CASE r = n
      BY <1>1, <1>4, <3>1, <3>2
    <3>3. CASE r # n
      BY <1>1, <3>1, <3>3 DEF Numbers
    <3> QED BY <3>2, <3>3
  <2>3. ASSUME NEW r \in Ids'
        PROVE  \E l \in Ids' : /\ rev'[l].file = rev'[r].file
                               /\ \A q \in Ids' : rev'[q].file = rev'[r].file => q <= l
    <3>1. CASE rev'[r].file = f
      BY SMTT(60), Z3T(60), <1>1, <1>2, <1>3, <3>1
    <3>2. CASE rev'[r].file # f
      <4>1. r \in Ids
        BY <1>1, <3>2
      <4>2. PICK l \in Ids : /\ rev[l].file = rev[r].file
                             /\ \A q \in Ids : rev[q].file = rev[r].file => q <= l
        BY <4>1 DEF Numbers
      <4> QED BY <1>1, <3>2, <4>1, <4>2
    <3> QED BY <3>1, <3>2
  <2> QED BY <2>1, <2>2, <2>3 DEF Numbers
<1>6. \A g \in RvFiles : LiveRevs(g)' = LiveRevs(g) \cup (IF g = f THEN {n} ELSE {})
  BY <1>1 DEF LiveRevs
<1>7. \A g \in RvFiles : \A q \in LiveRevs(g)' : q <= head'[g]
  BY SMTT(60), Z3T(60), <1>2, <1>3, <1>6 DEF Linked, LiveRevs
<1>8. ASSUME NEW g \in RvFiles, NEW r \in LiveRevs(g)'
      PROVE  IF rev'[r].pred = 0 THEN \A q \in LiveRevs(g)' : ~(q < r)
             ELSE /\ rev'[r].pred \in LiveRevs(g)' /\ rev'[r].pred < r
                  /\ \A q \in LiveRevs(g)' : q < r => q <= rev'[r].pred
  <2>1. CASE r = n
    <3>1. g = f /\ rev'[r].pred = head[f] /\ LiveRevs(f)' = LiveRevs(f) \cup {n}
      BY <1>1, <1>6, <2>1 DEF LiveRevs
    <3>2. \A q \in LiveRevs(f) : q <= head[f] /\ q # 0 /\ q \in Nat
      BY <1>2 DEF Linked, LiveRevs
    <3>3. CASE head[f] = 0
      <4>1. LiveRevs(f) = {}
        BY SMTT(60), Z3T(60), <3>2, <3>3
      <4> QED BY SMTT(60), Z3T(60), <1>3, <2>1, <3>1, <3>3, <4>1
    <3>4. CASE head[f] # 0
      <4>1. head[f] \in LiveRevs(f) /\ head[f] < n
        BY <1>2, <3>4 DEF HeadsMatch, LiveRevs
      <4> QED BY SMTT(60), Z3T(60), <1>3, <2>1, <3>1, <3>2, <3>4, <4>1
    <3> QED BY <3>3, <3>4
  <2>2. CASE r # n
    <3>1. r \in LiveRevs(g) /\ rev'[r] = rev[r] /\ r < n /\ r \in Nat
      BY <1>1, <1>2, <1>6, <2>2 DEF LiveRevs
    <3>2. IF rev[r].pred = 0 THEN \A q \in LiveRevs(g) : ~(q < r)
          ELSE /\ rev[r].pred \in LiveRevs(g) /\ rev[r].pred < r
               /\ \A q \in LiveRevs(g) : q < r => q <= rev[r].pred
      BY <3>1 DEF Linked
    <3>3. /\ LiveRevs(g) \subseteq LiveRevs(g)'
          /\ \A q \in LiveRevs(g)' : q \in LiveRevs(g) \/ ~(q < r)
      BY SMTT(60), Z3T(60), <1>3, <1>6, <3>1
    <3> QED BY <3>1, <3>2, <3>3
  <2> QED BY <2>1, <2>2
<1> QED BY <1>5, <1>7, <1>8 DEF Linked

\* Numbers depend on nothing that retiring a revision changes.
LEMMA NumbersStay ==
  ASSUME Numbers, Ids' = Ids,
         \A i \in Ids : rev'[i].file = rev[i].file /\ rev'[i].seq = rev[i].seq
  PROVE  Numbers'
BY SMTT(60), Z3T(60) DEF Numbers

\* The successor of a retired revision is linked past it.
LEMMA RetireLinks ==
  ASSUME LedgerInv, NEW f \in RvFiles, NEW r \in LiveRevs(f), r # head[f], Retire(r)
  PROVE  Numbers' /\ Linked'
<1> USE DEF LedgerInv, RevisionInv
<1>1. r \in Ids /\ rev[r].file = f /\ rev[r].live /\ head' = head
  BY DEF LiveRevs, Retire
<1>2. /\ Ids' = Ids
      /\ \A i \in Ids :
              /\ rev'[i].file = rev[i].file /\ rev'[i].seq = rev[i].seq
              /\ rev'[i].live = (rev[i].live /\ i # r)
              /\ rev'[i].pred = IF /\ i # r /\ rev[i].live /\ rev[i].pred = r
                                   /\ rev[i].file = rev[r].file
                                THEN rev[r].pred ELSE rev[i].pred
  BY <1>1, RetireFacts
<1>3. Numbers'
  BY <1>2, NumbersStay
<1>4. \A g \in RvFiles : LiveRevs(g)' = LiveRevs(g) \ {r}
  BY ZenonT(60), <1>2 DEF LiveRevs
<1>5. \A g \in RvFiles : \A q \in LiveRevs(g)' : q <= head'[g]
  BY <1>1, <1>4 DEF Linked
<1>6. \A i \in Ids : i \in Nat /\ i # 0
  BY SMTT(60), Z3T(60), RevFacts DEF Ids
<1>7. ASSUME NEW g \in RvFiles, NEW i \in LiveRevs(g)'
      PROVE  IF rev'[i].pred = 0 THEN \A q \in LiveRevs(g)' : ~(q < i)
             ELSE /\ rev'[i].pred \in LiveRevs(g)' /\ rev'[i].pred < i
                  /\ \A q \in LiveRevs(g)' : q < i => q <= rev'[i].pred
  <2>1. i \in LiveRevs(g) /\ i \in Ids /\ rev[i].live /\ i # r /\ rev[i].file = g
    BY <1>4 DEF LiveRevs
  <2>3. IF rev[i].pred = 0 THEN \A q \in LiveRevs(g) : ~(q < i)
        ELSE /\ rev[i].pred \in LiveRevs(g) /\ rev[i].pred < i
             /\ \A q \in LiveRevs(g) : q < i => q <= rev[i].pred
    BY <2>1 DEF Linked
  <2>4. LiveRevs(g)' = LiveRevs(g) \ {r} /\ LiveRevs(g) \subseteq Ids
    BY <1>4 DEF LiveRevs
  <2>5. CASE rev[i].pred = r
    <3>1. r \in LiveRevs(g) /\ g = f
      BY <1>1, <1>6, <2>3, <2>5 DEF LiveRevs
    <3>2. rev'[i].pred = rev[r].pred
      BY <1>1, <1>2, <2>1, <2>5, <3>1
    <3>3. IF rev[r].pred = 0 THEN \A q \in LiveRevs(g) : ~(q < r)
          ELSE /\ rev[r].pred \in LiveRevs(g) /\ rev[r].pred < r
               /\ \A q \in LiveRevs(g) : q < r => q <= rev[r].pred
      BY <1>1, <3>1 DEF Linked
    <3>4. \A q \in LiveRevs(g)' : q < i => q < r
      BY SMTT(60), Z3T(60), <1>1, <1>6, <2>3, <2>4, <2>5
    <3>5. r < i /\ r \in Nat /\ i \in Nat
      BY <1>1, <1>6, <2>1, <2>3, <2>5
    <3>6. CASE rev[r].pred = 0
      BY <2>1, <2>4, <3>2, <3>3, <3>4, <3>6
    <3>7. CASE rev[r].pred # 0
      <4>1. rev[r].pred \in LiveRevs(g)' /\ rev[r].pred < i
        BY SMTT(60), Z3T(60), <1>6, <2>4, <3>3, <3>5, <3>7
      <4> QED BY <2>1, <2>4, <3>2, <3>3, <3>4, <3>7, <4>1
    <3> QED BY <3>6, <3>7
  <2>6. CASE rev[i].pred # r
    <3>1. rev'[i].pred = rev[i].pred
      BY <1>2, <2>1, <2>6
    <3> QED BY <2>1, <2>3, <2>4, <2>6, <3>1
  <2> QED BY <2>5, <2>6
<1> QED BY <1>3, <1>5, <1>7 DEF Linked

\* A purged file has no live revisions left, and the others' are untouched.
LEMMA PurgeLinks ==
  ASSUME LedgerInv, NEW f \in RvFiles, Purged(f)
  PROVE  Numbers' /\ Linked'
<1> USE DEF LedgerInv, RevisionInv
<1>1. /\ Ids' = Ids
      /\ \A i \in Ids :
              /\ rev'[i].file = rev[i].file /\ rev'[i].seq = rev[i].seq
              /\ rev'[i].pred = rev[i].pred
              /\ rev'[i].live = (rev[i].live /\ i \notin LiveRevs(f))
  BY PurgeFacts
<1>2. Numbers'
  BY <1>1, NumbersStay
<1>3. \A g \in RvFiles : LiveRevs(g)' = IF g = f THEN {} ELSE LiveRevs(g)
  BY ZenonT(60), <1>1 DEF LiveRevs
<1>4. \A g \in RvFiles : g # f => head'[g] = head[g]
  BY DEF Purged, Types
<1>5. \A g \in RvFiles : \A q \in LiveRevs(g)' : q <= head'[g]
  BY <1>3, <1>4 DEF Linked
<1>6. ASSUME NEW g \in RvFiles, NEW i \in LiveRevs(g)'
      PROVE  IF rev'[i].pred = 0 THEN \A q \in LiveRevs(g)' : ~(q < i)
             ELSE /\ rev'[i].pred \in LiveRevs(g)' /\ rev'[i].pred < i
                  /\ \A q \in LiveRevs(g)' : q < i => q <= rev'[i].pred
  <2>1. LiveRevs(g)' = LiveRevs(g) /\ i \in LiveRevs(g) /\ rev'[i].pred = rev[i].pred
    BY <1>1, <1>3 DEF LiveRevs
  <2>2. IF rev[i].pred = 0 THEN \A q \in LiveRevs(g) : ~(q < i)
        ELSE /\ rev[i].pred \in LiveRevs(g) /\ rev[i].pred < i
             /\ \A q \in LiveRevs(g) : q < i => q <= rev[i].pred
    BY <2>1 DEF Linked
  <2> QED BY <2>1, <2>2
<1> QED BY <1>2, <1>5, <1>6 DEF Linked

\* Nothing is linked wrongly, ever.
LEMMA LedgerStep == LedgerInv /\ [RevisionNext]_rvVars => LedgerInv'
<1> SUFFICES ASSUME LedgerInv, [RevisionNext]_rvVars PROVE LedgerInv'
  OBVIOUS
<1>1. RevisionInv'
  BY StepInv DEF LedgerInv
<1>2. CASE UNCHANGED <<rev, head, used, refs>>
  BY ZenonT(60), <1>1, <1>2 DEF LedgerInv, Numbers, Linked, LiveRevs, Ids
<1>3. ASSUME NEW f \in RvFiles, NEW b \in RvBlobs, NEW st \in {"live", "trash"},
             Publish(f, b, st)
      PROVE  Numbers' /\ Linked'
  BY <1>3, PublishLinks
<1>4. ASSUME NEW f \in RvFiles, NEW r \in LiveRevs(f), r # head[f], Retire(r)
      PROVE  Numbers' /\ Linked'
  BY <1>4, RetireLinks
<1>5. ASSUME NEW f \in RvFiles, Purged(f) PROVE Numbers' /\ Linked'
  BY <1>5, PurgeLinks
<1> QED BY <1>1, <1>2, <1>3, <1>4, <1>5, StepKinds DEF LedgerInv

\* Links in the order of insertion are links in the order of the numbers.
LEMMA LinkedIsChain ==
  ASSUME LedgerInv
  PROVE  HistoryIsChain
<1> USE DEF LedgerInv, RevisionInv
<1> SUFFICES ASSUME NEW r \in Ids, rev[r].live
             PROVE  LET older == {q \in LiveRevs(rev[r].file) : rev[q].seq < rev[r].seq} IN
                    IF older = {} THEN rev[r].pred = 0
                    ELSE rev[r].pred \in older /\ rev[rev[r].pred].seq = MaxSeq(older)
  BY DEF HistoryIsChain
<1> DEFINE g == rev[r].file
           older == {q \in LiveRevs(g) : rev[q].seq < rev[r].seq}
           N == {rev[q].seq : q \in older}
<1>1. \A q \in LiveRevs(g) : q \in Ids /\ q \in Nat /\ rev[q].file = g /\ rev[q].seq \in Nat
  BY SMTT(60), Z3T(60), RevFacts DEF LiveRevs, Ids, Numbers
<1>2. r \in Nat /\ r # 0 /\ rev[r].seq \in Nat
  BY SMTT(60), Z3T(60), RevFacts DEF Ids, Numbers
<1>3. \A q \in LiveRevs(g) : rev[q].seq < rev[r].seq <=> q < r
  <2> SUFFICES ASSUME NEW q \in LiveRevs(g) PROVE rev[q].seq < rev[r].seq <=> q < r
    OBVIOUS
  <2>1. q < r => rev[q].seq < rev[r].seq
    BY <1>1 DEF Numbers
  <2>2. r < q => rev[r].seq < rev[q].seq
    BY <1>1 DEF Numbers
  <2> QED BY SMTT(60), Z3T(60), <1>1, <1>2, <2>1, <2>2
<1>0. r \in LiveRevs(g) /\ g \in RvFiles
  BY RevFacts DEF LiveRevs
<1>4. CASE rev[r].pred = 0
  BY <1>0, <1>3, <1>4 DEF Linked
<1>5. CASE rev[r].pred # 0
  <2>1. /\ rev[r].pred \in LiveRevs(g) /\ rev[r].pred < r
        /\ \A q \in LiveRevs(g) : q < r => q <= rev[r].pred
    BY <1>0, <1>5 DEF Linked
  <2>2. rev[r].pred \in older
    BY <1>3, <2>1
  <2>3. \A q \in older : q = rev[r].pred \/ q < rev[r].pred
    BY SMTT(60), Z3T(60), <1>1, <1>3, <2>1
  <2>4. \A q \in older : rev[q].seq <= rev[rev[r].pred].seq
    BY SMTT(60), Z3T(60), <1>1, <2>1, <2>3 DEF Numbers
  <2>5. N \in SUBSET Nat /\ rev[rev[r].pred].seq \in N
        /\ \A x \in N : x <= rev[rev[r].pred].seq
    BY <1>1, <2>2, <2>4
  <2>6. Max(N) = rev[rev[r].pred].seq
    BY <2>5, MaxIs
  <2> QED BY <2>2, <2>6 DEF MaxSeq
<1> QED BY <1>4, <1>5

-----------------------------------------------------------------------------
LiveIds == {r \in Ids : rev[r].live}
Holding(b) == {r \in Ids : rev[r].live /\ rev[r].blob = b}

\* The owner's bytes and the blobs' references, with the finiteness that counting needs.
Accounts ==
    /\ IsFiniteSet(Bytes(LiveIds)) /\ used = Cardinality(Bytes(LiveIds))
    /\ Quota > 0 => used <= Quota
    /\ refs \in [RvBlobs -> Int]
    /\ \A b \in RvBlobs : refs[b] = Cardinality(Holding(b))

\* The bytes of one revision.
LEMMA OneRevision ==
  ASSUME NEW n, NEW k \in Nat
  PROVE  IsFiniteSet({n} \X (1..k)) /\ Cardinality({n} \X (1..k)) = k
<1>1. IsFiniteSet({n}) /\ Cardinality({n}) = 1
  BY FS_Singleton
<1>2. IsFiniteSet(1..k) /\ Cardinality(1..k) = k
  BY SMTT(60), Z3T(60), FS_Interval
<1>3. /\ IsFiniteSet({n} \X (1..k))
      /\ Cardinality({n} \X (1..k)) = Cardinality({n}) * Cardinality(1..k)
  BY <1>1, <1>2, FS_Product
<1> QED BY SMTT(60), Z3T(60), <1>1, <1>2, <1>3

\* Adding to a finite set what it did not have, and taking away what it had.
LEMMA SetSums ==
  ASSUME NEW A, NEW D, IsFiniteSet(A)
  PROVE  /\ A \cap D = {} /\ IsFiniteSet(D) =>
              /\ IsFiniteSet(A \cup D)
              /\ Cardinality(A \cup D) = Cardinality(A) + Cardinality(D)
         /\ D \subseteq A =>
              /\ IsFiniteSet(D) /\ IsFiniteSet(A \ D)
              /\ Cardinality(A \ D) = Cardinality(A) - Cardinality(D)
              /\ Cardinality(D) <= Cardinality(A)
         /\ Cardinality(A) \in Nat
<1>1. Cardinality(A) \in Nat
  BY FS_CardinalityType
<1>2. ASSUME A \cap D = {}, IsFiniteSet(D)
      PROVE  IsFiniteSet(A \cup D) /\ Cardinality(A \cup D) = Cardinality(A) + Cardinality(D)
  <2>1. Cardinality(A \cap D) = 0 /\ Cardinality(D) \in Nat
    BY <1>2, FS_EmptySet, FS_CardinalityType
  <2>2. /\ IsFiniteSet(A \cup D)
        /\ Cardinality(A \cup D) = Cardinality(A) + Cardinality(D) - Cardinality(A \cap D)
    BY <1>2, FS_Union
  <2> QED BY SMTT(60), Z3T(60), <1>1, <2>1, <2>2
<1>3. ASSUME D \subseteq A
      PROVE  /\ IsFiniteSet(D) /\ IsFiniteSet(A \ D)
             /\ Cardinality(A \ D) = Cardinality(A) - Cardinality(D)
             /\ Cardinality(D) <= Cardinality(A)
  <2>1. A \cap D = D
    BY <1>3
  <2>2. IsFiniteSet(A \ D) /\ Cardinality(A \ D) = Cardinality(A) - Cardinality(A \cap D)
    BY FS_Difference
  <2>3. IsFiniteSet(D) /\ Cardinality(D) <= Cardinality(A)
    BY <1>3, FS_Subset
  <2> QED BY <2>1, <2>2, <2>3
<1> QED BY <1>1, <1>2, <1>3

\* There are finitely many revisions.
LEMMA FiniteIds ==
  ASSUME Types
  PROVE  IsFiniteSet(Ids) /\ \A S \in SUBSET Ids : IsFiniteSet(S) /\ Cardinality(S) \in Nat
<1>1. IsFiniteSet(Ids)
  BY SMTT(60), Z3T(60), RevFacts, FS_Interval DEF Ids
<1> QED BY <1>1, FS_Subset, FS_CardinalityType

\* The bytes belong to a revision of the set each.
LEMMA BytesIs ==
  ASSUME NEW S, NEW p
  PROVE  p \in Bytes(S) <=> p[1] \in S /\ p \in {p[1]} \X (1..rev[p[1]].size)
BY SMTT(60), Z3T(60) DEF Bytes

\* A new revision is paid for and counted.
LEMMA PublishCounts ==
  ASSUME RevisionInv, Accounts, NEW f \in RvFiles, NEW b \in RvBlobs,
         NEW st \in {"live", "trash"}, Publish(f, b, st)
  PROVE  Accounts'
<1> DEFINE n == Len(rev) + 1
           D == {n} \X (1..SizeOf[b])
<1>1. /\ Ids' = Ids \cup {n} /\ n \notin Ids
      /\ \A r \in Ids : rev'[r] = rev[r]
      /\ rev'[n].live /\ rev'[n].blob = b /\ rev'[n].size = SizeOf[b]
  BY PublishFacts DEF RevisionInv
<1>2. /\ SizeOf[b] \in Nat /\ used' = used + SizeOf[b] /\ (Quota = 0 \/ used' <= Quota)
      /\ refs' = [refs EXCEPT ![b] = @ + 1]
  BY RevisionAssumption DEF Publish, MayGrow
<1>3. IsFiniteSet(D) /\ Cardinality(D) = SizeOf[b]
  BY <1>2, OneRevision
<1> HIDE DEF n
<1>4. LiveIds' = LiveIds \cup {n} /\ LiveIds \subseteq Ids
  BY <1>1 DEF LiveIds
<1>5. Bytes(LiveIds)' = Bytes(LiveIds) \cup D
  <2>1. Bytes(LiveIds)' = UNION {{r} \X (1..rev'[r].size) : r \in LiveIds \cup {n}}
    BY <1>4 DEF Bytes
  <2>2. \A r \in LiveIds : rev'[r].size = rev[r].size
    BY <1>1, <1>4
  <2> QED BY SMTT(60), Z3T(60), <1>1, <2>1, <2>2 DEF Bytes
<1>6. Bytes(LiveIds) \cap D = {}
  <2> SUFFICES ASSUME NEW p \in D, p \in Bytes(LiveIds) PROVE FALSE
    OBVIOUS
  <2>1. p[1] = n /\ p[1] \in LiveIds
    BY BytesIs
  <2> QED BY <1>1, <1>4, <2>1
<1>7. /\ IsFiniteSet(Bytes(LiveIds) \cup D)
      /\ Cardinality(Bytes(LiveIds) \cup D) = used + SizeOf[b]
  <2>1. used = Cardinality(Bytes(LiveIds)) /\ IsFiniteSet(Bytes(LiveIds))
    BY DEF Accounts
  <2>2. /\ IsFiniteSet(Bytes(LiveIds) \cup D)
        /\ Cardinality(Bytes(LiveIds) \cup D) = Cardinality(Bytes(LiveIds)) + Cardinality(D)
    BY <1>3, <1>6, <2>1, SetSums
  <2> QED BY <1>3, <2>1, <2>2
<1>8. \A c \in RvBlobs : refs'[c] = Cardinality(Holding(c)')
  <2> SUFFICES ASSUME NEW c \in RvBlobs PROVE refs'[c] = Cardinality(Holding(c)')
    OBVIOUS
  <2>1. IsFiniteSet(Holding(c)) /\ Cardinality(Holding(c)) \in Nat /\ n \notin Holding(c)
    BY <1>1, FiniteIds DEF Holding, RevisionInv
  <2>2. Holding(c)' = IF c = b THEN Holding(c) \cup {n} ELSE Holding(c)
    BY <1>1 DEF Holding
  <2>3. Cardinality(Holding(c) \cup {n}) = Cardinality(Holding(c)) + 1
    BY ZenonT(60), <2>1, FS_AddElement
  <2> QED BY <1>2, <2>1, <2>2, <2>3 DEF Accounts
<1>9. refs' \in [RvBlobs -> Int]
  BY SMTT(60), Z3T(60), <1>2 DEF Accounts
<1>10. Quota > 0 => used' <= Quota
  BY SMTT(60), Z3T(60), <1>2, RevisionAssumption
<1> QED BY <1>2, <1>5, <1>7, <1>8, <1>9, <1>10 DEF Accounts

\* A retired revision is given back once: the floor at zero is not reached.
LEMMA RetireCounts ==
  ASSUME RevisionInv, Accounts, NEW f \in RvFiles, NEW r \in LiveRevs(f), Retire(r)
  PROVE  Accounts'
<1> DEFINE D == {r} \X (1..rev[r].size)
<1>1. r \in Ids /\ rev[r].live /\ rev[r].size \in Nat /\ rev[r].blob \in RvBlobs
  BY RevFacts DEF LiveRevs, RevisionInv
<1>2. /\ Ids' = Ids
      /\ \A i \in Ids : /\ rev'[i].blob = rev[i].blob /\ rev'[i].size = rev[i].size
                        /\ rev'[i].live = (rev[i].live /\ i # r)
  BY <1>1, RetireFacts DEF RevisionInv
<1>3. LiveIds' = LiveIds \ {r} /\ LiveIds \subseteq Ids /\ r \in LiveIds
  BY <1>1, <1>2 DEF LiveIds
<1>4. Cardinality(D) = rev[r].size
  BY <1>1, OneRevision
<1>5. D \subseteq Bytes(LiveIds)
  BY <1>3 DEF Bytes
<1>6. Bytes(LiveIds)' = Bytes(LiveIds) \ D
  <2>1. Bytes(LiveIds)' = UNION {{i} \X (1..rev'[i].size) : i \in LiveIds \ {r}}
    BY <1>3 DEF Bytes
  <2>2. Bytes(LiveIds)' = Bytes(LiveIds \ {r})
    BY SMTT(60), Z3T(60), <1>2, <1>3, <2>1 DEF Bytes
  <2>3. \A p : p \in Bytes(LiveIds \ {r}) <=> p \in Bytes(LiveIds) /\ p \notin D
    BY SMTT(60), Z3T(60), BytesIs
  <2> QED BY <2>2, <2>3
<1>7. /\ IsFiniteSet(Bytes(LiveIds) \ D)
      /\ Cardinality(Bytes(LiveIds) \ D) = used - rev[r].size
      /\ rev[r].size <= used /\ used \in Nat
  <2>1. used = Cardinality(Bytes(LiveIds)) /\ IsFiniteSet(Bytes(LiveIds))
    BY DEF Accounts
  <2>2. /\ IsFiniteSet(Bytes(LiveIds) \ D)
        /\ Cardinality(Bytes(LiveIds) \ D) = Cardinality(Bytes(LiveIds)) - Cardinality(D)
        /\ Cardinality(D) <= Cardinality(Bytes(LiveIds))
        /\ Cardinality(Bytes(LiveIds)) \in Nat
    BY ZenonT(60), <1>5, <2>1, SetSums
  <2> QED BY <1>4, <2>1, <2>2
<1>8. used' = used - rev[r].size
  BY SMTT(60), Z3T(60), <1>1, <1>7 DEF Retire, Shrunk
<1>9. \A c \in RvBlobs : refs'[c] = Cardinality(Holding(c)')
  <2> SUFFICES ASSUME NEW c \in RvBlobs PROVE refs'[c] = Cardinality(Holding(c)')
    OBVIOUS
  <2>1. IsFiniteSet(Holding(c)) /\ Cardinality(Holding(c)) \in Nat
    BY FiniteIds DEF Holding, RevisionInv
  <2>2. Holding(c)' = Holding(c) \ {r} /\ (r \in Holding(c) <=> c = rev[r].blob)
    BY <1>1, <1>2 DEF Holding
  <2>3. Cardinality(Holding(c) \ {r}) =
          IF r \in Holding(c) THEN Cardinality(Holding(c)) - 1 ELSE Cardinality(Holding(c))
    BY ZenonT(60), <2>1, FS_RemoveElement
  <2> QED BY <1>1, <2>1, <2>2, <2>3 DEF Accounts, Retire
<1>10. refs' \in [RvBlobs -> Int]
  BY SMTT(60), Z3T(60), <1>1 DEF Accounts, Retire
<1>11. Quota > 0 => used' <= Quota
  BY SMTT(60), Z3T(60), <1>1, <1>7, <1>8, RevisionAssumption DEF Accounts
<1> QED BY <1>6, <1>7, <1>8, <1>9, <1>10, <1>11 DEF Accounts

\* A purge gives back every revision of the file, and nothing else.
LEMMA PurgeCounts ==
  ASSUME RevisionInv, Accounts, NEW f \in RvFiles, Purged(f)
  PROVE  Accounts'
<1> DEFINE D == Bytes(LiveRevs(f))
<1>1. /\ Ids' = Ids
      /\ \A i \in Ids : /\ rev'[i].blob = rev[i].blob /\ rev'[i].size = rev[i].size
                        /\ rev'[i].live = (rev[i].live /\ i \notin LiveRevs(f))
  BY PurgeFacts DEF RevisionInv
<1>2. LiveIds' = LiveIds \ LiveRevs(f) /\ LiveIds \subseteq Ids /\ LiveRevs(f) \subseteq LiveIds
  BY ZenonT(60), <1>1 DEF LiveIds, LiveRevs
<1>3. D \subseteq Bytes(LiveIds)
  BY <1>2 DEF Bytes
<1>4. Bytes(LiveIds)' = Bytes(LiveIds) \ D
  <2>1. Bytes(LiveIds)' = UNION {{i} \X (1..rev'[i].size) : i \in LiveIds \ LiveRevs(f)}
    BY <1>2 DEF Bytes
  <2>2. Bytes(LiveIds)' = Bytes(LiveIds \ LiveRevs(f))
    BY SMTT(60), Z3T(60), <1>1, <1>2, <2>1 DEF Bytes
  <2>3. \A p : p \in Bytes(LiveIds \ LiveRevs(f)) <=> p \in Bytes(LiveIds) /\ p \notin D
    BY SMTT(60), Z3T(60), BytesIs
  <2> QED BY <2>2, <2>3
<1>5. /\ IsFiniteSet(Bytes(LiveIds) \ D)
      /\ Cardinality(Bytes(LiveIds) \ D) = used - FreedBytes(f)
      /\ FreedBytes(f) <= used /\ used \in Nat /\ FreedBytes(f) \in Nat
  BY <1>3, SetSums, FS_CardinalityType DEF Accounts, FreedBytes
<1>6. used' = used - FreedBytes(f)
  BY SMTT(60), Z3T(60), <1>5 DEF Purged, Shrunk
<1>7. \A c \in RvBlobs : refs'[c] = Cardinality(Holding(c)') /\ refs'[c] \in Int
  <2> SUFFICES ASSUME NEW c \in RvBlobs
               PROVE  refs'[c] = Cardinality(Holding(c)') /\ refs'[c] \in Int
    OBVIOUS
  <2> DEFINE G == {r \in LiveRevs(f) : rev[r].blob = c}
  <2>1. IsFiniteSet(Holding(c)) /\ G \subseteq Holding(c)
    BY FiniteIds DEF Holding, LiveRevs, RevisionInv
  <2>2. Holding(c)' = Holding(c) \ G
    BY <1>1 DEF Holding, LiveRevs
  <2>3. /\ Cardinality(Holding(c) \ G) = Cardinality(Holding(c)) - Cardinality(G)
        /\ Cardinality(Holding(c)) \in Nat /\ Cardinality(G) \in Nat
    BY ZenonT(60), <2>1, SetSums, FS_CardinalityType
  <2>4. refs'[c] = refs[c] - Cardinality(G) /\ refs[c] = Cardinality(Holding(c))
    BY DEF Purged, Accounts
  <2> QED BY SMTT(60), Z3T(60), <2>2, <2>3, <2>4
<1>8. refs' \in [RvBlobs -> Int]
  BY <1>7 DEF Purged
<1>9. Quota > 0 => used' <= Quota
  BY SMTT(60), Z3T(60), <1>5, <1>6, RevisionAssumption DEF Accounts
<1> QED BY <1>4, <1>5, <1>6, <1>7, <1>8, <1>9 DEF Accounts

\* The accounts of an empty workspace.
LEMMA InitAccounts == RevisionInit => Accounts
<1> SUFFICES ASSUME RevisionInit PROVE Accounts
  OBVIOUS
<1>1. Ids = {}
  BY SMTT(60), Z3T(60) DEF RevisionInit, Ids
<1>2. Bytes(LiveIds) = {} /\ \A b \in RvBlobs : Holding(b) = {}
  BY <1>1 DEF LiveIds, Bytes, Holding
<1>3. IsFiniteSet({}) /\ Cardinality({}) = 0
  BY FS_EmptySet
<1>4. used = 0 /\ refs = [b \in RvBlobs |-> 0] /\ Quota \in Nat
  BY RevisionAssumption DEF RevisionInit
<1> QED BY SMTT(60), Z3T(60), <1>2, <1>3, <1>4 DEF Accounts

\* Nothing is charged twice, given back twice or forgotten.
LEMMA AccountsStep == RevisionInv /\ Accounts /\ [RevisionNext]_rvVars => Accounts'
<1> SUFFICES ASSUME RevisionInv, Accounts, [RevisionNext]_rvVars PROVE Accounts'
  OBVIOUS
<1>1. CASE UNCHANGED <<rev, head, used, refs>>
  BY <1>1 DEF Accounts, LiveIds, Holding, Bytes, Ids
<1>2. ASSUME NEW f \in RvFiles, NEW b \in RvBlobs, NEW st \in {"live", "trash"},
             Publish(f, b, st)
      PROVE  Accounts'
  BY <1>2, PublishCounts
<1>3. ASSUME NEW f \in RvFiles, NEW r \in LiveRevs(f), Retire(r)
      PROVE  Accounts'
  BY <1>3, RetireCounts
<1>4. ASSUME NEW f \in RvFiles, Purged(f) PROVE Accounts'
  BY <1>4, PurgeCounts
<1> QED BY <1>1, <1>2, <1>3, <1>4, StepKinds

\* The inductive invariant holds throughout.
THEOREM RevisionInvHolds == RevisionSpec => []RevisionInv
BY InitInv, StepInv, PTL DEF RevisionSpec

\* The links and the numbers hold throughout.
THEOREM LedgerInvHolds == RevisionSpec => []LedgerInv
<1>1. RevisionInit => LedgerInv
  <2> SUFFICES ASSUME RevisionInit PROVE LedgerInv
    OBVIOUS
  <2>1. Ids = {}
    BY SMTT(60), Z3T(60) DEF RevisionInit, Ids
  <2> QED BY <2>1, InitInv DEF LedgerInv, Numbers, Linked, LiveRevs
<1> QED BY <1>1, LedgerStep, PTL DEF RevisionSpec

\* What audit_revision_ledger looks for never happens: however requests interleave, every
\* file has a live current revision of its own whose content and size its row repeats,
\* nothing of a purged file stays, and the live revisions of a file are one unbroken
\* chain behind the current one.
THEOREM LedgerStaysSound == RevisionSpec => []LedgerSound
<1>1. LedgerInv => LedgerSound
  BY LinkedIsChain DEF LedgerInv, RevisionInv, LedgerSound
<1> QED BY <1>1, LedgerInvHolds, PTL

\* The accounts are in balance throughout.
THEOREM AccountsHold == RevisionSpec => []Accounts
<1> QED BY RevisionInvHolds, InitAccounts, AccountsStep, PTL DEF RevisionSpec

\* storage_used is the sum over the live revisions and within the quota, whatever
\* requests run at the same time (update_storage_used, retire_histories, tombstone).
THEOREM UsageStaysExact == RevisionSpec => []UsageExact
<1>1. Accounts => UsageExact
  BY DEF Accounts, UsageExact, LiveIds
<1> QED BY <1>1, AccountsHold, PTL

\* Every blob's ref_count is the number of live revisions that hold it.
THEOREM RefsAreCounted == RevisionSpec => []RefsMatchLedger
<1>1. Accounts => RefsMatchLedger
  BY DEF Accounts, RefsMatchLedger, Holding
<1> QED BY <1>1, AccountsHold, PTL

\* No overwrite is lost: when revalidate_overwrite_target lets a write commit, the
\* version it replaces is the one its request saw.
THEOREM WritesSeeTheHead == RevisionSpec => NoLostUpdate
<1>1. RevisionInv =>
        [\A j \in Jobs : WriteCommit(j) => job[j].row.stamp = head[job[j].file]]_rvVars
  <2> SUFFICES ASSUME RevisionInv, NEW j \in Jobs, WriteCommit(j)
               PROVE  job[j].row.stamp = head[job[j].file]
    OBVIOUS
  <2>1. job[j].file \in RvFiles /\ job[j].row.st = "live" /\ file[job[j].file] = job[j].row
    BY DEF RevisionInv, Types, Stamped, WriteCommit, Unchanged, JobType
  <2> QED BY <2>1 DEF RevisionInv, Stamped
<1> QED BY <1>1, RevisionInvHolds, PTL DEF NoLostUpdate

-----------------------------------------------------------------------------
(***************************************************************************)
(* Proofs about BlobLifecycle, for any number of uploads, references and   *)
(* cleaners.  IInv makes the reference counts inductive: rows that do not  *)
(* exist count 0, an upload that is not done and a copy in progress have   *)
(* published nothing, and a cleaner at work has met a row whose upload is  *)
(* done.                                                                   *)
(***************************************************************************)
Unpublished ==
    \A u \in Uploads : upload[u] # "done" => ref[u] = NoBlob /\ u \notin rows

Copying == \A c \in Copies : source[c] # NoBlob => ref[c] = NoBlob

Targets ==
    \A c \in Cleaners : cleaner[c].pc # "idle" =>
        cleaner[c].blob \in Uploads /\ upload[cleaner[c].blob] = "done"

CountsOK ==
    /\ RefsHaveRows
    /\ RefCountExact
    /\ OneRowPerKey
    /\ \A b \in Uploads : b \notin rows => count[b] = 0

IInv == TypeOK /\ CountsOK /\ Unpublished /\ Copying /\ Targets

\* The references to a blob are a finite set.
LEMMA RefsFinite ==
    ASSUME NEW b
    PROVE  /\ IsFiniteSet(RefsTo(b)) /\ Cardinality(RefsTo(b)) \in Nat
           /\ Cardinality(RefsTo(b)) = 0 <=> RefsTo(b) = {}
  <1>1. IsFiniteSet(Refs)
    BY FS_Union, BlobAssumption DEF Refs
  <1>2. IsFiniteSet(RefsTo(b))
    BY <1>1, FS_Subset, RefsTo(b) \subseteq Refs DEF RefsTo
  <1> QED
    BY <1>2, FS_CardinalityType, FS_EmptySet

\* A row that a cleaner may claim, or has claimed, has no references.
LEMMA NoRefs ==
    ASSUME IInv, NEW b \in rows, count[b] \in {0, Claimed}
    PROVE  RefsTo(b) = {}
  BY SMTT(60), Z3T(60), RefsFinite DEF IInv, CountsOK, RefCountExact, Claimed

\* Initially nothing is stored.
LEMMA InitIInv == Init => IInv
  <1> SUFFICES ASSUME Init PROVE IInv
    OBVIOUS
  <1>1. TypeOK
    BY SMTT(60), Z3T(60), BlobAssumption DEF Init, TypeOK, Idle, Claimed
  <1>2. CountsOK
    BY DEF Init, CountsOK, RefsHaveRows, RefCountExact, OneRowPerKey
  <1>3. Unpublished /\ Copying /\ Targets
    BY DEF Init, Unpublished, Copying, Targets, Idle, Refs
  <1> QED
    BY <1>1, <1>2, <1>3 DEF IInv

\* increment_blob_ref_count with the row of the new reference: one more
\* reference to this blob, and no other blob is touched.
LEMMA AddRefEffect ==
    ASSUME IInv, NEW r \in Refs, ref[r] = NoBlob, NEW b \in Uploads, AddRef(r, b)
    PROVE  /\ RefsTo(b)' = RefsTo(b) \cup {r}
           /\ Cardinality(RefsTo(b)') = Cardinality(RefsTo(b)) + 1
           /\ \A d \in Uploads : d # b => RefsTo(d)' = RefsTo(d) /\ count'[d] = count[d]
           /\ count'[b] = count[b] + 1
           /\ ref' \in [Refs -> Uploads \cup {NoBlob}]
           /\ count' \in [Uploads -> Int] /\ \A d \in Uploads : count'[d] >= Claimed
           /\ \A q \in Refs : ref'[q] = IF q = r THEN b ELSE ref[q]
  <1>1. /\ ref \in [Refs -> Uploads \cup {NoBlob}]
        /\ count \in [Uploads -> Int] /\ \A d \in Uploads : count[d] >= Claimed
    BY DEF IInv, TypeOK
  <1>2. \A q \in Refs : ref'[q] = IF q = r THEN b ELSE ref[q]
    BY <1>1 DEF AddRef
  <1>3. RefsTo(b)' = RefsTo(b) \cup {r}
    BY <1>2 DEF RefsTo
  <1>4. r \notin RefsTo(b)
    BY BlobAssumption DEF RefsTo
  <1>5. Cardinality(RefsTo(b) \cup {r}) = Cardinality(RefsTo(b)) + 1
    BY <1>4, RefsFinite, FS_AddElement
  <1>6. \A d \in Uploads : d # b => RefsTo(d)' = RefsTo(d)
    BY <1>2, BlobAssumption DEF RefsTo
  <1>7. /\ count' \in [Uploads -> Int] /\ \A d \in Uploads : count'[d] >= Claimed
        /\ count'[b] = count[b] + 1
        /\ \A d \in Uploads : d # b => count'[d] = count[d]
    BY SMTT(60), Z3T(60), <1>1 DEF AddRef, Claimed
  <1>8. ref' \in [Refs -> Uploads \cup {NoBlob}]
    BY <1>1 DEF AddRef
  <1> QED
    BY <1>2, <1>3, <1>5, <1>6, <1>7, <1>8

\* A reference to a row that is not claimed keeps the counts.
LEMMA AddRefKeeps ==
    ASSUME IInv, NEW r \in Refs, ref[r] = NoBlob, NEW b \in rows,
           MayIncrement(b), AddRef(r, b), UNCHANGED rows
    PROVE  CountsOK'
  <1>0. b \in Uploads /\ rows \subseteq Uploads
    BY DEF IInv, TypeOK
  <1>1. /\ Cardinality(RefsTo(b)') = Cardinality(RefsTo(b)) + 1
        /\ \A d \in Uploads : d # b => RefsTo(d)' = RefsTo(d) /\ count'[d] = count[d]
        /\ count'[b] = count[b] + 1
        /\ \A q \in Refs : ref'[q] = IF q = r THEN b ELSE ref[q]
    BY SMTT(60), Z3T(60), <1>0, AddRefEffect
  <1>2. count[b] = Cardinality(RefsTo(b))
    BY SMTT(60), Z3T(60) DEF IInv, CountsOK, RefCountExact, MayIncrement, Claimed
  <1>3. RefCountExact'
    BY <1>0, <1>1, <1>2 DEF IInv, CountsOK, RefCountExact
  <1>4. RefsHaveRows' /\ OneRowPerKey'
    BY <1>1 DEF IInv, CountsOK, RefsHaveRows, OneRowPerKey
  <1>5. (\A d \in Uploads : d \notin rows => count[d] = 0)'
    BY <1>0, <1>1 DEF IInv, CountsOK
  <1> QED
    BY <1>3, <1>4, <1>5 DEF CountsOK

\* Counts that change only to the number of references, or between 0 and the
\* claim on rows without references, stay exact.
LEMMA CountStep ==
    ASSUME IInv, NEW b \in rows,
           \A d \in Uploads : d # b => count'[d] = count[d],
           count' \in [Uploads -> Int],
           count'[b] = Cardinality(RefsTo(b)) \/ (count'[b] = Claimed /\ RefsTo(b) = {}),
           UNCHANGED <<rows, ref>>
    PROVE  CountsOK' /\ \A d \in Uploads : count'[d] >= Claimed
  <1>0. /\ b \in Uploads /\ rows \subseteq Uploads
        /\ count \in [Uploads -> Int] /\ \A d \in Uploads : count[d] >= Claimed
    BY DEF IInv, TypeOK
  <1>2. \A d : RefsTo(d)' = RefsTo(d)
    BY DEF RefsTo
  <1>3. count'[b] >= Claimed
    BY SMTT(60), Z3T(60), RefsFinite DEF Claimed
  <1>4. RefCountExact'
    BY <1>0, <1>2 DEF IInv, CountsOK, RefCountExact
  <1>5. RefsHaveRows' /\ OneRowPerKey'
    BY DEF IInv, CountsOK, RefsHaveRows, OneRowPerKey
  <1>6. (\A d \in Uploads : d \notin rows => count[d] = 0)'
    BY <1>0 DEF IInv, CountsOK
  <1>7. \A d \in Uploads : count'[d] >= Claimed
    BY <1>0, <1>3
  <1> QED
    BY <1>4, <1>5, <1>6, <1>7 DEF CountsOK

\* Nothing that the counts depend on changes.
LEMMA CountsKept ==
    ASSUME IInv, UNCHANGED <<rows, count, ref>>
    PROVE  CountsOK'
  BY SMTT(60), Z3T(60) DEF IInv, CountsOK, RefsHaveRows, RefCountExact, OneRowPerKey, RefsTo

\* A step of an upload keeps IInv.
LEMMA UploadStepIInv ==
    ASSUME IInv, NEW u \in Uploads, UploadStep(u)
    PROVE  IInv'
  <1> USE DEF IInv
  <1>0. /\ u \in Refs /\ rows \subseteq Uploads
        /\ upload \in [Uploads -> {"new", "found", "created", "failed", "rollback", "done"}]
        /\ object \subseteq Keys /\ KeyOf[u] \in Keys
    BY DEF TypeOK, Refs, Keys
  <1>1. CASE \/ Stage(u) \/ FailTransaction(u) \/ RollbackCheck(u)
             \/ RollbackDelete(u) \/ AbandonUpload(u)
    <2>1. /\ UNCHANGED <<rows, count, age, ref, cleaner, source>>
          /\ upload[u] # "done"
          /\ object' \subseteq Keys
      BY <1>0, <1>1 DEF Stage, FailTransaction, RollbackCheck, RollbackDelete, AbandonUpload
    <2>2. \E s \in {"new", "found", "created", "failed", "rollback", "done"} :
             upload' = [upload EXCEPT ![u] = s]
      BY <1>0, <1>1 DEF Stage, FailTransaction, RollbackCheck, RollbackDelete, AbandonUpload, CleanupPlan
    <2>3. CountsOK'
      BY <2>1, CountsKept
    <2>4. TypeOK'
      BY <2>1, <2>2 DEF TypeOK
    <2>5. Unpublished'
      BY <1>0, <2>1, <2>2 DEF Unpublished
    <2>6. Targets' /\ Copying'
      BY <1>0, <2>1, <2>2 DEF Targets, Copying
    <2> QED
      BY <2>3, <2>4, <2>5, <2>6
  <1>2. CASE Persist(u)
    <2>1. /\ upload[u] # "done" /\ ref[u] = NoBlob /\ u \notin rows
          /\ upload' = [upload EXCEPT ![u] = "done"]
          /\ UNCHANGED <<age, object, cleaner, source>>
      BY <1>2 DEF Persist, Unpublished
    <2>2. PICK b \in Uploads :
             /\ AddRef(u, b)
             /\ \/ b \in rows /\ MayIncrement(b) /\ UNCHANGED rows
                \/ b = u /\ RowsAt(KeyOf[u]) = {} /\ rows' = rows \cup {u}
      BY <1>0, <1>2 DEF Persist, RowsAt
    <2>3. /\ RefsTo(b)' = RefsTo(b) \cup {u}
          /\ Cardinality(RefsTo(b)') = Cardinality(RefsTo(b)) + 1
          /\ \A d \in Uploads : d # b => RefsTo(d)' = RefsTo(d) /\ count'[d] = count[d]
          /\ count'[b] = count[b] + 1
          /\ ref' \in [Refs -> Uploads \cup {NoBlob}]
          /\ count' \in [Uploads -> Int] /\ \A d \in Uploads : count'[d] >= Claimed
          /\ \A q \in Refs : ref'[q] = IF q = u THEN b ELSE ref[q]
      BY <1>0, <2>1, <2>2, AddRefEffect
    <2>4. CountsOK'
      <3>1. CASE b \in rows /\ MayIncrement(b) /\ UNCHANGED rows
        BY <1>0, <2>1, <2>2, <3>1, AddRefKeeps
      <3>2. CASE b = u /\ RowsAt(KeyOf[u]) = {} /\ rows' = rows \cup {u}
        <4>1. RefsTo(u) = {} /\ Cardinality(RefsTo(u)) = 0
          <5>1. RefsTo(u) = {}
            BY <2>1, BlobAssumption DEF RefsTo, CountsOK, RefsHaveRows
          <5> QED
            BY <5>1, RefsFinite
        <4>2. count[u] = 0
          BY <2>1 DEF CountsOK
        <4>3. RefCountExact'
          BY <1>0, <2>3, <3>2, <4>1, <4>2 DEF CountsOK, RefCountExact
        <4>4. RefsHaveRows'
          BY <2>3, <3>2 DEF CountsOK, RefsHaveRows
        <4>5. OneRowPerKey'
          BY <3>2 DEF CountsOK, OneRowPerKey, RowsAt
        <4>6. (\A d \in Uploads : d \notin rows => count[d] = 0)'
          BY <2>3, <3>2 DEF CountsOK
        <4> QED
          BY <4>3, <4>4, <4>5, <4>6 DEF CountsOK
      <3> QED
        BY <2>2, <3>1, <3>2
    <2>5. TypeOK'
      <3>1. rows' \subseteq Uploads
        BY <1>0, <2>2
      <3> QED
        BY <2>1, <2>3, <3>1 DEF TypeOK
    <2>6. Unpublished'
      <3> SUFFICES ASSUME NEW v \in Uploads, upload'[v] # "done"
                   PROVE  ref'[v] = NoBlob /\ v \notin rows'
        BY DEF Unpublished
      <3>1. v # u /\ upload[v] # "done" /\ v \in Refs
        BY <1>0, <2>1 DEF Refs
      <3> QED
        BY <2>2, <2>3, <3>1 DEF Unpublished
    <2>7. Targets'
      BY <1>0, <2>1 DEF Targets
    <2>8. Copying'
      BY <2>1, <2>3, BlobAssumption DEF Copying, Refs
    <2> QED
      BY <2>4, <2>5, <2>6, <2>7, <2>8
  <1> QED
    BY <1>1, <1>2 DEF UploadStep

\* Copies, restored versions and purges keep IInv.
LEMMA CopyStepIInv ==
    ASSUME IInv, NEW c \in Copies, CopyStep(c)
    PROVE  IInv'
  <1> USE DEF IInv
  <1>0. /\ c \in Refs /\ c \notin Uploads
        /\ source \in [Copies -> Uploads \cup {NoBlob}]
        /\ ref \in [Refs -> Uploads \cup {NoBlob}]
    BY BlobAssumption DEF TypeOK, Refs
  <1>1. CASE (\E r \in Refs : CopyRead(c, r)) \/ CopyFails(c)
    <2>1. UNCHANGED <<rows, count, age, ref, object, upload, cleaner>>
      BY <1>1 DEF CopyRead, CopyFails
    <2>2. source' \in [Copies -> Uploads \cup {NoBlob}]
      BY <1>0, <1>1 DEF CopyRead, CopyFails
    <2>3. TypeOK'
      BY <2>1, <2>2 DEF TypeOK
    <2>4. CountsOK'
      BY <2>1, CountsKept
    <2>5. Copying'
      BY <1>0, <1>1, <2>1 DEF Copying, CopyRead, CopyFails
    <2> QED
      BY <2>1, <2>3, <2>4, <2>5 DEF Unpublished, Targets
  <1>2. CASE CopyCommit(c)
    <2>0. ref[c] = NoBlob
      BY <1>2 DEF CopyCommit, Copying
    <2>1. /\ source[c] \in rows /\ source[c] \in Uploads
          /\ MayIncrement(source[c]) /\ AddRef(c, source[c])
          /\ UNCHANGED <<rows, age, object, upload, cleaner>>
          /\ source' = [source EXCEPT ![c] = NoBlob]
      BY <1>0, <1>2 DEF CopyCommit, MayIncrement, TypeOK
    <2>2. CountsOK'
      BY <1>0, <2>0, <2>1, AddRefKeeps
    <2>3. /\ ref' \in [Refs -> Uploads \cup {NoBlob}]
          /\ count' \in [Uploads -> Int] /\ \A d \in Uploads : count'[d] >= Claimed
          /\ \A q \in Refs : ref'[q] = IF q = c THEN source[c] ELSE ref[q]
      BY SMTT(60), Z3T(60), <1>0, <2>0, <2>1, AddRefEffect
    <2>4. TypeOK'
      BY <2>1, <2>3 DEF TypeOK
    <2>5. Unpublished' /\ Targets'
      BY <1>0, <2>1, <2>3 DEF Unpublished, Targets, Refs
    <2>6. Copying'
      BY <1>0, <2>1, <2>3 DEF Copying, Refs
    <2> QED
      BY <2>2, <2>4, <2>5, <2>6
  <1> QED
    BY <1>1, <1>2 DEF CopyStep

\* restore_version_inner keeps IInv: it counts the reference that it adds.
LEMMA RestoreVersionIInv ==
    ASSUME IInv, NEW v \in Versions, NEW r \in Refs, RestoreVersion(v, r)
    PROVE  IInv'
  <1> USE DEF IInv
  <1>0. /\ v \in Refs /\ v \notin Uploads /\ v \notin Copies
        /\ ref \in [Refs -> Uploads \cup {NoBlob}]
    BY BlobAssumption DEF TypeOK, Refs
  <1>1. /\ ref[r] \in rows /\ ref[r] \in Uploads /\ ref[v] = NoBlob
        /\ MayIncrement(ref[r]) /\ AddRef(v, ref[r])
        /\ UNCHANGED <<rows, age, object, upload, source, cleaner>>
    BY SMTT(60), Z3T(60), <1>0 DEF RestoreVersion, MayIncrement
  <1>2. CountsOK'
    BY <1>0, <1>1, AddRefKeeps
  <1>3. /\ ref' \in [Refs -> Uploads \cup {NoBlob}]
        /\ count' \in [Uploads -> Int] /\ \A d \in Uploads : count'[d] >= Claimed
        /\ \A q \in Refs : ref'[q] = IF q = v THEN ref[r] ELSE ref[q]
    BY SMTT(60), Z3T(60), <1>0, <1>1, AddRefEffect
  <1>4. TypeOK'
    BY <1>1, <1>3 DEF TypeOK
  <1>5. Unpublished' /\ Copying' /\ Targets'
    BY <1>0, <1>1, <1>3 DEF Unpublished, Copying, Targets, Refs
  <1> QED
    BY <1>2, <1>4, <1>5

\* The floor of the decrement is never met: a purge takes away as many counts
\* as references.
LEMMA PurgeIInv ==
    ASSUME IInv, NEW S \in SUBSET {r \in Refs : ref[r] # NoBlob}, Purge(S)
    PROVE  IInv'
  <1> USE DEF IInv
  <1>0. /\ ref \in [Refs -> Uploads \cup {NoBlob}] /\ rows \subseteq Uploads
        /\ count \in [Uploads -> Int] /\ \A d \in Uploads : count[d] >= Claimed
        /\ UNCHANGED <<rows, age, object, upload, cleaner, source>>
    BY DEF TypeOK, Purge
  <1>1. ref' = [q \in Refs |-> IF q \in S THEN NoBlob ELSE ref[q]]
    BY DEF Purge
  <1>2. ASSUME NEW b \in Uploads
        PROVE  /\ RefsTo(b)' = RefsTo(b) \ S
               /\ Cardinality(RefsTo(b) \ S) = Cardinality(RefsTo(b)) - Cardinality(RefsTo(b) \cap S)
               /\ Cardinality(RefsTo(b) \ S) \in Nat /\ Cardinality(RefsTo(b) \cap S) \in Nat
               /\ Cardinality(RefsTo(b)) \in Nat
    <2>1. IsFiniteSet(RefsTo(b)) /\ Cardinality(RefsTo(b)) \in Nat
      BY RefsFinite
    <2>2. IsFiniteSet(RefsTo(b) \cap S) /\ IsFiniteSet(RefsTo(b) \ S)
      BY <2>1, FS_Subset, RefsTo(b) \cap S \subseteq RefsTo(b), RefsTo(b) \ S \subseteq RefsTo(b)
    <2>3. Cardinality(RefsTo(b) \ S) \in Nat /\ Cardinality(RefsTo(b) \cap S) \in Nat
      BY <2>2, FS_CardinalityType
    <2>4. Cardinality(RefsTo(b) \ S) = Cardinality(RefsTo(b)) - Cardinality(RefsTo(b) \cap S)
      BY <2>1, FS_Difference
    <2>5. RefsTo(b)' = RefsTo(b) \ S
      BY <1>0, <1>1, BlobAssumption DEF RefsTo
    <2> QED
      BY <2>1, <2>3, <2>4, <2>5
  <1>3. \A b \in Uploads : count'[b] =
            IF b \in rows /\ RefsTo(b) \cap S # {}
            THEN Decremented(count[b], Cardinality(RefsTo(b) \cap S))
            ELSE count[b]
    BY DEF Purge
  <1>4. ASSUME NEW b \in Uploads
        PROVE  IF b \in rows /\ RefsTo(b) \cap S # {}
               THEN count'[b] = Cardinality(RefsTo(b) \ S)
               ELSE count'[b] = count[b] /\ RefsTo(b)' = RefsTo(b)
    <2>1. CASE b \in rows /\ RefsTo(b) \cap S # {}
      <3>1. count[b] = Cardinality(RefsTo(b))
        BY <2>1 DEF CountsOK, RefCountExact
      <3>2. Decremented(count[b], Cardinality(RefsTo(b) \cap S)) = Cardinality(RefsTo(b) \ S)
        BY SMTT(60), Z3T(60), <1>2, <3>1 DEF Decremented
      <3> QED
        BY <1>3, <2>1, <3>2
    <2>2. CASE b \in rows /\ RefsTo(b) \cap S = {}
      BY <1>2, <1>3, <2>2
    <2>3. CASE b \notin rows
      <3>1. RefsTo(b) = {}
        BY <2>3, BlobAssumption DEF CountsOK, RefsHaveRows, RefsTo
      <3> QED
        BY <1>2, <1>3, <2>3, <3>1
    <2> QED
      BY <2>1, <2>2, <2>3
  <1>5. CountsOK'
    <2>1. RefCountExact'
      BY <1>0, <1>2, <1>4 DEF CountsOK, RefCountExact
    <2>2. RefsHaveRows' /\ OneRowPerKey'
      BY <1>0, <1>1 DEF CountsOK, RefsHaveRows, OneRowPerKey
    <2>3. (\A d \in Uploads : d \notin rows => count[d] = 0)'
      BY <1>0, <1>4 DEF CountsOK
    <2> QED
      BY <2>1, <2>2, <2>3 DEF CountsOK
  <1>6. TypeOK'
    <2>1. ref' \in [Refs -> Uploads \cup {NoBlob}]
      BY <1>0, <1>1
    <2>2. ASSUME NEW d \in Uploads PROVE count'[d] \in Int /\ count'[d] >= Claimed
      <3>1. CASE d \in rows /\ RefsTo(d) \cap S # {}
        <4>1. count'[d] \in Nat
          BY <1>2, <1>4, <3>1
        <4> QED
          BY SMTT(60), Z3T(60), <4>1 DEF Claimed
      <3>2. CASE ~(d \in rows /\ RefsTo(d) \cap S # {})
        BY <1>0, <1>4, <3>2
      <3> QED
        BY <3>1, <3>2
    <2>3. count' \in [Uploads -> Int]
      BY <2>2 DEF Purge
    <2> QED
      BY <1>0, <2>1, <2>2, <2>3 DEF TypeOK
  <1>7. Unpublished' /\ Copying' /\ Targets'
    BY <1>0, <1>1 DEF Unpublished, Copying, Targets, Refs
  <1> QED
    BY <1>5, <1>6, <1>7

\* The type of the state that a step of a cleaner changes.
LEMMA CleanerType ==
    ASSUME TypeOK, NEW c \in Cleaners,
           NEW p \in {"idle", "loaded", "claimed", "deleted", "restore"},
           NEW b \in Uploads \cup {NoBlob},
           cleaner' = [cleaner EXCEPT ![c] = [pc |-> p, blob |-> b]]
    PROVE  /\ cleaner' \in [Cleaners ->
                 [pc : {"idle", "loaded", "claimed", "deleted", "restore"},
                  blob : Uploads \cup {NoBlob}]]
           /\ \A d \in Cleaners : cleaner'[d] = IF d = c THEN [pc |-> p, blob |-> b]
                                                         ELSE cleaner[d]
  BY DEF TypeOK

\* Every step of a cleaner sets its place and keeps or drops its blob, and what
\* it does to the row is one of four things.
CleanerMove(c, p, b) ==
    /\ cleaner' = [cleaner EXCEPT ![c] = [pc |-> p, blob |-> b]]
    /\ p # "idle" => b \in Uploads /\ upload[b] = "done"

RowMove(c) ==
    LET b == cleaner[c].blob
    IN  \/ UNCHANGED <<rows, count, age>>
        \/ /\ b \in rows /\ count[b] = 0
           /\ count' = [count EXCEPT ![b] = Claimed]
           /\ age' = [age EXCEPT ![b] = 0] /\ UNCHANGED rows
        \/ /\ b \in rows /\ count[b] = Claimed
           /\ count' = [count EXCEPT ![b] = 0]
           /\ age' = [age EXCEPT ![b] = 0] /\ UNCHANGED rows
        \/ /\ b \in rows /\ count[b] = Claimed
           /\ count' = [count EXCEPT ![b] = 0]
           /\ age' = [age EXCEPT ![b] = 0] /\ rows' = rows \ {b}

Places == {"idle", "loaded", "claimed", "deleted", "restore"}

\* The steps of a cleaner have that form.
LEMMA CleanerForm ==
    ASSUME IInv, NEW c \in Cleaners, CleanerStep(c)
    PROVE  /\ \E p \in Places, b \in Uploads \cup {NoBlob} : CleanerMove(c, p, b)
           /\ RowMove(c)
           /\ object' \subseteq object
           /\ UNCHANGED <<ref, upload, source>>
  <1>0. /\ cleaner \in [Cleaners -> [pc : Places, blob : Uploads \cup {NoBlob}]]
        /\ rows \subseteq Uploads
    BY DEF IInv, TypeOK, Places
  <1>1. \A p : [cleaner EXCEPT ![c].pc = p]
                 = [cleaner EXCEPT ![c] = [pc |-> p, blob |-> cleaner[c].blob]]
    <2>1. \A p : [cleaner[c] EXCEPT !.pc = p] = [pc |-> p, blob |-> cleaner[c].blob]
      BY SMTT(60), Z3T(60), <1>0
    <2> QED
      BY <2>1
  <1>2. cleaner[c].pc # "idle" =>
            cleaner[c].blob \in Uploads /\ upload[cleaner[c].blob] = "done"
    BY DEF IInv, Targets
  <1>3. ASSUME NEW b \in Uploads, Load(c, b)
        PROVE  CleanerMove(c, "loaded", b) /\ RowMove(c) /\ UNCHANGED <<object, ref, upload, source>>
    <2>1. upload[b] = "done"
      BY <1>3 DEF Load, IInv, Unpublished
    <2> QED
      BY <1>3, <2>1 DEF Load, CleanerMove, RowMove
  <1>4. CASE ClaimCleanup(c)
    <2>1. CASE cleaner[c].blob \in rows /\ count[cleaner[c].blob] = 0
      <3>1. CleanerMove(c, "claimed", cleaner[c].blob)
        BY <1>1, <1>2, <1>4, <2>1 DEF ClaimCleanup, CleanerMove
      <3> QED
        BY <1>2, <1>4, <2>1, <3>1 DEF ClaimCleanup, RowMove, Places
    <2>2. CASE ~(cleaner[c].blob \in rows /\ count[cleaner[c].blob] = 0)
      BY <1>4, <2>2 DEF ClaimCleanup, CleanerMove, RowMove, Places, Idle
    <2> QED
      BY <2>1, <2>2
  <1>5. CASE DeleteObject(c) \/ DeleteFails(c) \/ DeleteRowFails(c)
    <2>1. /\ cleaner[c].pc # "idle"
          /\ \E p \in Places : cleaner' = [cleaner EXCEPT ![c].pc = p]
          /\ UNCHANGED <<rows, count, age, ref, upload, source>>
          /\ object' \subseteq object
      BY <1>5 DEF DeleteObject, DeleteFails, DeleteRowFails, Places
    <2>2. \E p \in Places : CleanerMove(c, p, cleaner[c].blob)
      BY <1>1, <1>2, <2>1 DEF CleanerMove
    <2> QED
      BY <1>2, <2>1, <2>2 DEF RowMove
  <1>6. CASE DeleteRow(c)
    <2>1. CASE cleaner[c].blob \in rows /\ count[cleaner[c].blob] = Claimed
      BY <1>6, <2>1 DEF DeleteRow, CleanerMove, RowMove, Places, Idle
    <2>2. CASE ~(cleaner[c].blob \in rows /\ count[cleaner[c].blob] = Claimed)
      <3>1. CleanerMove(c, "restore", cleaner[c].blob)
        BY <1>1, <1>2, <1>6, <2>2 DEF DeleteRow, CleanerMove
      <3> QED
        BY <1>2, <1>6, <2>2, <3>1 DEF DeleteRow, RowMove, Places
    <2> QED
      BY <2>1, <2>2
  <1>7. CASE RestoreClaim(c) \/ CrashCleaner(c)
    BY <1>7 DEF RestoreClaim, CrashCleaner, CleanerMove, RowMove, Places, Idle
  <1> QED
    BY <1>3, <1>4, <1>5, <1>6, <1>7 DEF CleanerStep, Places

\* A step of a cleaner keeps IInv: it claims and deletes rows without
\* references only.
LEMMA CleanerStepIInv ==
    ASSUME IInv, NEW c \in Cleaners, CleanerStep(c)
    PROVE  IInv'
  <1>0. /\ RowMove(c) /\ object' \subseteq object /\ UNCHANGED <<ref, upload, source>>
    BY CleanerForm
  <1>1. PICK p \in Places, b \in Uploads \cup {NoBlob} : CleanerMove(c, p, b)
    BY CleanerForm
  <1>2. /\ cleaner' \in [Cleaners -> [pc : Places, blob : Uploads \cup {NoBlob}]]
        /\ \A d \in Cleaners : cleaner'[d] = IF d = c THEN [pc |-> p, blob |-> b]
                                                      ELSE cleaner[d]
    BY ZenonT(60), <1>1, CleanerType DEF IInv, CleanerMove, Places
  <1>3. Targets'
    BY <1>0, <1>1, <1>2 DEF IInv, Targets, CleanerMove
  <1>4. Copying'
    BY <1>0 DEF IInv, Copying
  <1> DEFINE k == cleaner[c].blob
  <1>5. /\ CountsOK' /\ rows' \subseteq rows
        /\ count' \in [Uploads -> Int] /\ \A d \in Uploads : count'[d] >= Claimed
        /\ age' \in [Uploads -> 0..ClaimTimeout]
    <2>0. /\ rows \subseteq Uploads /\ age \in [Uploads -> 0..ClaimTimeout]
          /\ count \in [Uploads -> Int] /\ \A d \in Uploads : count[d] >= Claimed
          /\ 0 \in 0..ClaimTimeout
      BY SMTT(60), Z3T(60), BlobAssumption DEF IInv, TypeOK
    <2>1. CASE UNCHANGED <<rows, count, age>>
      BY <1>0, <2>0, <2>1, CountsKept
    <2>2. CASE /\ k \in rows /\ count[k] = 0
               /\ count' = [count EXCEPT ![k] = Claimed]
               /\ age' = [age EXCEPT ![k] = 0] /\ UNCHANGED rows
      <3>1. RefsTo(k) = {}
        BY <2>2, NoRefs
      <3>3. /\ count' \in [Uploads -> Int] /\ count'[k] = Claimed
            /\ \A d \in Uploads : d # k => count'[d] = count[d]
        BY SMTT(60), Z3T(60), <2>0, <2>2 DEF Claimed
      <3>2. CountsOK' /\ \A d \in Uploads : count'[d] >= Claimed
        BY <1>0, <2>2, <3>1, <3>3, CountStep
      <3> QED
        BY <2>0, <2>2, <3>2, <3>3
    <2>3. CASE /\ k \in rows /\ count[k] = Claimed
               /\ count' = [count EXCEPT ![k] = 0]
               /\ age' = [age EXCEPT ![k] = 0] /\ UNCHANGED rows
      <3>1. Cardinality(RefsTo(k)) = 0
        BY <2>3, NoRefs, RefsFinite
      <3>3. /\ count' \in [Uploads -> Int] /\ count'[k] = 0
            /\ \A d \in Uploads : d # k => count'[d] = count[d]
        BY SMTT(60), Z3T(60), <2>0, <2>3
      <3>2. CountsOK' /\ \A d \in Uploads : count'[d] >= Claimed
        BY <1>0, <2>3, <3>1, <3>3, CountStep
      <3> QED
        BY <2>0, <2>3, <3>2, <3>3
    <2>4. CASE /\ k \in rows /\ count[k] = Claimed
               /\ count' = [count EXCEPT ![k] = 0]
               /\ age' = [age EXCEPT ![k] = 0] /\ rows' = rows \ {k}
      <3>1. RefsTo(k) = {}
        BY <2>4, NoRefs
      <3>2. \A d : RefsTo(d)' = RefsTo(d)
        BY <1>0 DEF RefsTo
      <3>3. \A d \in Uploads : count'[d] = IF d = k THEN 0 ELSE count[d]
        BY <2>0, <2>4
      <3>4. RefCountExact'
        BY <2>0, <2>4, <3>2, <3>3 DEF IInv, CountsOK, RefCountExact
      <3>5. RefsHaveRows' /\ OneRowPerKey'
        BY <1>0, <2>4, <3>1 DEF IInv, CountsOK, RefsHaveRows, OneRowPerKey, RefsTo
      <3>6. (\A d \in Uploads : d \notin rows => count[d] = 0)'
        BY <2>4, <3>3 DEF IInv, CountsOK
      <3>7. count' \in [Uploads -> Int] /\ \A d \in Uploads : count'[d] >= Claimed
        BY SMTT(60), Z3T(60), <2>0, <2>4, <3>3 DEF Claimed
      <3> QED
        BY <2>0, <2>4, <3>4, <3>5, <3>6, <3>7 DEF CountsOK
    <2> QED
      BY <1>0, <2>1, <2>2, <2>3, <2>4 DEF RowMove
  <1>6. Unpublished'
    BY <1>0, <1>5 DEF IInv, Unpublished
  <1>7. TypeOK'
    BY <1>0, <1>2, <1>5 DEF IInv, TypeOK, Places
  <1> QED
    BY <1>3, <1>4, <1>5, <1>6, <1>7 DEF IInv

\* reconcile_single_blob_ref_count keeps IInv: it writes the exact count.
LEMMA ReconcileIInv ==
    ASSUME IInv, NEW b \in Uploads, Reconcile(b)
    PROVE  IInv'
  <1>0. /\ b \in rows /\ count \in [Uploads -> Int] /\ age \in [Uploads -> 0..ClaimTimeout]
        /\ 0 \in 0..ClaimTimeout
    BY SMTT(60), Z3T(60), BlobAssumption DEF IInv, TypeOK, Reconcile
  <1>1. Cardinality(RefsTo(b)) \in Int
    BY SMTT(60), Z3T(60), RefsFinite
  <1>2. /\ count' \in [Uploads -> Int] /\ count'[b] = Cardinality(RefsTo(b))
        /\ \A d \in Uploads : d # b => count'[d] = count[d]
    BY <1>0, <1>1 DEF Reconcile
  <1>3. UNCHANGED <<rows, ref, object, upload, cleaner, source>>
    BY DEF Reconcile
  <1>4. CountsOK' /\ \A d \in Uploads : count'[d] >= Claimed
    BY <1>0, <1>2, <1>3, CountStep
  <1>5. age' \in [Uploads -> 0..ClaimTimeout]
    BY <1>0 DEF Reconcile
  <1>6. TypeOK'
    BY <1>2, <1>3, <1>4, <1>5 DEF IInv, TypeOK
  <1> QED
    BY <1>3, <1>4, <1>6 DEF IInv, Unpublished, Copying, Targets

\* The passing of time keeps IInv.
LEMMA TickIInv ==
    ASSUME IInv, Tick
    PROVE  IInv'
  <1>0. UNCHANGED <<rows, count, ref, object, upload, cleaner, source>>
    BY DEF Tick
  <1>1. CountsOK'
    BY <1>0, CountsKept
  <1>2. age \in [Uploads -> 0..ClaimTimeout] /\ ClaimTimeout \in Nat
    BY BlobAssumption DEF IInv, TypeOK
  <1>3. age' \in [Uploads -> 0..ClaimTimeout]
    BY SMTT(60), Z3T(60), <1>2 DEF Tick
  <1>4. TypeOK'
    BY <1>0, <1>3 DEF IInv, TypeOK
  <1> QED
    BY <1>0, <1>1, <1>4 DEF IInv, Unpublished, Copying, Targets

\* Every step keeps IInv.
LEMMA NextIInv == IInv /\ [Next]_vars => IInv'
  <1> SUFFICES ASSUME IInv, [Next]_vars PROVE IInv'
    OBVIOUS
  <1>1. CASE UNCHANGED vars
    <2>1. CountsOK'
      BY <1>1, CountsKept DEF vars
    <2>2. TypeOK'
      BY <1>1 DEF vars, IInv, TypeOK
    <2> QED
      BY <1>1, <2>1, <2>2 DEF vars, IInv, Unpublished, Copying, Targets
  <1> QED
    BY <1>1, UploadStepIInv, CopyStepIInv, RestoreVersionIInv, PurgeIInv,
       CleanerStepIInv, ReconcileIInv, TickIInv DEF Next

\* The inductive invariant holds throughout.
THEOREM BlobInvariant == Spec => []IInv
  BY InitIInv, NextIInv, PTL DEF Spec

\* The state of the blob tables and of the processes keeps its type; no count
\* goes below the claim.
THEOREM BlobTypes == Spec => []TypeOK
  <1>1. IInv => TypeOK
    BY DEF IInv
  <1> QED
    BY <1>1, BlobInvariant, PTL

\* No file revision ever refers to a row that cleanup has deleted, ref_count is the
\* number of references of every row that is not claimed, and a claimed row has none,
\* however many uploads, copies, purges and cleaners run at the same time.
THEOREM CountsAreExact == Spec => []RefsCounted
  <1>1. IInv => RefsCounted
    BY DEF IInv, CountsOK, RefsCounted
  <1> QED
    BY <1>1, BlobInvariant, PTL

\* find_or_create_blob never makes a second row for a path.
THEOREM RowsAreUnique == Spec => []OneRowPerKey
  <1>1. IInv => OneRowPerKey
    BY DEF IInv, CountsOK
  <1> QED
    BY <1>1, BlobInvariant, PTL

-----------------------------------------------------------------------------
(***************************************************************************)
(* Cleanup, on top of the exact counts: the row goes last, a claim is      *)
(* exclusive as long as cleaners are faster than the claim timeout, and    *)
(* content that is not content-addressed stays in the store while a file   *)
(* refers to it.                                                           *)
(***************************************************************************)

Staging == {"new", "found", "created", "failed", "rollback", "done"}

\* What a cleaner at work has met is done, and an upload that has begun is
\* never new again.
LEMMA UploadsMoveOn ==
    ASSUME IInv, [Next]_vars
    PROVE  /\ \A u \in Uploads : upload[u] # "new" => upload'[u] # "new"
           /\ \A u \in Uploads : upload[u] = "done" => upload'[u] = "done"
  <1>0. upload \in [Uploads -> Staging]
    BY DEF IInv, TypeOK, Staging
  <1>1. ASSUME NEW u \in Uploads, UploadStep(u)
        PROVE  \/ UNCHANGED upload
               \/ /\ upload[u] # "done"
                  /\ \E s \in Staging \ {"new"} : upload' = [upload EXCEPT ![u] = s]
    BY <1>1 DEF UploadStep, Stage, Persist, FailTransaction, CleanupPlan, RollbackCheck,
                RollbackDelete, AbandonUpload, Staging
  <1>2. CASE \E u \in Uploads : UploadStep(u)
    BY <1>0, <1>1, <1>2
  <1>3. CASE ~\E u \in Uploads : UploadStep(u)
    <2>1. ASSUME NEW c \in Cleaners, CleanerStep(c) PROVE UNCHANGED upload
      BY <2>1, CleanerForm
    <2>2. UNCHANGED upload
      BY <1>3, <2>1 DEF Next, vars, CopyStep, CopyRead, CopyCommit, CopyFails,
                        RestoreVersion, Purge, Reconcile, Tick
    <2> QED
      BY <2>2
  <1> QED
    BY <1>2, <1>3

----------------------------------------------------------------------------
(* The row goes last. *)

Restaged(b) == \E u \in Uploads : KeyOf[u] = KeyOf[b] /\ u # b /\ upload[u] # "new"

DeletedGone ==
    \A c \in Cleaners : cleaner[c].pc = "deleted" =>
        KeyOf[cleaner[c].blob] \notin object \/ Restaged(cleaner[c].blob)

\* The object that a cleaner has deleted comes back only through another
\* upload of the same content.
LEMMA NextDeletedGone == IInv /\ DeletedGone /\ [Next]_vars => DeletedGone'
  <1> SUFFICES ASSUME IInv, DeletedGone, [Next]_vars, NEW c \in Cleaners, NEW b,
                      cleaner'[c].pc = "deleted", b = cleaner'[c].blob
               PROVE  KeyOf[b] \notin object' \/ Restaged(b)'
    BY SMTT(60), Z3T(60) DEF DeletedGone, Restaged
  <1>0. /\ cleaner \in [Cleaners -> [pc : Places, blob : Uploads \cup {NoBlob}]]
        /\ upload \in [Uploads -> Staging]
    BY DEF IInv, TypeOK, Places, Staging
  <1>1. Restaged(b) => Restaged(b)'
    BY UploadsMoveOn DEF Restaged
  <1>2. CASE cleaner[c].pc = "deleted" /\ cleaner'[c] = cleaner[c]
    <2>1. b \in Uploads /\ upload[b] = "done" /\ b = cleaner[c].blob
      BY <1>2 DEF IInv, Targets
    <2>2. CASE object' \subseteq object
      BY <1>1, <1>2, <2>1, <2>2 DEF DeletedGone
    <2>3. ASSUME NEW u \in Uploads, Stage(u)
          PROVE  KeyOf[b] \notin object' \/ Restaged(b)'
      <3>1. u # b /\ upload'[u] # "new" /\ object' = object \cup {KeyOf[u]}
        BY <1>0, <2>1, <2>3 DEF Stage
      <3>2. CASE KeyOf[u] = KeyOf[b]
        BY <3>1, <3>2 DEF Restaged
      <3>3. CASE KeyOf[u] # KeyOf[b]
        BY <1>1, <1>2, <2>1, <3>1, <3>3 DEF DeletedGone
      <3> QED
        BY <3>2, <3>3
    <2>4. object' \subseteq object \/ \E u \in Uploads : Stage(u)
      <3>1. ASSUME NEW d \in Cleaners, CleanerStep(d) PROVE object' \subseteq object
        BY <3>1, CleanerForm
      <3>2. ASSUME NEW u \in Uploads, UploadStep(u) PROVE object' \subseteq object \/ Stage(u)
        BY <3>2 DEF UploadStep, Persist, FailTransaction, RollbackCheck,
                    RollbackDelete, AbandonUpload
      <3> QED
        BY <3>1, <3>2 DEF Next, vars, CopyStep, CopyRead, CopyCommit, CopyFails,
                          RestoreVersion, Purge, Reconcile, Tick
    <2> QED
      BY <1>2, <2>2, <2>3, <2>4
  <1>3. CASE DeleteObject(c)
    <2>1. b = cleaner[c].blob
      BY <1>0, <1>3 DEF DeleteObject
    <2>2. object' = object \ {KeyOf[cleaner[c].blob]}
      BY <1>3 DEF DeleteObject
    <2> QED
      BY <2>1, <2>2
  <1>4. \/ cleaner[c].pc = "deleted" /\ cleaner'[c] = cleaner[c]
        \/ DeleteObject(c)
    <2>1. CASE UNCHANGED cleaner
      BY <2>1
    <2>2. ASSUME NEW d \in Cleaners, CleanerStep(d), d # c
          PROVE  cleaner'[c] = cleaner[c]
      <3>1. \E p \in Places, e \in Uploads \cup {NoBlob} : CleanerMove(d, p, e)
        BY <2>2, CleanerForm
      <3> QED
        BY <1>0, <2>2, <3>1 DEF CleanerMove
    <2>3. CASE CleanerStep(c)
      <3>1. CASE DeleteObject(c)
        BY <3>1
      <3>2. CASE (\E e \in Uploads : Load(c, e)) \/ ClaimCleanup(c) \/ DeleteFails(c) \/ CrashCleaner(c)
        BY SMTT(60), Z3T(60), <1>0, <3>2 DEF Load, ClaimCleanup, DeleteFails, CrashCleaner, Idle
      <3>3. CASE DeleteRow(c) \/ DeleteRowFails(c) \/ RestoreClaim(c)
        BY SMTT(60), Z3T(60), <1>0, <3>3 DEF DeleteRow, DeleteRowFails, RestoreClaim, Idle
      <3> QED BY <2>3, <3>1, <3>2, <3>3 DEF CleanerStep
    <2>4. UNCHANGED cleaner \/ \E d \in Cleaners : CleanerStep(d)
      BY DEF Next, vars, UploadStep, Stage, Persist, FailTransaction, RollbackCheck,
             RollbackDelete, AbandonUpload, CopyStep, CopyRead, CopyCommit, CopyFails,
             RestoreVersion, Purge, Reconcile, Tick
    <2> QED
      BY <2>1, <2>2, <2>3, <2>4
  <1> QED
    BY <1>2, <1>3, <1>4

\* Only DeleteRow takes a row away, and what it takes is what it claimed.
LEMMA RowsGoByDeleteRow ==
    ASSUME IInv, [Next]_vars, NEW b \in rows, b \notin rows'
    PROVE  \E c \in Cleaners : /\ DeleteRow(c) /\ b = cleaner[c].blob
                               /\ count[b] = Claimed
  <1>1. ASSUME NEW u \in Uploads, UploadStep(u) PROVE FALSE
    BY <1>1 DEF UploadStep, Stage, Persist, FailTransaction, RollbackCheck,
                RollbackDelete, AbandonUpload
  <1>2. PICK c \in Cleaners : CleanerStep(c)
    BY <1>1 DEF Next, vars, CopyStep, CopyRead, CopyCommit, CopyFails,
                RestoreVersion, Purge, Reconcile, Tick
  <1> QED
    BY <1>2 DEF CleanerStep, Load, ClaimCleanup, DeleteObject, DeleteFails, DeleteRow,
                DeleteRowFails, RestoreClaim, CrashCleaner

\* The order that cleanup_unreferenced_blob keeps for any number of cleaners
\* and uploads: a row is deleted only when nothing refers to it, and after its
\* object.
THEOREM RowIsDeletedLast == Spec => RowGoesLast
  <1> DEFINE LastStep == \A b \in rows \ rows' :
                /\ RefsTo(b) = {} /\ RefsTo(b)' = {}
                /\ KeyOf[b] \notin object \/ Restaged(b)
  <1>1. Init => DeletedGone
    BY DEF Init, DeletedGone, Idle
  <1>2. IInv /\ DeletedGone /\ [Next]_vars => LastStep
    <2> SUFFICES ASSUME IInv, DeletedGone, [Next]_vars, NEW b \in rows \ rows'
                 PROVE  /\ RefsTo(b) = {} /\ RefsTo(b)' = {}
                        /\ KeyOf[b] \notin object \/ Restaged(b)
      OBVIOUS
    <2>1. PICK c \in Cleaners : DeleteRow(c) /\ b = cleaner[c].blob /\ count[b] = Claimed
      BY RowsGoByDeleteRow
    <2>2. RefsTo(b) = {}
      BY <2>1, NoRefs
    <2>3. RefsTo(b)' = {}
      BY <2>1, <2>2 DEF DeleteRow, RefsTo
    <2> QED
      BY <2>1, <2>2, <2>3 DEF DeleteRow, DeletedGone
  <1>3. LastStep => [\A b \in rows \ rows' :
          /\ RefsTo(b) = {} /\ RefsTo(b)' = {}
          /\ \/ KeyOf[b] \notin object
             \/ \E u \in Uploads : KeyOf[u] = KeyOf[b] /\ u # b /\ upload[u] # "new"]_vars
    BY DEF Restaged
  <1> QED
    BY <1>1, <1>2, <1>3, BlobInvariant, NextDeletedGone, PTL DEF Spec, RowGoesLast

----------------------------------------------------------------------------
(* A claim is exclusive. *)

Fresh(b) == b \in rows /\ count[b] = Claimed /\ age[b] < ClaimTimeout

HoldsFresh == \A c \in Cleaners, b \in Uploads : Holds(c, b) => Fresh(b)

\* No upload, copy, restored version, purge or reconciliation touches a fresh
\* claim.
LEMMA FreshClaimStays ==
    ASSUME IInv, NEW b \in Uploads, Fresh(b),
           \/ \E u \in Uploads : UploadStep(u)
           \/ \E c \in Copies : CopyStep(c)
           \/ \E v \in Versions, r \in Refs : RestoreVersion(v, r)
           \/ \E S \in SUBSET {r \in Refs : ref[r] # NoBlob} : Purge(S)
           \/ \E d \in Uploads : Reconcile(d)
    PROVE  Fresh(b)'
  <1>0. /\ rows \subseteq Uploads
        /\ count \in [Uploads -> Int] /\ age \in [Uploads -> 0..ClaimTimeout]
        /\ b \in rows /\ count[b] = Claimed /\ age[b] < ClaimTimeout
    BY DEF IInv, TypeOK, Fresh
  <1>1. RefsTo(b) = {}
    BY <1>0, NoRefs
  <1>2. ASSUME NEW u \in Uploads, UploadStep(u) PROVE Fresh(b)'
    <2>1. CASE Persist(u)
      <3>1. u \notin rows
        BY <2>1 DEF Persist, IInv, Unpublished
      <3> QED
        BY SMTT(60), Z3T(60), <1>0, <2>1, <3>1 DEF Persist, AddRef, MayIncrement, RowsAt, Fresh, Claimed
    <2>2. CASE ~Persist(u)
      BY <1>0, <1>2, <2>2 DEF UploadStep, Stage, FailTransaction, RollbackCheck,
                              RollbackDelete, AbandonUpload, Fresh
    <2> QED
      BY <2>1, <2>2
  <1>3. ASSUME NEW c \in Copies, CopyStep(c) PROVE Fresh(b)'
    BY SMTT(60), Z3T(60), <1>0, <1>3 DEF CopyStep, CopyRead, CopyCommit, CopyFails, AddRef, MayIncrement,
                      Fresh, Claimed
  <1>4. ASSUME NEW v \in Versions, NEW r \in Refs, RestoreVersion(v, r) PROVE Fresh(b)'
    BY SMTT(60), Z3T(60), <1>0, <1>4 DEF RestoreVersion, AddRef, MayIncrement, Fresh, Claimed
  <1>5. ASSUME NEW S \in SUBSET {r \in Refs : ref[r] # NoBlob}, Purge(S) PROVE Fresh(b)'
    <2>2. count'[b] = count[b]
      BY <1>0, <1>1, <1>5 DEF Purge
    <2> QED
      BY <1>0, <1>5, <2>2 DEF Purge, Fresh
  <1>6. ASSUME NEW d \in Uploads, Reconcile(d) PROVE Fresh(b)'
    <2>1. d # b
      BY SMTT(60), Z3T(60), <1>0, <1>6 DEF Reconcile
    <2> QED
      BY <1>0, <1>6, <2>1 DEF Reconcile, Fresh
  <1> QED
    BY <1>2, <1>3, <1>4, <1>5, <1>6

\* A step of one cleaner leaves the claims of the others alone.
LEMMA CleanersApart ==
    ASSUME IInv, HoldsFresh, ClaimExclusive, NEW d \in Cleaners, CleanerStep(d)
    PROVE  HoldsFresh' /\ ClaimExclusive'
  <1> DEFINE k == cleaner[d].blob
  <1>0. /\ cleaner \in [Cleaners -> [pc : Places, blob : Uploads \cup {NoBlob}]]
        /\ rows \subseteq Uploads
        /\ count \in [Uploads -> Int] /\ age \in [Uploads -> 0..ClaimTimeout]
    BY DEF IInv, TypeOK, Places
  <1>1. ASSUME NEW c \in Cleaners, c # d PROVE cleaner'[c] = cleaner[c]
    <2>1. \E p \in Places, b \in Uploads \cup {NoBlob} : CleanerMove(d, p, b)
      BY CleanerForm
    <2> QED
      BY <1>0, <1>1, <2>1 DEF CleanerMove
  <1>2. \A c \in Cleaners, b \in Uploads : c # d => (Holds(c, b)' <=> Holds(c, b))
    BY <1>1 DEF Holds
  <1>3. CASE ClaimCleanup(d) /\ k \in rows /\ count[k] = 0
    <2>1. \A c \in Cleaners : ~Holds(c, k)
      BY SMTT(60), Z3T(60), <1>0, <1>3 DEF HoldsFresh, Fresh, Claimed
    <2>2. /\ \A b \in Uploads : Holds(d, b)' <=> b = k
          /\ UNCHANGED rows /\ k \in Uploads
          /\ \A b \in Uploads : b # k => count'[b] = count[b] /\ age'[b] = age[b]
          /\ count'[k] = Claimed /\ age'[k] = 0
      BY SMTT(60), Z3T(60), <1>0, <1>3 DEF ClaimCleanup, Holds
    <2>3. \A b \in Uploads : Holds(d, b)' => Fresh(b)'
      BY SMTT(60), Z3T(60), <1>3, <2>2, BlobAssumption DEF Fresh
    <2>4. \A c \in Cleaners, b \in Uploads : c # d /\ Holds(c, b)' => Fresh(b)'
      BY <1>2, <2>1, <2>2 DEF HoldsFresh, Fresh
    <2>5. ClaimExclusive'
      BY SMTT(60), Z3T(60), <1>2, <2>1, <2>2 DEF ClaimExclusive
    <2> QED
      BY <2>3, <2>4, <2>5 DEF HoldsFresh
  <1>4. CASE ~(ClaimCleanup(d) /\ k \in rows /\ count[k] = 0)
    <2>1. /\ \A b \in Uploads : Holds(d, b)' => Holds(d, b)
      BY SMTT(60), Z3T(60), <1>0, <1>4 DEF CleanerStep, Load, ClaimCleanup, DeleteObject, DeleteFails,
                        DeleteRow, DeleteRowFails, RestoreClaim, CrashCleaner, Holds, Idle
    <2>2. \/ UNCHANGED <<rows, count, age>>
          \/ /\ cleaner[d].pc \in {"deleted", "restore"} /\ cleaner'[d] = Idle
             /\ \A b \in Uploads : b # k => /\ count'[b] = count[b] /\ age'[b] = age[b]
                                            /\ b \in rows => b \in rows'
      BY <1>0, <1>4 DEF CleanerStep, Load, ClaimCleanup, DeleteObject, DeleteFails,
                        DeleteRow, DeleteRowFails, RestoreClaim, CrashCleaner
    <2>3. CASE UNCHANGED <<rows, count, age>>
      BY <1>2, <2>1, <2>3 DEF HoldsFresh, Fresh, ClaimExclusive
    <2>4. CASE /\ cleaner[d].pc \in {"deleted", "restore"} /\ cleaner'[d] = Idle
               /\ \A b \in Uploads : b # k => /\ count'[b] = count[b] /\ age'[b] = age[b]
                                              /\ b \in rows => b \in rows'
      <3>1. \A b \in Uploads : ~Holds(d, b)'
        BY SMTT(60), Z3T(60), <2>4 DEF Holds, Idle
      <3>2. \A c \in Cleaners, b \in Uploads : Holds(c, b)' => b # k
        BY SMTT(60), Z3T(60), <1>2, <2>4, <3>1 DEF Holds, ClaimExclusive
      <3>3. HoldsFresh'
        BY <1>2, <2>4, <3>1, <3>2 DEF HoldsFresh, Fresh
      <3> QED
        BY <1>2, <3>1, <3>3 DEF ClaimExclusive
    <2> QED
      BY <2>2, <2>3, <2>4
  <1> QED
    BY <1>3, <1>4

\* While cleaners finish before their claims are stale, no two of them delete
\* the object or the row of the same blob: claim_blob_cleanup is a mutual
\* exclusion, also when other cleaners crash, fail and restore their claims.
THEOREM ClaimsAreExclusive ==
    ASSUME TimelyCleanup
    PROVE  Spec => []ClaimExclusive
  <1>1. Init => HoldsFresh /\ ClaimExclusive
    BY SMTT(60), Z3T(60) DEF Init, HoldsFresh, ClaimExclusive, Holds, Idle
  <1>2. IInv /\ HoldsFresh /\ ClaimExclusive /\ [Next]_vars => HoldsFresh' /\ ClaimExclusive'
    <2> SUFFICES ASSUME IInv, HoldsFresh, ClaimExclusive, [Next]_vars
                 PROVE  HoldsFresh' /\ ClaimExclusive'
      OBVIOUS
    <2>1. CASE \E d \in Cleaners : CleanerStep(d)
      BY <2>1, CleanersApart
    <2>2. CASE Tick
      <3>1. /\ UNCHANGED <<rows, count, cleaner>>
            /\ \A b \in Uploads : age'[b] = IF b \in rows /\ count[b] = Claimed /\ age[b] < ClaimTimeout
                                            THEN age[b] + 1 ELSE age[b]
            /\ \A c \in Cleaners, b \in rows : Holds(c, b) => age[b] + 1 < ClaimTimeout
        BY <2>2 DEF Tick
      <3> QED
        BY <3>1 DEF HoldsFresh, Fresh, ClaimExclusive, Holds
    <2>3. CASE UNCHANGED vars
      BY <2>3 DEF vars, HoldsFresh, Fresh, ClaimExclusive, Holds
    <2>4. CASE \/ \E u \in Uploads : UploadStep(u)
               \/ \E c \in Copies : CopyStep(c)
               \/ \E v \in Versions, r \in Refs : RestoreVersion(v, r)
               \/ \E S \in SUBSET {r \in Refs : ref[r] # NoBlob} : Purge(S)
               \/ \E d \in Uploads : Reconcile(d)
      <3>1. UNCHANGED cleaner
        BY <2>4 DEF UploadStep, Stage, Persist, FailTransaction, RollbackCheck,
             RollbackDelete, AbandonUpload, CopyStep, CopyRead, CopyCommit, CopyFails,
             RestoreVersion, Purge, Reconcile
      <3>2. \A b \in Uploads : Fresh(b) => Fresh(b)'
        BY <2>4, FreshClaimStays
      <3> QED
        BY <3>1, <3>2 DEF HoldsFresh, ClaimExclusive, Holds
    <2> QED
      BY <2>1, <2>2, <2>3, <2>4 DEF Next
  <1> QED
    BY <1>1, <1>2, BlobInvariant, PTL DEF Spec

----------------------------------------------------------------------------
(* Content that is not content-addressed is kept. *)

Owned(b) == b \in Uploads /\ KeyOf[b] \notin DedupKeys

HeldUnused == \A c \in Cleaners, b \in Uploads : Owned(b) /\ Holds(c, b) => RefsTo(b) = {}

StagedKept ==
    \A u \in Uploads : Owned(u) /\ upload[u] \in {"found", "created"} => KeyOf[u] \in object

\* A path that is not content-addressed belongs to one upload.
LEMMA OwnKey ==
    ASSUME NEW b \in Uploads, NEW d \in Uploads, Owned(b) \/ Owned(d), KeyOf[b] = KeyOf[d]
    PROVE  b = d
  BY KeyAssumption DEF Owned

\* References come from three actions; without copies in progress, nothing can
\* refer again to an owned blob that is done and has no references.
LEMMA UnusedStays ==
    ASSUME IInv, Copies = {}, [Next]_vars, NEW b \in Uploads, Owned(b),
           upload[b] = "done", RefsTo(b) = {}
    PROVE  RefsTo(b)' = {}
  <1>0. ref \in [Refs -> Uploads \cup {NoBlob}] /\ rows \subseteq Uploads
    BY DEF IInv, TypeOK
  <1>1. ASSUME NEW u \in Uploads, Persist(u) PROVE RefsTo(b)' = {}
    <2>1. u # b /\ u \in Refs
      BY <1>1 DEF Persist, Refs
    <2>2. PICK d \in Uploads : KeyOf[d] = KeyOf[u] /\ AddRef(u, d)
      BY <1>0, <1>1 DEF Persist, RowsAt
    <2>3. d # b
      BY <2>1, <2>2, OwnKey
    <2> QED
      BY <1>0, <2>1, <2>2, <2>3 DEF AddRef, RefsTo
  <1>2. ASSUME NEW v \in Versions, NEW r \in Refs, RestoreVersion(v, r) PROVE RefsTo(b)' = {}
    <2>1. ref[r] # b
      BY <1>2 DEF RefsTo
    <2> QED
      BY <1>0, <1>2, <2>1 DEF RestoreVersion, AddRef, RefsTo
  <1>3. ASSUME NEW S \in SUBSET {r \in Refs : ref[r] # NoBlob}, Purge(S) PROVE RefsTo(b)' = {}
    BY <1>0, <1>3, BlobAssumption DEF Purge, RefsTo
  <1>4. CASE UNCHANGED ref
    BY <1>4 DEF RefsTo
  <1>5. ASSUME NEW c \in Cleaners, CleanerStep(c) PROVE UNCHANGED ref
    BY <1>5, CleanerForm
  <1> QED
    BY ZenonT(60), <1>1, <1>2, <1>3, <1>4, <1>5 DEF Next, vars, UploadStep, Stage, FailTransaction,
       RollbackCheck, RollbackDelete, AbandonUpload, Reconcile, Tick

\* Cleaners hold only what nothing refers to, in every reachable state.
LEMMA NextHeldUnused ==
    ASSUME IInv, HeldUnused, Copies = {}, [Next]_vars
    PROVE  HeldUnused'
  <1> SUFFICES ASSUME NEW c \in Cleaners, NEW b \in Uploads, Owned(b), Holds(c, b)'
               PROVE  RefsTo(b)' = {}
    BY DEF HeldUnused, Owned
  <1>0. cleaner \in [Cleaners -> [pc : Places, blob : Uploads \cup {NoBlob}]]
    BY DEF IInv, TypeOK, Places
  <1>1. CASE Holds(c, b)
    <2>1. RefsTo(b) = {} /\ upload[b] = "done"
      BY <1>1 DEF HeldUnused, IInv, Targets, Holds
    <2> QED
      BY <2>1, UnusedStays
  <1>2. CASE ~Holds(c, b)
    <2>1. CleanerStep(c)
      <3>1. ASSUME NEW d \in Cleaners, CleanerStep(d), d # c PROVE cleaner'[c] = cleaner[c]
        <4>1. \E p \in Places, k \in Uploads \cup {NoBlob} : CleanerMove(d, p, k)
          BY <3>1, CleanerForm
        <4> QED
          BY <1>0, <3>1, <4>1 DEF CleanerMove
      <3>2. cleaner'[c] # cleaner[c]
        BY <1>2 DEF Holds
      <3> QED
        BY ZenonT(60), <3>1, <3>2 DEF Next, vars, UploadStep, Stage, Persist, FailTransaction,
           RollbackCheck, RollbackDelete, AbandonUpload, CopyStep, CopyRead, CopyCommit,
           CopyFails, RestoreVersion, Purge, Reconcile, Tick
    <2>2. ClaimCleanup(c) /\ b = cleaner[c].blob /\ b \in rows /\ count[b] = 0
      BY SMTT(60), Z3T(60), <1>0, <1>2, <2>1 DEF CleanerStep, Load, ClaimCleanup, DeleteObject, DeleteFails,
           DeleteRow, DeleteRowFails, RestoreClaim, CrashCleaner, Holds, Idle
    <2>3. RefsTo(b) = {}
      BY <2>2, NoRefs
    <2> QED
      BY <2>2, <2>3 DEF ClaimCleanup, RefsTo
  <1> QED
    BY <1>1, <1>2

\* An object is taken away only by the rollback of the upload that staged it or
\* by a cleaner that holds its blob.
LEMMA ObjectsGo ==
    ASSUME IInv, [Next]_vars, NEW k \in object, k \notin object'
    PROVE  \/ \E u \in Uploads : upload[u] = "rollback" /\ k = KeyOf[u] /\ UNCHANGED ref
                                 /\ upload' = [upload EXCEPT ![u] = "done"]
           \/ \E c \in Cleaners, b \in Uploads :
                 Holds(c, b) /\ k = KeyOf[b] /\ UNCHANGED <<ref, upload>>
  <1>1. ASSUME NEW u \in Uploads, UploadStep(u) PROVE RollbackDelete(u)
    BY ZenonT(60), <1>1 DEF UploadStep, Stage, Persist, FailTransaction, RollbackCheck, AbandonUpload
  <1>2. CASE \E u \in Uploads : UploadStep(u)
    BY <1>1, <1>2 DEF RollbackDelete
  <1>3. ASSUME NEW c \in Cleaners, CleanerStep(c)
        PROVE  \E b \in Uploads : Holds(c, b) /\ k = KeyOf[b] /\ UNCHANGED <<ref, upload>>
    <2>1. DeleteObject(c) \/ DeleteFails(c)
      BY <1>3 DEF CleanerStep, Load, ClaimCleanup, DeleteRow, DeleteRowFails,
                  RestoreClaim, CrashCleaner
    <2>2. cleaner[c].pc = "claimed" /\ k = KeyOf[cleaner[c].blob] /\ UNCHANGED <<ref, upload>>
      BY <2>1 DEF DeleteObject, DeleteFails
    <2>3. cleaner[c].blob \in Uploads
      BY <2>2 DEF IInv, Targets
    <2> QED
      BY <2>2, <2>3 DEF Holds
  <1> QED
    BY <1>2, <1>3 DEF Next, vars, CopyStep, CopyRead, CopyCommit, CopyFails,
                      RestoreVersion, Purge, Reconcile, Tick

\* The object of an upload on its way to its transaction stays.
LEMMA NextStagedKept ==
    ASSUME IInv, StagedKept, [Next]_vars
    PROVE  StagedKept'
  <1> SUFFICES ASSUME NEW u \in Uploads, Owned(u), upload'[u] \in {"found", "created"}
               PROVE  KeyOf[u] \in object'
    BY DEF StagedKept, Owned
  <1>0. upload \in [Uploads -> Staging]
    BY DEF IInv, TypeOK, Staging
  <1>1. CASE upload[u] \in {"found", "created"}
    <2>1. KeyOf[u] \in object
      BY <1>1 DEF StagedKept
    <2> SUFFICES ASSUME KeyOf[u] \notin object' PROVE FALSE
      OBVIOUS
    <2>2. ASSUME NEW v \in Uploads, upload[v] = "rollback", KeyOf[u] = KeyOf[v] PROVE FALSE
      BY <1>1, <2>2, OwnKey
    <2>3. ASSUME NEW c \in Cleaners, NEW b \in Uploads, Holds(c, b), KeyOf[u] = KeyOf[b]
          PROVE  FALSE
      <3>1. upload[b] = "done"
        BY <2>3 DEF Holds, IInv, Targets
      <3>2. u = b
        BY <2>3, OwnKey
      <3> QED
        BY <1>1, <3>1, <3>2
    <2> QED
      BY <2>1, <2>2, <2>3, ObjectsGo
  <1>2. CASE upload[u] \notin {"found", "created"}
    <2>1. ASSUME NEW v \in Uploads, UploadStep(v) PROVE KeyOf[u] \in object'
      <3>1. CASE Stage(v)
        BY <1>0, <1>2, <3>1 DEF Stage
      <3>2. CASE ~Stage(v)
        BY <1>0, <1>2, <2>1, <3>2 DEF UploadStep, Persist, FailTransaction, CleanupPlan,
           RollbackCheck, RollbackDelete, AbandonUpload
      <3> QED
        BY <3>1, <3>2
    <2>2. ASSUME NEW c \in Cleaners, CleanerStep(c) PROVE UNCHANGED upload
      BY <2>2, CleanerForm
    <2> QED
      BY <1>2, <2>1, <2>2 DEF Next, vars, CopyStep, CopyRead, CopyCommit, CopyFails,
                        RestoreVersion, Purge, Reconcile, Tick
  <1> QED
    BY <1>1, <1>2

\* A reference that a step adds is to content that is in the store before it.
LEMMA NewRefsStored ==
    ASSUME IInv, StagedKept, OwnedContentKept, Copies = {}, [Next]_vars,
           NEW r \in Refs, NEW b \in Uploads, Owned(b), ref'[r] = b, ref[r] # b
    PROVE  KeyOf[b] \in object /\ object' = object
  <1>0. ref \in [Refs -> Uploads \cup {NoBlob}] /\ rows \subseteq Uploads
    BY DEF IInv, TypeOK
  <1>1. ASSUME NEW u \in Uploads, UploadStep(u) PROVE KeyOf[b] \in object /\ object' = object
    <2>1. Persist(u)
      BY ZenonT(60), <1>1 DEF UploadStep, Stage, FailTransaction, RollbackCheck, RollbackDelete,
                  AbandonUpload
    <2>2. PICK d \in Uploads : KeyOf[d] = KeyOf[u] /\ AddRef(u, d)
      BY <1>0, <2>1 DEF Persist, RowsAt
    <2>3. d = b
      BY <1>0, <2>2 DEF AddRef
    <2>4. u = b
      BY <2>2, <2>3, OwnKey
    <2> QED
      BY ZenonT(60), <2>1, <2>4 DEF Persist, StagedKept
  <1>2. ASSUME NEW v \in Versions, NEW q \in Refs, RestoreVersion(v, q)
        PROVE  KeyOf[b] \in object /\ object' = object
    <2>1. ref[q] = b
      BY <1>0, <1>2 DEF RestoreVersion, AddRef
    <2> QED
      BY <1>2, <2>1, BlobAssumption DEF RestoreVersion, OwnedContentKept, Owned
  <1>3. ASSUME NEW S \in SUBSET {q \in Refs : ref[q] # NoBlob}, Purge(S) PROVE FALSE
    BY <1>0, <1>3, BlobAssumption DEF Purge
  <1>4. ASSUME NEW c \in Cleaners, CleanerStep(c) PROVE FALSE
    BY <1>4, CleanerForm
  <1> QED
    BY <1>1, <1>2, <1>3, <1>4 DEF Next, vars, Reconcile, Tick

\* Content stored under a path of its own stays in the store as long as a file
\* revision refers to it: through failed and crashed uploads and cleanups, lost
\* claims, and claims taken back from cleaners that are still at work.  Copies,
\* which read their source before the transaction, are excluded.
THEOREM OwnedContentStays ==
    ASSUME Copies = {}
    PROVE  Spec => []OwnedContentKept
  <1> DEFINE J == HeldUnused /\ StagedKept /\ OwnedContentKept
  <1>1. Init => J
    BY SMTT(60), Z3T(60) DEF Init, HeldUnused, StagedKept, OwnedContentKept, Holds, Idle
  <1>2. IInv /\ J /\ [Next]_vars => J'
    <2> SUFFICES ASSUME IInv, HeldUnused, StagedKept, OwnedContentKept, [Next]_vars
                 PROVE  J'
      OBVIOUS
    <2>1. HeldUnused' /\ StagedKept'
      BY NextHeldUnused, NextStagedKept
    <2>2. OwnedContentKept'
      <3> SUFFICES ASSUME NEW r \in Refs, NEW b, b = ref'[r], b # NoBlob, KeyOf[b] \notin DedupKeys
                   PROVE  KeyOf[b] \in object'
        BY DEF OwnedContentKept
      <3>0. IInv'
        BY NextIInv
      <3>1. b \in Uploads /\ Owned(b)
        BY <3>0 DEF IInv, TypeOK, Owned
      <3>2. CASE ref[r] # b
        BY <3>1, <3>2, NewRefsStored
      <3>3. CASE ref[r] = b
        <4>1. KeyOf[b] \in object /\ RefsTo(b) # {}
          BY <3>3 DEF OwnedContentKept, RefsTo
        <4>2. upload[b] = "done"
          BY <3>1, <3>3 DEF IInv, CountsOK, RefsHaveRows, Unpublished
        <4>3. ASSUME NEW u \in Uploads, upload[u] = "rollback", KeyOf[b] = KeyOf[u] PROVE FALSE
          BY <3>1, <4>2, <4>3, OwnKey
        <4>4. ASSUME NEW c \in Cleaners, NEW d \in Uploads, Holds(c, d), KeyOf[b] = KeyOf[d]
              PROVE  FALSE
          <5>1. d = b
            BY <3>1, <4>4, OwnKey
          <5> QED
            BY <3>1, <4>1, <4>4, <5>1 DEF HeldUnused
        <4> QED
          BY <4>1, <4>3, <4>4, ObjectsGo
      <3> QED
        BY <3>2, <3>3
    <2> QED
      BY <2>1, <2>2
  <1>3. J => OwnedContentKept
    OBVIOUS
  <1> QED
    BY <1>1, <1>2, <1>3, BlobInvariant, PTL DEF Spec

=============================================================================
