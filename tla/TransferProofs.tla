--------------------------- MODULE TransferProofs ---------------------------
(***************************************************************************)
(* Proofs about ShareDownloads and UploadSession: what is counted while files*)
(* are downloaded, and what becomes of the chunks that are uploaded.       *)
(***************************************************************************)
EXTENDS ShareDownloads, UploadSession, FiniteSetTheorems, TLAPS

\* Steps that name no prover are Zenon's; arithmetic goes to Z3, by two routes.
USE ZenonT(60)

-----------------------------------------------------------------------------
(***************************************************************************)
(* Proofs about ShareDownloads, for any number of downloads, of range      *)
(* requests, any limit and any capacity of the channel: a stream session   *)
(* is counted once, the counter balances, and the limit is kept.           *)
(***************************************************************************)
DlStates == {"new", "reserved", "refused", "streaming", "done", "failed", "full", "aborted"}
RangeStates == {"new", "free", "refused", "reserved", "counting", "counted", "paid",
                "served", "undo"}

\* The types, and that the worker holds a batch only while it applies one.
ShareTypes ==
    /\ dl \in [Downloads -> DlStates]
    /\ range \in [Ranges -> RangeStates]
    /\ dlCount \in Nat /\ lost \in Nat /\ channel \in Nat /\ overflow \in Nat
    /\ batch \in Nat /\ spawned \in Nat
    /\ channel <= Capacity
    /\ server \in {"head", "asleep", "apply", "leaving", "gone"}
    /\ marker \in {"none", "pending", "counted"}
    /\ server # "apply" => batch = 0

\* A range request that took the marker and has not given it back.
Engaged(r) == range[r] \in {"reserved", "counting", "counted", "paid"}

\* The marker lets one request at a time pay for the session.
OnePayer ==
    /\ \A r, s \in Ranges : Engaged(r) /\ Engaged(s) => r = s
    /\ marker = "none" => \A r \in Ranges : ~Engaged(r)

\* The types hold when the server starts.
LEMMA InitTypes == ShareInit => ShareTypes /\ OnePayer
  BY SMTT(60), Z3T(60), ShareAssumption DEF ShareInit, ShareTypes, OnePayer, Engaged, DlStates, RangeStates

\* What a rollback leaves of the counter is a natural number.
LEMMA TakenBackNat ==
  ASSUME dlCount \in Nat, NEW n \in Nat
  PROVE  TakenBack(n) \in Nat
  BY SMTT(60), Z3T(60) DEF TakenBack

\* Every step keeps the types.
LEMMA NextTypes == ShareTypes /\ [ShareNext]_sdVars => ShareTypes'
<1> SUFFICES ASSUME ShareTypes, [ShareNext]_sdVars PROVE ShareTypes'
  OBVIOUS
<1> USE ShareAssumption
<1>1. CASE UNCHANGED sdVars
  BY <1>1 DEF ShareTypes, sdVars
<1>2. CASE WorkerHead \/ WorkerWakes
  BY SMTT(60), Z3T(60), <1>2 DEF WorkerHead, WorkerWakes, ShareTypes
<1>3. CASE WorkerApplies
  BY SMTT(60), Z3T(60), <1>3, TakenBackNat DEF WorkerApplies, ShareTypes
<1>4. CASE WorkerGone \/ Shutdown
  BY SMTT(60), Z3T(60), <1>4 DEF WorkerGone, Shutdown, ShareTypes
<1>5. CASE SpawnedApplies
  BY SMTT(60), Z3T(60), <1>5, TakenBackNat DEF SpawnedApplies, ShareTypes
<1>6. ASSUME NEW d \in Downloads,
             Reserve(d) \/ Respond(d) \/ Redirect(d) \/ DropsEarly(d) \/ Finish(d)
             \/ Abort(d) \/ PushOverflow(d)
      PROVE  ShareTypes'
  BY SMTT(60), Z3T(60), <1>6 DEF Reserve, Respond, Redirect, DropsEarly, Finish, Abort, PushOverflow, ShareTypes,
              DlStates, queueVars
<1>7. ASSUME NEW d \in Downloads, BuildFails(d) PROVE ShareTypes'
  BY SMTT(60), Z3T(60), <1>7, TakenBackNat DEF BuildFails, ShareTypes, DlStates, queueVars
<1>8. ASSUME NEW r \in Ranges,
             RangeOpens(r) \/ RangeCounts(r) \/ RangeMarks(r) \/ RangeServes(r)
             \/ RangeFails(r) \/ RangeDrops(r)
      PROVE  ShareTypes'
  BY SMTT(60), Z3T(60), <1>8 DEF RangeOpens, RangeCounts, RangeMarks, RangeServes, RangeFails, RangeDrops,
              ShareTypes, RangeStates, queueVars
<1>9. ASSUME NEW r \in Ranges, RangeUndoes(r) PROVE ShareTypes'
  BY SMTT(60), Z3T(60), <1>9, TakenBackNat DEF RangeUndoes, ShareTypes, RangeStates, queueVars
<1> QED
  BY <1>1, <1>2, <1>3, <1>4, <1>5, <1>6, <1>7, <1>8, <1>9 DEF ShareNext, Rollback

\* Every step keeps a single payer: a request engages only where the marker was free.
LEMMA NextOnePayer == ShareTypes /\ OnePayer /\ [ShareNext]_sdVars => OnePayer'
<1> SUFFICES ASSUME ShareTypes, OnePayer, [ShareNext]_sdVars PROVE OnePayer'
  OBVIOUS
<1>1. CASE UNCHANGED <<range, marker>>
  BY <1>1 DEF OnePayer, Engaged
<1>2. ASSUME NEW r \in Ranges, RangeOpens(r) PROVE OnePayer'
  BY <1>2 DEF RangeOpens, OnePayer, Engaged, ShareTypes
<1>3. ASSUME NEW r \in Ranges, RangeCounts(r) PROVE OnePayer'
  BY <1>3 DEF RangeCounts, OnePayer, Engaged, ShareTypes
<1>4. ASSUME NEW r \in Ranges, RangeMarks(r) PROVE OnePayer'
  BY <1>4 DEF RangeMarks, OnePayer, Engaged, ShareTypes
<1>5. ASSUME NEW r \in Ranges, RangeServes(r) PROVE OnePayer'
  BY <1>5 DEF RangeServes, OnePayer, Engaged, ShareTypes
<1>6. ASSUME NEW r \in Ranges, RangeFails(r) PROVE OnePayer'
  BY <1>6 DEF RangeFails, OnePayer, Engaged, ShareTypes
<1>7. ASSUME NEW r \in Ranges, RangeUndoes(r) PROVE OnePayer'
  BY <1>7 DEF RangeUndoes, OnePayer, Engaged, ShareTypes
<1>8. ASSUME NEW r \in Ranges, RangeDrops(r) PROVE OnePayer'
  BY <1>8 DEF RangeDrops, OnePayer, Engaged, ShareTypes
<1>9. CASE Rollback \/ SpawnedApplies \/ Shutdown
  BY <1>1, <1>9 DEF Rollback, WorkerHead, WorkerWakes, WorkerApplies, WorkerGone,
                    SpawnedApplies, Shutdown
<1>10. ASSUME NEW d \in Downloads,
              Reserve(d) \/ Respond(d) \/ Redirect(d) \/ BuildFails(d) \/ DropsEarly(d)
              \/ Finish(d) \/ Abort(d) \/ PushOverflow(d)
       PROVE  OnePayer'
  BY <1>1, <1>10 DEF Reserve, Respond, Redirect, BuildFails, DropsEarly, Finish, Abort,
                     PushOverflow
<1>11. CASE UNCHANGED sdVars
  BY <1>1, <1>11 DEF sdVars
<1> QED
  BY <1>2, <1>3, <1>4, <1>5, <1>6, <1>7, <1>8, <1>9, <1>10, <1>11 DEF ShareNext

-----------------------------------------------------------------------------
(* The counter.                                                            *)

\* The sets that CountBalanced measures are finite.
LEMMA Sizes ==
  /\ IsFiniteSet(Active) /\ IsFiniteSet(Paying) /\ IsFiniteSet(Undoing)
  /\ Cardinality(Active) \in Nat /\ Cardinality(Paying) \in Nat /\ Cardinality(Undoing) \in Nat
<1>1. Active \subseteq Downloads /\ Paying \subseteq Ranges /\ Undoing \subseteq Ranges
  BY DEF Active, Paying, Undoing
<1>2. IsFiniteSet(Active) /\ IsFiniteSet(Paying) /\ IsFiniteSet(Undoing)
  BY <1>1, ShareAssumption, FS_Subset
<1> QED BY <1>2, FS_CardinalityType

\* An element more, and an element less.
LEMMA OneMore ==
  ASSUME NEW S, IsFiniteSet(S), NEW x, x \notin S, NEW T, T = S \cup {x}
  PROVE  Cardinality(T) = Cardinality(S) + 1
  BY FS_AddElement

\* The same, of an element that is taken away.
LEMMA OneLess ==
  ASSUME NEW S, IsFiniteSet(S), NEW x, x \in S, NEW T, T = S \ {x}
  PROVE  Cardinality(T) = Cardinality(S) - 1 /\ Cardinality(S) >= 1
<1>1. IsFiniteSet(T) /\ Cardinality(T) = Cardinality(S) - 1
  BY FS_RemoveElement
<1>2. Cardinality(T) \in Nat /\ Cardinality(S) \in Nat
  BY <1>1, FS_CardinalityType
<1> QED BY SMTT(60), Z3T(60), <1>1, <1>2

\* Nothing is active before the first request.
LEMMA InitBalanced == ShareInit => CountBalanced
<1> SUFFICES ASSUME ShareInit PROVE CountBalanced
  OBVIOUS
<1>1. Active = {} /\ Paying = {} /\ Undoing = {}
  BY DEF ShareInit, Active, Paying, Undoing
<1>2. Cardinality(Active) = 0 /\ Cardinality(Paying) = 0 /\ Cardinality(Undoing) = 0
  BY <1>1, FS_EmptySet
<1> QED BY SMTT(60), Z3T(60), <1>2 DEF ShareInit, CountBalanced

\* A step of a direct download keeps the balance.
LEMMA DownloadBalanced ==
  ASSUME ShareTypes, CountBalanced, NEW d \in Downloads,
         Reserve(d) \/ Respond(d) \/ Redirect(d) \/ BuildFails(d) \/ DropsEarly(d)
         \/ Finish(d) \/ Abort(d) \/ PushOverflow(d)
  PROVE  CountBalanced'
<1> USE Sizes
<1>1. UNCHANGED range => Paying' = Paying /\ Undoing' = Undoing
  BY DEF Paying, Undoing
<1>2. CASE Reserve(d) /\ MayCount
  <2>1. d \notin Active /\ Active' = Active \cup {d}
    BY <1>2 DEF Reserve, Active, ShareTypes
  <2>2. Cardinality(Active') = Cardinality(Active) + 1
    BY <2>1, OneMore
  <2> QED BY SMTT(60), Z3T(60), <1>1, <1>2, <2>2 DEF Reserve, CountBalanced, queueVars, ShareTypes
<1>3. CASE (Reserve(d) /\ ~MayCount) \/ Respond(d) \/ Redirect(d) \/ Finish(d)
  <2>1. Active' = Active
    BY <1>3 DEF Reserve, Respond, Redirect, Finish, Active, ShareTypes
  <2> QED BY <1>1, <1>3, <2>1 DEF Reserve, Respond, Redirect, Finish, CountBalanced, queueVars
<1>4. CASE BuildFails(d)
  <2>1. d \in Active /\ Active' = Active \ {d}
    BY <1>4 DEF BuildFails, Active, ShareTypes
  <2>2. Cardinality(Active') = Cardinality(Active) - 1 /\ Cardinality(Active) >= 1
    BY <2>1, OneLess
  <2> QED BY SMTT(60), Z3T(60), <1>1, <1>4, <2>2 DEF BuildFails, TakenBack, CountBalanced, queueVars, ShareTypes
<1>5. CASE DropsEarly(d)
  <2>1. d \in Active /\ Active' = Active \ {d}
    BY <1>5 DEF DropsEarly, Active, ShareTypes
  <2>2. Cardinality(Active') = Cardinality(Active) - 1
    BY <2>1, OneLess
  <2> QED BY SMTT(60), Z3T(60), <1>1, <1>5, <2>2 DEF DropsEarly, CountBalanced, queueVars, ShareTypes
<1>6. CASE Abort(d)
  <2>1. CASE server # "gone" /\ ~(channel < Capacity)
    <3>1. Active' = Active
      BY <1>6, <2>1 DEF Abort, Active, ShareTypes
    <3> QED BY <1>1, <1>6, <2>1, <3>1 DEF Abort, CountBalanced
  <2>2. CASE server = "gone" \/ channel < Capacity
    <3>1. d \in Active /\ Active' = Active \ {d}
      BY <1>6, <2>2 DEF Abort, Active, ShareTypes
    <3>2. Cardinality(Active') = Cardinality(Active) - 1
      BY <3>1, OneLess
    <3> QED BY SMTT(60), Z3T(60), <1>1, <1>6, <2>2, <3>2 DEF Abort, CountBalanced, ShareTypes
  <2> QED BY <2>1, <2>2
<1>7. CASE PushOverflow(d)
  <2>1. d \in Active /\ Active' = Active \ {d}
    BY <1>7 DEF PushOverflow, Active, ShareTypes
  <2>2. Cardinality(Active') = Cardinality(Active) - 1
    BY <2>1, OneLess
  <2> QED BY SMTT(60), Z3T(60), <1>1, <1>7, <2>2 DEF PushOverflow, CountBalanced, ShareTypes
<1> QED BY <1>2, <1>3, <1>4, <1>5, <1>6, <1>7

\* A step of the rollback queue keeps the balance.
LEMMA QueueBalanced ==
  ASSUME ShareTypes, CountBalanced, Rollback \/ SpawnedApplies \/ Shutdown \/ UNCHANGED sdVars
  PROVE  CountBalanced'
<1> USE Sizes
<1>1. UNCHANGED <<dl, range>> => Active' = Active /\ Paying' = Paying /\ Undoing' = Undoing
  BY DEF Active, Paying, Undoing
<1>2. CASE WorkerHead \/ WorkerWakes
  <2>1. server \in {"head", "asleep"}
    BY <1>2 DEF WorkerHead, WorkerWakes
  <2> QED BY SMTT(60), Z3T(60), <1>1, <1>2, <2>1 DEF WorkerHead, WorkerWakes, CountBalanced, ShareTypes
<1>3. CASE WorkerApplies
  BY SMTT(60), Z3T(60), <1>1, <1>3 DEF WorkerApplies, TakenBack, CountBalanced, ShareTypes
<1>4. CASE WorkerGone \/ Shutdown \/ UNCHANGED sdVars
  BY SMTT(60), Z3T(60), <1>1, <1>4 DEF WorkerGone, Shutdown, CountBalanced, ShareTypes, sdVars
<1>5. CASE SpawnedApplies
  BY SMTT(60), Z3T(60), <1>1, <1>5 DEF SpawnedApplies, TakenBack, CountBalanced, ShareTypes
<1> QED BY <1>2, <1>3, <1>4, <1>5 DEF Rollback

\* A step of a range request keeps the balance.
LEMMA RangeBalanced ==
  ASSUME ShareTypes, CountBalanced, NEW r \in Ranges,
         RangeOpens(r) \/ RangeCounts(r) \/ RangeMarks(r) \/ RangeServes(r)
         \/ RangeFails(r) \/ RangeUndoes(r) \/ RangeDrops(r)
  PROVE  CountBalanced'
<1> USE Sizes
<1>1. UNCHANGED dl => Active' = Active
  BY DEF Active
<1>2. CASE RangeOpens(r) \/ (RangeCounts(r) /\ ~MayCount) \/ RangeMarks(r) \/ RangeServes(r)
           \/ (RangeFails(r) /\ range[r] # "counted")
           \/ (RangeDrops(r) /\ range[r] \in {"reserved", "counted"})
  <2>1. Paying' = Paying /\ Undoing' = Undoing
    BY <1>2 DEF RangeOpens, RangeCounts, RangeMarks, RangeServes, RangeFails, RangeDrops,
                Paying, Undoing, ShareTypes
  <2> QED
    BY <1>1, <1>2, <2>1 DEF RangeOpens, RangeCounts, RangeMarks, RangeServes, RangeFails,
                            RangeDrops, CountBalanced, queueVars
<1>3. CASE RangeCounts(r) /\ MayCount
  <2>1. r \notin Paying /\ Paying' = Paying \cup {r} /\ Undoing' = Undoing
    BY <1>3 DEF RangeCounts, Paying, Undoing, ShareTypes
  <2>2. Cardinality(Paying') = Cardinality(Paying) + 1
    BY <2>1, OneMore
  <2> QED BY SMTT(60), Z3T(60), <1>1, <1>3, <2>1, <2>2 DEF RangeCounts, CountBalanced, queueVars, ShareTypes
<1>4. CASE RangeFails(r) /\ range[r] = "counted"
  <2>1. r \in Paying /\ Paying' = Paying \ {r}
    BY <1>4 DEF RangeFails, Paying, ShareTypes
  <2>2. r \notin Undoing /\ Undoing' = Undoing \cup {r}
    BY <1>4 DEF RangeFails, Undoing, ShareTypes
  <2>3. Cardinality(Paying') = Cardinality(Paying) - 1
    BY <2>1, OneLess
  <2>4. Cardinality(Undoing') = Cardinality(Undoing) + 1
    BY <2>2, OneMore
  <2> QED BY SMTT(60), Z3T(60), <1>1, <1>4, <2>3, <2>4 DEF RangeFails, CountBalanced, queueVars, ShareTypes
<1>5. CASE RangeUndoes(r) \/ (RangeDrops(r) /\ range[r] = "undo")
  <2>1. r \in Undoing /\ Undoing' = Undoing \ {r} /\ Paying' = Paying
    BY <1>5 DEF RangeUndoes, RangeDrops, Paying, Undoing, ShareTypes
  <2>2. Cardinality(Undoing') = Cardinality(Undoing) - 1 /\ Cardinality(Undoing) >= 1
    BY <2>1, OneLess
  <2> QED
    BY SMTT(60), Z3T(60), <1>1, <1>5, <2>1, <2>2 DEF RangeUndoes, RangeDrops, TakenBack, CountBalanced,
                                  queueVars, ShareTypes
<1>6. CASE RangeDrops(r) /\ range[r] = "counting"
  <2>1. r \in Paying /\ Paying' = Paying \ {r} /\ Undoing' = Undoing
    BY <1>6 DEF RangeDrops, Paying, Undoing, ShareTypes
  <2>2. Cardinality(Paying') = Cardinality(Paying) - 1
    BY <2>1, OneLess
  <2> QED BY SMTT(60), Z3T(60), <1>1, <1>6, <2>1, <2>2 DEF RangeDrops, CountBalanced, queueVars, ShareTypes
<1> QED BY <1>2, <1>3, <1>4, <1>5, <1>6 DEF RangeDrops

\* The counter never passes the limit: it is compared where it is raised.
LimitKept == MaxDownloads > 0 => dlCount <= MaxDownloads

\* Only reserve_share_download_count and ensure_counted_once raise it.
LEMMA NextLimit == ShareTypes /\ LimitKept /\ [ShareNext]_sdVars => LimitKept'
<1> SUFFICES ASSUME ShareTypes, LimitKept, [ShareNext]_sdVars PROVE LimitKept'
  OBVIOUS
<1> USE ShareAssumption
<1>1. \A n \in Nat : TakenBack(n) \in Nat /\ TakenBack(n) <= dlCount
  BY SMTT(60), Z3T(60) DEF TakenBack, ShareTypes
<1>2. ASSUME NEW d \in Downloads, Reserve(d) PROVE LimitKept'
  BY SMTT(60), Z3T(60), <1>2 DEF Reserve, MayCount, LimitKept, ShareTypes
<1>3. ASSUME NEW r \in Ranges, RangeCounts(r) PROVE LimitKept'
  BY SMTT(60), Z3T(60), <1>3 DEF RangeCounts, MayCount, LimitKept, ShareTypes
<1>4. ASSUME dlCount' = dlCount \/ \E n \in Nat : dlCount' = TakenBack(n) PROVE LimitKept'
  BY SMTT(60), Z3T(60), <1>1, <1>4 DEF LimitKept, ShareTypes
<1>5. CASE UNCHANGED sdVars \/ Rollback \/ SpawnedApplies \/ Shutdown
  BY <1>4, <1>5 DEF sdVars, Rollback, WorkerHead, WorkerWakes, WorkerApplies, WorkerGone,
                    SpawnedApplies, Shutdown, ShareTypes
<1>6. ASSUME NEW d \in Downloads,
             Respond(d) \/ Redirect(d) \/ BuildFails(d) \/ DropsEarly(d) \/ Finish(d)
             \/ Abort(d) \/ PushOverflow(d)
      PROVE  LimitKept'
  BY <1>4, <1>6 DEF Respond, Redirect, BuildFails, DropsEarly, Finish, Abort, PushOverflow
<1>7. ASSUME NEW r \in Ranges,
             RangeOpens(r) \/ RangeMarks(r) \/ RangeServes(r) \/ RangeFails(r)
             \/ RangeUndoes(r) \/ RangeDrops(r)
      PROVE  LimitKept'
  BY <1>4, <1>7 DEF RangeOpens, RangeMarks, RangeServes, RangeFails, RangeUndoes, RangeDrops
<1> QED BY <1>2, <1>3, <1>5, <1>6, <1>7 DEF ShareNext

-----------------------------------------------------------------------------
ShareInv == ShareTypes /\ OnePayer /\ CountBalanced /\ LimitKept

\* The four facts hold together in every reachable state.
THEOREM ShareInvHolds == ShareSpec => []ShareInv
<1>1. ShareInit => ShareInv
  BY SMTT(60), Z3T(60), InitTypes, InitBalanced, ShareAssumption DEF ShareInv, ShareInit, LimitKept
<1>2. ShareInv /\ [ShareNext]_sdVars => ShareInv'
  <2> SUFFICES ASSUME ShareInv, [ShareNext]_sdVars PROVE ShareInv'
    OBVIOUS
  <2>1. CountBalanced'
    BY DownloadBalanced, QueueBalanced, RangeBalanced DEF ShareInv, ShareNext
  <2> QED BY <2>1, NextTypes, NextOnePayer, NextLimit DEF ShareInv
<1> QED BY <1>1, <1>2, PTL DEF ShareSpec

\* download_count is balanced whatever the numbers of downloads and range requests and
\* the capacity of the channel are.
THEOREM CounterBalances == ShareSpec => []CountBalanced
<1>1. ShareInv => CountBalanced
  BY DEF ShareInv
<1> QED BY <1>1, ShareInvHolds, PTL

\* The limit is kept for every limit, however many requests race: every copy handed out
\* is still in the counter, and the counter is never raised past the limit.
THEOREM LimitHolds == ShareSpec => []DeliveredWithinLimit
<1>1. ShareInv => DeliveredWithinLimit
  <2> SUFFICES ASSUME ShareInv, MaxDownloads > 0 PROVE DeliveredWithinLimit
    BY DEF DeliveredWithinLimit
  <2> DEFINE direct == {d \in Downloads : dl[d] \in {"streaming", "done"}}
             paid == {r \in Ranges : range[r] = "paid"}
  <2>1. direct \subseteq Active /\ paid \subseteq Paying
    BY DEF Active, Paying
  <2>2. /\ IsFiniteSet(direct) /\ Cardinality(direct) <= Cardinality(Active)
        /\ IsFiniteSet(paid) /\ Cardinality(paid) <= Cardinality(Paying)
    BY <2>1, Sizes, FS_Subset
  <2>3. Cardinality(direct) \in Nat /\ Cardinality(paid) \in Nat
    BY <2>2, FS_CardinalityType
  <2>4. Cardinality(Active) + Cardinality(Paying) <= dlCount
    BY SMTT(60), Z3T(60), Sizes DEF ShareInv, CountBalanced, ShareTypes
  <2>5. Cardinality(direct) + Cardinality(paid) <= MaxDownloads
    BY SMTT(60), Z3T(60), <2>2, <2>3, <2>4, Sizes, ShareAssumption DEF ShareInv, LimitKept, ShareTypes
  <2> QED BY <2>5 DEF DeliveredWithinLimit
<1> QED BY <1>1, ShareInvHolds, PTL

\* One range request of a session at most has it counted, however many run at once.
THEOREM SessionPaysOnce == ShareSpec => []SessionCountedOnce
<1>1. ShareInv => SessionCountedOnce
  <2> SUFFICES ASSUME ShareInv PROVE SessionCountedOnce
    OBVIOUS
  <2>1. \A r, s \in Paying : r = s
    BY DEF ShareInv, OnePayer, Engaged, Paying
  <2>2. CASE Paying = {}
    BY SMTT(60), Z3T(60), <2>2, FS_EmptySet DEF SessionCountedOnce
  <2>3. CASE Paying # {}
    <3>1. PICK r \in Paying : Paying = {r}
      BY <2>1, <2>3
    <3>2. Cardinality(Paying) = 1
      BY <3>1, FS_Singleton
    <3> QED BY SMTT(60), Z3T(60), <3>2 DEF SessionCountedOnce
  <2> QED BY <2>2, <2>3
<1> QED BY <1>1, ShareInvHolds, PTL

-----------------------------------------------------------------------------
(***************************************************************************)
(* Proofs about UploadSession, for any number of chunk PUTs, completions   *)
(* and cancels, and any lease, grace and expiry: a session makes one file, *)
(* the file holds every chunk, an assembly is not disturbed, and the row   *)
(* goes after the provider's objects.                                      *)
(*                                                                         *)
(* OneFilePerSession is not inductive.  It needs to know who may still     *)
(* write the row: that one completion at a time is past its claim, that    *)
(* what the row says agrees with the files made so far, and that whoever   *)
(* is about to delete the row holds one that no completion can claim.  The *)
(* second part adds what the chunks, the parts and the objects hold        *)
(* meanwhile (ContentInv).                                                 *)
(***************************************************************************)
\* The types of the row and its parts.
Kinds == {"staging", "relay", "parts", "single", "direct"}

Row == [kind : Kinds, status : Statuses, count : Int, age : Int, ttl : Nat,
        lossy : BOOLEAN, crew : SUBSET (Putters \cup Completers)]

\* The types the argument needs.
Types ==
    /\ sess \in Row
    /\ files \in [Completers -> {"none", "temp", "final"}]
    /\ comp \in [Completers -> CompPcs]
    /\ agent \in [Agents -> [pc : AgentPcs, n : Parts \cup {0}, seen : Statuses]]

\* A completion past transition_upload_session_to_assembling.
Working(c) ==
    comp[c] \in {"assemble", "verified", "stored", "committed", "retryable", "fatal"}

Made(c) == files[c] # "none"

\* The row, the completions and the files agree.
RowInv ==
    /\ sess.status \in {ActiveStatus(sess.kind), "assembling", "completed", "failed", "deleted"}
    /\ \A c, d \in Completers : Working(c) /\ Working(d) => c = d
    /\ sess.status = ActiveStatus(sess.kind) => \A c \in Completers : ~Working(c)
    /\ sess.status = "completed" /\ ~sess.lossy =>
          \A c \in Completers : Working(c) => comp[c] = "committed"
    /\ \A c, d \in Completers : Made(c) /\ Made(d) => c = d
    /\ \A c \in Completers : Made(c) => sess.status \in {"completed", "failed", "deleted"}
    /\ \A c \in Completers : Made(c) /\ ~sess.lossy => sess.status = "completed"
    /\ sess.status = "completed" => \E c \in Completers : Made(c)

\* A session that no completion can claim any more: failed or gone, or still open but
\* expired.
Closed ==
    \/ sess.status \in {"failed", "deleted"}
    \/ sess.status = ActiveStatus(sess.kind) /\ sess.ttl = 0

\* Whoever cleans a session up has a closed one, and a PUT remembers an uploading one.
AgentInv ==
    \A a \in Agents :
        /\ agent[a].pc \in {"clean", "delete"} => Closed
        /\ agent[a].pc \in {"write", "receipt", "relay", "stored", "terminate"} =>
              agent[a].seen = "uploading"

UploadInv == Types /\ RowInv /\ AgentInv

-----------------------------------------------------------------------------
\* A fresh session satisfies all of it.
LEMMA InitInv == UploadInit => UploadInv
<1> SUFFICES ASSUME UploadInit PROVE UploadInv
  OBVIOUS
<1> USE UploadAssumption
<1>1. PICK s \in Scenes :
          sess = [kind |-> s.kind, status |-> ActiveStatus(s.kind), count |-> 0, age |-> 0,
                  ttl |-> SessionTtl, lossy |-> s.lossy, crew |-> s.crew]
  BY DEF UploadInit
<1>2. s \in [kind : Kinds, lossy : BOOLEAN, crew : SUBSET (Putters \cup Completers)]
  BY DEF Kinds
<1>3. sess \in Row
  BY SMTT(60), Z3T(60), <1>1, <1>2 DEF ActiveStatus, Statuses, Row
<1>4. Types
  BY <1>3 DEF UploadInit, Types, CompPcs, AgentPcs, Idle, Statuses
<1>5. sess.status = ActiveStatus(sess.kind) /\ sess.status \in {"presigned", "uploading"}
  BY <1>1 DEF ActiveStatus
<1>6. RowInv
  BY <1>5 DEF UploadInit, RowInv, Working, Made
<1>7. AgentInv
  BY DEF UploadInit, AgentInv, Idle
<1> QED BY <1>4, <1>6, <1>7 DEF UploadInv

\* What the updates of the row set, and what they leave.
LEMMA TransitionSets ==
  ASSUME Types, NEW st \in Statuses
  PROVE  /\ Transition(st) \in Row
         /\ Transition(st).status = st /\ Transition(st).kind = sess.kind
         /\ Transition(st).lossy = sess.lossy /\ Transition(st).ttl = sess.ttl
         /\ Transition(st).count = sess.count
<1> DEFINE r == [sess EXCEPT !.status = st]
<1>1. /\ r \in Row /\ r.status = st /\ r.kind = sess.kind /\ r.lossy = sess.lossy
      /\ r.ttl = sess.ttl /\ r.count = sess.count
  BY DEF Types, Row
<1>2. Transition(st) = [r EXCEPT !.age = 0]
  BY DEF Transition
<1> HIDE DEF r
<1> QED BY SMTT(60), Z3T(60), <1>1, <1>2 DEF Row

\* The same of an update that also gives the row its last expiry.
LEMMA FailSets ==
  ASSUME Types, NEW ttl \in Nat
  PROVE  /\ FailWithExpiration(ttl) \in Row
         /\ FailWithExpiration(ttl).status = "failed"
         /\ FailWithExpiration(ttl).kind = sess.kind
         /\ FailWithExpiration(ttl).lossy = sess.lossy
         /\ FailWithExpiration(ttl).count = sess.count
<1> DEFINE r == Transition("failed")
<1>1. r \in Row /\ r.status = "failed" /\ r.kind = sess.kind /\ r.lossy = sess.lossy
      /\ r.count = sess.count
  BY TransitionSets DEF Statuses
<1>2. FailWithExpiration(ttl) = [r EXCEPT !.ttl = ttl]
  BY DEF FailWithExpiration, Transition
<1> HIDE DEF r
<1> QED BY <1>1, <1>2 DEF Row

\* What a request other than a completion may do to the row: nothing that matters here,
\* or end it while it is not completed.
RowEnds ==
    /\ comp' = comp /\ files' = files
    /\ sess'.kind = sess.kind /\ sess'.lossy = sess.lossy
    /\ \/ sess'.status = sess.status
       \/ sess.status # "completed" /\ sess'.status \in {"failed", "deleted"}

\* Such a step keeps the row, the completions and the files in agreement.
LEMMA RowEndsKeeps == Types /\ RowInv /\ RowEnds => RowInv'
  BY SMTT(60), Z3T(60) DEF Types, RowInv, RowEnds, Working, Made, ActiveStatus

\* Counting a chunk leaves the rest of the row.
LEMMA CountSets ==
  ASSUME Types, NEW r, r = [sess EXCEPT !.count = @ + 1, !.age = 0]
  PROVE  /\ r \in Row /\ r.status = sess.status /\ r.kind = sess.kind
         /\ r.lossy = sess.lossy /\ r.ttl = sess.ttl /\ r.count = sess.count + 1
<1> DEFINE q == [sess EXCEPT !.count = @ + 1]
<1>1. q \in Row /\ q.status = sess.status /\ q.kind = sess.kind /\ q.lossy = sess.lossy
      /\ q.ttl = sess.ttl /\ q.count = sess.count + 1
  BY SMTT(60), Z3T(60) DEF Types, Row
<1>2. r = [q EXCEPT !.age = 0]
  OBVIOUS
<1> HIDE DEF q
<1> QED BY SMTT(60), Z3T(60), <1>1, <1>2 DEF Row

\* The clock changes no status and brings no expired session back.
LEMMA TickSets ==
  ASSUME Types, UploadTick
  PROVE  /\ sess' \in Row /\ sess'.status = sess.status /\ sess'.kind = sess.kind
         /\ sess'.lossy = sess.lossy /\ (sess.ttl = 0 => sess'.ttl = 0)
         /\ sess'.count = sess.count
<1> DEFINE q == [sess EXCEPT !.age = IF @ < LeaseTimeout THEN @ + 1 ELSE @]
<1>1. q \in Row /\ q.status = sess.status /\ q.kind = sess.kind /\ q.lossy = sess.lossy
      /\ q.ttl = sess.ttl /\ q.count = sess.count
  BY SMTT(60), Z3T(60) DEF Types, Row
<1>2. sess' = [q EXCEPT !.ttl = IF @ > 0 THEN @ - 1 ELSE @]
  BY DEF UploadTick
<1> HIDE DEF q
<1> QED BY SMTT(60), Z3T(60), <1>1, <1>2 DEF Row

\* Deleting the row leaves its kind.
LEMMA DeleteSets ==
  ASSUME Types, DeleteRow
  PROVE  /\ sess' \in Row /\ sess'.status = "deleted" /\ sess'.kind = sess.kind
         /\ sess'.lossy = sess.lossy
  BY DEF Types, Row, DeleteRow, Statuses

AgentType == [pc : AgentPcs, n : Parts \cup {0}, seen : Statuses]

\* A request that moves on changes its own entry only,
LEMMA GotoSets ==
  ASSUME Types, NEW a \in Agents, NEW pc \in AgentPcs, Goto(a, pc)
  PROVE  /\ agent' \in [Agents -> AgentType]
         /\ agent'[a].pc = pc /\ agent'[a].seen = agent[a].seen /\ agent'[a].n = agent[a].n
         /\ \A b \in Agents : b # a => agent'[b] = agent[b]
  BY DEF Types, Goto, AgentType

\* one that starts does,
LEMMA StartSets ==
  ASSUME Types, NEW a \in Agents, NEW g \in AgentType, agent' = [agent EXCEPT ![a] = g]
  PROVE  /\ agent' \in [Agents -> AgentType]
         /\ agent'[a] = g
         /\ \A b \in Agents : b # a => agent'[b] = agent[b]
  BY DEF Types, AgentType

\* and one that leaves.
LEMMA LeaveSets ==
  ASSUME Types, NEW a \in Agents, Leave(a)
  PROVE  /\ agent' \in [Agents -> AgentType]
         /\ agent'[a].pc = "idle"
         /\ \A b \in Agents : b # a => agent'[b] = agent[b]
<1>1. Idle \in AgentType /\ Idle.pc = "idle"
  BY DEF Idle, AgentType, AgentPcs, Statuses
<1> QED BY <1>1, StartSets DEF Leave

\* AgentInv survives a step of one request that leaves a closed session closed.
LEMMA AgentKeeps ==
  ASSUME AgentInv, NEW a \in Agents,
         Closed => Closed',
         \A b \in Agents : b # a => agent'[b] = agent[b],
         agent'[a].pc \in {"clean", "delete"} => Closed',
         agent'[a].pc \in {"write", "receipt", "relay", "stored", "terminate"} =>
              agent'[a].seen = "uploading"
  PROVE  AgentInv'
<1> SUFFICES ASSUME NEW b \in Agents
             PROVE /\ agent'[b].pc \in {"clean", "delete"} => Closed'
                   /\ agent'[b].pc \in {"write", "receipt", "relay", "stored", "terminate"} =>
                         agent'[b].seen = "uploading"
  BY DEF AgentInv, Agents
<1> QED BY DEF AgentInv

\* A row that keeps status, kind and expiry, or ends, stays closed.
LEMMA ClosedKeeps ==
  ASSUME sess'.kind = sess.kind,
         \/ sess'.status \in {"failed", "deleted"}
         \/ sess'.status = sess.status /\ (sess.ttl = 0 => sess'.ttl = 0)
  PROVE  Closed => Closed'
  BY DEF Closed, ActiveStatus

-----------------------------------------------------------------------------
\* What every step of a request other than a completion comes to.
LEMMA AgentStep ==
  ASSUME UploadInv, NEW a \in Agents, RowEnds,
         sess' \in Row,
         sess'.status \in {"failed", "deleted"} \/ (sess.ttl = 0 => sess'.ttl = 0),
         agent' \in [Agents -> AgentType],
         \A b \in Agents : b # a => agent'[b] = agent[b],
         agent'[a].pc \in {"clean", "delete"} => Closed',
         agent'[a].pc \in {"write", "receipt", "relay", "stored", "terminate"} =>
              agent'[a].seen = "uploading"
  PROVE  UploadInv'
<1>1. Closed => Closed'
  BY ClosedKeeps DEF RowEnds
<1>2. Types'
  BY DEF UploadInv, Types, RowEnds, AgentType
<1>3. RowInv'
  BY RowEndsKeeps DEF UploadInv
<1>4. AgentInv'
  BY <1>1, AgentKeeps DEF UploadInv
<1> QED BY <1>2, <1>3, <1>4 DEF UploadInv

\* A chunk PUT keeps the invariant.
LEMMA PutKeeps == ASSUME UploadInv, NEW p \in Putters, PutNext(p) PROVE UploadInv'
<1> USE DEF UploadInv
<1>1. p \in Agents
  BY DEF Agents
<1>2. Types /\ sess \in Row
  BY DEF Types
<1>3. ASSUME NEW g \in AgentType, agent' = [agent EXCEPT ![p] = g],
             g.seen = "uploading", g.pc \notin {"clean", "delete"},
             UNCHANGED <<sess, files, comp>>
      PROVE  UploadInv'
  <2>1. RowEnds
    BY <1>3 DEF RowEnds
  <2> QED BY <1>1, <1>2, <1>3, <2>1, StartSets, AgentStep
<1>4. ASSUME PutRefused(p) \/ \E n \in Parts : PutStaged(p, n) \/ PutClaim(p, n)
      PROVE  UploadInv'
  BY <1>3, <1>4 DEF PutRefused, PutStaged, PutClaim, AgentType, AgentPcs, Statuses
<1>5. ASSUME Leave(p), UNCHANGED <<sess, files, comp>> PROVE UploadInv'
  <2>1. RowEnds
    BY <1>5 DEF RowEnds
  <2> QED BY <1>1, <1>2, <1>5, <2>1, LeaveSets, AgentStep
<1>6. ASSUME NEW pc \in {"receipt", "stored", "terminate"}, Goto(p, pc),
             agent[p].pc \in {"write", "receipt", "relay", "stored"},
             UNCHANGED <<sess, files, comp>>
      PROVE  UploadInv'
  <2>1. RowEnds
    BY <1>6 DEF RowEnds
  <2>2. agent[p].seen = "uploading" /\ pc \in AgentPcs /\ pc \notin {"clean", "delete"}
    BY <1>1, <1>6 DEF AgentInv, AgentPcs
  <2> QED BY <1>1, <1>2, <1>6, <2>1, <2>2, GotoSets, AgentStep
<1>7. ASSUME sess' = [sess EXCEPT !.count = @ + 1, !.age = 0], Leave(p),
             UNCHANGED <<files, comp>>
      PROVE  UploadInv'
  <2>1. sess' \in Row /\ sess'.ttl = sess.ttl /\ RowEnds
    BY <1>2, <1>7, CountSets DEF RowEnds
  <2> QED BY <1>1, <1>2, <1>7, <2>1, LeaveSets, AgentStep
<1>8. ASSUME PutWrite(p) \/ PutRelay(p) PROVE UploadInv'
  BY <1>5, <1>6, <1>8 DEF PutWrite, PutRelay, PutError, At
<1>9. ASSUME PutReceipt(p) \/ PutRelayCommit(p) PROVE UploadInv'
  BY <1>5, <1>6, <1>7, <1>9 DEF PutReceipt, PutRelayCommit, At
<1>10. ASSUME PutTerminate(p), sess.status = agent[p].seen PROVE UploadInv'
  <2>1. sess.status = "uploading"
    BY <1>1, <1>10 DEF PutTerminate, At, AgentInv
  <2>2. sess' \in Row /\ sess'.status = "failed" /\ RowEnds
    BY SMTT(60), Z3T(60), <1>2, <1>10, <2>1, FailSets, UploadAssumption DEF PutTerminate, RowEnds
  <2>3. Closed' /\ Goto(p, "clean") /\ "clean" \in AgentPcs
    BY <1>10, <2>2 DEF PutTerminate, Closed, AgentPcs
  <2> QED BY <1>1, <1>2, <2>2, <2>3, GotoSets, AgentStep
<1>11. ASSUME PutTerminate(p), sess.status # agent[p].seen PROVE UploadInv'
  BY <1>5, <1>11 DEF PutTerminate
<1> QED BY <1>4, <1>8, <1>9, <1>10, <1>11 DEF PutNext

\* A request that leaves the row alone and moves on, other than into cleaning up, or
\* leaves, keeps the invariant.
LEMMA MoveKeeps ==
  ASSUME UploadInv, NEW a \in Agents, UNCHANGED <<sess, files, comp>>,
         \/ Leave(a)
         \/ \E pc \in {"done", "delete"} : Goto(a, pc) /\ (pc = "delete" => Closed)
  PROVE  UploadInv'
<1> USE DEF UploadInv
<1>1. Types /\ sess \in Row /\ RowEnds /\ (Closed => Closed')
  BY DEF Types, RowEnds, Closed
<1>2. ASSUME NEW pc \in {"done", "delete"}, Goto(a, pc), pc = "delete" => Closed
      PROVE  UploadInv'
  <2>1. pc \in AgentPcs
    BY DEF AgentPcs
  <2> QED BY <1>1, <1>2, <2>1, GotoSets, AgentStep
<1>3. CASE Leave(a)
  BY <1>1, <1>3, LeaveSets, AgentStep
<1> QED BY <1>2, <1>3

\* A request that fails the session and moves on keeps it, unless it was completed.
LEMMA FailKeeps ==
  ASSUME UploadInv, NEW a \in Agents, NEW ttl \in Nat, sess' = FailWithExpiration(ttl),
         sess.status # "completed", UNCHANGED <<files, comp>>,
         \E pc \in {"clean", "done"} : Goto(a, pc)
  PROVE  UploadInv'
<1> USE DEF UploadInv
<1>1. PICK pc \in {"clean", "done"} : Goto(a, pc)
  OBVIOUS
<1>2. Types /\ pc \in AgentPcs
  BY DEF AgentPcs
<1>3. sess' \in Row /\ sess'.status = "failed" /\ RowEnds
  BY <1>2, FailSets DEF RowEnds
<1>4. Closed'
  BY <1>3 DEF Closed
<1> QED BY <1>1, <1>2, <1>3, <1>4, GotoSets, AgentStep

\* A cancel keeps the invariant.
LEMMA CancelKeeps ==
  ASSUME UploadInv, NEW k \in Cancels, CancelRead(k) \/ CancelClaim(k)
  PROVE  UploadInv'
<1> USE DEF UploadInv
<1>1. k \in Agents
  BY DEF Agents
<1>2. Types /\ sess \in Row /\ sess.status \in Statuses
  BY DEF Types, Row
<1>3. CASE CancelRead(k)
  <2> DEFINE g == [pc |-> "cancel", n |-> 0, seen |-> sess.status]
  <2>1. g \in AgentType /\ g.pc = "cancel"
    BY <1>2 DEF AgentType, AgentPcs
  <2>2. agent' = [agent EXCEPT ![k] = g] /\ RowEnds /\ sess' = sess
    BY <1>3 DEF CancelRead, RowEnds
  <2> HIDE DEF g
  <2> QED BY <1>1, <1>2, <2>1, <2>2, StartSets, AgentStep
<1>4. CASE CancelClaim(k)
  <2>1. CASE sess' = FailWithExpiration(LeaseTimeout) /\ sess.status = "assembling"
             /\ Goto(k, "done")
    BY <1>1, <1>4, <2>1, FailKeeps, UploadAssumption DEF CancelClaim
  <2>2. CASE sess' = FailWithExpiration(Grace) /\ Goto(k, "clean")
             /\ sess.status \in {"uploading", "presigned", "failed"}
    BY <1>1, <1>4, <2>2, FailKeeps, UploadAssumption DEF CancelClaim
  <2>3. CASE Goto(k, "done") /\ UNCHANGED sess
    BY <1>1, <1>4, <2>3, MoveKeeps DEF CancelClaim
  <2> QED BY <1>4, <2>1, <2>2, <2>3 DEF CancelClaim
<1> QED BY <1>3, <1>4

\* The sweep of expired sessions keeps the invariant.
LEMMA SweepKeeps == ASSUME UploadInv, SweepRead \/ SweepStale PROVE UploadInv'
<1> USE DEF UploadInv
<1>1. SweeperTask \in Agents
  BY DEF Agents
<1>2. Types /\ sess \in Row /\ sess.status \in Statuses
  BY DEF Types, Row
<1>3. CASE SweepRead
  <2> DEFINE g == [pc |-> IF sess.status = "assembling" THEN "stale" ELSE "clean",
                   n |-> 0, seen |-> sess.status]
  <2>1. g \in AgentType /\ g.pc \in {"stale", "clean"}
    BY <1>2 DEF AgentType, AgentPcs
  <2>2. g.pc = "clean" => Closed
    BY <1>3 DEF SweepRead, Closed, Expired, RowInv
  <2>3. agent' = [agent EXCEPT ![SweeperTask] = g] /\ RowEnds /\ sess' = sess
    BY <1>3 DEF SweepRead, RowEnds
  <2>4. Closed => Closed'
    BY <2>3 DEF Closed
  <2> HIDE DEF g
  <2> QED BY <1>1, <1>2, <2>1, <2>2, <2>3, <2>4, StartSets, AgentStep
<1>4. CASE SweepStale
  BY <1>1, <1>4, FailKeeps, MoveKeeps, UploadAssumption DEF SweepStale
<1> QED BY <1>3, <1>4

\* Cleaning up keeps it: the row that Delete removes is closed.
LEMMA CleanKeeps ==
  ASSUME UploadInv, NEW a \in Agents,
         Clean(a) \/ CleanBlocked(a) \/ Delete(a) \/ AgentDrops(a)
  PROVE  UploadInv'
<1> USE DEF UploadInv
<1>1. CASE Clean(a)
  <2>1. Closed
    BY <1>1 DEF Clean, At, AgentInv
  <2> QED BY <1>1, <2>1, MoveKeeps DEF Clean
<1>2. ASSUME Finished(a), UNCHANGED <<sess, files, comp>> PROVE UploadInv'
  BY <1>2, MoveKeeps DEF Finished
<1>3. CASE CleanBlocked(a) \/ AgentDrops(a)
  BY <1>2, <1>3 DEF CleanBlocked, AgentDrops
<1>4. CASE Delete(a)
  <2>1. CASE UNCHANGED sess
    BY <1>2, <1>4, <2>1 DEF Delete
  <2>2. CASE DeleteRow
    <3>1. Types /\ Closed
      BY <1>4 DEF Delete, At, AgentInv
    <3>2. sess' \in Row /\ sess'.status = "deleted" /\ sess'.kind = sess.kind
          /\ sess'.lossy = sess.lossy
      BY <2>2, <3>1, DeleteSets
    <3>3. RowEnds
      BY <1>4, <3>1, <3>2 DEF Delete, RowEnds, Closed, ActiveStatus
    <3>4. "done" \in AgentPcs
      BY DEF AgentPcs
    <3>5. CASE Goto(a, "done")
      BY <3>1, <3>2, <3>3, <3>4, <3>5, GotoSets, AgentStep
    <3>6. CASE Leave(a)
      BY <3>1, <3>2, <3>3, <3>6, LeaveSets, AgentStep
    <3> QED BY <1>4, <3>5, <3>6 DEF Delete, Finished
  <2> QED BY <1>4, <2>1, <2>2 DEF Delete
<1> QED BY <1>1, <1>3, <1>4

-----------------------------------------------------------------------------
\* A completion that moves on changes its own entry only.
LEMMA CompSets ==
  ASSUME Types, NEW c \in Completers, NEW pc \in CompPcs, comp' = [comp EXCEPT ![c] = pc]
  PROVE  /\ comp' \in [Completers -> CompPcs]
         /\ comp'[c] = pc
         /\ \A d \in Completers : d # c => comp'[d] = comp[d]
  BY DEF Types

\* The requests do not mind a completion's step that leaves a closed session closed.
LEMMA AgentsRest ==
  ASSUME AgentInv, agent' = agent, Closed => Closed'
  PROVE  AgentInv'
  BY DEF AgentInv

\* A step of a completion that leaves the row: it works on, or stops working.
LEMMA QuietKeeps ==
  ASSUME UploadInv, NEW c \in Completers, NEW pc \in CompPcs, comp' = [comp EXCEPT ![c] = pc],
         UNCHANGED <<sess, files, agent>>,
         \/ Working(c) /\ comp[c] # "committed"
         \/ pc \in {"idle", "ready"}
  PROVE  UploadInv'
<1> USE DEF UploadInv
<1>1. Types /\ comp' \in [Completers -> CompPcs] /\ comp'[c] = pc
      /\ \A d \in Completers : d # c => comp'[d] = comp[d]
  BY CompSets
<1>2. Types'
  BY <1>1 DEF Types
<1>3. \A d \in Completers : Working(d)' => Working(d)
  BY <1>1 DEF Working
<1>4. RowInv'
  <2>1. sess.status = "completed" /\ ~sess.lossy =>
          \A d \in Completers : Working(d)' => comp'[d] = "committed"
    BY <1>1 DEF RowInv, Working
  <2> QED BY <1>3, <2>1 DEF RowInv, Made
<1>5. AgentInv'
  BY AgentsRest DEF Closed
<1> QED BY <1>2, <1>4, <1>5

\* The claim of a completion: no other is working, and nobody is cleaning up.
LEMMA ClaimKeeps ==
  ASSUME UploadInv, NEW c \in Completers, CompleteClaim(c)
  PROVE  UploadInv'
<1> USE DEF UploadInv
<1>1. CASE sess.status = ActiveStatus(sess.kind) /\ ~Expired
  <2>1. PICK pc \in {"stored", "assemble"} : comp' = [comp EXCEPT ![c] = pc]
    BY <1>1 DEF CompleteClaim, CompGoto
  <2>2. pc \in CompPcs /\ "assembling" \in Statuses
    BY DEF CompPcs, Statuses
  <2>3. sess' = Transition("assembling") /\ UNCHANGED <<files, agent>>
    BY <1>1 DEF CompleteClaim
  <2>4. sess' \in Row /\ sess'.status = "assembling" /\ sess'.kind = sess.kind
        /\ sess'.lossy = sess.lossy
    BY <2>2, <2>3, TransitionSets
  <2>5. comp' \in [Completers -> CompPcs] /\ \A d \in Completers : d # c => comp'[d] = comp[d]
    BY <2>1, <2>2, CompSets
  <2>6. Types'
    BY <2>3, <2>4, <2>5 DEF Types
  <2>7. \A d \in Completers : ~Working(d) /\ ~Made(d)
    BY <1>1 DEF RowInv, ActiveStatus
  <2>8. \A d \in Completers : Working(d)' => d = c
    BY <2>5, <2>7 DEF Working
  <2>9. RowInv'
    BY <2>3, <2>4, <2>7, <2>8 DEF RowInv, Made, ActiveStatus
  <2>10. AgentInv'
    BY <1>1, <2>3, AgentsRest DEF Closed, Expired, ActiveStatus
  <2> QED BY <2>6, <2>9, <2>10
<1>2. CASE ~(sess.status = ActiveStatus(sess.kind) /\ ~Expired)
  BY <1>2, QuietKeeps DEF CompleteClaim, CompGoto, CompPcs
<1> QED BY <1>1, <1>2

\* The transaction that makes the file, whether or not its answer arrives.
LEMMA CommitKeeps ==
  ASSUME UploadInv, NEW c \in Completers, NEW pc \in {"committed", "fatal"},
         comp[c] = "stored", sess.status = "assembling", sess' = Transition("completed"),
         files' = [files EXCEPT ![c] = FileObject], comp' = [comp EXCEPT ![c] = pc],
         agent' = agent, pc = "fatal" => sess.lossy
  PROVE  UploadInv'
<1> USE DEF UploadInv
<1>1. pc \in CompPcs /\ "completed" \in Statuses /\ Working(c)
  BY DEF CompPcs, Statuses, Working
<1>2. sess' \in Row /\ sess'.status = "completed" /\ sess'.kind = sess.kind
      /\ sess'.lossy = sess.lossy
  BY <1>1, TransitionSets
<1>3. comp' \in [Completers -> CompPcs] /\ comp'[c] = pc
      /\ \A d \in Completers : d # c => comp'[d] = comp[d]
  BY <1>1, CompSets
<1>4. FileObject \in {"temp", "final"}
  BY DEF FileObject
<1>5. files' \in [Completers -> {"none", "temp", "final"}] /\ files'[c] = FileObject
      /\ \A d \in Completers : d # c => files'[d] = files[d]
  BY <1>4 DEF Types
<1>6. Types'
  BY <1>2, <1>3, <1>5 DEF Types
<1>7. \A d \in Completers : (Working(d) => d = c) /\ ~Made(d)
  BY <1>1 DEF RowInv
<1>8. \A d \in Completers : Working(d)' => d = c
  BY <1>3, <1>7 DEF Working
<1>9. \A d \in Completers : Made(d)' <=> d = c
  BY <1>4, <1>5, <1>7 DEF Made
<1>10. RowInv'
  BY <1>2, <1>3, <1>8, <1>9 DEF RowInv, ActiveStatus
<1>11. AgentInv'
  BY AgentsRest DEF Closed, ActiveStatus
<1> QED BY <1>6, <1>10, <1>11

\* The status a failed completion leaves: the one to try again from, or failed.
LEMMA BackKeeps ==
  ASSUME UploadInv, NEW c \in Completers, RestoreStatus(c) \/ MarkFailed(c)
  PROVE  UploadInv'
<1> USE DEF UploadInv
<1>1. Types /\ comp' = [comp EXCEPT ![c] = "idle"] /\ "idle" \in CompPcs /\ Working(c)
      /\ UNCHANGED <<files, agent>>
  BY DEF RestoreStatus, MarkFailed, CompGoto, CompAt, CompPcs, Working
<1>2. comp' \in [Completers -> CompPcs] /\ comp'[c] = "idle"
      /\ \A d \in Completers : d # c => comp'[d] = comp[d]
  BY <1>1, CompSets
<1>3. \A d \in Completers : ~Working(d)'
  BY <1>1, <1>2 DEF RowInv, Working
<1>4. CASE sess' = sess
  BY <1>1, <1>4, QuietKeeps
<1>5. CASE RestoreStatus(c) /\ sess' # sess
  <2>1. sess.status = "assembling" /\ sess' = Transition(ActiveStatus(sess.kind))
    BY <1>5 DEF RestoreStatus
  <2>2. ActiveStatus(sess.kind) \in Statuses
    BY DEF ActiveStatus, Statuses
  <2>3. sess' \in Row /\ sess'.status = ActiveStatus(sess.kind) /\ sess'.kind = sess.kind
        /\ sess'.lossy = sess.lossy
    BY <1>1, <2>1, <2>2, TransitionSets
  <2>4. Types'
    BY <1>1, <1>2, <2>3 DEF Types
  <2>5. \A d \in Completers : ~Made(d)
    BY <2>1 DEF RowInv
  <2>6. sess'.status = ActiveStatus(sess'.kind) /\ sess'.status # "completed"
    BY <2>3 DEF ActiveStatus
  <2>7. RowInv'
    BY <1>1, <1>3, <2>5, <2>6 DEF RowInv, Made
  <2>8. AgentInv'
    BY <1>1, <2>1, AgentsRest DEF Closed, ActiveStatus
  <2> QED BY <2>4, <2>7, <2>8
<1>6. CASE MarkFailed(c) /\ sess' # sess
  <2>1. comp[c] = "fatal" /\ sess' = Transition("failed") /\ "failed" \in Statuses
    BY <1>6 DEF MarkFailed, CompAt, Statuses
  <2>2. sess' \in Row /\ sess'.status = "failed" /\ sess'.kind = sess.kind
        /\ sess'.lossy = sess.lossy
    BY <1>1, <2>1, TransitionSets
  <2>3. Types'
    BY <1>1, <1>2, <2>2 DEF Types
  <2>4. ~sess.lossy => \A d \in Completers : ~Made(d)
    BY <1>1, <2>1 DEF RowInv, Working
  <2>5. RowInv'
    BY <1>1, <1>3, <2>2, <2>4 DEF RowInv, Made, ActiveStatus
  <2>6. AgentInv'
    BY <1>1, <2>2, AgentsRest, ClosedKeeps
  <2> QED BY <2>3, <2>5, <2>6
<1> QED BY <1>4, <1>5, <1>6

\* Every step of a completion keeps the invariant.
LEMMA CompleteKeeps ==
  ASSUME UploadInv, NEW c \in Completers,
         CompleteRead(c) \/ CompleteWork(c) \/ RefreshLease(c) \/ CompleterDrops(c)
  PROVE  UploadInv'
<1> USE DEF UploadInv
<1>1. CASE CompleteRead(c) \/ CompleterDrops(c)
  BY <1>1, QuietKeeps DEF CompleteRead, CompleterDrops, CompGoto, CompPcs
<1>2. CASE StoreCopy(c) \/ VerifyParts(c)
  BY <1>2, QuietKeeps DEF StoreCopy, VerifyParts, CompGoto, CompAt, CompPcs, Working
<1>3. CASE CompleteParts(c) \/ StoreFails(c)
  BY <1>3, QuietKeeps DEF CompleteParts, StoreFails, CompGoto, CompAt, CompPcs, Working
<1>4. CASE FinalizeRollsBack(c) \/ CompleteTidies(c)
  BY <1>4, QuietKeeps DEF FinalizeRollsBack, CompleteTidies, CompGoto, CompAt, CompPcs, Working
<1>5. CASE Finalize(c)
  BY <1>5, CommitKeeps DEF Finalize, CompGoto, CompAt
<1>6. CASE FinalizeUnknown(c)
  <2>1. CASE UNCHANGED <<sess, files>>
    BY <1>6, <2>1, QuietKeeps DEF FinalizeUnknown, CompGoto, CompAt, CompPcs, Working
  <2>2. CASE ~UNCHANGED <<sess, files>>
    BY <1>6, <2>2, CommitKeeps DEF FinalizeUnknown, CompGoto, CompAt
  <2> QED BY <2>1, <2>2
<1>7. CASE RefreshLease(c) /\ sess.status = "assembling"
  <2>1. sess' \in Row /\ sess'.status = sess.status /\ sess'.kind = sess.kind
        /\ sess'.lossy = sess.lossy /\ sess'.ttl = sess.ttl
    BY SMTT(60), Z3T(60), <1>7 DEF RefreshLease, Types, Row
  <2>2. RowEnds /\ agent' = agent
    BY <1>7, <2>1 DEF RefreshLease, RowEnds
  <2>3. Types'
    BY <2>1, <2>2 DEF Types, RowEnds
  <2> QED BY <2>1, <2>2, <2>3, RowEndsKeeps, AgentsRest, ClosedKeeps
<1>8. CASE RefreshLease(c) /\ sess.status # "assembling"
  BY <1>8, QuietKeeps DEF RefreshLease, CompGoto, CompPcs
<1>9. CASE CompleteClaim(c) \/ RestoreStatus(c) \/ MarkFailed(c)
  BY <1>9, ClaimKeeps, BackKeeps
<1> QED BY <1>1, <1>2, <1>3, <1>4, <1>5, <1>6, <1>7, <1>8, <1>9 DEF CompleteWork

\* The browser and the clock, and steps of other parts of the system.
LEMMA RestKeeps ==
  ASSUME UploadInv, BrowserPut \/ UploadTick \/ UNCHANGED upVars
  PROVE  UploadInv'
<1> USE DEF UploadInv
<1>1. sess' \in Row /\ sess'.status = sess.status /\ sess'.kind = sess.kind
      /\ sess'.lossy = sess.lossy /\ (sess.ttl = 0 => sess'.ttl = 0)
  BY TickSets DEF BrowserPut, upVars, Types
<1>2. RowEnds /\ agent' = agent
  BY <1>1 DEF BrowserPut, UploadTick, upVars, RowEnds
<1>3. Types'
  BY <1>1, <1>2 DEF Types, RowEnds
<1> QED BY <1>1, <1>2, <1>3, RowEndsKeeps, AgentsRest, ClosedKeeps

-----------------------------------------------------------------------------
\* The invariant holds throughout.
THEOREM UploadInvHolds == UploadSpec => []UploadInv
<1>1. UploadInv /\ [UploadNext]_upVars => UploadInv'
  <2> SUFFICES ASSUME UploadInv, [UploadNext]_upVars PROVE UploadInv'
    OBVIOUS
  <2> QED
    BY PutKeeps, CancelKeeps, SweepKeeps, CleanKeeps, CompleteKeeps, RestKeeps DEF UploadNext
<1> QED BY <1>1, InitInv, PTL DEF UploadSpec

\* However many PUTs, completions, cancels and sweeps work on a session at once, it
\* makes one file at most; it reads completed only with one, and, unless the answer to
\* a COMMIT was lost, a session that does not read completed has none.
THEOREM SessionMakesOneFile == UploadSpec => []OneFilePerSession
<1>1. UploadInv => OneFilePerSession
  <2> SUFFICES ASSUME UploadInv PROVE OneFilePerSession
    OBVIOUS
  <2> DEFINE done == {c \in Completers : files[c] # "none"}
  <2>1. \A c, d \in done : c = d
    BY DEF UploadInv, RowInv, Made
  <2>2. Cardinality(done) <= 1
    <3>1. CASE done = {}
      BY SMTT(60), Z3T(60), <3>1, FS_EmptySet
    <3>2. CASE done # {}
      <4>1. PICK c \in done : done = {c}
        BY <2>1, <3>2
      <4>2. Cardinality(done) = 1
        BY <4>1, FS_Singleton
      <4> QED BY SMTT(60), Z3T(60), <4>2
    <3> QED BY <3>1, <3>2
  <2>3. sess.status = "completed" => done # {}
    BY DEF UploadInv, RowInv, Made
  <2>4. sess.status # "completed" /\ ~sess.lossy => done = {}
    BY DEF UploadInv, RowInv, Made
  <2> QED BY <2>2, <2>3, <2>4 DEF OneFilePerSession
<1> QED BY <1>1, UploadInvHolds, PTL

\* No step unmakes a file.
LEMMA FilesStay ==
  ASSUME Types, [UploadNext]_upVars, NEW c \in Completers, Made(c)
  PROVE  Made(c)' /\ sess'.lossy = sess.lossy
<1> USE UploadAssumption
<1>1. CASE UNCHANGED upVars \/ BrowserPut \/ SweepRead
  BY <1>1 DEF upVars, BrowserPut, SweepRead, Made
<1>2. CASE UploadTick
  BY <1>2, TickSets DEF UploadTick, Made
<1>3. CASE SweepStale
  BY <1>3, FailSets DEF SweepStale, Made
<1>4. ASSUME NEW p \in Putters, PutNext(p) PROVE Made(c)' /\ sess'.lossy = sess.lossy
  <2>1. files' = files
    BY <1>4 DEF PutNext, PutStaged, PutClaim, PutRefused, PutWrite, PutReceipt, PutRelay,
                PutRelayCommit, PutTerminate
  <2>2. \/ sess' = sess \/ sess' = FailWithExpiration(Grace)
        \/ sess' = [sess EXCEPT !.count = @ + 1, !.age = 0]
    BY <1>4 DEF PutNext, PutStaged, PutClaim, PutRefused, PutWrite, PutReceipt, PutRelay,
                PutRelayCommit, PutTerminate
  <2> QED BY <2>1, <2>2, FailSets, CountSets DEF Made
<1>5. ASSUME NEW k \in Cancels, CancelRead(k) \/ CancelClaim(k)
      PROVE  Made(c)' /\ sess'.lossy = sess.lossy
  BY <1>5, FailSets DEF CancelRead, CancelClaim, Made
<1>6. ASSUME NEW a \in Agents, Clean(a) \/ CleanBlocked(a) \/ Delete(a) \/ AgentDrops(a)
      PROVE  Made(c)' /\ sess'.lossy = sess.lossy
  BY <1>6, DeleteSets DEF Clean, CleanBlocked, Delete, AgentDrops, Made
<1>7. ASSUME NEW d \in Completers,
             CompleteRead(d) \/ CompleteWork(d) \/ RefreshLease(d) \/ CompleterDrops(d)
      PROVE  Made(c)' /\ sess'.lossy = sess.lossy
  <2>1. files' = files \/ files' = [files EXCEPT ![d] = FileObject]
    BY <1>7 DEF CompleteRead, CompleteWork, RefreshLease, CompleterDrops, CompleteClaim,
         StoreCopy, VerifyParts, CompleteParts, StoreFails, Finalize, FinalizeRollsBack,
         FinalizeUnknown, CompleteTidies, RestoreStatus, MarkFailed
  <2>2. Made(c)'
    BY <2>1 DEF Made, FileObject, Types
  <2>3. \/ sess' = sess \/ \E st \in Statuses : sess' = Transition(st)
        \/ sess' = [sess EXCEPT !.age = 0]
    BY <1>7 DEF CompleteRead, CompleteWork, RefreshLease, CompleterDrops, CompleteClaim,
         StoreCopy, VerifyParts, CompleteParts, StoreFails, Finalize, FinalizeRollsBack,
         FinalizeUnknown, CompleteTidies, RestoreStatus, MarkFailed, Statuses, ActiveStatus
  <2>4. [sess EXCEPT !.age = 0].lossy = sess.lossy
    BY DEF Types, Row
  <2> QED BY <2>2, <2>3, <2>4, TransitionSets
<1> QED BY <1>1, <1>2, <1>3, <1>4, <1>5, <1>6, <1>7 DEF UploadNext

\* "Completed sessions are retained" (upload_session_repo.rs) as long as every COMMIT is
\* answered: then no step of any request takes a session out of "completed".
THEOREM AnsweredStaysCompleted ==
  UploadSpec => [][sess.status = "completed" /\ ~sess.lossy => sess'.status = "completed"]_upVars
<1>1. UploadInv /\ UploadInv' /\ [UploadNext]_upVars =>
          [sess.status = "completed" /\ ~sess.lossy => sess'.status = "completed"]_upVars
  <2> SUFFICES ASSUME UploadInv, UploadInv', [UploadNext]_upVars,
                      sess.status = "completed", ~sess.lossy
               PROVE  sess'.status = "completed"
    OBVIOUS
  <2>1. PICK c \in Completers : Made(c)
    BY DEF UploadInv, RowInv
  <2>2. Made(c)' /\ ~sess'.lossy
    BY <2>1, FilesStay DEF UploadInv
  <2> QED BY <2>2 DEF UploadInv, RowInv
<1> QED BY <1>1, UploadInvHolds, PTL DEF UploadSpec


-----------------------------------------------------------------------------
(* What the chunks, the provider's objects and the files hold.             *)

\* The types of the chunks, the staging directory and the provider.
Stores == [open : BOOLEAN, parts : SUBSET Parts, temp : SUBSET Parts,
           final : [Completers -> SUBSET Parts]]

ContentTypes ==
    /\ part \in [Parts -> {"none", "claimed", "done"}]
    /\ staged \in [dir : BOOLEAN, written : SUBSET Parts]
    /\ store \in Stores

\* The kinds whose file is the object at object_temp_key.
InPlace == sess.kind \in {"relay", "parts", "direct"}

RemoteGone == ~store.open /\ store.temp = {} /\ store.parts = {}

\* Whoever is about to delete the row has cleaned the provider up, and nothing of these
\* kinds can be uploaded again.
RemoteInv ==
    InPlace /\ (sess.status = "deleted" \/ \E a \in Agents : agent[a].pc = "delete") => RemoteGone

\* A PUT with a chunk under way, and what the chunk's row says meanwhile.
Putting(p) == agent[p].pc \in {"write", "receipt", "relay", "stored"}
Reserved == IF sess.kind = "staging" THEN "none" ELSE "claimed"
Done == {n \in Parts : part[n] = "done"}

\* A chunk under way is not stored yet, nobody else has it, and what is stored is written.
ChunkInv ==
    /\ \A p \in Putters :
          /\ agent[p].pc \in {"write", "receipt"} => sess.kind = "staging"
          /\ agent[p].pc \in {"relay", "stored"} => sess.kind = "relay"
          /\ Putting(p) => Chunk(p) \in Parts
    /\ sess.status # "deleted" =>
          /\ \A p \in Putters : Putting(p) => part[Chunk(p)] = Reserved
          /\ \A p, q \in Putters : Putting(p) /\ Putting(q) /\ Chunk(p) = Chunk(q) => p = q
          /\ sess.kind = "staging" /\ staged.dir =>
                /\ Done \subseteq staged.written
                /\ \A p \in Putters : agent[p].pc = "receipt" => Chunk(p) \in staged.written

\* received_count and the stored chunks; the deleted row has none.
CountInv ==
    /\ sess.status = "deleted" => Done = {}
    /\ sess.status # "deleted" /\ sess.kind \in {"staging", "relay"} =>
          /\ sess.count >= Cardinality(Done)
          /\ sess.kind = "staging" \/ ~sess.lossy => sess.count = Cardinality(Done)

\* A completion has the whole content in its hands from the step that verified it to
\* the commit.
ObjectInv ==
    /\ sess.kind = "single" => store.temp \in {{}, Parts}
    /\ \A c \in Completers :
          /\ sess.kind = "direct" => comp[c] \notin {"assemble", "verified", "retryable"}
          /\ comp[c] = "verified" => Multipart
          /\ comp[c] = "verified" /\ sess.status = "assembling" /\ store.open => store.parts = Parts
          /\ comp[c] = "stored" /\ ~InPlace => store.final[c] = Parts
          /\ comp[c] = "stored" /\ InPlace /\ sess.status = "assembling" => store.temp = Parts
          /\ comp[c] = "ready" /\ sess.kind = "direct" /\ sess.status = "uploading" /\ ~Expired =>
                store.temp = Parts

\* Once a file is made no completion gets at its object.
FileInv ==
    /\ \A c, d \in Completers : Made(c) => comp[d] \notin {"assemble", "verified", "stored"}
    /\ \A c \in Completers :
          /\ files[c] = "final" => ~InPlace /\ store.final[c] = Parts
          /\ files[c] = "temp" => InPlace /\ (~sess.lossy => store.temp = Parts)

ContentInv == ContentTypes /\ RemoteInv /\ ChunkInv /\ CountInv /\ ObjectInv /\ FileInv


\* What the updates of the provider's state set, and what they leave.
LEMMA StoreSets ==
  ASSUME store \in Stores
  PROVE  /\ store.open \in BOOLEAN /\ store.parts \in SUBSET Parts /\ store.temp \in SUBSET Parts
         /\ store.final \in [Completers -> SUBSET Parts]
         /\ \A t \in SUBSET Parts :
               LET s == [store EXCEPT !.temp = t] IN
               /\ s \in Stores /\ s.temp = t
               /\ s.open = store.open /\ s.parts = store.parts /\ s.final = store.final
         /\ \A ps \in SUBSET Parts :
               LET s == [store EXCEPT !.parts = ps] IN
               /\ s \in Stores /\ s.parts = ps
               /\ s.open = store.open /\ s.temp = store.temp /\ s.final = store.final
         /\ \A c \in Completers, t \in SUBSET Parts :
               LET s == [store EXCEPT !.final[c] = t] IN
               /\ s \in Stores /\ s.final[c] = t
               /\ \A d \in Completers : d # c => s.final[d] = store.final[d]
               /\ s.open = store.open /\ s.temp = store.temp /\ s.parts = store.parts
BY DEF Stores

\* The same of an upload that is aborted, completed or cleaned up.
LEMMA StoreCloses ==
  ASSUME store \in Stores
  PROVE  /\ LET s == [store EXCEPT !.open = FALSE, !.parts = {}] IN
            s \in Stores /\ ~s.open /\ s.parts = {} /\ s.temp = store.temp /\ s.final = store.final
         /\ Cleaned \in Stores /\ ~Cleaned.open /\ Cleaned.parts = {} /\ Cleaned.temp = {}
         /\ Cleaned.final = store.final
         /\ LET s == [store EXCEPT !.open = FALSE, !.temp = store.parts, !.parts = {}] IN
            /\ s \in Stores /\ ~s.open /\ s.parts = {} /\ s.temp = store.parts
            /\ s.final = store.final
         /\ LET s == [store EXCEPT !.temp = Parts, !.open = FALSE] IN
            /\ s \in Stores /\ ~s.open /\ s.temp = Parts /\ s.parts = store.parts
            /\ s.final = store.final
<1> DEFINE a == [store EXCEPT !.open = FALSE]
           b == [a EXCEPT !.parts = {}]
           e == [a EXCEPT !.temp = store.parts]
<1>1. /\ a \in Stores /\ ~a.open /\ a.temp = store.temp /\ a.parts = store.parts
      /\ a.final = store.final /\ store.parts \in SUBSET Parts
  BY DEF Stores
<1> HIDE DEF a
<1>2. b \in Stores /\ ~b.open /\ b.temp = store.temp /\ b.parts = {} /\ b.final = store.final
  BY <1>1 DEF Stores
<1>3. e \in Stores /\ ~e.open /\ e.temp = store.parts /\ e.parts = store.parts /\ e.final = store.final
  BY <1>1 DEF Stores
<1>4. [store EXCEPT !.open = FALSE, !.parts = {}] = b
  BY DEF a
<1> HIDE DEF b, e
<1>5. Cleaned = [b EXCEPT !.temp = {}]
  BY DEF Cleaned, a, b
<1>6. [store EXCEPT !.open = FALSE, !.temp = store.parts, !.parts = {}] = [e EXCEPT !.parts = {}]
  BY DEF a, e
<1>7. [store EXCEPT !.temp = Parts, !.open = FALSE] = [[store EXCEPT !.temp = Parts] EXCEPT !.open = FALSE]
  OBVIOUS
<1>8. /\ Cleaned \in Stores /\ ~Cleaned.open /\ Cleaned.parts = {} /\ Cleaned.temp = {}
      /\ Cleaned.final = store.final
  BY <1>2, <1>5 DEF Stores
<1> DEFINE g == [e EXCEPT !.parts = {}]
           t == [store EXCEPT !.temp = Parts]
           u == [t EXCEPT !.open = FALSE]
<1>9. g \in Stores /\ ~g.open /\ g.parts = {} /\ g.temp = store.parts /\ g.final = store.final
  BY <1>3 DEF Stores
<1>10. t \in Stores /\ t.temp = Parts /\ t.parts = store.parts /\ t.final = store.final
  BY DEF Stores
<1> HIDE DEF t
<1>11. u \in Stores /\ ~u.open /\ u.temp = Parts /\ u.parts = store.parts /\ u.final = store.final
  BY <1>10 DEF Stores
<1> QED BY <1>2, <1>4, <1>6, <1>7, <1>8, <1>9, <1>11 DEF t


\* No step of these kinds brings back what was cleaned up, or cleans the row up first.
LEMMA RemoteKept ==
  ASSUME RemoteInv, sess'.kind = sess.kind,
         InPlace /\ RemoteGone => RemoteGone',
         sess'.status = "deleted" => sess.status = "deleted" \/ \E a \in Agents : agent[a].pc = "delete",
         \A a \in Agents : agent'[a].pc = "delete" => agent[a].pc = "delete" \/ (InPlace => RemoteGone')
  PROVE  RemoteInv'
BY DEF RemoteInv, InPlace

\* Steps that take no chunk: rows of chunks go with the session only, and the directory
\* is left alone or removed.
LEMMA ChunkKept ==
  ASSUME ChunkInv, CountInv, sess'.kind = sess.kind, sess'.lossy = sess.lossy,
         sess'.status # "deleted" => /\ sess.status # "deleted" /\ part' = part
                                     /\ sess'.count = sess.count,
         sess'.status = "deleted" => Done' = {} \/ (sess.status = "deleted" /\ part' = part),
         staged'.dir => staged' = staged,
         \A p \in Putters : Putting(p)' => agent'[p] = agent[p]
  PROVE  ChunkInv' /\ CountInv'
<1>1. \A p \in Putters : Putting(p)' => Putting(p) /\ agent'[p] = agent[p] /\ Chunk(p)' = Chunk(p)
  BY DEF Putting, Chunk
<1>2. \A p \in Putters : /\ agent'[p].pc \in {"write", "receipt"} => sess'.kind = "staging"
                         /\ agent'[p].pc \in {"relay", "stored"} => sess'.kind = "relay"
                         /\ Putting(p)' => Chunk(p)' \in Parts
  BY <1>1 DEF Putting, ChunkInv
<1>3. ASSUME sess'.status # "deleted"
      PROVE  /\ \A p \in Putters : Putting(p)' => part'[Chunk(p)'] = Reserved'
             /\ \A p, q \in Putters : Putting(p)' /\ Putting(q)' /\ Chunk(p)' = Chunk(q)' => p = q
             /\ sess'.kind = "staging" /\ staged'.dir =>
                   /\ Done' \subseteq staged'.written
                   /\ \A p \in Putters : agent'[p].pc = "receipt" => Chunk(p)' \in staged'.written
  <2>1. /\ \A p \in Putters : Putting(p)' => part'[Chunk(p)'] = Reserved'
        /\ \A p, q \in Putters : Putting(p)' /\ Putting(q)' /\ Chunk(p)' = Chunk(q)' => p = q
    BY SMTT(60), Z3T(60), <1>1, <1>3 DEF ChunkInv, Reserved
  <2>2. \A p \in Putters : agent'[p].pc = "receipt" => Putting(p)'
    BY DEF Putting
  <2>3. sess'.kind = "staging" /\ staged'.dir =>
                   /\ Done' \subseteq staged'.written
                   /\ \A p \in Putters : agent'[p].pc = "receipt" => Chunk(p)' \in staged'.written
    BY SMTT(60), Z3T(60), <1>1, <1>3, <2>2 DEF ChunkInv, Done
  <2> QED BY <2>1, <2>3
<1>4. ChunkInv'
  BY <1>2, <1>3 DEF ChunkInv
<1>5. CountInv'
  BY DEF CountInv, Done
<1> QED BY <1>4, <1>5

Grows ==
    store.temp \subseteq store'.temp /\ store.parts \subseteq store'.parts
    /\ (store'.open => store.open)

\* Steps of requests that are not completions, or of nobody: what a completion holds
\* only grows, unless the session is closed.
LEMMA ObjectKept ==
  ASSUME UploadInv, UploadInv', ContentTypes', ObjectInv, FileInv, comp' = comp, files' = files,
         sess'.kind = sess.kind, sess'.lossy = sess.lossy,
         \/ sess'.status \in {"failed", "deleted"}
         \/ sess'.status = sess.status /\ (sess.ttl = 0 => sess'.ttl = 0),
         store'.final = store.final,
         sess.kind = "single" => store'.temp \in {{}, Parts},
         Grows \/ Closed
  PROVE  ObjectInv' /\ FileInv'
<1>1. store'.temp \subseteq Parts /\ store'.parts \subseteq Parts
  BY DEF ContentTypes, Stores
<1>2. sess'.status = "assembling" => Grows /\ sess.status = "assembling"
  BY DEF Closed, ActiveStatus
<1>3. sess'.status = "completed" => Grows
  BY DEF Closed, ActiveStatus
<1>4. sess.kind = "direct" /\ sess'.status = "uploading" /\ ~Expired' =>
         Grows /\ sess.status = "uploading" /\ ~Expired
  BY DEF Closed, ActiveStatus, Expired
<1>5. InPlace' = InPlace /\ Multipart' = Multipart
  BY DEF InPlace, Multipart
<1>6. ObjectInv'
  <2> SUFFICES ASSUME NEW c \in Completers
               PROVE  /\ sess.kind = "direct" => comp[c] \notin {"assemble", "verified", "retryable"}
                      /\ comp[c] = "verified" => Multipart
                      /\ comp[c] = "verified" /\ sess'.status = "assembling" /\ store'.open =>
                            store'.parts = Parts
                      /\ comp[c] = "stored" /\ ~InPlace => store'.final[c] = Parts
                      /\ comp[c] = "stored" /\ InPlace /\ sess'.status = "assembling" =>
                            store'.temp = Parts
                      /\ comp[c] = "ready" /\ sess.kind = "direct" /\ sess'.status = "uploading"
                         /\ ~Expired' => store'.temp = Parts
    BY <1>5 DEF ObjectInv
  <2> QED BY <1>1, <1>2, <1>4 DEF ObjectInv, Grows
<1>7. FileInv'
  <2>1. \A c \in Completers : Made(c)' = Made(c) /\ (Made(c) /\ ~sess.lossy => Grows)
    BY <1>3 DEF Made, UploadInv, RowInv
  <2> QED BY <1>1, <1>5, <2>1 DEF FileInv, Grows, Made
<1> QED BY <1>6, <1>7


\* Steps that touch neither chunks nor objects.
LEMMA QuietContent ==
  ASSUME UploadInv, UploadInv', ContentInv, UNCHANGED <<part, store, files, comp>>,
         staged' = staged \/ staged' = [dir |-> FALSE, written |-> {}],
         sess'.kind = sess.kind, sess'.lossy = sess.lossy, sess'.count = sess.count,
         \/ sess'.status = "failed" /\ sess.status # "deleted"
         \/ sess'.status = sess.status /\ (sess.ttl = 0 => sess'.ttl = 0),
         \A a \in Agents : agent'[a].pc = "delete" => agent[a].pc = "delete",
         \A p \in Putters : Putting(p)' => agent'[p] = agent[p]
  PROVE  ContentInv'
<1> USE DEF ContentInv
<1>0. [dir |-> FALSE, written |-> {}] \in [dir : BOOLEAN, written : SUBSET Parts]
  OBVIOUS
<1>1. ContentTypes'
  BY <1>0 DEF ContentTypes
<1>2. RemoteInv'
  BY RemoteKept DEF RemoteGone
<1>3. staged'.dir => staged' = staged
  BY SMTT(60), Z3T(60)
<1>4. ChunkInv' /\ CountInv'
  BY <1>3, ChunkKept
<1>5. sess.kind = "single" => store'.temp \in {{}, Parts}
  BY DEF ObjectInv
<1>6. ObjectInv' /\ FileInv'
  BY <1>1, <1>5, ObjectKept DEF Grows
<1> QED BY <1>1, <1>2, <1>4, <1>6

\* A request that moves on, or leaves, without a chunk.
LEMMA Moving ==
  ASSUME Types, NEW a \in Agents, NEW pc \in AgentPcs, Leave(a) \/ Goto(a, pc),
         pc \notin {"write", "receipt", "relay", "stored", "delete"}
  PROVE  /\ \A b \in Agents : agent'[b].pc = "delete" => agent[b].pc = "delete"
         /\ \A p \in Putters : Putting(p)' => agent'[p] = agent[p] /\ p # a
<1>1. \A p \in Putters : p \in Agents
  BY DEF Agents
<1>2. /\ agent'[a].pc \in {"idle", pc}
      /\ \A b \in Agents : b # a => agent'[b] = agent[b]
  BY GotoSets, LeaveSets
<1> QED BY <1>1, <1>2 DEF Putting

\* One that starts.
LEMMA Starting ==
  ASSUME Types, NEW a \in Agents, NEW g \in AgentType, agent' = [agent EXCEPT ![a] = g],
         g.pc \notin {"write", "receipt", "relay", "stored", "delete"}
  PROVE  /\ \A b \in Agents : agent'[b].pc = "delete" => agent[b].pc = "delete"
         /\ \A p \in Putters : Putting(p)' => agent'[p] = agent[p]
<1>1. \A p \in Putters : p \in Agents
  BY DEF Agents
<1>2. agent'[a] = g /\ \A b \in Agents : b # a => agent'[b] = agent[b]
  BY StartSets
<1> QED BY <1>1, <1>2 DEF Putting

\* Cancels, sweeps, and PUTs that are refused or end the session.
LEMMA EndingContent ==
  ASSUME UploadInv, UploadInv', ContentInv,
         \/ \E k \in Cancels : CancelRead(k) \/ CancelClaim(k)
         \/ SweepRead \/ SweepStale \/ UploadTick
         \/ \E p \in Putters : PutRefused(p) \/ PutTerminate(p)
         \/ \E a \in Agents : AgentDrops(a)
  PROVE  ContentInv'
<1>0. Types /\ sess.status \in Statuses /\ Grace \in Nat /\ LeaseTimeout \in Nat
      /\ Cancels \subseteq Agents /\ Putters \subseteq Agents /\ SweeperTask \in Agents
  BY UploadAssumption DEF UploadInv, Types, Row, Agents
<1>1. ASSUME NEW a \in Agents, NEW g \in AgentType, agent' = [agent EXCEPT ![a] = g],
             g.pc \notin {"write", "receipt", "relay", "stored", "delete"},
             UNCHANGED <<sess, part, staged, store, files, comp>>
      PROVE  ContentInv'
  BY <1>0, <1>1, Starting, QuietContent, ZenonT(30)
<1>2. ASSUME NEW a \in Agents, NEW pc \in AgentPcs, Leave(a) \/ Goto(a, pc),
             pc \notin {"write", "receipt", "relay", "stored", "delete"},
             UNCHANGED <<part, store, files, comp>>,
             staged' = staged \/ staged' = [dir |-> FALSE, written |-> {}],
             \/ sess' = sess
             \/ sess.status # "deleted" /\ \E t \in Nat : sess' = FailWithExpiration(t)
      PROVE  ContentInv'
  <2>1. /\ \A b \in Agents : agent'[b].pc = "delete" => agent[b].pc = "delete"
        /\ \A p \in Putters : Putting(p)' => agent'[p] = agent[p]
    BY <1>0, <1>2, Moving
  <2>2. /\ sess'.kind = sess.kind /\ sess'.lossy = sess.lossy /\ sess'.count = sess.count
        /\ \/ sess'.status = "failed" /\ sess.status # "deleted"
           \/ sess'.status = sess.status /\ (sess.ttl = 0 => sess'.ttl = 0)
    BY <1>0, <1>2, FailSets
  <2> QED BY <1>2, <2>1, <2>2, QuietContent
<1>3. ASSUME NEW k \in Cancels, CancelRead(k) PROVE ContentInv'
  <2> DEFINE g == [pc |-> "cancel", n |-> 0, seen |-> sess.status]
  <2>1. g \in AgentType /\ g.pc = "cancel" /\ agent' = [agent EXCEPT ![k] = g] /\ k \in Agents
    BY <1>0, <1>3 DEF AgentType, AgentPcs, CancelRead
  <2>2. UNCHANGED <<sess, part, staged, store, files, comp>>
    BY <1>3 DEF CancelRead
  <2> HIDE DEF g
  <2> QED BY <1>1, <2>1, <2>2
<1>4. ASSUME NEW k \in Cancels, CancelClaim(k) PROVE ContentInv'
  <2>1. k \in Agents /\ "done" \in AgentPcs /\ "clean" \in AgentPcs
    BY <1>0 DEF AgentPcs
  <2> QED BY <1>0, <1>2, <1>4, <2>1 DEF CancelClaim
<1>5. CASE SweepRead
  <2> DEFINE g == [pc |-> IF sess.status = "assembling" THEN "stale" ELSE "clean",
                   n |-> 0, seen |-> sess.status]
  <2>1. /\ g \in AgentType /\ g.pc \in {"stale", "clean"}
        /\ agent' = [agent EXCEPT ![SweeperTask] = g]
        /\ UNCHANGED <<sess, part, staged, store, files, comp>>
    BY <1>0, <1>5 DEF AgentType, AgentPcs, SweepRead
  <2> HIDE DEF g
  <2> QED BY <1>0, <1>1, <2>1
<1>6. CASE SweepStale
  <2>1. "clean" \in AgentPcs
    BY DEF AgentPcs
  <2> QED BY <1>0, <1>2, <1>6, <2>1 DEF SweepStale
<1>7. CASE UploadTick
  <2>1. /\ sess'.status = sess.status /\ sess'.kind = sess.kind /\ sess'.lossy = sess.lossy
        /\ (sess.ttl = 0 => sess'.ttl = 0) /\ sess'.count = sess.count
    BY <1>0, <1>7, TickSets
  <2>2. UNCHANGED <<part, staged, store, files, comp, agent>>
    BY <1>7 DEF UploadTick
  <2> QED BY <2>1, <2>2, QuietContent
<1>8. ASSUME NEW p \in Putters, PutRefused(p) PROVE ContentInv'
  <2> DEFINE g == [pc |-> "terminate", n |-> 0, seen |-> "uploading"]
  <2>1. g \in AgentType /\ g.pc = "terminate" /\ agent' = [agent EXCEPT ![p] = g] /\ p \in Agents
    BY <1>0, <1>8 DEF AgentType, AgentPcs, PutRefused, Statuses
  <2>2. UNCHANGED <<sess, part, staged, store, files, comp>>
    BY <1>8 DEF PutRefused
  <2> HIDE DEF g
  <2> QED BY <1>1, <2>1, <2>2
<1>9. ASSUME NEW p \in Putters, PutTerminate(p) PROVE ContentInv'
  <2>1. p \in Agents /\ "clean" \in AgentPcs
    BY <1>0 DEF AgentPcs
  <2>2. agent[p].seen = "uploading"
    BY <1>9, <2>1 DEF PutTerminate, At, UploadInv, AgentInv
  <2> QED BY <1>0, <1>2, <1>9, <2>1, <2>2 DEF PutTerminate
<1>10. ASSUME NEW a \in Agents, AgentDrops(a) PROVE ContentInv'
  <2>1. "done" \in AgentPcs
    BY DEF AgentPcs
  <2> QED BY <1>2, <1>10, <2>1 DEF AgentDrops, Finished
<1> QED BY <1>3, <1>4, <1>5, <1>6, <1>7, <1>8, <1>9, <1>10


\* Cleaning up: the session is closed, and the row goes after the provider's objects.
LEMMA CleaningContent ==
  ASSUME UploadInv, UploadInv', ContentInv, NEW a \in Agents,
         Clean(a) \/ CleanBlocked(a) \/ Delete(a)
  PROVE  ContentInv'
<1> USE DEF ContentInv
<1>0. /\ Types /\ store \in Stores /\ "done" \in AgentPcs /\ "delete" \in AgentPcs
      /\ [dir |-> FALSE, written |-> {}] \in [dir : BOOLEAN, written : SUBSET Parts]
      /\ Putters \subseteq Agents
  BY DEF UploadInv, ContentTypes, AgentPcs, Agents
<1>1. Closed /\ UNCHANGED <<files, comp>>
  BY DEF Clean, CleanBlocked, Delete, At, UploadInv, AgentInv
<1>2. ASSUME UNCHANGED <<sess, part, files, comp>>, staged' = [dir |-> FALSE, written |-> {}],
             store' \in Stores, store'.final = store.final, store'.temp \in {store.temp, {}},
             InPlace /\ RemoteGone => RemoteGone',
             \A b \in Agents : agent'[b].pc = "delete" =>
                 agent[b].pc = "delete" \/ (InPlace => RemoteGone'),
             \A p \in Putters : Putting(p)' => agent'[p] = agent[p]
      PROVE  ContentInv'
  <2>1. ContentTypes'
    BY <1>0, <1>2 DEF ContentTypes
  <2>2. RemoteInv'
    BY <1>2, RemoteKept
  <2>3. ~staged'.dir
    BY <1>2
  <2>4. ChunkInv' /\ CountInv'
    <3>1. staged'.dir => staged' = staged
      BY <2>3
    <3> QED BY <1>2, <3>1, ChunkKept
  <2>5. sess.kind = "single" => store'.temp \in {{}, Parts}
    BY <1>2 DEF ObjectInv
  <2>6. ObjectInv' /\ FileInv'
    BY <1>1, <1>2, <2>1, <2>5, ObjectKept
  <2> QED BY <2>1, <2>2, <2>4, <2>6
<1>3. CASE Clean(a)
  <2>1. Goto(a, "delete") /\ UNCHANGED <<sess, part, files, comp>>
        /\ staged' = [dir |-> FALSE, written |-> {}]
    BY <1>3 DEF Clean
  <2>2. agent'[a].pc = "delete" /\ \A b \in Agents : b # a => agent'[b] = agent[b]
    BY <1>0, <2>1, GotoSets
  <2>3. \A p \in Putters : Putting(p)' => agent'[p] = agent[p]
    BY <1>0, <2>2 DEF Putting
  <2>4. CASE sess.kind = "staging" /\ store' = store
    BY <1>0, <1>2, <2>1, <2>2, <2>3, <2>4, ZenonT(30) DEF InPlace
  <2>5. CASE store' = Cleaned
    <3>1. store' \in Stores /\ store'.final = store.final /\ store'.temp = {} /\ RemoteGone'
      BY <1>0, <2>5, StoreCloses DEF RemoteGone
    <3> QED BY <1>2, <2>1, <2>2, <2>3, <3>1
  <2> QED BY <1>3, <2>4, <2>5 DEF Clean
<1>4. CASE CleanBlocked(a)
  <2>1. Finished(a) /\ UNCHANGED <<sess, part, files, comp>>
        /\ staged' = [dir |-> FALSE, written |-> {}]
    BY <1>4 DEF CleanBlocked
  <2>2. /\ \A b \in Agents : agent'[b].pc = "delete" => agent[b].pc = "delete"
        /\ \A p \in Putters : Putting(p)' => agent'[p] = agent[p]
    BY <1>0, <2>1, Moving DEF Finished
  <2>3. CASE store' = store
    BY <1>0, <1>2, <2>1, <2>2, <2>3, ZenonT(30) DEF RemoteGone
  <2>4. CASE store' = [store EXCEPT !.open = FALSE, !.parts = {}]
    <3>1. /\ store' \in Stores /\ ~store'.open /\ store'.parts = {} /\ store'.temp = store.temp
          /\ store'.final = store.final
      BY <1>0, <2>4, StoreCloses
    <3>2. RemoteGone => RemoteGone'
      BY <3>1 DEF RemoteGone
    <3> QED BY <1>2, <2>1, <2>2, <3>1, <3>2
  <2> QED BY <1>4, <2>3, <2>4 DEF CleanBlocked
<1>5. CASE Delete(a)
  <2>1. Finished(a) /\ UNCHANGED <<staged, store, files, comp>> /\ agent[a].pc = "delete"
    BY <1>5 DEF Delete, At
  <2>2. /\ \A b \in Agents : agent'[b].pc = "delete" => agent[b].pc = "delete"
        /\ \A p \in Putters : Putting(p)' => agent'[p] = agent[p]
    BY <1>0, <2>1, Moving DEF Finished
  <2>3. CASE UNCHANGED <<sess, part>>
    BY <2>1, <2>2, <2>3, QuietContent
  <2>4. CASE DeleteRow
    <3>1. sess'.status = "deleted" /\ sess'.kind = sess.kind /\ sess'.lossy = sess.lossy
      BY <1>0, <2>4, DeleteSets
    <3>2. ContentTypes'
      BY <2>1, <2>4 DEF DeleteRow, ContentTypes
    <3>3. RemoteInv'
      BY <2>1, <2>2, <3>1, RemoteKept DEF RemoteGone
    <3>4. ChunkInv' /\ CountInv'
      <4>1. Done' = {}
        BY <2>4 DEF DeleteRow, Done
      <4> QED BY <2>1, <2>2, <3>1, <4>1, ChunkKept
    <3>5. sess.kind = "single" => store'.temp \in {{}, Parts}
      BY <2>1 DEF ObjectInv
    <3>6. ObjectInv' /\ FileInv'
      BY <1>1, <2>1, <3>1, <3>2, <3>5, ObjectKept
    <3> QED BY <3>2, <3>3, <3>4, <3>6
  <2> QED BY <1>5, <2>3, <2>4 DEF Delete
<1> QED BY <1>3, <1>4, <1>5

\* What the browser uploads.
LEMMA BrowserContent ==
  ASSUME UploadInv, UploadInv', ContentInv, BrowserPut
  PROVE  ContentInv'
<1> USE DEF ContentInv
<1>0. store \in Stores /\ UNCHANGED <<sess, part, staged, files, comp, agent>>
  BY DEF ContentTypes, BrowserPut
<1>1. ASSUME store' \in Stores, store'.final = store.final, Grows, ~InPlace \/ store.open,
             sess.kind = "single" => store'.temp \in {{}, Parts}
      PROVE  ContentInv'
  <2>1. ContentTypes'
    BY <1>0, <1>1 DEF ContentTypes
  <2>2. RemoteInv'
    BY <1>0, <1>1, RemoteKept DEF RemoteGone
  <2>3. ChunkInv' /\ CountInv'
    BY <1>0, ChunkKept
  <2>4. ObjectInv' /\ FileInv'
    BY <1>0, <1>1, <2>1, ObjectKept
  <2> QED BY <2>1, <2>2, <2>3, <2>4
<1>2. CASE sess.kind = "single" /\ store' = [store EXCEPT !.temp = Parts]
  <2>1. /\ store' \in Stores /\ store'.temp = Parts /\ store'.open = store.open
        /\ store'.parts = store.parts /\ store'.final = store.final /\ store.temp \subseteq Parts
    BY <1>0, <1>2, StoreSets
  <2> QED BY <1>1, <1>2, <2>1 DEF Grows, InPlace
<1>3. CASE /\ sess.kind = "direct" /\ store.open
           /\ store' = [store EXCEPT !.temp = Parts, !.open = FALSE]
  <2>1. /\ store' \in Stores /\ ~store'.open /\ store'.temp = Parts /\ store'.parts = store.parts
        /\ store'.final = store.final /\ store.temp \subseteq Parts
    BY <1>0, <1>3, StoreCloses, StoreSets
  <2> QED BY <1>1, <1>3, <2>1 DEF Grows
<1>4. CASE /\ sess.kind = "parts" /\ store.open
           /\ \E n \in Parts : store' = [store EXCEPT !.parts = @ \cup {n}]
  <2>1. PICK n \in Parts : store' = [store EXCEPT !.parts = store.parts \cup {n}]
    BY <1>4
  <2>2. store.parts \cup {n} \in SUBSET Parts
    BY <1>0, StoreSets
  <2>3. /\ store' \in Stores /\ store'.parts = store.parts \cup {n} /\ store'.open = store.open
        /\ store'.temp = store.temp /\ store'.final = store.final
    BY <1>0, <2>1, <2>2, StoreSets
  <2> QED BY <1>1, <1>4, <2>3 DEF Grows
<1> QED BY <1>2, <1>3, <1>4 DEF BrowserPut


\* A PUT that works on chunk n, and on nothing else.
LEMMA PuttingKept ==
  ASSUME ChunkInv, NEW p \in Putters, NEW n \in Parts,
         \A q \in Putters : q # p => agent'[q] = agent[q],
         sess'.kind = sess.kind, sess'.status = sess.status,
         agent'[p].pc \in {"write", "receipt"} => sess.kind = "staging",
         agent'[p].pc \in {"relay", "stored"} => sess.kind = "relay",
         Putting(p)' => agent'[p].n = n,
         sess.status # "deleted" =>
            /\ \A m \in Parts : m # n => part'[m] = part[m]
            /\ \A q \in Putters : q # p /\ Putting(q) => Chunk(q) # n
            /\ staged'.dir = staged.dir /\ staged.written \subseteq staged'.written
            /\ Putting(p)' => part'[n] = Reserved
            /\ sess.kind = "staging" /\ staged.dir =>
                  /\ part'[n] = "done" => n \in staged'.written
                  /\ agent'[p].pc = "receipt" => n \in staged'.written
  PROVE  ChunkInv'
<1>1. \A q \in Putters : q # p => /\ Putting(q)' = Putting(q) /\ Chunk(q)' = Chunk(q)
                                  /\ agent'[q].pc = agent[q].pc
  BY DEF Putting, Chunk
<1>2. Chunk(p)' = agent'[p].n /\ Reserved' = Reserved
  BY DEF Chunk, Reserved
<1>3. \A q \in Putters : /\ agent'[q].pc \in {"write", "receipt"} => sess'.kind = "staging"
                         /\ agent'[q].pc \in {"relay", "stored"} => sess'.kind = "relay"
                         /\ Putting(q)' => Chunk(q)' \in Parts
  BY <1>1, <1>2, ZenonT(30) DEF ChunkInv
<1>4. ASSUME sess'.status # "deleted"
      PROVE  /\ \A q \in Putters : Putting(q)' => part'[Chunk(q)'] = Reserved'
             /\ \A q, r \in Putters : Putting(q)' /\ Putting(r)' /\ Chunk(q)' = Chunk(r)' => q = r
             /\ sess'.kind = "staging" /\ staged'.dir =>
                   /\ Done' \subseteq staged'.written
                   /\ \A q \in Putters : agent'[q].pc = "receipt" => Chunk(q)' \in staged'.written
  <2>1. ASSUME NEW q \in Putters, Putting(q)' PROVE part'[Chunk(q)'] = Reserved'
    <3>1. CASE q = p
      BY <1>2, <1>4, <2>1, <3>1
    <3>2. CASE q # p
      <4>1. Putting(q) /\ Chunk(q) \in Parts /\ Chunk(q) # n /\ part[Chunk(q)] = Reserved
        BY <1>1, <1>4, <2>1, <3>2 DEF ChunkInv
      <4> QED BY <1>1, <1>2, <1>4, <3>2, <4>1
    <3> QED BY <3>1, <3>2
  <2>2. \A q, r \in Putters : Putting(q)' /\ Putting(r)' /\ Chunk(q)' = Chunk(r)' => q = r
    BY <1>1, <1>2, <1>4, SMTT(60), Z3T(60) DEF ChunkInv
  <2>3. ASSUME sess.kind = "staging", staged.dir PROVE Done' \subseteq staged'.written
    BY <1>4, <2>3 DEF ChunkInv, Done
  <2>4. ASSUME sess.kind = "staging", staged.dir, NEW q \in Putters, agent'[q].pc = "receipt"
        PROVE  Chunk(q)' \in staged'.written
    <3>1. CASE q = p
      BY <1>2, <1>4, <2>4, <3>1 DEF Putting
    <3>2. CASE q # p
      BY <1>1, <1>4, <2>4, <3>2 DEF ChunkInv
    <3> QED BY <3>1, <3>2
  <2> QED BY <1>4, <2>1, <2>2, <2>3, <2>4
<1> QED BY <1>3, <1>4 DEF ChunkInv

\* A PUT that is over with chunk n.
LEMMA PuttingEnds ==
  ASSUME ChunkInv, NEW p \in Putters, NEW n \in Parts,
         \A q \in Putters : q # p => agent'[q] = agent[q],
         sess'.kind = sess.kind, sess'.status = sess.status, ~Putting(p)', staged' = staged,
         sess.status # "deleted" => \A q \in Putters : q # p /\ Putting(q) => Chunk(q) # n,
         \A m \in Parts : m # n => part'[m] = part[m],
         sess.kind = "staging" /\ part'[n] = "done" => (staged.dir => n \in staged.written)
  PROVE  ChunkInv'
<1>1. agent'[p].pc \notin {"write", "receipt", "relay", "stored"}
  BY DEF Putting
<1> QED BY SMTT(60), Z3T(60), <1>1, PuttingKept

\* The count of the row, and the chunks whose row is done.
LEMMA Counting ==
  ASSUME UploadInv, ContentTypes, CountInv, sess'.kind = sess.kind, sess'.lossy = sess.lossy,
         sess'.status = sess.status,
         sess.status # "deleted" =>
            \/ Done' = Done /\ sess'.count = sess.count
            \/ Done' = Done /\ sess'.count = sess.count + 1 /\ sess.lossy /\ sess.kind = "relay"
            \/ \E n \in Parts : /\ n \notin Done /\ Done' = Done \cup {n}
                                /\ sess'.count = sess.count + 1,
         sess.status = "deleted" => Done' \subseteq Done
  PROVE  CountInv'
<1> SUFFICES ASSUME sess.status # "deleted", sess.kind \in {"staging", "relay"}
             PROVE  /\ sess'.count >= Cardinality(Done')
                    /\ sess.kind = "staging" \/ ~sess.lossy => sess'.count = Cardinality(Done')
  BY DEF CountInv
<1>1. IsFiniteSet(Done) /\ Cardinality(Done) \in Nat
  BY UploadAssumption, FS_Subset, FS_CardinalityType DEF Done
<1>2. /\ sess.count \in Int /\ sess.lossy \in BOOLEAN /\ sess.count >= Cardinality(Done)
      /\ sess.kind = "staging" \/ ~sess.lossy => sess.count = Cardinality(Done)
  BY DEF UploadInv, Types, Row, CountInv
<1>3. CASE Done' = Done /\ sess'.count = sess.count
  BY <1>2, <1>3
<1>4. CASE Done' = Done /\ sess'.count = sess.count + 1 /\ sess.lossy /\ sess.kind = "relay"
  BY SMTT(60), Z3T(60), <1>1, <1>2, <1>4
<1>5. ASSUME NEW n \in Parts, n \notin Done, Done' = Done \cup {n}, sess'.count = sess.count + 1
      PROVE  /\ sess'.count >= Cardinality(Done')
             /\ sess.kind = "staging" \/ ~sess.lossy => sess'.count = Cardinality(Done')
  <2>1. Cardinality(Done \cup {n}) = Cardinality(Done) + 1
    BY <1>1, <1>5, FS_AddElement
  <2> QED BY SMTT(60), Z3T(60), <1>1, <1>2, <1>5, <2>1
<1> QED BY <1>3, <1>4, <1>5


\* The rest of a PUT's step.
LEMMA PutRest ==
  ASSUME UploadInv, UploadInv', ContentInv, NEW p \in Putters,
         \A a \in Agents : a # p => agent'[a] = agent[a], agent'[p].pc # "delete",
         UNCHANGED <<files, comp>>, sess'.kind = sess.kind, sess'.lossy = sess.lossy,
         sess'.status = sess.status, sess'.ttl = sess.ttl,
         store'.final = store.final, Grows, store' = store \/ store.open,
         store'.temp = store.temp,
         ContentTypes', ChunkInv', CountInv'
  PROVE  ContentInv'
<1> USE DEF ContentInv
<1>1. RemoteInv'
  BY RemoteKept DEF RemoteGone
<1>2. sess.kind = "single" => store'.temp \in {{}, Parts}
  BY DEF ObjectInv
<1>3. ObjectInv' /\ FileInv'
  BY <1>2, ObjectKept
<1> QED BY <1>1, <1>3

\* A chunk PUT: chunks and their count stay in step.
LEMMA PutContent ==
  ASSUME UploadInv, UploadInv', ContentInv, NEW p \in Putters, PutNext(p)
  PROVE  ContentInv'
<1> USE DEF ContentInv
<1>0. /\ Types /\ p \in Agents /\ store \in Stores /\ Putters \subseteq Agents
      /\ part \in [Parts -> {"none", "claimed", "done"}]
      /\ staged \in [dir : BOOLEAN, written : SUBSET Parts]
      /\ "receipt" \in AgentPcs /\ "stored" \in AgentPcs /\ "terminate" \in AgentPcs
  BY DEF UploadInv, ContentTypes, Agents, AgentPcs
<1>1. ASSUME PutRefused(p) \/ PutTerminate(p) PROVE ContentInv'
  BY <1>1, EndingContent
<1>2. Grows \/ store' # store
  BY DEF Grows
<1>3. ASSUME NEW n \in Parts, PutStaged(p, n) PROVE ContentInv'
  <2> DEFINE g == [pc |-> "write", n |-> n, seen |-> "uploading"]
  <2>1. g \in AgentType /\ g.pc = "write" /\ g.n = n
    BY DEF AgentType, AgentPcs, Statuses
  <2>2. /\ sess.kind = "staging" /\ part[n] = "none"
        /\ \A q \in Putters : Chunk(q) = n => agent[q].pc \notin {"write", "receipt"}
        /\ agent' = [agent EXCEPT ![p] = g]
        /\ UNCHANGED <<sess, part, staged, store, files, comp>>
    BY <1>3 DEF PutStaged
  <2> HIDE DEF g
  <2>3. agent'[p] = g /\ \A b \in Agents : b # p => agent'[b] = agent[b]
    BY <1>0, <2>1, <2>2, StartSets
  <2>4. \A q \in Putters : q # p /\ Putting(q) => Chunk(q) # n
    BY <2>2 DEF Putting, ChunkInv
  <2>5. ChunkInv'
    <3>1. agent'[p].pc = "write" /\ agent'[p].n = n /\ part[n] = Reserved
      BY <2>1, <2>2, <2>3, ZenonT(30) DEF Reserved
    <3>2. \A q \in Putters : q # p => agent'[q] = agent[q]
      BY <1>0, <2>3
    <3>3. sess.status # "deleted" /\ sess.kind = "staging" /\ staged.dir => Done \subseteq staged.written
      BY DEF ChunkInv
    <3>4. Done' = Done
      BY <2>2 DEF Done
    <3> QED BY <2>2, <2>4, <3>1, <3>2, <3>3, <3>4, PuttingKept
  <2>6. CountInv' /\ ContentTypes'
    BY <2>2 DEF CountInv, Done, ContentTypes
  <2> QED BY <1>2, <2>1, <2>2, <2>3, <2>5, <2>6, PutRest
<1>4. ASSUME PutWrite(p) PROVE ContentInv'
  <2>1. CASE PutError(p) /\ UNCHANGED staged
    <3>1. UNCHANGED <<sess, part, staged, store, files, comp>>
      BY <1>4, <2>1 DEF PutWrite
    <3>2. /\ \A b \in Agents : agent'[b].pc = "delete" => agent[b].pc = "delete"
          /\ \A q \in Putters : Putting(q)' => agent'[q] = agent[q]
      BY <1>0, <2>1, Moving DEF PutError
    <3> QED BY <3>1, <3>2, QuietContent
  <2>2. CASE /\ staged' = [staged EXCEPT !.written = @ \cup {Chunk(p)}]
             /\ staged.dir /\ Goto(p, "receipt")
    <3>1. agent[p].pc = "write" /\ UNCHANGED <<sess, part, store, files, comp>>
      BY <1>4 DEF PutWrite, At
    <3>2. PICK n \in Parts : n = Chunk(p)
      BY <3>1 DEF ChunkInv, Putting
    <3>3. /\ agent'[p].pc = "receipt" /\ agent'[p].n = n
          /\ \A b \in Agents : b # p => agent'[b] = agent[b]
      BY <1>0, <2>2, <3>2, GotoSets DEF Chunk
    <3>4. /\ staged' \in [dir : BOOLEAN, written : SUBSET Parts] /\ staged'.dir = staged.dir
          /\ staged'.written = staged.written \cup {n}
      BY <1>0, <2>2, <3>2, ZenonT(30)
    <3>5. sess.kind = "staging" /\ Putting(p)
      BY <3>1 DEF ChunkInv, Putting
    <3>6. sess.status # "deleted" =>
            /\ \A q \in Putters : q # p /\ Putting(q) => Chunk(q) # n
            /\ part[n] = Reserved
      BY <3>2, <3>5 DEF ChunkInv
    <3>7. ChunkInv'
      BY SMTT(60), Z3T(60), <1>0, <3>1, <3>3, <3>4, <3>5, <3>6, PuttingKept
    <3>8. CountInv' /\ ContentTypes'
      BY <3>1, <3>4 DEF CountInv, Done, ContentTypes
    <3> QED BY <1>2, <3>1, <3>3, <3>7, <3>8, PutRest
  <2> QED BY <1>4, <2>1, <2>2 DEF PutWrite
<1>5. ASSUME PutReceipt(p) PROVE ContentInv'
  <2>0. agent[p].pc = "receipt" /\ UNCHANGED <<staged, store, files, comp>>
    BY <1>5 DEF PutReceipt, At
  <2>1. CASE sess.status # "uploading"
    <3>1. UNCHANGED <<sess, part>> /\ Goto(p, "terminate")
      BY <1>5, <2>1 DEF PutReceipt
    <3>2. /\ \A b \in Agents : agent'[b].pc = "delete" => agent[b].pc = "delete"
          /\ \A q \in Putters : Putting(q)' => agent'[q] = agent[q]
      BY <1>0, <3>1, Moving
    <3> QED BY <2>0, <3>1, <3>2, QuietContent
  <2>2. CASE sess.status = "uploading"
    <3>1. PICK n \in Parts : n = Chunk(p)
      BY <2>0 DEF ChunkInv, Putting
    <3>2. /\ part' = [part EXCEPT ![n] = "done"] /\ Leave(p)
          /\ sess' = [sess EXCEPT !.count = @ + 1, !.age = 0]
      BY <1>5, <2>2, <3>1 DEF PutReceipt
    <3>3. /\ sess'.status = sess.status /\ sess'.kind = sess.kind /\ sess'.lossy = sess.lossy
          /\ sess'.ttl = sess.ttl /\ sess'.count = sess.count + 1
      BY <1>0, <3>2, CountSets
    <3>4. agent'[p].pc = "idle" /\ \A b \in Agents : b # p => agent'[b] = agent[b]
      BY <1>0, <3>2, LeaveSets
    <3>5. /\ Putting(p) /\ ~Putting(p)' /\ sess.kind = "staging"
          /\ \A q \in Putters : q # p /\ Putting(q) => Chunk(q) # n
          /\ part[n] = "none" /\ (staged.dir => n \in staged.written)
      BY <2>0, <2>2, <3>1, <3>4 DEF Putting, ChunkInv, Reserved
    <3>6. part' \in [Parts -> {"none", "claimed", "done"}] /\ part'[n] = "done"
          /\ \A m \in Parts : m # n => part'[m] = part[m]
      BY <1>0, <3>2
    <3>7. ChunkInv'
      BY <1>0, <2>0, <3>3, <3>4, <3>5, <3>6, PuttingEnds
    <3>8. n \notin Done /\ Done' = Done \cup {n}
      BY <3>5, <3>6 DEF Done
    <3>9. CountInv'
      BY <2>2, <3>3, <3>8, Counting
    <3>10. ContentTypes'
      BY <1>0, <2>0, <3>6 DEF ContentTypes
    <3> QED BY <1>2, <2>0, <3>3, <3>4, <3>7, <3>9, <3>10, PutRest, ZenonT(30)
  <2> QED BY <2>1, <2>2
<1>6. ASSUME NEW n \in Parts, PutClaim(p, n) PROVE ContentInv'
  <2> DEFINE g == [pc |-> "relay", n |-> n, seen |-> "uploading"]
  <2>1. g \in AgentType /\ g.pc = "relay" /\ g.n = n
    BY DEF AgentType, AgentPcs, Statuses
  <2>2. /\ sess.kind = "relay" /\ part[n] = "none" /\ sess.status = "uploading"
        /\ agent' = [agent EXCEPT ![p] = g] /\ part' = [part EXCEPT ![n] = "claimed"]
        /\ UNCHANGED <<sess, staged, store, files, comp>>
    BY <1>6 DEF PutClaim
  <2> HIDE DEF g
  <2>3. agent'[p] = g /\ \A b \in Agents : b # p => agent'[b] = agent[b]
    BY <1>0, <2>1, <2>2, StartSets, ZenonT(30)
  <2>4. part' \in [Parts -> {"none", "claimed", "done"}] /\ part'[n] = "claimed"
        /\ \A m \in Parts : m # n => part'[m] = part[m]
    BY <1>0, <2>2
  <2>5. \A q \in Putters : q # p /\ Putting(q) => Chunk(q) # n
    BY <2>2 DEF ChunkInv, Reserved
  <2>6. ChunkInv'
    BY SMTT(60), Z3T(60), <1>0, <2>1, <2>2, <2>3, <2>4, <2>5, PuttingKept DEF Reserved
  <2>7. Done' = Done
    BY <2>2, <2>4 DEF Done
  <2>8. CountInv' /\ ContentTypes'
    BY <1>0, <2>2, <2>4, <2>7 DEF CountInv, ContentTypes
  <2> QED BY <1>2, <2>1, <2>2, <2>3, <2>6, <2>8, PutRest
<1>7. ASSUME PutRelay(p) PROVE ContentInv'
  <2>0. agent[p].pc = "relay" /\ UNCHANGED <<sess, staged, files, comp>>
    BY <1>7 DEF PutRelay, At
  <2>1. PICK n \in Parts : n = Chunk(p)
    BY <2>0 DEF ChunkInv, Putting
  <2>2. /\ Putting(p) /\ sess.kind = "relay"
        /\ sess.status # "deleted" =>
              /\ \A q \in Putters : q # p /\ Putting(q) => Chunk(q) # n
              /\ part[n] = "claimed"
    BY <2>0, <2>1 DEF Putting, ChunkInv, Reserved
  <2>3. CASE /\ store.open /\ store' = [store EXCEPT !.parts = @ \cup {Chunk(p)}]
             /\ Goto(p, "stored") /\ UNCHANGED part
    <3>1. store' = [store EXCEPT !.parts = store.parts \cup {n}]
          /\ store.parts \cup {n} \in SUBSET Parts
      BY <1>0, <2>1, <2>3, StoreSets
    <3>2. /\ store' \in Stores /\ store'.parts = store.parts \cup {n} /\ store'.open = store.open
          /\ store'.temp = store.temp /\ store'.final = store.final
      BY <1>0, <3>1, StoreSets, ZenonT(30)
    <3>3. /\ agent'[p].pc = "stored" /\ agent'[p].n = n
          /\ \A b \in Agents : b # p => agent'[b] = agent[b]
      BY <1>0, <2>1, <2>3, GotoSets DEF Chunk
    <3>4. ChunkInv'
      BY SMTT(60), Z3T(60), <1>0, <2>0, <2>2, <2>3, <3>3, PuttingKept DEF Reserved
    <3>5. CountInv' /\ ContentTypes' /\ Grows
      BY <1>0, <2>0, <2>3, <3>2 DEF CountInv, Done, ContentTypes, Grows
    <3> QED BY <2>0, <2>3, <3>2, <3>3, <3>4, <3>5, PutRest
  <2>4. CASE ReleaseClaim(p) /\ PutError(p) /\ UNCHANGED store
    <3>1. part' = [part EXCEPT ![n] = "none"]
      BY <2>1, <2>4 DEF ReleaseClaim
    <3>2. agent'[p].pc \in {"idle", "terminate"} /\ \A b \in Agents : b # p => agent'[b] = agent[b]
      BY <1>0, <2>4, GotoSets, LeaveSets DEF PutError
    <3>3. /\ part' \in [Parts -> {"none", "claimed", "done"}] /\ part'[n] = "none"
          /\ \A m \in Parts : m # n => part'[m] = part[m]
      BY <1>0, <3>1
    <3>4. ~Putting(p)' /\ Done' \subseteq Done /\ (sess.status # "deleted" => Done' = Done)
      BY <2>2, <3>2, <3>3 DEF Putting, Done
    <3>5. ChunkInv'
      BY <1>0, <2>0, <2>2, <3>2, <3>3, <3>4, PuttingEnds
    <3>6. CountInv' /\ ContentTypes'
      BY <1>0, <2>0, <2>4, <3>3, <3>4, ZenonT(30) DEF CountInv, ContentTypes
    <3> QED BY <1>2, <2>0, <2>4, <3>2, <3>5, <3>6, PutRest
  <2> QED BY <1>7, <2>3, <2>4 DEF PutRelay
<1>8. ASSUME PutRelayCommit(p) PROVE ContentInv'
  <2>0. agent[p].pc = "stored" /\ UNCHANGED <<staged, store, files, comp>>
    BY <1>8 DEF PutRelayCommit, At
  <2>1. PICK n \in Parts : n = Chunk(p)
    BY <2>0 DEF ChunkInv, Putting
  <2>2. /\ Putting(p) /\ sess.kind = "relay"
        /\ sess.status # "deleted" =>
              /\ \A q \in Putters : q # p /\ Putting(q) => Chunk(q) # n
              /\ part[n] = "claimed"
    BY <2>0, <2>1 DEF Putting, ChunkInv, Reserved
  <2>3. agent'[p].pc \in {"idle", "terminate"} /\ \A b \in Agents : b # p => agent'[b] = agent[b]
    BY <1>0, <1>8, GotoSets, LeaveSets DEF PutRelayCommit
  <2>4. PICK x \in {"none", "done"} : part' = [part EXCEPT ![n] = x]
    BY <1>8, <2>1 DEF PutRelayCommit, ReleaseClaim
  <2>5. /\ part' \in [Parts -> {"none", "claimed", "done"}] /\ part'[n] = x
        /\ \A m \in Parts : m # n => part'[m] = part[m]
    BY <1>0, <2>4
  <2>6. /\ sess'.status = sess.status /\ sess'.kind = sess.kind /\ sess'.lossy = sess.lossy
        /\ sess'.ttl = sess.ttl
        /\ \/ x = "done" /\ sess.status = "uploading" /\ sess'.count = sess.count + 1
           \/ x = "none" /\ sess.lossy /\ sess'.count = sess.count + 1
           \/ x = "none" /\ sess'.count = sess.count
    <3>1. \/ x = "done" /\ sess.status = "uploading" /\ sess' = [sess EXCEPT !.count = @ + 1, !.age = 0]
          \/ x = "none" /\ sess.lossy /\ sess' = [sess EXCEPT !.count = @ + 1, !.age = 0]
          \/ x = "none" /\ sess' = sess
      BY <1>0, <1>8, <2>1, <2>4, <2>5 DEF PutRelayCommit, ReleaseClaim
    <3> QED BY <1>0, <3>1, CountSets
  <2>7. ~Putting(p)'
    BY <2>3 DEF Putting
  <2>8. ChunkInv'
    BY <1>0, <2>0, <2>2, <2>3, <2>5, <2>6, <2>7, PuttingEnds
  <2>9. /\ sess.status # "deleted" => n \notin Done /\ (x = "none" => Done' = Done)
                                      /\ (x = "done" => Done' = Done \cup {n})
        /\ x = "none" => Done' \subseteq Done
    BY <2>2, <2>5 DEF Done
  <2>10. CountInv'
    BY <2>2, <2>6, <2>9, Counting
  <2>11. ContentTypes'
    BY <1>0, <2>0, <2>5 DEF ContentTypes
  <2> QED BY <1>2, <2>0, <2>3, <2>6, <2>8, <2>10, <2>11, PutRest
<1> QED BY <1>1, <1>3, <1>4, <1>5, <1>6, <1>7, <1>8 DEF PutNext


\* What a completion's step leaves of the rest.
LEMMA CompRest ==
  ASSUME ContentInv, UNCHANGED <<agent, part>>, sess'.kind = sess.kind, sess'.lossy = sess.lossy,
         sess'.count = sess.count, sess'.status = "deleted" <=> sess.status = "deleted",
         staged' = staged \/ staged' = [dir |-> FALSE, written |-> {}],
         store' \in Stores, InPlace /\ RemoteGone => RemoteGone', ObjectInv', FileInv'
  PROVE  ContentInv'
<1> USE DEF ContentInv
<1>0. [dir |-> FALSE, written |-> {}] \in [dir : BOOLEAN, written : SUBSET Parts]
  OBVIOUS
<1>1. ContentTypes'
  BY <1>0, ZenonT(30) DEF ContentTypes
<1>2. RemoteInv'
  BY RemoteKept
<1>3. staged'.dir => staged' = staged
  BY SMTT(60), Z3T(60)
<1>4. ChunkInv' /\ CountInv'
  BY <1>3, ChunkKept
<1> QED BY <1>1, <1>2, <1>4

\* What the other completions hold is theirs: they are not past their claim, or this one
\* is not.
LEMMA CompObjects ==
  ASSUME UploadInv, ContentInv, NEW c \in Completers, NEW pc \in CompPcs,
         comp' = [comp EXCEPT ![c] = pc], sess'.kind = sess.kind,
         store' = store \/ (Working(c) /\ sess' = sess),
         \A d \in Completers : d # c => store'.final[d] = store.final[d],
         sess'.status = "assembling" =>
            sess.status = "assembling" \/ \A d \in Completers : ~Working(d),
         sess.kind = "direct" /\ sess'.status = "uploading" =>
            sess.status = "uploading" /\ sess'.ttl = sess.ttl,
         sess.kind = "single" => store'.temp \in {{}, Parts},
         sess.kind = "direct" => pc \notin {"assemble", "verified", "retryable"},
         pc = "verified" => Multipart /\ store'.parts = Parts,
         pc = "stored" /\ ~InPlace => store'.final[c] = Parts,
         pc = "stored" /\ InPlace /\ sess'.status = "assembling" => store'.temp = Parts,
         pc = "ready" /\ sess.kind = "direct" => store'.temp = Parts
  PROVE  ObjectInv'
<1>0. InPlace' = InPlace /\ Multipart' = Multipart
  BY DEF InPlace, Multipart
<1>1. comp'[c] = pc /\ \A d \in Completers : d # c => comp'[d] = comp[d]
  BY DEF UploadInv, Types
<1> SUFFICES ASSUME NEW d \in Completers
             PROVE  /\ sess.kind = "direct" => comp'[d] \notin {"assemble", "verified", "retryable"}
                    /\ comp'[d] = "verified" => Multipart
                    /\ comp'[d] = "verified" /\ sess'.status = "assembling" /\ store'.open =>
                          store'.parts = Parts
                    /\ comp'[d] = "stored" /\ ~InPlace => store'.final[d] = Parts
                    /\ comp'[d] = "stored" /\ InPlace /\ sess'.status = "assembling" =>
                          store'.temp = Parts
                    /\ comp'[d] = "ready" /\ sess.kind = "direct" /\ sess'.status = "uploading"
                       /\ ~Expired' => store'.temp = Parts
  BY <1>0 DEF ObjectInv
<1>2. CASE d = c
  BY <1>1, <1>2
<1>3. CASE d # c
  <2>1. Working(d) => store' = store /\ (sess'.status = "assembling" => sess.status = "assembling")
    BY <1>3 DEF UploadInv, RowInv
  <2>2. comp[d] \in {"verified", "stored"} => Working(d)
    BY DEF Working
  <2>3. sess.kind = "direct" /\ sess'.status = "uploading" =>
           store' = store /\ sess.status = "uploading" /\ Expired' = Expired
    BY DEF UploadInv, RowInv, ActiveStatus, Expired
  <2>4. comp'[d] = comp[d] /\ store'.final[d] = store.final[d]
    BY <1>1, <1>3
  <2> QED BY <2>1, <2>2, <2>3, <2>4, SMTT(60), Z3T(60) DEF ContentInv, ObjectInv
<1> QED BY <1>2, <1>3

\* Nor does it get at the object of a file.
LEMMA CompFiles ==
  ASSUME UploadInv, ContentInv, NEW c \in Completers, NEW pc \in CompPcs,
         comp' = [comp EXCEPT ![c] = pc], files' = files,
         sess'.kind = sess.kind, sess'.lossy = sess.lossy,
         pc \in {"assemble", "verified", "stored"} => \A d \in Completers : ~Made(d),
         \/ store' = store
         \/ comp[c] \in {"assemble", "verified", "stored"}
         \/ ~InPlace /\ store'.final = store.final
  PROVE  FileInv'
<1>0. InPlace' = InPlace /\ \A d \in Completers : Made(d)' = Made(d)
  BY DEF InPlace, Made
<1>1. comp'[c] = pc /\ \A d \in Completers : d # c => comp'[d] = comp[d]
  BY DEF UploadInv, Types
<1>2. \A d, e \in Completers : Made(d)' => comp'[e] \notin {"assemble", "verified", "stored"}
  BY <1>0, <1>1 DEF ContentInv, FileInv
<1>3. \A d \in Completers : /\ files'[d] = "final" => ~InPlace' /\ store'.final[d] = Parts
                            /\ files'[d] = "temp" => InPlace' /\ (~sess'.lossy => store'.temp = Parts)
  <2>1. CASE comp[c] \in {"assemble", "verified", "stored"}
    BY <2>1 DEF ContentInv, FileInv, Made
  <2>2. CASE store' = store \/ (~InPlace /\ store'.final = store.final)
    BY <1>0, <2>2 DEF ContentInv, FileInv
  <2> QED BY <2>1, <2>2
<1> QED BY <1>2, <1>3 DEF FileInv


\* The end of a completion that leaves the provider and the row alone.
LEMMA CompQuiet ==
  ASSUME UploadInv, ContentInv, NEW c \in Completers, NEW pc \in {"idle", "ready", "retryable", "fatal"},
         comp' = [comp EXCEPT ![c] = pc], UNCHANGED <<sess, part, staged, store, files, agent>>,
         pc = "ready" /\ sess.kind = "direct" => store.temp = Parts,
         sess.kind = "direct" => pc # "retryable"
  PROVE  ContentInv'
<1>1. pc \in CompPcs /\ store' \in Stores /\ (InPlace /\ RemoteGone => RemoteGone')
  BY DEF CompPcs, ContentInv, ContentTypes, RemoteGone
<1>2. sess.kind = "single" => store'.temp \in {{}, Parts}
  BY DEF ContentInv, ObjectInv
<1>3. ObjectInv'
  BY <1>1, <1>2, CompObjects
<1>4. FileInv'
  BY <1>1, CompFiles
<1> QED BY <1>1, <1>3, <1>4, CompRest

\* The steps in which a completion claims, stores and verifies the content.
LEMMA StoringContent ==
  ASSUME UploadInv, ContentInv, NEW c \in Completers,
         CompleteClaim(c) \/ StoreCopy(c) \/ VerifyParts(c) \/ CompleteParts(c)
  PROVE  ContentInv'
<1>0. /\ Types /\ store \in Stores /\ part \in [Parts -> {"none", "claimed", "done"}]
      /\ staged \in [dir : BOOLEAN, written : SUBSET Parts] /\ Parts # {}
      /\ sess.kind \in Kinds
      /\ sess.kind = "single" => store.temp \in {{}, Parts}
  BY UploadAssumption DEF UploadInv, ContentInv, ContentTypes, ObjectInv, Types, Row
<1>1. {"idle", "assemble", "stored", "verified", "fatal", "retryable"} \subseteq CompPcs
  BY DEF CompPcs
<1>2. CASE CompleteClaim(c)
  <2>1. CASE sess.status = ActiveStatus(sess.kind) /\ ~Expired
    <3>1. /\ comp[c] = "ready" /\ sess' = Transition("assembling")
          /\ comp' = [comp EXCEPT ![c] = IF sess.kind = "direct" THEN "stored" ELSE "assemble"]
          /\ UNCHANGED <<part, staged, store, files, agent>>
      BY <1>2, <2>1 DEF CompleteClaim, CompAt, CompGoto
    <3>2. /\ sess'.kind = sess.kind /\ sess'.lossy = sess.lossy /\ sess'.count = sess.count
          /\ sess'.status = "assembling" /\ sess.status \in {"presigned", "uploading"}
      BY <1>0, <2>1, <3>1, TransitionSets DEF Statuses, ActiveStatus
    <3>3. \A d \in Completers : ~Working(d) /\ ~Made(d)
      BY <2>1, <3>2 DEF UploadInv, RowInv
    <3>4. sess.kind = "direct" => store.temp = Parts /\ InPlace
      BY <2>1, <3>1 DEF ContentInv, ObjectInv, ActiveStatus, InPlace
    <3>5. ObjectInv'
      BY <1>0, <1>1, <3>1, <3>2, <3>3, <3>4, CompObjects
    <3>6. FileInv'
      BY <1>1, <3>1, <3>2, <3>3, CompFiles, ZenonT(30)
    <3> QED BY <1>0, <3>1, <3>2, <3>5, <3>6, CompRest DEF RemoteGone
  <2>2. CASE ~(sess.status = ActiveStatus(sess.kind) /\ ~Expired)
    BY <1>2, <2>2, CompQuiet DEF CompleteClaim, CompGoto
  <2> QED BY <2>1, <2>2, ZenonT(30)
<1>3. CASE StoreCopy(c)
  <2>1. /\ comp[c] = "assemble" /\ comp' = [comp EXCEPT ![c] = "stored"]
        /\ UNCHANGED <<sess, part, staged, files, agent>>
        /\ sess.kind \in {"staging", "single"} /\ Working(c)
    BY <1>3 DEF StoreCopy, CompAt, CompGoto, Working
  <2>2. store' = [store EXCEPT !.final[c] = Parts]
    <3>1. CASE /\ sess.kind = "staging" /\ staged.dir /\ \A n \in Parts : part[n] = "done"
               /\ store' = [store EXCEPT !.final[c] = staged.written]
      <4>1. Done = Parts
        BY <3>1 DEF Done
      <4>2. sess.status # "deleted"
        BY <1>0, <4>1 DEF ContentInv, CountInv
      <4>3. staged.written = Parts
        BY <1>0, <3>1, <4>1, <4>2 DEF ContentInv, ChunkInv
      <4> QED BY <3>1, <4>3
    <3>2. CASE sess.kind = "single" /\ store.temp # {} /\ store' = [store EXCEPT !.final[c] = store.temp]
      <4>1. store.temp = Parts
        BY <1>0, <3>2
      <4> QED BY <3>2, <4>1
    <3> QED BY <1>3, <3>1, <3>2 DEF StoreCopy
  <2>3. /\ store' \in Stores /\ store'.final[c] = Parts
        /\ \A d \in Completers : d # c => store'.final[d] = store.final[d]
        /\ store'.open = store.open /\ store'.temp = store.temp /\ store'.parts = store.parts
    BY <1>0, <2>2, StoreSets, SMTT(60), Z3T(60)
  <2>4. ObjectInv'
    BY <1>0, <1>1, <2>1, <2>3, CompObjects DEF InPlace
  <2>5. \A d \in Completers : ~Made(d)
    BY <2>1 DEF ContentInv, FileInv
  <2>6. FileInv'
    BY <1>1, <2>1, <2>5, CompFiles
  <2> QED BY <2>1, <2>3, <2>4, <2>6, CompRest DEF RemoteGone
<1>4. CASE VerifyParts(c)
  <2>1. /\ comp[c] = "assemble" /\ Multipart /\ store.open /\ Working(c)
        /\ UNCHANGED <<sess, part, staged, files, agent>>
    BY <1>4 DEF VerifyParts, CompAt, Working
  <2>2. PICK pc \in {"verified", "fatal"} :
          /\ comp' = [comp EXCEPT ![c] = pc]
          /\ pc = "verified" => store.parts = Parts /\ store' = store
          /\ store' \in {store, [store EXCEPT !.open = FALSE, !.parts = {}]}
    BY <1>4 DEF VerifyParts, CompGoto
  <2>3. store' \in Stores /\ store'.temp = store.temp /\ store'.final = store.final
    BY <1>0, <2>2, StoreCloses
  <2>4. ObjectInv'
    BY <1>0, <1>1, <2>1, <2>2, <2>3, CompObjects DEF Multipart
  <2>5. \A d \in Completers : ~Made(d)
    BY <2>1 DEF ContentInv, FileInv
  <2>6. FileInv'
    BY <1>1, <2>1, <2>2, <2>5, CompFiles
  <2> QED BY <2>1, <2>3, <2>4, <2>6, CompRest DEF RemoteGone
<1>5. CASE CompleteParts(c)
  <2>1. /\ comp[c] = "verified" /\ store.open /\ Working(c)
        /\ store' = [store EXCEPT !.open = FALSE, !.temp = store.parts, !.parts = {}]
        /\ UNCHANGED <<sess, part, staged, files, agent>>
    BY <1>5 DEF CompleteParts, CompAt, Working
  <2>2. PICK pc \in {"stored", "retryable"} : comp' = [comp EXCEPT ![c] = pc]
    BY <1>5 DEF CompleteParts, CompGoto
  <2>3. /\ store' \in Stores /\ store'.temp = store.parts /\ store'.final = store.final
    BY <1>0, <2>1, StoreCloses
  <2>4. Multipart /\ InPlace /\ sess.kind \notin {"direct", "single"}
        /\ (sess.status = "assembling" => store.parts = Parts)
    BY <2>1 DEF ContentInv, ObjectInv, Multipart, InPlace
  <2>5. ObjectInv'
    BY <1>0, <1>1, <2>1, <2>2, <2>3, <2>4, CompObjects
  <2>6. \A d \in Completers : ~Made(d)
    BY <2>1 DEF ContentInv, FileInv
  <2>7. FileInv'
    BY <1>1, <2>1, <2>2, <2>6, CompFiles
  <2> QED BY <2>1, <2>3, <2>5, <2>7, CompRest DEF RemoteGone
<1> QED BY <1>2, <1>3, <1>4, <1>5


\* The steps that end a completion: commit, rollback, and what follows them.
LEMMA FinishingContent ==
  ASSUME UploadInv, ContentInv, NEW c \in Completers,
         \/ Finalize(c) \/ FinalizeRollsBack(c) \/ FinalizeUnknown(c)
         \/ CompleteTidies(c) \/ RestoreStatus(c) \/ MarkFailed(c)
  PROVE  ContentInv'
<1>0. /\ Types /\ store \in Stores /\ sess.kind \in Kinds
      /\ sess.kind = "single" => store.temp \in {{}, Parts}
  BY DEF UploadInv, ContentInv, ContentTypes, ObjectInv, Types, Row
<1>1. {"idle", "committed", "fatal"} \subseteq CompPcs
  BY DEF CompPcs
<1>2. ASSUME comp[c] = "stored", sess.status = "assembling", sess' = Transition("completed"),
             files' = [files EXCEPT ![c] = FileObject], UNCHANGED <<part, staged, store, agent>>,
             NEW pc \in {"committed", "fatal"}, comp' = [comp EXCEPT ![c] = pc]
      PROVE  ContentInv'
  <2>1. /\ sess'.kind = sess.kind /\ sess'.lossy = sess.lossy /\ sess'.count = sess.count
        /\ sess'.status = "completed"
    BY <1>0, <1>2, TransitionSets, ZenonT(30) DEF Statuses
  <2>2. ObjectInv'
    BY <1>0, <1>1, <1>2, <2>1, CompObjects
  <2>3. \A d \in Completers : files[d] = "none" /\ (Working(d) => d = c)
    BY <1>2 DEF UploadInv, RowInv, ContentInv, FileInv, Working, Made
  <2>4. /\ files'[c] = FileObject /\ \A d \in Completers : d # c => files'[d] = "none"
        /\ comp'[c] = pc /\ \A d \in Completers : d # c => comp'[d] = comp[d]
    BY <1>0, <1>2, <2>3, ZenonT(30) DEF Types
  <2>5. \A d \in Completers : comp'[d] \notin {"assemble", "verified", "stored"}
    BY <1>2, <2>3, <2>4, SMTT(60), Z3T(60) DEF Working
  <2>6. /\ FileObject = "final" => ~InPlace /\ store.final[c] = Parts
        /\ FileObject = "temp" => InPlace /\ store.temp = Parts
    BY <1>0, <1>2 DEF FileObject, InPlace, Kinds, ContentInv, ObjectInv
  <2>7. \A d \in Completers : /\ files'[d] = "final" => ~InPlace' /\ store'.final[d] = Parts
                              /\ files'[d] = "temp" => InPlace' /\ store'.temp = Parts
    BY <1>2, <2>1, <2>4, <2>6, ZenonT(30) DEF InPlace
  <2>8. FileInv'
    BY <2>5, <2>7 DEF FileInv
  <2> QED BY <1>0, <1>2, <2>1, <2>2, <2>8, CompRest DEF RemoteGone
<1>3. CASE Finalize(c)
  BY <1>2, <1>3 DEF Finalize, CompAt, CompGoto
<1>4. CASE FinalizeUnknown(c)
  <2>1. CASE UNCHANGED <<sess, files>>
    BY <1>4, <2>1, CompQuiet DEF FinalizeUnknown, CompGoto
  <2>2. CASE ~UNCHANGED <<sess, files>>
    BY <1>2, <1>4, <2>2 DEF FinalizeUnknown, CompAt, CompGoto
  <2> QED BY <2>1, <2>2
<1>5. CASE FinalizeRollsBack(c)
  <2>1. /\ comp[c] = "stored" /\ Working(c) /\ comp' = [comp EXCEPT ![c] = "fatal"]
        /\ store' = AfterRollback(c) /\ UNCHANGED <<sess, part, staged, files, agent>>
    BY <1>5 DEF FinalizeRollsBack, CompAt, CompGoto, Working
  <2>2. {} \in SUBSET Parts
    OBVIOUS
  <2>3. /\ store' \in Stores /\ store'.open = store.open /\ store'.parts = store.parts
        /\ store'.temp \in {store.temp, {}}
        /\ \A d \in Completers : d # c => store'.final[d] = store.final[d]
    <3>1. CASE store' = store
      BY <1>0, <3>1
    <3>2. CASE store' = [store EXCEPT !.temp = {}]
      BY <1>0, <2>2, <3>2, StoreSets
    <3>3. CASE store' = [store EXCEPT !.final[c] = {}]
      BY SMTT(60), Z3T(60), <1>0, <2>2, <3>3, StoreSets
    <3> QED BY <2>1, <3>1, <3>2, <3>3, ZenonT(30) DEF AfterRollback
  <2>4. ObjectInv'
    BY <1>0, <1>1, <2>1, <2>3, CompObjects
  <2>5. FileInv'
    BY <1>1, <2>1, CompFiles
  <2> QED BY <2>1, <2>3, <2>4, <2>5, CompRest DEF RemoteGone
<1>6. CASE CompleteTidies(c)
  <2>1. /\ comp[c] = "committed" /\ Working(c) /\ comp' = [comp EXCEPT ![c] = "idle"]
        /\ staged' = [dir |-> FALSE, written |-> {}] /\ UNCHANGED <<sess, part, files, agent>>
        /\ store' = store \/ (sess.kind = "single" /\ store' = [store EXCEPT !.temp = {}])
    BY <1>6 DEF CompleteTidies, CompAt, CompGoto, Working
  <2>2. {} \in SUBSET Parts
    OBVIOUS
  <2>3. /\ store' \in Stores /\ store'.open = store.open /\ store'.parts = store.parts
        /\ store'.temp \in {store.temp, {}} /\ store'.final = store.final
    <3>1. CASE store' = store
      BY <1>0, <3>1
    <3>2. CASE store' = [store EXCEPT !.temp = {}]
      BY <1>0, <2>2, <3>2, StoreSets
    <3> QED BY <2>1, <3>1, <3>2
  <2>4. ObjectInv'
    BY <1>0, <1>1, <2>1, <2>3, CompObjects
  <2>5. FileInv'
    BY <1>1, <2>1, <2>3, CompFiles DEF InPlace
  <2> QED BY <2>1, <2>3, <2>4, <2>5, CompRest DEF RemoteGone
<1>7. CASE RestoreStatus(c) \/ MarkFailed(c)
  <2>1. /\ comp' = [comp EXCEPT ![c] = "idle"] /\ UNCHANGED <<part, staged, store, files, agent>>
        /\ comp[c] \in {"retryable", "fatal"}
    BY <1>7 DEF RestoreStatus, MarkFailed, CompAt, CompGoto
  <2>2. \/ sess' = sess
        \/ sess.status = "assembling" /\ comp[c] = "retryable" /\ sess' = Transition(ActiveStatus(sess.kind))
        \/ sess.status # "deleted" /\ sess' = Transition("failed")
    BY <1>7 DEF RestoreStatus, MarkFailed, CompAt
  <2>3. ActiveStatus(sess.kind) \in {"presigned", "uploading"}
    BY DEF ActiveStatus
  <2>4. /\ sess'.kind = sess.kind /\ sess'.lossy = sess.lossy /\ sess'.count = sess.count
        /\ sess'.status = "deleted" <=> sess.status = "deleted"
        /\ sess'.status = "assembling" => sess.status = "assembling"
        /\ sess'.status = "uploading" => sess' = sess \/ comp[c] = "retryable"
    BY <1>0, <2>2, <2>3, TransitionSets DEF Statuses
  <2>5. sess.kind = "direct" => comp[c] # "retryable"
    BY DEF ContentInv, ObjectInv
  <2>6. ObjectInv'
    BY <1>0, <1>1, <2>1, <2>4, <2>5, CompObjects
  <2>7. FileInv'
    BY <1>1, <2>1, <2>4, CompFiles, ZenonT(30)
  <2> QED BY <1>0, <2>1, <2>4, <2>6, <2>7, CompRest DEF RemoteGone
<1> QED BY <1>3, <1>4, <1>5, <1>6, <1>7

\* Every step of a completion.
LEMMA CompleteContent ==
  ASSUME UploadInv, UploadInv', ContentInv, NEW c \in Completers,
         CompleteRead(c) \/ CompleteWork(c) \/ RefreshLease(c) \/ CompleterDrops(c)
  PROVE  ContentInv'
<1>1. CASE CompleteRead(c)
  BY <1>1, CompQuiet DEF CompleteRead, CompletionReady, CompGoto
<1>2. CASE CompleterDrops(c) \/ (RefreshLease(c) /\ sess.status # "assembling")
  BY <1>2, CompQuiet DEF CompleterDrops, RefreshLease, CompGoto
<1>3. CASE RefreshLease(c) /\ sess.status = "assembling"
  <2>1. sess'.status = sess.status /\ sess'.kind = sess.kind /\ sess'.count = sess.count
        /\ sess'.lossy = sess.lossy /\ sess'.ttl = sess.ttl
    BY <1>3 DEF RefreshLease, UploadInv, Types, Row
  <2>2. UNCHANGED <<part, staged, store, files, agent, comp>>
    BY <1>3 DEF RefreshLease
  <2> QED BY <2>1, <2>2, QuietContent
<1>4. CASE StoreFails(c)
  <2>1. sess.kind # "direct"
    BY <1>4 DEF StoreFails, ContentInv, ObjectInv
  <2> QED BY <1>4, <2>1, CompQuiet DEF StoreFails
<1> QED BY <1>1, <1>2, <1>3, <1>4, StoringContent, FinishingContent DEF CompleteWork

\* A fresh session has no chunks.
LEMMA ContentInit == UploadInit => ContentInv
<1> SUFFICES ASSUME UploadInit PROVE ContentInv
  OBVIOUS
<1>1. PICK s \in Scenes :
          /\ sess = [kind |-> s.kind, status |-> ActiveStatus(s.kind), count |-> 0, age |-> 0,
                     ttl |-> SessionTtl, lossy |-> s.lossy, crew |-> s.crew]
          /\ staged = [dir |-> s.kind = "staging", written |-> {}]
          /\ store = [open |-> s.kind \in {"relay", "parts", "direct"}, parts |-> {},
                      temp |-> {}, final |-> [c \in Completers |-> {}]]
  BY DEF UploadInit
<1>2. /\ part = [n \in Parts |-> "none"] /\ files = [c \in Completers |-> "none"]
      /\ comp = [c \in Completers |-> "idle"] /\ agent = [a \in Agents |-> Idle]
  BY DEF UploadInit
<1>3. /\ sess.count = 0 /\ sess.status # "deleted" /\ store.temp = {} /\ staged.written = {}
      /\ \A a \in Agents : agent[a].pc = "idle"
      /\ Done = {}
  BY <1>1, <1>2 DEF ActiveStatus, Idle, Done
<1>4. ContentTypes
  <2>1. part \in [Parts -> {"none", "claimed", "done"}]
    BY <1>2
  <2>2. staged \in [dir : BOOLEAN, written : SUBSET Parts]
    BY <1>1
  <2>3. [c \in Completers |-> {}] \in [Completers -> SUBSET Parts]
    OBVIOUS
  <2> DEFINE b == s.kind \in {"relay", "parts", "direct"}
             F == [c \in Completers |-> {}]
  <2>4. store = [open |-> b, parts |-> {}, temp |-> {}, final |-> F]
    BY <1>1
  <2>6. b \in BOOLEAN /\ F \in [Completers -> SUBSET Parts]
    BY SMTT(60), Z3T(60), <2>3
  <2> HIDE DEF b, F
  <2>5. store \in Stores
    BY <2>4, <2>6 DEF Stores
  <2> QED BY <2>1, <2>2, <2>5 DEF ContentTypes
<1>5. RemoteInv
  BY <1>3 DEF RemoteInv
<1>6. ChunkInv
  BY <1>2, <1>3 DEF ChunkInv, Putting, Agents, Done
<1>7. CountInv
  BY SMTT(60), Z3T(60), <1>3, FS_EmptySet DEF CountInv
<1>8. ObjectInv /\ FileInv
  BY <1>2, <1>3 DEF ObjectInv, FileInv, Made
<1> QED BY <1>4, <1>5, <1>6, <1>7, <1>8 DEF ContentInv

\* The invariant of the content holds throughout.
THEOREM ContentInvHolds == UploadSpec => []ContentInv
<1>1. UploadInv /\ UploadInv' /\ ContentInv /\ [UploadNext]_upVars => ContentInv'
  <2> SUFFICES ASSUME UploadInv, UploadInv', ContentInv, [UploadNext]_upVars PROVE ContentInv'
    OBVIOUS
  <2>1. CASE UNCHANGED upVars
    BY <2>1, QuietContent DEF upVars
  <2> QED
    BY <2>1, EndingContent, CleaningContent, BrowserContent, PutContent, CompleteContent
    DEF UploadNext
<1> QED BY <1>1, ContentInit, UploadInvHolds, PTL DEF UploadSpec

\* Chunks are accounted for (commit_staged_chunk_receipt, upsert_part, finalize): while
\* chunks are accepted received_count is the number of stored chunks, and the object
\* behind a file holds all of them, whatever cancels, sweeps and rollbacks still do.
THEOREM ChunksAreKept == UploadSpec => []ChunksKept
<1>1. ContentInv => ChunksKept
  <2> SUFFICES ASSUME ContentInv PROVE ChunksKept
    OBVIOUS
  <2>1. CountExact
    BY DEF ContentInv, CountInv, CountExact, Done
  <2>2. FileWhole
    BY DEF ContentInv, FileInv, FileWhole
  <2> QED BY <2>1, <2>2 DEF ChunksKept
<1> QED BY <1>1, ContentInvHolds, PTL

\* The row of a session is deleted only after the provider's upload and object
\* (cleanup_remote_upload_state), and neither comes back afterwards.
THEOREM RemoteGoesFirst == UploadSpec => []RowGoesAfterRemote
<1>1. ContentInv => RowGoesAfterRemote
  BY DEF ContentInv, RemoteInv, RemoteGone, InPlace, RowGoesAfterRemote
<1> QED BY <1>1, ContentInvHolds, PTL

\* While a session is assembling, only the request that completes it takes chunks, parts
\* or the object away: a cancel ends the assembly first, and a sweep, a PUT that ends
\* the session or a late cancel clean up only what cannot be claimed any more.
THEOREM AssemblyIsUndisturbed == UploadSpec => AssemblyUndisturbed
<1> DEFINE Kept == /\ staged.written \subseteq staged'.written
                   /\ store.parts \subseteq store'.parts
                   /\ store.temp \subseteq store'.temp
<1>1. UploadInv /\ ContentInv /\ [UploadNext]_upVars =>
          [sess.status = "assembling" /\ sess'.status = "assembling" /\ comp' = comp => Kept]_upVars
  <2> SUFFICES ASSUME UploadInv, ContentInv, UploadNext, sess.status = "assembling",
                      sess'.status = "assembling", comp' = comp
               PROVE  Kept
    OBVIOUS
  <2>0. /\ Types /\ store \in Stores /\ staged \in [dir : BOOLEAN, written : SUBSET Parts]
        /\ \A a \in Agents : agent[a].pc # "clean"
        /\ \A n \in Nat : LET s == [store EXCEPT !.parts = @ \cup {n}] IN
              s.parts = store.parts \cup {n} /\ s.temp = store.temp
    BY DEF UploadInv, ContentInv, ContentTypes, AgentInv, Closed, ActiveStatus, Stores
  <2>1. CASE UNCHANGED <<store, staged>>
    BY <2>1
  <2>2. CASE BrowserPut
    <3>1. CASE sess.kind = "single" /\ store' = [store EXCEPT !.temp = Parts]
      BY <2>0, <2>2, <3>1 DEF BrowserPut, Stores
    <3>2. CASE store' = [store EXCEPT !.temp = Parts, !.open = FALSE]
      <4> DEFINE s == [store EXCEPT !.temp = Parts]
      <4>1. s \in Stores /\ s.temp = Parts /\ s.parts = store.parts
        BY <2>0 DEF Stores
      <4>2. store' = [s EXCEPT !.open = FALSE]
        BY <3>2
      <4> HIDE DEF s
      <4>3. store'.temp = Parts /\ store'.parts = store.parts
        BY <4>1, <4>2 DEF Stores
      <4> QED BY <2>0, <2>2, <4>3 DEF BrowserPut, Stores
    <3>3. CASE \E n \in Parts : store' = [store EXCEPT !.parts = @ \cup {n}]
      BY SMTT(60), Z3T(60), <2>0, <2>2, <3>3, UploadAssumption DEF BrowserPut
    <3> QED BY <2>2, <3>1, <3>2, <3>3 DEF BrowserPut
  <2>3. ASSUME NEW p \in Putters, PutNext(p) PROVE Kept
    <3>1. CASE staged' = [staged EXCEPT !.written = @ \cup {Chunk(p)}] /\ store' = store
      BY <2>0, <3>1
    <3>2. CASE store' = [store EXCEPT !.parts = @ \cup {Chunk(p)}] /\ staged' = staged
      BY <2>0, <3>2 DEF Stores
    <3>3. \/ UNCHANGED <<store, staged>>
          \/ staged' = [staged EXCEPT !.written = @ \cup {Chunk(p)}] /\ store' = store
          \/ store' = [store EXCEPT !.parts = @ \cup {Chunk(p)}] /\ staged' = staged
      BY <2>3 DEF PutNext, PutStaged, PutClaim, PutRefused, PutWrite, PutReceipt, PutRelay,
                  PutRelayCommit, PutTerminate
    <3> QED BY <2>1, <3>1, <3>2, <3>3
  <2>4. ASSUME NEW k \in Cancels, CancelClaim(k) PROVE Kept
    <3>1. FailWithExpiration(LeaseTimeout).status = "failed"
      BY <2>0, UploadAssumption, FailSets
    <3> QED BY <2>1, <2>4, <3>1 DEF CancelClaim
  <2>5. ASSUME NEW a \in Agents, Clean(a) \/ CleanBlocked(a) PROVE Kept
    BY <2>0, <2>5 DEF Clean, CleanBlocked, At
  <2>6. ASSUME NEW c \in Completers, CompleteWork(c) PROVE Kept
    <3>1. \A pc : comp' = [comp EXCEPT ![c] = pc] => comp[c] = pc
      BY <2>0 DEF Types
    <3> QED BY <2>1, <2>6, <3>1 DEF CompleteWork, CompleteClaim, StoreCopy, VerifyParts, CompleteParts,
              StoreFails, Finalize, FinalizeRollsBack, FinalizeUnknown, CompleteTidies,
              RestoreStatus, MarkFailed, CompAt, CompGoto
  <2> QED BY <2>1, <2>2, <2>3, <2>4, <2>5, <2>6
      DEF UploadNext, UploadTick, SweepRead, SweepStale, CancelRead, Delete, AgentDrops,
          CompleteRead, RefreshLease, CompleterDrops
<1> QED BY <1>1, UploadInvHolds, ContentInvHolds, PTL DEF UploadSpec, AssemblyUndisturbed

=============================================================================
