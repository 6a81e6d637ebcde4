--------------------------- MODULE FolderTreeProofs ---------------------------
(***************************************************************************)
(* Proofs about FolderTree, for any folders, files, requests, locks and    *)
(* workers, in the companies of actors TameCasts describes: the tree stays *)
(* a tree of live folders, a purge destroys what its user asked for,       *)
(* locks keep others out, and what the clients see is AtomicTree.          *)
(*                                                                         *)
(* TreeInv is the inductive invariant.  Its heart is Staging: while the    *)
(* operation lock is held, the rows the folder-tree task has staged, the   *)
(* folders it has yet to enter and those it has yet to list account for    *)
(* the whole subtree, so that its last step acts on all of it.  Each step  *)
(* is first reduced to what it does to the tables (Kinds), and the         *)
(* invariant's parts are then kept by each of a handful of effects.        *)
(***************************************************************************)
EXTENDS FolderTree, TLAPS

\* Steps that name no prover are Zenon's; arithmetic goes to Z3, by two routes.
USE ZenonT(60)

States == {"live", "trash", "gone", "absent"}
Forest == [Items -> [parent : Places, st : States]]

-----------------------------------------------------------------------------
(***************************************************************************)
(* Going up and down a tree, for any contents `it' of the tables.          *)
(***************************************************************************)
Rising(it, S) == \A d \in S : it[d].parent \in S \cup {Root}
Above(it, p) ==
    {d \in Folders : \A S \in SUBSET Folders : Rising(it, S) /\ p \in S \cup {Root} => d \in S}

Falling(it, S, W) == \A c \in Items : it[c].st \in W /\ it[c].parent \in S => c \in S
Beneath(it, n, W) ==
    {m \in Items : \A S \in SUBSET Items : Falling(it, S, W) /\ n \in S => m \in S}

\* The chain of a folder, before and after a step.
LEMMA ChainIsAbove ==
  ASSUME NEW p
  PROVE  /\ Chain(p) = Above(item, p)
         /\ Chain(p)' = Above(item', p)
BY DEF Chain, UpClosed, Above, Rising

\* The subtree of a row, before and after a step.
LEMMA SubtreeIsBeneath ==
  ASSUME NEW n, NEW W
  PROVE  /\ Subtree(n, W) = Beneath(item, n, W)
         /\ Subtree(n, W)' = Beneath(item', n, W)
<1>1. \A S \in SUBSET Items : DownClosed(S, W) <=> Falling(item, S, W)
  BY DEF DownClosed, Children, Falling
<1>2. \A S \in SUBSET Items : DownClosed(S, W)' <=> Falling(item', S, W)
  BY DEF DownClosed, Children, Falling
<1>3. Subtree(n, W) = Beneath(item, n, W)
  BY <1>1 DEF Subtree, Beneath
<1>4. Subtree(n, W)' = Beneath(item', n, W)
  BY <1>2 DEF Subtree, Beneath
<1> QED BY <1>3, <1>4

\* The chain is the least set of folders with p that is closed upwards.
LEMMA AboveLeast ==
  ASSUME NEW it, NEW p, NEW S \in SUBSET Folders, Rising(it, S), p \in S \cup {Root}
  PROVE  Above(it, p) \subseteq S
BY DEF Above

\* p is in its own chain, and the chain of the workspace root is empty.
LEMMA AboveSelf ==
  ASSUME NEW it, NEW p
  PROVE  /\ Above(it, p) \subseteq Folders
         /\ p \in Folders => p \in Above(it, p)
         /\ Above(it, Root) = {}
<1>1. p \in Folders => p \in Above(it, p)
  BY TreeAssumption DEF Above
<1>2. Rising(it, {}) /\ {} \in SUBSET Folders
  BY DEF Rising
<1>3. Above(it, Root) = {}
  BY <1>2 DEF Above
<1> QED BY <1>1, <1>3 DEF Above

\* The chain has the parent of each of its folders.
LEMMA AboveRising ==
  ASSUME NEW it \in Forest, NEW p
  PROVE  Rising(it, Above(it, p))
<1> SUFFICES ASSUME NEW d \in Above(it, p), it[d].parent # Root
             PROVE  it[d].parent \in Above(it, p)
  BY DEF Rising
<1>1. d \in Folders /\ d \in Items
  BY DEF Above, Items
<1>2. it[d].parent \in Folders
  BY <1>1 DEF Forest, Places
<1>3. ASSUME NEW S \in SUBSET Folders, Rising(it, S), p \in S \cup {Root}
      PROVE  it[d].parent \in S
  <2>1. d \in S
    BY <1>3 DEF Above
  <2> QED BY <1>3, <2>1 DEF Rising
<1> QED BY <1>2, <1>3 DEF Above

\* What is above a folder of the chain is in the chain.
LEMMA AboveTrans ==
  ASSUME NEW it \in Forest, NEW p, NEW q \in Above(it, p) \cup {Root}
  PROVE  Above(it, q) \subseteq Above(it, p)
<1>1. Above(it, p) \in SUBSET Folders
  BY DEF Above
<1> QED BY <1>1, AboveRising, AboveLeast

\* The chain of the parent is in the chain of the child.
LEMMA AboveParent ==
  ASSUME NEW it \in Forest, NEW d \in Folders
  PROVE  Above(it, it[d].parent) \subseteq Above(it, d)
<1>1. d \in Above(it, d)
  BY AboveSelf
<1>2. it[d].parent \in Above(it, d) \cup {Root}
  BY <1>1, AboveRising DEF Rising
<1> QED BY <1>2, AboveTrans

\* What is above live rows is live when the parents of live rows are.
LEMMA AboveLive ==
  ASSUME NEW it \in Forest, NEW p \in Places, p # Root => it[p].st = "live",
         \A n \in Items : it[n].st = "live" =>
             it[n].parent = Root \/ it[it[n].parent].st = "live"
  PROVE  \A q \in Above(it, p) : it[q].st = "live"
<1> DEFINE L == {d \in Folders : it[d].st = "live"}
<1>1. Rising(it, L)
  BY DEF Rising, Forest, Places, Items
<1>2. p \in L \cup {Root}
  BY DEF Places
<1>3. Above(it, p) \subseteq L
  <2> HIDE DEF L
  <2>1. L \in SUBSET Folders
    BY DEF L
  <2> QED BY <1>1, <1>2, <2>1, AboveLeast
<1> QED BY <1>3

Loopless(it) == \A d \in Folders : d \notin Above(it, it[d].parent)
Reparented(it, jt, S, p) ==
    \A d \in Folders : jt[d].parent = IF d \in S THEN p ELSE it[d].parent

\* Rows S get the parent p, in whose chain none of them is: no loop is closed.
LEMMA Reparent ==
  ASSUME NEW it \in Forest, NEW jt \in Forest, NEW p \in Places, NEW S,
         S \cap Above(it, p) = {}, Reparented(it, jt, S, p), Loopless(it)
  PROVE  Loopless(jt)
<1>0. \A q : Above(it, q) \in SUBSET Folders
  BY DEF Above
<1>1. ASSUME NEW q \in Places, S \cap Above(it, q) = {}
      PROVE  Above(jt, q) \subseteq Above(it, q)
  <2>1. Rising(jt, Above(it, q))
    BY <1>0, <1>1, AboveRising DEF Rising, Reparented
  <2>2. q \in Above(it, q) \cup {Root}
    BY AboveSelf DEF Places
  <2> QED BY <1>0, <2>1, <2>2, AboveLeast
<1>2. ASSUME NEW q \in Places
      PROVE  Above(jt, q) \subseteq Above(it, q) \cup Above(it, p)
  <2> DEFINE B == Above(it, q) \cup Above(it, p)
  <2>1. p \in Above(it, p) \cup {Root} /\ q \in Above(it, q) \cup {Root}
    BY AboveSelf DEF Places
  <2>2. Rising(it, Above(it, q)) /\ Rising(it, Above(it, p))
    BY AboveRising
  <2>3. Rising(jt, B)
    BY <1>0, <2>1, <2>2 DEF Rising, Reparented
  <2>4. B \in SUBSET Folders /\ q \in B \cup {Root}
    BY <1>0, <2>1
  <2> HIDE DEF B
  <2>5. Above(jt, q) \subseteq B
    BY <2>3, <2>4, AboveLeast
  <2> QED BY <2>5 DEF B
<1> SUFFICES ASSUME NEW d \in Folders PROVE d \notin Above(jt, jt[d].parent)
  BY DEF Loopless
<1>3. CASE d \in S
  <2>1. jt[d].parent = p /\ Above(jt, p) \subseteq Above(it, p)
    BY <1>1, <1>3 DEF Reparented
  <2> QED BY <1>3, <2>1
<1>4. CASE d \notin S
  <2> DEFINE q == it[d].parent
  <2>1. q \in Places /\ jt[d].parent = q /\ d \notin Above(it, q)
    BY <1>4 DEF Forest, Items, Reparented, Loopless
  <2>2. CASE d \in Above(it, p)
    <3>1. q \in Above(it, p) \cup {Root}
      BY <2>2, AboveRising DEF Rising
    <3>2. Above(it, q) \subseteq Above(it, p)
      BY <3>1, AboveTrans
    <3>3. Above(jt, q) \subseteq Above(it, q)
      BY <1>1, <2>1, <3>2
    <3> QED BY <2>1, <3>3
  <2>3. CASE d \notin Above(it, p)
    BY <1>2, <2>1, <2>3
  <2> QED BY <2>2, <2>3
<1> QED BY <1>3, <1>4

\* The subtree is the least set of rows with n that is closed downwards.
LEMMA BeneathLeast ==
  ASSUME NEW it, NEW n, NEW W, NEW S \in SUBSET Items, Falling(it, S, W), n \in S
  PROVE  Beneath(it, n, W) \subseteq S
BY DEF Beneath

\* n is in its subtree, and with a row are its children.
LEMMA BeneathSelf ==
  ASSUME NEW it, NEW n \in Items, NEW W
  PROVE  /\ Beneath(it, n, W) \in SUBSET Items
         /\ n \in Beneath(it, n, W)
         /\ Falling(it, Beneath(it, n, W), W)
<1>1. Beneath(it, n, W) \in SUBSET Items
  BY DEF Beneath
<1>2. n \in Beneath(it, n, W)
  BY DEF Beneath
<1>3. ASSUME NEW c \in Items, it[c].st \in W, it[c].parent \in Beneath(it, n, W)
      PROVE  c \in Beneath(it, n, W)
  <2>1. ASSUME NEW S \in SUBSET Items, Falling(it, S, W), n \in S
        PROVE  c \in S
    <3>1. it[c].parent \in S
      BY <1>3, <2>1 DEF Beneath
    <3> QED BY <1>3, <2>1, <3>1 DEF Falling
  <2> QED BY <2>1 DEF Beneath
<1> QED BY <1>1, <1>2, <1>3 DEF Falling

\* What is below a row of the subtree is in the subtree.
LEMMA BeneathTrans ==
  ASSUME NEW it, NEW n \in Items, NEW W, NEW m \in Beneath(it, n, W)
  PROVE  Beneath(it, m, W) \subseteq Beneath(it, n, W)
BY BeneathSelf, BeneathLeast

\* A row of the subtree other than n has its parent there, and one of the states.
LEMMA BeneathUp ==
  ASSUME NEW it, NEW n \in Items, NEW W, NEW m \in Beneath(it, n, W), m # n
  PROVE  it[m].st \in W /\ it[m].parent \in Beneath(it, n, W)
<1> DEFINE B == Beneath(it, n, W)
           S == {x \in B : x = n \/ (it[x].st \in W /\ it[x].parent \in B)}
<1>1. B \in SUBSET Items /\ n \in B /\ Falling(it, B, W)
  BY BeneathSelf
<1>2. S \in SUBSET Items /\ n \in S
  BY <1>1
<1>3. Falling(it, S, W)
  BY <1>1 DEF Falling
<1>4. m \in S
  <2> HIDE DEF S
  <2>1. B \subseteq S
    BY <1>2, <1>3, BeneathLeast
  <2> QED BY <2>1
<1> QED BY <1>4

\* The subtree of a folder is the folder and the subtrees of its children.
LEMMA BeneathSplit ==
  ASSUME NEW it, NEW n \in Items, NEW W, NEW m \in Beneath(it, n, W), m # n
  PROVE  \E c \in Items : /\ it[c].parent = n /\ it[c].st \in W
                          /\ m \in Beneath(it, c, W)
<1> DEFINE Kid(c) == it[c].parent = n /\ it[c].st \in W
           S == {x \in Items : x = n \/ \E c \in Items : Kid(c) /\ x \in Beneath(it, c, W)}
<1>1. S \in SUBSET Items /\ n \in S
  OBVIOUS
<1>2. ASSUME NEW x \in Items, it[x].st \in W, it[x].parent \in S
      PROVE  x \in S
  <2>1. CASE it[x].parent = n
    BY <1>2, <2>1, BeneathSelf
  <2>2. CASE it[x].parent # n
    <3>1. PICK c \in Items : Kid(c) /\ it[x].parent \in Beneath(it, c, W)
      BY <1>2, <2>2
    <3>2. x \in Beneath(it, c, W)
      BY <1>2, <3>1, BeneathSelf DEF Falling
    <3> QED BY <3>1, <3>2
  <2> QED BY <2>1, <2>2
<1>3. m \in S
  <2>1. Falling(it, S, W)
    BY <1>2 DEF Falling
  <2> HIDE DEF S
  <2>2. Beneath(it, n, W) \subseteq S
    BY <1>1, <2>1, BeneathLeast
  <2> QED BY <2>2
<1> QED BY <1>3

\* What is in the subtree of n has n in its chain.
LEMMA BeneathAbove ==
  ASSUME NEW it \in Forest, NEW n \in Items, NEW W, NEW m \in Beneath(it, n, W)
  PROVE  m = n \/ n \in Above(it, it[m].parent)
<1> DEFINE S == {x \in Items : x = n \/ n \in Above(it, it[x].parent)}
<1>1. S \in SUBSET Items /\ n \in S
  OBVIOUS
<1>2. ASSUME NEW x \in Items, it[x].st \in W, it[x].parent \in S
      PROVE  n \in Above(it, it[x].parent)
  <2> DEFINE q == it[x].parent
  <2>1. q \in Folders
    <3>1. q \in Places /\ q \in Items
      BY <1>2 DEF Forest
    <3> QED BY <3>1, TreeAssumption DEF Places, Items
  <2>2. q \in Above(it, q)
    BY <2>1, AboveSelf
  <2>3. Above(it, it[q].parent) \subseteq Above(it, q)
    BY <2>1, AboveParent
  <2> QED BY <1>2, <2>2, <2>3
<1>3. m \in S
  <2>1. Falling(it, S, W)
    BY <1>2 DEF Falling
  <2> HIDE DEF S
  <2>2. Beneath(it, n, W) \subseteq S
    BY <1>1, <2>1, BeneathLeast
  <2> QED BY <2>2
<1> QED BY <1>3

\* What may not happen to the children of a subtree's rows.
Untouched(it, jt, n, W) ==
    \A c \in Items : (it[c].st \in W /\ it[c].parent \in Beneath(it, n, W)) \/
                     (jt[c].st \in W /\ jt[c].parent \in Beneath(it, n, W)) =>
        /\ it[c].st \in W /\ jt[c].st \in W
        /\ it[c].parent = jt[c].parent

\* A step that leaves alone the children of the rows of a subtree leaves alone
\* the subtrees of all of them.
LEMMA BeneathSame ==
  ASSUME NEW it, NEW jt, NEW n \in Items, NEW W, Untouched(it, jt, n, W)
  PROVE  \A d \in Beneath(it, n, W) : Beneath(jt, d, W) = Beneath(it, d, W)
<1> SUFFICES ASSUME NEW d \in Beneath(it, n, W)
             PROVE  Beneath(jt, d, W) = Beneath(it, d, W)
  OBVIOUS
<1>1. d \in Items /\ Beneath(it, d, W) \subseteq Beneath(it, n, W)
  BY BeneathSelf, BeneathTrans
<1>2. /\ Beneath(it, d, W) \in SUBSET Items /\ d \in Beneath(it, d, W)
      /\ Falling(it, Beneath(it, d, W), W)
      /\ Beneath(jt, d, W) \in SUBSET Items /\ d \in Beneath(jt, d, W)
      /\ Falling(jt, Beneath(jt, d, W), W)
  BY <1>1, BeneathSelf
<1>3. Falling(jt, Beneath(it, d, W), W)
  BY <1>1, <1>2 DEF Falling, Untouched
<1>4. Beneath(jt, d, W) \subseteq Beneath(it, d, W)
  BY <1>2, <1>3, BeneathLeast
<1>5. Falling(it, Beneath(jt, d, W), W)
  BY <1>1, <1>2, <1>4 DEF Falling, Untouched
<1>6. Beneath(it, d, W) \subseteq Beneath(jt, d, W)
  BY <1>2, <1>5, BeneathLeast
<1> QED BY <1>4, <1>6

-----------------------------------------------------------------------------
(***************************************************************************)
(* A sound tree, and what adding, moving, trashing, restoring and purging  *)
(* rows do to one.                                                         *)
(***************************************************************************)
LiveLinked(it) ==
    \A n \in Items : it[n].st = "live" => it[n].parent = Root \/ it[it[n].parent].st = "live"
RowsLinked(it) ==
    \A n \in Items : it[n].st \in Present =>
        it[n].parent = Root \/ it[it[n].parent].st \in Present
TreeOK(it) == it \in Forest /\ Loopless(it) /\ LiveLinked(it) /\ RowsLinked(it)

Home(it, p) == p = Root \/ it[p].st = "live"
AddTo(it, n, p) == [it EXCEPT ![n] = [parent |-> p, st |-> "live"]]
MoveTo(it, S, p) == [n \in Items |-> IF n \in S THEN [it[n] EXCEPT !.parent = p] ELSE it[n]]
Mark(it, S, st) == [n \in Items |-> IF n \in S THEN [it[n] EXCEPT !.st = st] ELSE it[n]]
BringBack(it, S, n, p) == [Mark(it, S, "live") EXCEPT ![n].parent = p]
Cut(it, S) == [n \in Items |-> IF n \in S THEN [parent |-> Root, st |-> "gone"] ELSE it[n]]

\* A row's fields, and that parents are folders.
LEMMA ForestFacts ==
  ASSUME NEW it \in Forest, NEW n \in Items
  PROVE  /\ it[n].parent \in Places /\ it[n].st \in States
         /\ it[n] = [parent |-> it[n].parent, st |-> it[n].st]
         /\ it[n].parent # Root => it[n].parent \in Folders /\ it[n].parent \in Items
BY DEF Forest, Places, Items

\* The rows after one is added.
LEMMA AddFacts ==
  ASSUME NEW it \in Forest, NEW p \in Places, NEW n \in Items
  PROVE  /\ AddTo(it, n, p) \in Forest
         /\ \A m \in Items :
              AddTo(it, n, p)[m] = IF m = n THEN [parent |-> p, st |-> "live"] ELSE it[m]
<1>1. \A m \in Items : it[m] \in [parent : Places, st : States]
  BY DEF Forest
<1>2. "live" \in States
  BY DEF States
<1> QED BY <1>1, <1>2 DEF AddTo, Forest

\* The rows after some are moved.
LEMMA MoveFacts ==
  ASSUME NEW it \in Forest, NEW S, NEW p \in Places
  PROVE  /\ MoveTo(it, S, p) \in Forest
         /\ \A m \in Items :
              MoveTo(it, S, p)[m] = IF m \in S THEN [parent |-> p, st |-> it[m].st] ELSE it[m]
<1>1. \A m \in Items : it[m] \in [parent : Places, st : States]
  BY DEF Forest
<1> QED BY SMTT(60), Z3T(60), <1>1 DEF MoveTo, Forest

\* The rows after some get another state.
LEMMA MarkFacts ==
  ASSUME NEW it \in Forest, NEW S, NEW st \in States
  PROVE  /\ Mark(it, S, st) \in Forest
         /\ \A m \in Items : /\ Mark(it, S, st)[m].parent = it[m].parent
                             /\ Mark(it, S, st)[m].st = IF m \in S THEN st ELSE it[m].st
                             /\ m \notin S => Mark(it, S, st)[m] = it[m]
<1>1. \A m \in Items : it[m] \in [parent : Places, st : States]
  BY DEF Forest
<1> QED BY <1>1 DEF Mark, Forest

\* The rows after some are deleted.
LEMMA CutFacts ==
  ASSUME NEW it \in Forest, NEW S
  PROVE  /\ Cut(it, S) \in Forest
         /\ \A m \in Items :
              Cut(it, S)[m] = IF m \in S THEN [parent |-> Root, st |-> "gone"] ELSE it[m]
<1>1. \A m \in Items : it[m] \in [parent : Places, st : States]
  BY DEF Forest
<1>2. Root \in Places /\ "gone" \in States
  BY DEF Places, States
<1> QED BY <1>1, <1>2 DEF Cut, Forest

BroughtBack(it, jt, S, n, p) ==
    /\ jt \in Forest
    /\ \A m \in Items : /\ jt[m].parent = IF m = n THEN p ELSE it[m].parent
                        /\ jt[m].st = IF m \in S THEN "live" ELSE it[m].st

\* The rows after some come back, n among them with another parent.
LEMMA BringBackFacts ==
  ASSUME NEW it \in Forest, NEW S, NEW p \in Places, NEW n \in Items
  PROVE  BroughtBack(it, BringBack(it, S, n, p), S, n, p)
<1> DEFINE J == Mark(it, S, "live")
<1>1. BringBack(it, S, n, p) = [J EXCEPT ![n].parent = p]
  BY DEF BringBack
<1>2. /\ J \in Forest
      /\ \A m \in Items : /\ J[m].parent = it[m].parent
                          /\ J[m].st = IF m \in S THEN "live" ELSE it[m].st
  <2>1. "live" \in States
    BY DEF States
  <2> QED BY SMTT(60), Z3T(60), <2>1, MarkFacts
<1> HIDE DEF J
<1>3. J \in [Items -> [parent : Places, st : States]]
  BY <1>2 DEF Forest
<1>4. BringBack(it, S, n, p) \in [Items -> [parent : Places, st : States]]
  BY <1>1, <1>3
<1>5. \A m \in Items : /\ BringBack(it, S, n, p)[m].parent = IF m = n THEN p ELSE J[m].parent
                       /\ BringBack(it, S, n, p)[m].st = J[m].st
  BY SMTT(60), Z3T(60), <1>1, <1>3
<1> QED BY <1>2, <1>4, <1>5 DEF Forest, BroughtBack

\* What is below a row that is not live is not live.
LEMMA BeneathDead ==
  ASSUME NEW it \in Forest, LiveLinked(it), NEW n \in Items, it[n].st # "live"
  PROVE  /\ \A m \in Beneath(it, n, Present) : m # n => it[m].st = "trash"
         /\ Beneath(it, n, Active) = {n}
<1> DEFINE S == {x \in Items : it[x].st # "live"}
<1>1. S \in SUBSET Items /\ n \in S
  OBVIOUS
<1>2. Falling(it, S, Present)
  BY TreeAssumption DEF Falling, LiveLinked, Items
<1>3. ASSUME NEW m \in Beneath(it, n, Present), m # n
      PROVE  it[m].st = "trash"
  <2>1. m \in S
    <3> HIDE DEF S
    <3>1. Beneath(it, n, Present) \subseteq S
      BY <1>1, <1>2, BeneathLeast
    <3> QED BY <3>1
  <2>2. it[m].st \in Present
    BY <1>3, BeneathUp
  <2> QED BY <2>1, <2>2 DEF Present
<1>4. Falling(it, {n}, Active)
  <2>1. \A c \in Items : it[c].st = "live" => it[c].parent # n
    BY TreeAssumption DEF LiveLinked, Items
  <2> QED BY <2>1 DEF Falling, Active
<1>5. Beneath(it, n, Active) = {n}
  BY <1>4, BeneathLeast, BeneathSelf
<1> QED BY <1>3, <1>5

\* A live row of the subtree is reached through live rows.
LEMMA BeneathActive ==
  ASSUME NEW it \in Forest, LiveLinked(it), NEW n \in Items
  PROVE  /\ Beneath(it, n, Active) \subseteq Beneath(it, n, Present)
         /\ \A m \in Beneath(it, n, Present) : it[m].st = "live" => m \in Beneath(it, n, Active)
<1>1. Active \subseteq Present
  BY DEF Active, Present
<1>2. Falling(it, Beneath(it, n, Present), Active)
  BY <1>1, BeneathSelf DEF Falling
<1>3. Beneath(it, n, Active) \subseteq Beneath(it, n, Present)
  <2>1. Beneath(it, n, Present) \in SUBSET Items /\ n \in Beneath(it, n, Present)
    BY BeneathSelf
  <2> QED BY <1>2, <2>1, BeneathLeast
<1> DEFINE S == {x \in Items : it[x].st = "live" => x \in Beneath(it, n, Active)}
<1>4. S \in SUBSET Items /\ n \in S
  BY BeneathSelf
<1>5. ASSUME NEW c \in Items, it[c].st \in Present, it[c].parent \in S
      PROVE  c \in S
  <2> SUFFICES ASSUME it[c].st = "live" PROVE c \in Beneath(it, n, Active)
    OBVIOUS
  <2>1. it[c].parent # Root
    BY <1>5, TreeAssumption DEF Items
  <2>2. it[c].parent \in Beneath(it, n, Active)
    BY <1>5, <2>1 DEF LiveLinked
  <2>3. Falling(it, Beneath(it, n, Active), Active)
    BY BeneathSelf
  <2> QED BY <2>2, <2>3 DEF Falling, Active
<1>6. Falling(it, S, Present)
  BY <1>5 DEF Falling
<1>7. Beneath(it, n, Present) \subseteq S
  <2> HIDE DEF S
  <2> QED BY <1>4, <1>6, BeneathLeast
<1> QED BY <1>3, <1>7

\* A new row under a live folder.
LEMMA AddOK ==
  ASSUME NEW it, TreeOK(it), NEW n \in Items, it[n].st = "absent",
         NEW p \in Places, Home(it, p)
  PROVE  TreeOK(AddTo(it, n, p))
<1> DEFINE jt == AddTo(it, n, p)
<1>0. it \in Forest /\ \A m \in Items : it[m] \in [parent : Places, st : States]
  BY DEF TreeOK, Forest
<1>1. it \in Forest /\ jt \in Forest
  BY <1>0 DEF AddTo, Forest, States
<1>2. \A m \in Items : jt[m] = IF m = n THEN [parent |-> p, st |-> "live"] ELSE it[m]
  BY <1>0 DEF AddTo, Forest
<1> HIDE DEF jt
<1>3. n \notin Above(it, p)
  <2>1. \A q \in Above(it, p) : it[q].st = "live"
    BY <1>1, AboveLive DEF TreeOK, LiveLinked, Home
  <2> QED BY <2>1
<1>4. Loopless(jt)
  <2>1. Reparented(it, jt, {n}, p)
    BY SMTT(60), Z3T(60), <1>2 DEF Items, Reparented
  <2>2. {n} \cap Above(it, p) = {}
    BY <1>3
  <2> QED BY <1>1, <2>1, <2>2, Reparent DEF TreeOK
<1>5. p # n /\ p # Root => p \in Items /\ jt[p].st = "live"
  BY <1>2 DEF Home, Places, Items
<1>6. p # n
  BY TreeAssumption DEF Home, Items
<1>7. LiveLinked(jt)
  <2> SUFFICES ASSUME NEW m \in Items, jt[m].st = "live"
               PROVE  jt[m].parent = Root \/ jt[jt[m].parent].st = "live"
    BY DEF LiveLinked
  <2>1. CASE m = n
    BY SMTT(60), Z3T(60), <1>2, <1>5, <1>6, <2>1
  <2>2. CASE m # n
    <3>1. jt[m] = it[m] /\ (it[m].parent = Root \/ it[it[m].parent].st = "live")
      BY <1>2, <2>2 DEF TreeOK, LiveLinked
    <3>2. it[m].parent # Root => it[m].parent \in Items
      BY <1>1, ForestFacts
    <3> QED BY <1>2, <3>1, <3>2
  <2> QED BY <2>1, <2>2
<1>8. RowsLinked(jt)
  <2> SUFFICES ASSUME NEW m \in Items, jt[m].st \in Present
               PROVE  jt[m].parent = Root \/ jt[jt[m].parent].st \in Present
    BY DEF RowsLinked
  <2>1. CASE m = n
    BY SMTT(60), Z3T(60), <1>2, <1>5, <1>6, <2>1 DEF Present
  <2>2. CASE m # n
    <3>1. jt[m] = it[m] /\ (it[m].parent = Root \/ it[it[m].parent].st \in Present)
      BY <1>2, <2>2 DEF TreeOK, RowsLinked
    <3>2. it[m].parent # Root => it[m].parent \in Items
      BY <1>1, ForestFacts
    <3> QED BY <1>2, <3>1, <3>2 DEF Present
  <2> QED BY <2>1, <2>2
<1> QED BY <1>1, <1>4, <1>7, <1>8 DEF TreeOK, jt

\* Live rows get a live parent in whose chain they are not.
LEMMA MoveOK ==
  ASSUME NEW it, TreeOK(it), NEW S \in SUBSET Items, \A n \in S : it[n].st = "live",
         NEW p \in Places, Home(it, p), S \cap Above(it, p) = {}
  PROVE  TreeOK(MoveTo(it, S, p))
<1> DEFINE jt == MoveTo(it, S, p)
<1>1. it \in Forest
  BY DEF TreeOK
<1>2. \A m \in Items : it[m] \in [parent : Places, st : States]
  BY <1>1 DEF Forest
<1>3. jt \in Forest
  BY <1>2 DEF MoveTo, Forest
<1>4. \A m \in Items : /\ jt[m].st = it[m].st
                       /\ jt[m].parent = IF m \in S THEN p ELSE it[m].parent
  BY <1>2 DEF MoveTo
<1> HIDE DEF jt
<1>5. Loopless(jt)
  <2>1. Reparented(it, jt, S, p)
    BY <1>4 DEF Items, Reparented
  <2> QED BY <1>1, <1>3, <2>1, Reparent DEF TreeOK
<1>6. ASSUME NEW m \in Items, jt[m].st = "live"
      PROVE  jt[m].parent = Root \/ jt[jt[m].parent].st = "live"
  <2>1. it[m].parent = Root \/ (it[it[m].parent].st = "live" /\ it[m].parent \in Items)
    BY <1>1, <1>4, <1>6, ForestFacts DEF TreeOK, LiveLinked
  <2>2. p # Root => p \in Items /\ it[p].st = "live"
    BY DEF Places, Items, Home
  <2> QED BY <1>4, <2>1, <2>2
<1>7. ASSUME NEW m \in Items, jt[m].st \in Present
      PROVE  jt[m].parent = Root \/ jt[jt[m].parent].st \in Present
  <2>1. it[m].parent = Root \/ (it[it[m].parent].st \in Present /\ it[m].parent \in Items)
    BY <1>1, <1>4, <1>7, ForestFacts DEF TreeOK, RowsLinked
  <2>2. p # Root => p \in Items /\ it[p].st \in Present
    BY DEF Places, Items, Home, Present
  <2> QED BY <1>4, <2>1, <2>2
<1> QED BY <1>3, <1>5, <1>6, <1>7 DEF TreeOK, LiveLinked, RowsLinked, jt

\* Live rows go to the trash with their live children.
LEMMA TrashOK ==
  ASSUME NEW it, TreeOK(it), NEW S \in SUBSET Items, Falling(it, S, Active),
         \A n \in S : it[n].st \in Present
  PROVE  TreeOK(Mark(it, S, "trash"))
<1> DEFINE jt == Mark(it, S, "trash")
<1>1. it \in Forest
  BY DEF TreeOK
<1>2. \A m \in Items : it[m] \in [parent : Places, st : States]
  BY <1>1 DEF Forest
<1>3. jt \in Forest
  BY <1>2 DEF Mark, Forest, States
<1>4. \A m \in Items : /\ jt[m].parent = it[m].parent
                       /\ jt[m].st = IF m \in S THEN "trash" ELSE it[m].st
  BY <1>2 DEF Mark
<1> HIDE DEF jt
<1>5. Loopless(jt)
  <2>1. Reparented(it, jt, {}, Root)
    BY <1>4 DEF Items, Reparented
  <2>2. {} \cap Above(it, Root) = {} /\ Root \in Places
    BY DEF Places
  <2> QED BY <1>1, <1>3, <2>1, <2>2, Reparent DEF TreeOK
<1>6. ASSUME NEW m \in Items, jt[m].st = "live"
      PROVE  jt[m].parent = Root \/ jt[jt[m].parent].st = "live"
  <2>1. it[m].st = "live" /\ m \notin S
    BY <1>4, <1>6
  <2>2. it[m].parent = Root \/ (it[it[m].parent].st = "live" /\ it[m].parent \in Items)
    BY <1>1, <2>1, ForestFacts DEF TreeOK, LiveLinked
  <2>3. it[m].parent \notin S
    BY <2>1 DEF Falling, Active
  <2> QED BY <1>4, <2>2, <2>3
<1>7. ASSUME NEW m \in Items, jt[m].st \in Present
      PROVE  jt[m].parent = Root \/ jt[jt[m].parent].st \in Present
  <2>1. it[m].st \in Present
    BY <1>4, <1>7
  <2>2. it[m].parent = Root \/ (it[it[m].parent].st \in Present /\ it[m].parent \in Items)
    BY <1>1, <2>1, ForestFacts DEF TreeOK, RowsLinked
  <2> QED BY <1>4, <2>2 DEF Present
<1> QED BY <1>3, <1>5, <1>6, <1>7 DEF TreeOK, LiveLinked, RowsLinked, jt

\* A row comes back from the trash, with all below it, under a live folder.
LEMMA RestoreOK ==
  ASSUME NEW it, TreeOK(it), NEW n \in Items, it[n].st = "trash",
         NEW p \in Places, Home(it, p)
  PROVE  TreeOK(BringBack(it, Beneath(it, n, Present), n, p))
<1> DEFINE S == Beneath(it, n, Present)
           jt == BringBack(it, S, n, p)
<1>1. it \in Forest
  BY DEF TreeOK
<1>2. S \in SUBSET Items /\ n \in S
  BY BeneathSelf
<1>3. \A m \in S : m # n => it[m].parent \in S
  BY BeneathUp
<1> HIDE DEF S
<1>4. /\ jt \in Forest
      /\ \A m \in Items : /\ jt[m].parent = IF m = n THEN p ELSE it[m].parent
                          /\ jt[m].st = IF m \in S THEN "live" ELSE it[m].st
  <2>1. BroughtBack(it, jt, S, n, p)
    BY <1>1, BringBackFacts
  <2> HIDE DEF jt
  <2> QED BY <2>1 DEF BroughtBack
<1> HIDE DEF jt
<1>5. Loopless(jt)
  <2>1. Reparented(it, jt, {n}, p)
    BY <1>4 DEF Items, Reparented
  <2>2. \A q \in Above(it, p) : it[q].st = "live"
    BY <1>1, AboveLive DEF TreeOK, LiveLinked, Home
  <2>3. {n} \cap Above(it, p) = {}
    BY <2>2
  <2> QED BY <1>1, <1>4, <2>1, <2>3, Reparent DEF TreeOK
<1>6. \A m \in Items : it[m].parent # Root => it[m].parent \in Items
  BY <1>1, ForestFacts
<1>7. p # Root => p \in Items /\ jt[p].st = "live"
  BY <1>4 DEF Home, Places, Items
<1>8. ASSUME NEW m \in Items, jt[m].st = "live"
      PROVE  jt[m].parent = Root \/ jt[jt[m].parent].st = "live"
  <2>1. CASE m = n
    BY <1>4, <1>7, <2>1
  <2>2. CASE m # n /\ m \in S
    BY <1>2, <1>3, <1>4, <2>2
  <2>3. CASE m # n /\ m \notin S
    <3>1. it[m].parent = Root \/ it[it[m].parent].st = "live"
      BY <1>4, <1>8, <2>3 DEF TreeOK, LiveLinked
    <3> QED BY <1>4, <1>6, <2>3, <3>1
  <2> QED BY <2>1, <2>2, <2>3
<1>9. ASSUME NEW m \in Items, jt[m].st \in Present
      PROVE  jt[m].parent = Root \/ jt[jt[m].parent].st \in Present
  <2>1. CASE m = n
    BY <1>4, <1>7, <2>1 DEF Present
  <2>2. CASE m # n /\ m \in S
    BY <1>2, <1>3, <1>4, <2>2 DEF Present
  <2>3. CASE m # n /\ m \notin S
    <3>1. it[m].parent = Root \/ it[it[m].parent].st \in Present
      BY <1>4, <1>9, <2>3 DEF TreeOK, RowsLinked
    <3> QED BY <1>4, <1>6, <2>3, <3>1 DEF Present
  <2> QED BY <2>1, <2>2, <2>3
<1> QED BY <1>4, <1>5, <1>8, <1>9 DEF TreeOK, LiveLinked, RowsLinked, jt, S

\* Rows go for good, with every row below them.
LEMMA CutOK ==
  ASSUME NEW it, TreeOK(it), NEW S \in SUBSET Items, Falling(it, S, Present)
  PROVE  TreeOK(Cut(it, S))
<1> DEFINE jt == Cut(it, S)
<1>1. it \in Forest
  BY DEF TreeOK
<1>2. /\ jt \in Forest
      /\ \A m \in Items : jt[m] = IF m \in S THEN [parent |-> Root, st |-> "gone"] ELSE it[m]
  BY <1>1, CutFacts
<1> HIDE DEF jt
<1>3. Loopless(jt)
  <2>1. Reparented(it, jt, S, Root)
    BY SMTT(60), Z3T(60), <1>2 DEF Items, Reparented
  <2>2. S \cap Above(it, Root) = {} /\ Root \in Places
    BY AboveSelf DEF Places
  <2> QED BY <1>1, <1>2, <2>1, <2>2, Reparent DEF TreeOK
<1>4. ASSUME NEW m \in Items, jt[m].st \in Present
      PROVE  /\ m \notin S /\ jt[m] = it[m]
             /\ it[m].parent # Root => it[m].parent \in Items /\ it[m].parent \notin S
  <2>1. m \notin S /\ jt[m] = it[m]
    BY SMTT(60), Z3T(60), <1>2, <1>4 DEF Present
  <2>2. it[m].parent # Root => it[m].parent \in Items
    BY <1>1, ForestFacts
  <2> QED BY <1>4, <2>1, <2>2 DEF Falling
<1>5. ASSUME NEW m \in Items, jt[m].st = "live"
      PROVE  jt[m].parent = Root \/ jt[jt[m].parent].st = "live"
  <2>1. jt[m].st \in Present
    BY <1>5 DEF Present
  <2> QED BY <1>2, <1>4, <1>5, <2>1 DEF TreeOK, LiveLinked
<1>6. ASSUME NEW m \in Items, jt[m].st \in Present
      PROVE  jt[m].parent = Root \/ jt[jt[m].parent].st \in Present
  BY <1>2, <1>4, <1>6 DEF TreeOK, RowsLinked
<1> QED BY <1>2, <1>3, <1>5, <1>6 DEF TreeOK, LiveLinked, RowsLinked, jt

\* What a purge takes away has every row below it in it.
LEMMA FallingUnion ==
  ASSUME NEW it, NEW R \in SUBSET Items, NEW W,
         NEW D, D = UNION {Beneath(it, n, W) : n \in R}
  PROVE  D \in SUBSET Items /\ R \subseteq D /\ Falling(it, D, W)
<1>1. \A n \in R : /\ Beneath(it, n, W) \in SUBSET Items /\ n \in Beneath(it, n, W)
                   /\ Falling(it, Beneath(it, n, W), W)
  BY BeneathSelf
<1>2. D \in SUBSET Items /\ R \subseteq D
  BY <1>1
<1>3. ASSUME NEW c \in Items, it[c].st \in W, it[c].parent \in D
      PROVE  c \in D
  <2>1. PICK n \in R : it[c].parent \in Beneath(it, n, W)
    BY <1>3
  <2>2. c \in Beneath(it, n, W)
    BY <1>1, <1>3, <2>1 DEF Falling
  <2> QED BY <2>2
<1> QED BY <1>2, <1>3 DEF Falling

\* The subtree of a row that stays loses the rows that go, and no others.
LEMMA BeneathCut ==
  ASSUME NEW it \in Forest, NEW S \in SUBSET Items, Falling(it, S, Present),
         NEW W \in SUBSET Present, NEW d \in Items, d \notin S
  PROVE  Beneath(Cut(it, S), d, W) = Beneath(it, d, W) \ S
<1> DEFINE jt == Cut(it, S)
<1>1. \A m \in Items : jt[m] = IF m \in S THEN [parent |-> Root, st |-> "gone"] ELSE it[m]
  BY CutFacts
<1>2. \A m \in Items : /\ jt[m].st \in W => m \notin S /\ it[m].st \in W
                       /\ m \notin S => jt[m] = it[m]
  BY SMTT(60), Z3T(60), <1>1 DEF Present
<1> HIDE DEF jt
<1>3. /\ Beneath(it, d, W) \in SUBSET Items /\ d \in Beneath(it, d, W)
      /\ Falling(it, Beneath(it, d, W), W)
      /\ Beneath(jt, d, W) \in SUBSET Items /\ d \in Beneath(jt, d, W)
      /\ Falling(jt, Beneath(jt, d, W), W)
  BY BeneathSelf
<1>4. Beneath(jt, d, W) \subseteq Beneath(it, d, W) \ S
  <2> DEFINE T == Beneath(it, d, W) \ S
  <2>1. T \in SUBSET Items /\ d \in T
    BY <1>3
  <2>2. Falling(jt, T, W)
    BY <1>2, <1>3 DEF Falling
  <2> HIDE DEF T
  <2>3. Beneath(jt, d, W) \subseteq T
    BY <2>1, <2>2, BeneathLeast
  <2> QED BY <2>3 DEF T
<1>5. Beneath(it, d, W) \subseteq Beneath(jt, d, W) \cup S
  <2> DEFINE T == Beneath(jt, d, W) \cup S
  <2>1. T \in SUBSET Items /\ d \in T
    BY <1>3
  <2>2. ASSUME NEW c \in Items, it[c].st \in W, it[c].parent \in T
        PROVE  c \in T
    <3>1. CASE c \notin S
      <4>1. it[c].parent \in Beneath(jt, d, W)
        BY <2>2, <3>1 DEF Falling
      <4> QED BY <1>2, <1>3, <2>2, <3>1, <4>1 DEF Falling
    <3> QED BY <3>1
  <2>3. Falling(it, T, W)
    BY <2>2 DEF Falling
  <2> HIDE DEF T
  <2>4. Beneath(it, d, W) \subseteq T
    BY <2>1, <2>3, BeneathLeast
  <2> QED BY <2>4 DEF T
<1> QED BY <1>4, <1>5 DEF jt

\* A file has nothing below it.
LEMMA BeneathFile ==
  ASSUME NEW it \in Forest, NEW f \in Files, NEW W
  PROVE  Beneath(it, f, W) = {f}
<1>1. \A c \in Items : it[c].parent # f
  <2>1. \A c \in Items : it[c].parent \in Places
    BY ForestFacts
  <2> QED BY <2>1, TreeAssumption DEF Places
<1>2. Falling(it, {f}, W) /\ {f} \in SUBSET Items /\ f \in Items
  BY <1>1 DEF Falling, Items
<1> QED BY <1>2, BeneathLeast, BeneathSelf

-----------------------------------------------------------------------------
(***************************************************************************)
(* The staging of a large tree.  Everything staged or still to be entered  *)
(* is in the tree or purged since; every row of the tree is staged, or     *)
(* below a folder of the tree that is still to be entered or paged; and of *)
(* a folder being paged the files are staged already.                      *)
(***************************************************************************)
WalkedBy(t) == IF t.op = "delete" THEN Active ELSE Present
TreeOf(it, t) == Beneath(it, t.root, WalkedBy(t))

Gathered(it, t) ==
    \A n \in t.staged \cup t.todo \cup t.scan : n \in TreeOf(it, t) \/ it[n].st = "gone"
Pending(it, t, m) ==
    \E d \in t.todo \cup t.scan : d \in TreeOf(it, t) /\ m \in Beneath(it, d, WalkedBy(t))
Accounted(it, t) == \A m \in TreeOf(it, t) : m \in t.staged \/ Pending(it, t, m)
Paged(it, t) ==
    \A d \in t.scan :
        /\ d \in t.staged
        /\ d \in TreeOf(it, t) => \A f \in Files : it[f].parent = d /\ it[f].st \in WalkedBy(t)
                                                       => f \in t.staged

\* A step outside the tree leaves the staging as true as it was.
LEMMA OutsideStaging ==
  ASSUME NEW it, NEW jt, NEW t, t.root \in Items,
         Untouched(it, jt, t.root, WalkedBy(t)),
         \A n \in Items : it[n].st = "gone" => jt[n].st = "gone",
         t.staged \cup t.todo \cup t.scan \subseteq Items
  PROVE  /\ Gathered(it, t) => Gathered(jt, t)
         /\ Accounted(it, t) /\ Paged(it, t) => Accounted(jt, t) /\ Paged(jt, t)
<1> DEFINE W == WalkedBy(t)
           T == Beneath(it, t.root, W)
<1>0. Untouched(it, jt, t.root, W)
  OBVIOUS
<1>1. \A d \in T : Beneath(jt, d, W) = Beneath(it, d, W)
  <2> HIDE DEF W
  <2> QED BY SMTT(60), Z3T(60), <1>0, BeneathSame
<1>2. T \in SUBSET Items /\ t.root \in T /\ TreeOf(it, t) = T /\ TreeOf(jt, t) = T
  BY <1>1, BeneathSelf DEF TreeOf
<1>3. \A c \in Items : jt[c].st \in W /\ jt[c].parent \in T => it[c].st \in W /\ it[c].parent = jt[c].parent
  BY DEF Untouched
<1> HIDE DEF W, T
<1>4. ASSUME Gathered(it, t) PROVE Gathered(jt, t)
  BY <1>2, <1>4 DEF Gathered
<1>5. ASSUME Accounted(it, t) PROVE Accounted(jt, t)
  <2>1. ASSUME NEW m, Pending(it, t, m) PROVE Pending(jt, t, m)
    BY <1>1, <1>2, <2>1 DEF Pending, W
  <2> QED BY <1>2, <1>5, <2>1 DEF Accounted
<1>6. ASSUME Paged(it, t) PROVE Paged(jt, t)
  BY <1>2, <1>3, <1>6 DEF Paged, W, Items
<1> QED BY <1>4, <1>5, <1>6

\* A purge that spares the root of the tree leaves the staging as true as it was.
LEMMA PurgedStaging ==
  ASSUME NEW it \in Forest, NEW S \in SUBSET Items, Falling(it, S, Present),
         NEW t, t.root \in Items, t.root \notin S,
         t.staged \cup t.todo \cup t.scan \subseteq Items
  PROVE  /\ Gathered(it, t) => Gathered(Cut(it, S), t)
         /\ Accounted(it, t) /\ Paged(it, t) => Accounted(Cut(it, S), t) /\ Paged(Cut(it, S), t)
<1> DEFINE W == WalkedBy(t)
           jt == Cut(it, S)
           T == Beneath(it, t.root, W)
<1>1. W \in SUBSET Present
  BY DEF WalkedBy, Active, Present
<1>2. \A d \in Items : d \notin S => Beneath(jt, d, W) = Beneath(it, d, W) \ S
  <2> HIDE DEF W
  <2> QED BY <1>1, BeneathCut
<1>3. T \in SUBSET Items /\ TreeOf(it, t) = T /\ TreeOf(jt, t) = T \ S
  <2>1. T \in SUBSET Items
    BY BeneathSelf
  <2>2. Beneath(jt, t.root, W) = T \ S
    BY <1>2
  <2> QED BY <2>1, <2>2 DEF TreeOf
<1>4. /\ \A m \in Items : jt[m] = IF m \in S THEN [parent |-> Root, st |-> "gone"] ELSE it[m]
  BY CutFacts
<1>5. \A m \in Items : /\ m \in S => jt[m].st = "gone" /\ jt[m].st \notin W
                       /\ m \notin S => jt[m] = it[m]
  BY SMTT(60), Z3T(60), <1>1, <1>4 DEF Present
<1>6. \A d \in Items : \A m : d \in S /\ m \in Beneath(it, d, W) => m \in S
  <2> SUFFICES ASSUME NEW d \in Items, d \in S PROVE Beneath(it, d, W) \subseteq S
    OBVIOUS
  <2>1. Falling(it, S, W)
    BY <1>1 DEF Falling
  <2> HIDE DEF W
  <2> QED BY <2>1, BeneathLeast
<1> HIDE DEF W, T, jt
<1>7. ASSUME Gathered(it, t) PROVE Gathered(jt, t)
  <2> SUFFICES ASSUME NEW n \in t.staged \cup t.todo \cup t.scan
               PROVE  n \in T \ S \/ jt[n].st = "gone"
    BY <1>3 DEF Gathered
  <2>1. n \in Items /\ (n \in T \/ it[n].st = "gone")
    BY <1>3, <1>7 DEF Gathered
  <2> QED BY <1>5, <2>1
<1>8. ASSUME Accounted(it, t) PROVE Accounted(jt, t)
  <2>1. ASSUME NEW m, m \notin S, Pending(it, t, m) PROVE Pending(jt, t, m)
    <3>1. PICK d \in t.todo \cup t.scan : d \in T /\ m \in Beneath(it, d, W)
      BY <1>3, <2>1 DEF Pending, W
    <3>2. d \in Items /\ d \notin S
      BY <1>3, <1>6, <2>1, <3>1
    <3>3. m \in Beneath(jt, d, W) /\ d \in TreeOf(jt, t)
      BY <1>2, <1>3, <2>1, <3>1, <3>2
    <3> QED BY <3>1, <3>3 DEF Pending, W
  <2> QED BY <1>3, <1>8, <2>1 DEF Accounted
<1>9. ASSUME Paged(it, t) PROVE Paged(jt, t)
  <2>1. \A f \in Files : f \in Items
    BY DEF Items
  <2> QED BY <1>3, <1>5, <1>9, <2>1 DEF Paged, W
<1> QED BY <1>7, <1>8, <1>9 DEF jt

\* Nothing has a parent that is purged or was never there.
LEMMA NoOrphans ==
  ASSUME NEW it, TreeOK(it), NEW d \in Items, NEW c \in Items,
         it[c].parent = d, it[c].st \in Present
  PROVE  it[d].st # "gone"
<1>1. it[d].st \in Present
  BY TreeAssumption DEF TreeOK, RowsLinked, Items
<1> QED BY <1>1 DEF Present

\* process_staging enters a folder: the folder and its files are staged.
LEMMA EnterFolder ==
  ASSUME NEW it, TreeOK(it), NEW t, NEW u, t.root \in Items,
         NEW d \in t.todo, t.todo \subseteq Items,
         u.op = t.op, u.root = t.root, u.todo = t.todo \ {d}, u.scan = t.scan \cup {d},
         u.staged = t.staged \cup {d} \cup {f \in Files : it[f].parent = d /\ it[f].st \in WalkedBy(t)},
         Gathered(it, t), Accounted(it, t), Paged(it, t)
  PROVE  Gathered(it, u) /\ Accounted(it, u) /\ Paged(it, u)
<1> DEFINE W == WalkedBy(t)
           T == TreeOf(it, t)
<1>1. WalkedBy(u) = W /\ TreeOf(it, u) = T /\ W \subseteq Present
  BY DEF WalkedBy, TreeOf, Active, Present
<1>2. T \in SUBSET Items /\ Falling(it, T, W)
  BY BeneathSelf DEF TreeOf
<1>3. d \in Items /\ (d \in T \/ it[d].st = "gone")
  BY DEF Gathered
<1> HIDE DEF W, T
<1>4. \A f \in Files : it[f].parent = d /\ it[f].st \in W => f \in T
  <2> SUFFICES ASSUME NEW f \in Files, it[f].parent = d, it[f].st \in W PROVE f \in T
    OBVIOUS
  <2>1. f \in Items
    BY DEF Items
  <2>2. d \in T
    BY <1>1, <1>3, <2>1, NoOrphans
  <2> QED BY <1>2, <2>1, <2>2 DEF Falling
<1>5. Gathered(it, u)
  <2> SUFFICES ASSUME NEW n \in u.staged \cup u.todo \cup u.scan
               PROVE  n \in T \/ it[n].st = "gone"
    BY <1>1 DEF Gathered
  <2>1. n \in t.staged \cup t.todo \cup t.scan \/ n = d \/ (n \in Files /\ it[n].parent = d /\ it[n].st \in W)
    BY DEF W
  <2> QED BY <1>3, <1>4, <2>1 DEF Gathered, T
<1>6. Accounted(it, u)
  <2>1. ASSUME NEW m, Pending(it, t, m) PROVE Pending(it, u, m)
    <3>1. PICK x \in t.todo \cup t.scan : x \in T /\ m \in Beneath(it, x, W)
      BY <2>1 DEF Pending, W, T
    <3>2. x \in u.todo \cup u.scan
      BY <3>1
    <3> QED BY <1>1, <3>1, <3>2 DEF Pending
  <2> QED BY <1>1, <2>1 DEF Accounted, T
<1>7. Paged(it, u)
  <2> SUFFICES ASSUME NEW x \in u.scan
               PROVE  /\ x \in u.staged
                      /\ x \in T => \A f \in Files : it[f].parent = x /\ it[f].st \in W => f \in u.staged
    BY <1>1 DEF Paged
  <2>1. CASE x = d
    BY <2>1 DEF W
  <2>2. CASE x \in t.scan
    BY <2>2 DEF Paged, W, T
  <2> QED BY <2>1, <2>2
<1> QED BY <1>5, <1>6, <1>7

\* process_staging pages in the child folders of a folder it has entered.
LEMMA PageFolder ==
  ASSUME NEW it, TreeOK(it), NEW t, NEW u, t.root \in Items,
         NEW d \in t.scan, t.scan \subseteq Items,
         u.op = t.op, u.root = t.root, u.scan = t.scan \ {d}, u.staged = t.staged,
         u.todo = t.todo \cup {c \in Folders : it[c].parent = d /\ it[c].st \in WalkedBy(t)},
         Gathered(it, t), Accounted(it, t), Paged(it, t)
  PROVE  Gathered(it, u) /\ Accounted(it, u) /\ Paged(it, u)
<1> DEFINE W == WalkedBy(t)
           T == TreeOf(it, t)
<1>1. WalkedBy(u) = W /\ TreeOf(it, u) = T /\ W \subseteq Present
  BY DEF WalkedBy, TreeOf, Active, Present
<1>2. T \in SUBSET Items /\ Falling(it, T, W)
  BY BeneathSelf DEF TreeOf
<1>3. d \in Items /\ (d \in T \/ it[d].st = "gone")
  BY DEF Gathered
<1>4. it \in Forest
  BY DEF TreeOK
<1> HIDE DEF W, T
<1>5. \A c \in Items : it[c].parent = d /\ it[c].st \in W => c \in T
  <2> SUFFICES ASSUME NEW c \in Items, it[c].parent = d, it[c].st \in W PROVE c \in T
    OBVIOUS
  <2>1. d \in T
    BY <1>1, <1>3, NoOrphans
  <2> QED BY <1>2, <2>1 DEF Falling
<1>6. Gathered(it, u)
  <2> SUFFICES ASSUME NEW n \in u.staged \cup u.todo \cup u.scan
               PROVE  n \in T \/ it[n].st = "gone"
    BY <1>1 DEF Gathered
  <2>1. n \in t.staged \cup t.todo \cup t.scan \/ (n \in Items /\ it[n].parent = d /\ it[n].st \in W)
    BY DEF W, Items
  <2> QED BY <1>5, <2>1 DEF Gathered, T
<1>7. ASSUME NEW m, Pending(it, t, m) PROVE m \in t.staged \/ Pending(it, u, m)
  <2>1. PICK x \in t.todo \cup t.scan : x \in T /\ m \in Beneath(it, x, W)
    BY <1>7 DEF Pending, W, T
  <2>2. CASE x # d
    <3>1. x \in u.todo \cup u.scan
      BY <2>1, <2>2
    <3> QED BY <1>1, <2>1, <3>1 DEF Pending
  <2>3. CASE x = d /\ m = d
    BY <2>3 DEF Paged
  <2>4. CASE x = d /\ m # d
    <3>0. m \in Beneath(it, d, W) /\ m # d
      BY <2>1, <2>4
    <3>1. PICK c \in Items : it[c].parent = d /\ it[c].st \in W /\ m \in Beneath(it, c, W)
      BY SMTT(60), Z3T(60), <1>3, <3>0, BeneathSplit
    <3>2. CASE c \in Folders
      <4>1. c \in u.todo /\ c \in T
        BY <1>5, <3>1, <3>2 DEF W
      <4> QED BY <1>1, <3>1, <4>1 DEF Pending
    <3>3. CASE c \in Files
      <4>0. Beneath(it, c, W) = {c}
        BY <1>4, <3>3, BeneathFile
      <4>1. m = c
        BY <3>1, <4>0
      <4>2. c \in t.staged
        BY <2>1, <2>4, <3>1, <3>3 DEF Paged, W, T
      <4> QED BY <4>1, <4>2
    <3> QED BY <3>2, <3>3 DEF Items
  <2> QED BY <2>2, <2>3, <2>4
<1>8. Accounted(it, u)
  BY <1>1, <1>7 DEF Accounted, T
<1>9. Paged(it, u)
  BY <1>1 DEF Paged, W, T
<1> QED BY <1>6, <1>8, <1>9

-----------------------------------------------------------------------------
(***************************************************************************)
(* The inductive invariant.                                                *)
(***************************************************************************)
MoveType == [set : SUBSET Items, to : Places, rows : SUBSET Folders, from : SUBSET Places,
             batch : BOOLEAN]
SessionType == [to : Places, direct : BOOLEAN]
PurgerType == [token : Nat, page : SUBSET Items]
PurgeType == [st : {"none", "pending", "processing", "canceling", "ended"}, token : Nat,
              lease : BOOLEAN, asked : SUBSET Items]

\* A task row has its fields, whatever path it recorded.
IsTask(t) == t = [st |-> t.st, op |-> t.op, root |-> t.root, path |-> t.path,
                  staged |-> t.staged, todo |-> t.todo, scan |-> t.scan]
TaskType ==
    /\ IsTask(task)
    /\ task.st \in {"none", "queued", "locking", "staging"}
    /\ task.op \in {"delete", "restore"}
    /\ task.st # "none" => task.root \in Folders /\ "task" \in cast
    /\ task.staged \subseteq Items /\ task.todo \subseteq Folders /\ task.scan \subseteq Folders

TreeTypes ==
    /\ cast \in Casts
    /\ lock = [l \in Tokens |-> lock[l]]
    /\ mover \in [Movers -> MoveType \cup {None}]
    /\ session \in [Files -> SessionType \cup {None}]
    /\ purge \in PurgeType
    /\ purger \in [PurgeWorkers -> PurgerType \cup {None}]

\* Where uploads take part nothing is in the trash; only the actors that take
\* part have requests, sessions and locks.
Company ==
    /\ "upload" \in cast =>
          /\ \A n \in Items : item[n].st \in {"live", "absent"}
          /\ \A f \in Files : session[f] # None =>
                item[f].st = "absent" /\ Home(item, session[f].to)
    /\ \A f \in Files : session[f] # None => "upload" \in cast
    /\ \A m \in Movers : mover[m] # None /\ mover[m].batch => "batch" \in cast
    /\ "lock" \notin cast => Held \subseteq {OpToken}

\* A lock is on a row that exists.
Rooted(it, r) == r = Root \/ (r \in Items /\ it[r].st \in Present)
Anchored == \A l \in Held : Rooted(item, lock[l].root)

\* The operation lock is on the task's tree.  Without it the task has staged
\* nothing, or its tree is gone, or its owner dropped the lock and no attempt
\* follows.
OpLocking ==
    /\ OpToken \in Held => /\ task.st \in {"queued", "staging"}
                           /\ lock[OpToken].root = task.root /\ lock[OpToken].deep = TRUE
    /\ task.st # "none" => item[task.root].st # "absent"
    /\ task.st \in {"queued", "locking"} /\ OpToken \notin Held /\ item[task.root].st # "gone"
          => task.staged = {}
    /\ task.st \in {"queued", "locking"} /\ "crash" \notin cast
          => task.staged = {} /\ OpToken \notin Held
    /\ task.st = "staging" /\ "unlock" \notin cast /\ item[task.root].st # "gone"
          => OpToken \in Held
    /\ task.st # "none" /\ task.op = "restore" => item[task.root].st \in {"trash", "gone"}

Staging ==
    OpToken \in Held => /\ Gathered(item, task)
                        /\ task.st = "staging" => Accounted(item, task) /\ Paged(item, task)

Asked == PurgeActive => Trashed \subseteq purge.asked

TreeInv == /\ TreeTypes /\ TaskType /\ TreeOK(item)
           /\ Company /\ Anchored /\ OpLocking /\ Staging /\ Asked

\* The invariant holds in an empty workspace and in any tree of live rows.
LEMMA InitTreeInv ==
  ASSUME TreeInit
  PROVE  TreeInv
<1>1. TreeTypes
  BY DEF TreeInit, TreeTypes, PurgeType
<1>2. TaskType
  BY DEF TreeInit, TaskType, NoTask, IsTask
<1>3. item \in Forest
  BY DEF TreeInit, Forest, Places, States
<1>4. \A n \in Items : item[n].st = "live" =>
         /\ item[n].parent = Root \/ item[item[n].parent].st = "live"
         /\ n \notin Above(item, item[n].parent)
  <2> SUFFICES ASSUME NEW n \in Items, item[n].st = "live"
               PROVE  /\ item[n].parent = Root \/ item[item[n].parent].st = "live"
                      /\ n \notin Above(item, item[n].parent)
    OBVIOUS
  <2>1. Live(n)
    BY TreeAssumption DEF Live, Items
  <2>2. Live(item[n].parent) /\ n \notin Chain(item[n].parent)
    BY <2>1 DEF TreeInit
  <2> QED BY <2>2, ChainIsAbove DEF Live
<1>5. \A n \in Items : item[n].st # "live" => item[n].parent = Root /\ item[n].st = "absent"
  <2> SUFFICES ASSUME NEW n \in Items, item[n].st # "live"
               PROVE  item[n].parent = Root /\ item[n].st = "absent"
    OBVIOUS
  <2>1. ~Live(n)
    BY TreeAssumption DEF Live, Items
  <2> QED BY SMTT(60), Z3T(60), <2>1 DEF TreeInit
<1>6. Loopless(item)
  <2>1. Above(item, Root) = {}
    BY AboveSelf
  <2> QED BY <1>4, <1>5, <2>1 DEF Loopless, Items
<1>7. LiveLinked(item) /\ RowsLinked(item)
  <2>1. LiveLinked(item)
    BY <1>4 DEF LiveLinked
  <2>2. \A n \in Items : item[n].st \in Present => item[n].st = "live"
    BY <1>5 DEF Present
  <2> QED BY <1>4, <2>1, <2>2 DEF RowsLinked, Present
<1>8. Held = {} /\ task.st = "none" /\ ~PurgeActive
  BY DEF TreeInit, Held, NoLock, NoTask, PurgeActive
<1>9. Company
  <2>1. \A n \in Items : item[n].st \in {"live", "absent"}
    BY <1>5
  <2>2. /\ \A f \in Files : session[f] = None
        /\ \A m \in Movers : mover[m] = None
    BY DEF TreeInit
  <2> QED BY <1>8, <2>1, <2>2 DEF Company
<1>10. Anchored /\ OpLocking
  BY <1>8 DEF Anchored, OpLocking
<1>11. Staging /\ Asked
  BY <1>8 DEF Staging, Asked
<1> QED BY <1>1, <1>2, <1>3, <1>6, <1>7, <1>9, <1>10, <1>11 DEF TreeInv, TreeOK

-----------------------------------------------------------------------------
(***************************************************************************)
(* What the steps do.                                                      *)
(***************************************************************************)
OpCovers(n) == OpToken \in Held /\ Covers(OpToken, n)

Grows(n, p) ==
    /\ item[n].st = "absent" /\ Home(item, p) /\ ~OpCovers(p)
    /\ item' = AddTo(item, n, p)
Shifts(S, p) ==
    /\ Home(item, p) /\ S \cap Above(item, p) = {}
    /\ \A n \in S : item[n].st = "live" /\ ~OpCovers(n) /\ (item[n].parent # p => ~OpCovers(p))
    /\ item' = MoveTo(item, S, p)
Discards(n) ==
    /\ item[n].st = "live" /\ ~PurgeActive /\ "upload" \notin cast
    /\ item' = Mark(item, Beneath(item, n, Active), "trash")
Recovers(n) ==
    /\ item[n].st = "trash"
    /\ \E p \in Places : /\ p = IF Home(item, item[n].parent) THEN item[n].parent ELSE Root
                         /\ item' = BringBack(item, Beneath(item, n, Present), n, p)
Doomed(R) == UNION {Beneath(item, n, Present) : n \in R}
Destroys(R) ==
    /\ R \subseteq Trashed
    /\ item' = Cut(item, Doomed(R))
    /\ lock' = LocksWithout(Doomed(R))

\* Live places are those the tables say are live.
LEMMA HomeIsLive ==
  ASSUME NEW p
  PROVE  Live(p) <=> Home(item, p)
BY DEF Live, Home

\* A request without the task's token is refused what the operation lock covers.
LEMMA FreeUncovered ==
  ASSUME NEW n, NEW ts, Free(n, ts), OpToken \notin ts
  PROVE  ~OpCovers(n)
BY DEF Free, OpCovers

\* What the operation lock does not cover is not in the task's tree.
LEMMA UncoveredOutside ==
  ASSUME TreeInv, OpToken \in Held, NEW n \in Items, ~OpCovers(n)
  PROVE  n \notin TreeOf(item, task)
<1>1. item \in Forest /\ task.root \in Items /\ task.root \in Folders
  BY DEF TreeInv, TreeOK, OpLocking, TaskType, Items
<1>2. lock[OpToken].root = task.root /\ lock[OpToken].deep = TRUE
  BY DEF TreeInv, OpLocking
<1>3. task.root # n /\ task.root \notin Chain(ParentOf(n))
  BY <1>2 DEF OpCovers, Covers
<1>4. ParentOf(n) = item[n].parent
  BY TreeAssumption DEF ParentOf, Items
<1>5. task.root \notin Above(item, item[n].parent)
  BY <1>3, <1>4, ChainIsAbove
<1> QED BY <1>1, <1>3, <1>5, BeneathAbove DEF TreeOf

\* folder::create_in_scope adds a row below a live folder.
LEMMA CreateEffect ==
  ASSUME TreeInv, NEW d \in Folders, NEW p \in Places,
         NEW ts \in {{}} \cup {{h} : h \in Holders}, CreateFolder(d, p, ts)
  PROVE  Grows(d, p) /\ UNCHANGED <<cast, lock, task, purge, session, mover>>
<1>1. Home(item, p)
  BY HomeIsLive DEF CreateFolder
<1>2. OpToken \notin ts
  BY SMTT(60), Z3T(60), TreeAssumption
<1>3. ~OpCovers(p)
  BY <1>2, FreeUncovered DEF CreateFolder, MemberFree
<1> QED BY <1>1, <1>3 DEF Grows, AddTo, CreateFolder

\* The upload's last step adds a row; its folder is live where nothing is trashed.
LEMMA UploadEffect ==
  ASSUME TreeInv, TameCasts, NEW f \in Files, UploadPublish(f)
  PROVE  /\ "upload" \in cast /\ session'[f] = None
         /\ \E p \in Places : Grows(f, p) /\ UNCHANGED <<cast, lock, task, purge, mover>>
<1>1. session[f] # None
  BY DEF UploadPublish
<1>2. "upload" \in cast /\ "task" \notin cast
  BY <1>1 DEF TreeInv, Company, TreeTypes, TameCasts
<1>3. item[f].st = "absent" /\ Home(item, session[f].to)
  BY <1>1, <1>2 DEF TreeInv, Company
<1>4. session[f].to \in Places
  BY <1>1 DEF TreeInv, TreeTypes, SessionType
<1>5. OpToken \notin Held
  BY <1>2 DEF TreeInv, OpLocking, TaskType
<1>6. Grows(f, session[f].to)
  BY <1>3, <1>5 DEF Grows, AddTo, OpCovers, UploadPublish
<1>7. session'[f] = None
  BY DEF UploadPublish, TreeInv, TreeTypes
<1> QED BY <1>2, <1>4, <1>6, <1>7 DEF UploadPublish

\* folder::update_in_scope moves one folder.
LEMMA MoveEffect ==
  ASSUME TreeInv, NEW m \in Movers, MoveCommit(m)
  PROVE  \E S \in SUBSET Items, p \in Places :
            Shifts(S, p) /\ UNCHANGED <<cast, lock, task, purge, session>>
<1>1. mover[m] \in MoveType
  BY DEF TreeInv, TreeTypes, MoveCommit
<1> DEFINE p == mover[m].to
<1>2. p \in Places /\ mover[m].set \in SUBSET Items
  BY <1>1 DEF MoveType
<1>3. PICK d \in mover[m].set :
        /\ Free(d, {}) /\ Live(d)
        /\ \A q \in Chain(p) : Live(q)
        /\ p # item[d].parent => MemberFree(p, {})
        /\ d \notin Chain(p)
        /\ item' = [item EXCEPT ![d].parent = p]
  BY DEF MoveCommit
<1>4. {d} \in SUBSET Items /\ d \in Items
  BY <1>2, <1>3
<1>5. item[d].st = "live"
  BY <1>3, <1>4, TreeAssumption DEF Live, Items
<1>6. Home(item, p)
  <2>1. p # Root => p \in Chain(p)
    <3>1. p # Root => p \in Above(item, p)
      BY <1>2, AboveSelf DEF Places
    <3> QED BY <3>1, ChainIsAbove
  <2> QED BY <1>3, <2>1, HomeIsLive DEF Home
<1>7. {d} \cap Above(item, p) = {}
  BY <1>3, ChainIsAbove
<1>8. ~OpCovers(d) /\ (item[d].parent # p => ~OpCovers(p))
  BY <1>3, FreeUncovered DEF MemberFree
<1>9. item' = MoveTo(item, {d}, p)
  <2>1. item \in [Items -> [parent : Places, st : States]]
    BY DEF TreeInv, TreeOK, Forest
  <2> HIDE DEF p
  <2> QED BY <1>3, <1>4, <2>1 DEF MoveTo
<1>10. Shifts({d}, p)
  BY <1>5, <1>6, <1>7, <1>8, <1>9 DEF Shifts
<1> QED BY <1>2, <1>4, <1>10 DEF MoveCommit

\* batch_move_in_scope moves its selection.
LEMMA BatchEffect ==
  ASSUME TreeInv, NEW m \in Movers, BatchCommit(m)
  PROVE  \E S \in SUBSET Items, p \in Places :
            Shifts(S, p) /\ UNCHANGED <<cast, lock, task, purge, session>>
<1>1. mover[m] \in MoveType
  BY DEF TreeInv, TreeTypes, BatchCommit
<1> DEFINE p == mover[m].to
           S == mover[m].set
<1>2. p \in Places /\ S \in SUBSET Items
  BY <1>1 DEF MoveType
<1>3. /\ Live(p) /\ MemberFree(p, {})
      /\ \A n \in S : Live(n) /\ Free(n, {})
      /\ S \cap Chain(p) = {}
      /\ item' = MoveTo(item, S, p)
  BY DEF BatchCommit, MoveTo
<1>4. \A n \in S : item[n].st = "live"
  BY <1>2, <1>3, TreeAssumption DEF Live, Items
<1>5. \A n \in S : ~OpCovers(n) /\ ~OpCovers(p)
  BY <1>3, FreeUncovered DEF MemberFree
<1>6. Shifts(S, p)
  BY <1>3, <1>4, <1>5, HomeIsLive, ChainIsAbove DEF Shifts
<1> QED BY <1>2, <1>6 DEF BatchCommit

\* folder::delete_in_scope and the soft deletion of a file trash a subtree that
\* the operation lock does not touch.
LEMMA TrashEffect ==
  ASSUME TreeInv, TameCasts, NEW n \in Items, TrashItem(n)
  PROVE  /\ Discards(n) /\ UNCHANGED <<cast, lock, task, purge, session, mover>>
         /\ \A d \in Beneath(item, n, Active) : ~OpCovers(d)
<1>1. item[n].st = "live"
  BY TreeAssumption DEF TrashItem, Live, Items
<1>2. Subtree(n, Active) = Beneath(item, n, Active)
  BY SubtreeIsBeneath
<1>3. "upload" \notin cast
  BY DEF TrashItem, Acting, TreeInv, TreeTypes, TameCasts
<1>4. item' = Mark(item, Beneath(item, n, Active), "trash")
  BY <1>2 DEF TrashItem, Marked, Mark
<1>5. ~PurgeActive
  BY DEF TrashItem, Admitted
<1>6. \A d \in Beneath(item, n, Active) : ~OpCovers(d)
  BY <1>2, FreeUncovered DEF TrashItem
<1> QED BY <1>1, <1>3, <1>4, <1>5, <1>6 DEF Discards, TrashItem

\* The target of a restore is live.
LEMMA TargetHome ==
  ASSUME item \in Forest, NEW n \in Items
  PROVE  /\ TargetOf(n) \in Places /\ Home(item, TargetOf(n))
         /\ TargetOf(n) = IF Home(item, item[n].parent) THEN item[n].parent ELSE Root
<1>1. item[n].parent \in Places /\ Root \in Places
  BY ForestFacts DEF Places
<1>2. TargetOf(n) = IF Home(item, item[n].parent) THEN item[n].parent ELSE Root
  BY HomeIsLive DEF TargetOf
<1> QED BY <1>1, <1>2 DEF Home

\* restore_file_in_scope and restore_folder_in_scope bring a subtree back, in
\* casts without the task.
LEMMA RestoreEffect ==
  ASSUME TreeInv, TameCasts, NEW n \in Items, RestoreItem(n)
  PROVE  /\ Recovers(n) /\ UNCHANGED <<cast, lock, task, purge, session, mover>>
         /\ "task" \notin cast
<1>1. Subtree(n, Present) = Beneath(item, n, Present)
  BY SubtreeIsBeneath
<1>2. "task" \notin cast
  BY DEF RestoreItem, Acting, TreeInv, TreeTypes, TameCasts
<1>4. item' = BringBack(item, Beneath(item, n, Present), n, TargetOf(n))
  BY <1>1 DEF RestoreItem, Marked, Mark, BringBack
<1>5. item \in Forest
  BY DEF TreeInv, TreeOK
<1>6. Recovers(n)
  BY <1>4, <1>5, TargetHome DEF Recovers, RestoreItem
<1> QED BY <1>2, <1>6 DEF RestoreItem

\* purge_folder_forest_in_resource_scope destroys the subtrees of trashed roots.
LEMMA ForestEffect ==
  ASSUME NEW roots \in SUBSET Items, PurgeForest(roots)
  PROVE  \E R \in SUBSET Items : Destroys(R)
<1> DEFINE R == {r \in roots : item[r].st = "trash"}
<1>1. R \in SUBSET Items /\ R \subseteq Trashed
  BY DEF Trashed
<1>2. \A n : Subtree(n, Present) = Beneath(item, n, Present)
  BY SubtreeIsBeneath
<1>3. UNION {Subtree(n, Present) : n \in R} = Doomed(R)
  BY <1>2 DEF Doomed
<1>4. item' = Cut(item, Doomed(R)) /\ lock' = LocksWithout(Doomed(R))
  BY <1>3 DEF PurgeForest, Cut
<1> QED BY <1>1, <1>4 DEF Destroys

\* What a purge destroys is trash, and it has every row below it.
LEMMA DoomedTrash ==
  ASSUME TreeInv, NEW R, R \subseteq Trashed
  PROVE  /\ Doomed(R) \in SUBSET Items /\ R \subseteq Doomed(R)
         /\ Falling(item, Doomed(R), Present)
         /\ \A n \in Doomed(R) : item[n].st = "trash"
<1>1. R \in SUBSET Items /\ \A n \in R : item[n].st = "trash"
  BY DEF Trashed
<1>2. /\ Doomed(R) \in SUBSET Items /\ R \subseteq Doomed(R)
      /\ Falling(item, Doomed(R), Present)
  <2>1. Doomed(R) = UNION {Beneath(item, n, Present) : n \in R}
    BY DEF Doomed
  <2> QED BY <1>1, <2>1, FallingUnion
<1>3. ASSUME NEW m \in Doomed(R) PROVE item[m].st = "trash"
  <2>1. PICK n \in R : m \in Beneath(item, n, Present)
    BY DEF Doomed
  <2>2. n \in Items /\ item[n].st = "trash" /\ item[n].st # "live"
    BY <1>1
  <2>3. item \in Forest /\ LiveLinked(item)
    BY DEF TreeInv, TreeOK
  <2>4. \A x \in Beneath(item, n, Present) : x # n => item[x].st = "trash"
    BY <2>2, <2>3, BeneathDead
  <2> QED BY <2>1, <2>2, <2>4
<1> QED BY <1>2, <1>3

\* finalize_operation finds staged exactly the rows of the tree: it trashes or
\* restores the whole subtree at once, or trashes again a root already in the trash.
LEMMA FinalizeEffect ==
  ASSUME TreeInv, TameCasts, TaskFinalize
  PROVE  /\ UNCHANGED item \/ Discards(task.root) \/ Recovers(task.root)
         /\ OpToken \notin Held' /\ task.root \in Items
<1> DEFINE r == task.root
           T == TreeOf(item, task)
<1>1. OpToken \in Held /\ task.st = "staging" /\ task.todo = {} /\ task.scan = {}
  BY DEF TaskFinalize
<1>2. /\ r \in Items /\ r \in Folders /\ "upload" \notin cast
      /\ item \in Forest /\ LiveLinked(item)
  <2>1. r \in Folders /\ "task" \in cast
    BY <1>1 DEF TreeInv, TaskType
  <2> QED BY <2>1 DEF TreeInv, TreeOK, TreeTypes, TameCasts, Items
<1>3. item[r].st \in Present
  BY <1>2, TreeAssumption DEF TaskFinalize, RootLocked, Exists, Present, Items
<1>4. T \subseteq task.staged
  <2>1. \A m : ~Pending(item, task, m)
    BY <1>1 DEF Pending
  <2> QED BY <1>1, <2>1 DEF TreeInv, Staging, Accounted
<1>5. \A n \in task.staged : n \in T \/ item[n].st = "gone"
  BY <1>1 DEF TreeInv, Staging, Gathered
<1>6. StagedRows(Present) = {n \in T : item[n].st \in Present}
  <2>1. "gone" \notin Present
    BY DEF Present
  <2> QED BY <1>4, <1>5, <2>1 DEF StagedRows
<1>7. /\ r \in T
      /\ \A m \in T : m # r => item[m].st \in WalkedBy(task)
  BY <1>2, BeneathSelf, BeneathUp DEF TreeOf
<1>8. StagedRows(Present) = T
  <2>1. WalkedBy(task) \subseteq Present
    BY DEF WalkedBy, Active, Present
  <2> QED BY <1>3, <1>6, <1>7, <2>1
<1>9. OpToken \notin Held'
  BY DEF TreeInv, TreeTypes, TaskFinalize, Held, NoLock, Tokens
<1>10. CASE task.op = "delete"
  <2>1. T = Beneath(item, r, Active)
    BY <1>10 DEF TreeOf, WalkedBy
  <2>2. item' = Mark(item, T, "trash")
    BY <1>8, <1>10 DEF TaskFinalize, Marked, Mark
  <2>3. CASE item[r].st = "live"
    <3>1. Discards(r)
      BY <1>2, <2>1, <2>2, <2>3 DEF Discards, TaskFinalize, Admitted
    <3> QED BY <1>2, <1>9, <3>1
  <2>4. CASE item[r].st # "live"
    <3>1. T = {r} /\ item[r].st = "trash"
      <4>1. T = {r}
        BY <1>2, <2>1, <2>4, BeneathDead
      <4>2. item[r].st = "trash"
        BY <1>3, <2>4 DEF Present
      <4> QED BY <4>1, <4>2
    <3>2. item' = item
      <4>1. item \in [Items -> [parent : Places, st : States]]
        BY <1>2 DEF Forest
      <4> HIDE DEF r, T
      <4> QED BY <2>2, <3>1, <4>1 DEF Mark
    <3> QED BY <1>2, <1>9, <3>2
  <2> QED BY <2>3, <2>4
<1>11. CASE task.op = "restore"
  <2>1. T = Beneath(item, r, Present)
    BY <1>11 DEF TreeOf, WalkedBy
  <2>2. item[r].st = "trash"
    BY <1>1, <1>3, <1>11 DEF TreeInv, OpLocking, Present
  <2>3. T \cup {r} = T
    BY <1>7
  <2>4. item' = BringBack(item, T, r, TargetOf(r))
    <3>1. item' = [Marked(StagedRows(Present) \cup {r}, "live") EXCEPT ![r].parent = TargetOf(r)]
      BY <1>11 DEF TaskFinalize
    <3> HIDE DEF T, r
    <3> QED BY <1>8, <2>3, <3>1 DEF BringBack, Mark, Marked
  <2>5. Recovers(r)
    BY <1>2, <2>1, <2>2, <2>4, TargetHome DEF Recovers
  <2> QED BY <1>2, <1>9, <2>5
<1> QED BY <1>10, <1>11 DEF TreeInv, TaskType

\* The fields of the task after each of its steps.
LEMMA TaskReadFields ==
  ASSUME TaskType, TaskRead
  PROVE  /\ IsTask(task') /\ task'.op = task.op /\ task'.root = task.root
         /\ task'.staged = task.staged
         /\ OpToken \in Held => task'.st = "staging" /\ task'.todo = {task.root} /\ task'.scan = {}
         /\ OpToken \notin Held => task'.st = "locking" /\ task'.todo = task.todo /\ task'.scan = task.scan
<1>1. CASE OpToken \in Held
  BY <1>1 DEF TaskType, IsTask, TaskRead
<1>2. CASE OpToken \notin Held
  BY <1>2 DEF TaskType, IsTask, TaskRead
<1> QED BY <1>1, <1>2

\* Having taken the operation lock, it walks from its root, over what it staged.
LEMMA TaskLockFields ==
  ASSUME TaskType, TaskLock
  PROVE  /\ IsTask(task') /\ task'.op = task.op /\ task'.root = task.root
         /\ task'.staged = task.staged
         /\ task'.st = "staging" /\ task'.todo = {task.root} /\ task'.scan = {}
BY DEF TaskType, IsTask, TaskLock

\* A folder is staged with its files, and its children are still to be listed.
LEMMA StageFolderFields ==
  ASSUME TaskType, NEW d \in Folders, TaskStageFolder(d)
  PROVE  /\ IsTask(task') /\ task'.op = task.op /\ task'.root = task.root
         /\ task'.st = task.st /\ task'.todo = task.todo \ {d} /\ task'.scan = task.scan \cup {d}
         /\ task'.staged = task.staged \cup {d}
                \cup {f \in Files : item[f].parent = d /\ item[f].st \in WalkedBy(task)}
<1>1. Walked = WalkedBy(task)
  BY DEF Walked, WalkedBy
<1>2. Children(d, Walked) \cap Files = {f \in Files : item[f].parent = d /\ item[f].st \in WalkedBy(task)}
  BY <1>1 DEF Children, Items
<1>3. task' = [task EXCEPT !.todo = task.todo \ {d}, !.scan = task.scan \cup {d},
                           !.staged = task.staged \cup {d} \cup (Children(d, Walked) \cap Files)]
  BY DEF TaskStageFolder
<1>4. /\ IsTask(task') /\ task'.op = task.op /\ task'.root = task.root
      /\ task'.st = task.st /\ task'.todo = task.todo \ {d} /\ task'.scan = task.scan \cup {d}
      /\ task'.staged = task.staged \cup {d} \cup (Children(d, Walked) \cap Files)
  BY <1>3 DEF TaskType, IsTask
<1> QED BY <1>2, <1>4

\* A folder's listing puts its subfolders on the walk.
LEMMA StageChildrenFields ==
  ASSUME TaskType, NEW d \in Folders, TaskStageChildren(d)
  PROVE  /\ IsTask(task') /\ task'.op = task.op /\ task'.root = task.root
         /\ task'.st = task.st /\ task'.scan = task.scan \ {d} /\ task'.staged = task.staged
         /\ task'.todo = task.todo
                \cup {c \in Folders : item[c].parent = d /\ item[c].st \in WalkedBy(task)}
<1>1. Walked = WalkedBy(task)
  BY DEF Walked, WalkedBy
<1>2. Children(d, Walked) \cap Folders = {c \in Folders : item[c].parent = d /\ item[c].st \in WalkedBy(task)}
  BY <1>1 DEF Children, Items
<1>3. task' = [task EXCEPT !.scan = task.scan \ {d},
                           !.todo = task.todo \cup (Children(d, Walked) \cap Folders)]
  BY DEF TaskStageChildren
<1>4. /\ IsTask(task') /\ task'.op = task.op /\ task'.root = task.root
      /\ task'.st = task.st /\ task'.scan = task.scan \ {d} /\ task'.staged = task.staged
      /\ task'.todo = task.todo \cup (Children(d, Walked) \cap Folders)
  BY <1>3 DEF TaskType, IsTask
<1> QED BY <1>2, <1>4

\* An attempt that stops keeps what it staged and will walk again.
LEMMA InterruptedFields ==
  ASSUME TaskType, TaskInterrupted
  PROVE  /\ IsTask(task') /\ task'.op = task.op /\ task'.root = task.root
         /\ task'.staged = task.staged
         /\ task'.st = "queued" /\ task'.todo = {} /\ task'.scan = {}
BY DEF TaskType, IsTask, TaskInterrupted

\* A new task has staged nothing.
LEMMA TaskCreateFields ==
  ASSUME NEW op, NEW d, TaskCreate(op, d)
  PROVE  /\ IsTask(task') /\ task'.op = op /\ task'.root = d /\ task'.st = "queued"
         /\ task'.staged = {} /\ task'.todo = {} /\ task'.scan = {}
BY DEF NoTask, IsTask, TaskCreate

\* Nor has a finished one.
LEMMA NoTaskFields ==
  /\ IsTask(NoTask) /\ NoTask.op = "delete" /\ NoTask.st = "none"
  /\ NoTask.staged = {} /\ NoTask.todo = {} /\ NoTask.scan = {}
BY DEF NoTask, IsTask

\* Steps of the locks' clients and of the task that leave the tables alone.
Coordinates ==
    \/ \E h \in Holders, r \in Items \cup {Root}, deep \in BOOLEAN : AcquireLock(h, r, deep)
    \/ \E l \in Tokens : ReleaseLock(l)
    \/ \E op \in {"delete", "restore"}, d \in Folders : TaskCreate(op, d)
    \/ TaskRead \/ TaskLock \/ TaskEnds \/ TaskInterrupted
    \/ \E d \in Folders : TaskStageFolder(d) \/ TaskStageChildren(d)
\* Steps that change the tables outside the tree the task has locked.
Mutates ==
    \/ \E n \in Items, p \in Places : Grows(n, p) /\ (n \in Files => session'[n] = None)
    \/ \E S \in SUBSET Items, p \in Places : Shifts(S, p)
    \/ \E n \in Items : Discards(n) /\ \A d \in Beneath(item, n, Active) : ~OpCovers(d)
    \/ \E n \in Items : Recovers(n) /\ "task" \notin cast
\* Steps of requests and of the purge's bookkeeping.
Elsewhere == UNCHANGED <<item, lock, task>>

\* Every step is of one of five kinds.
LEMMA Kinds ==
  ASSUME TreeInv, TameCasts, TreeNext
  PROVE  /\ cast' = cast
         /\ \/ Elsewhere
            \/ Coordinates /\ item' = item
            \/ Mutates /\ lock' = lock /\ task' = task
            \/ (\E R \in SUBSET Items : Destroys(R)) /\ task' = task
            \/ TaskFinalize
<1> DEFINE Goal == /\ cast' = cast
                   /\ \/ Elsewhere
                      \/ Coordinates /\ item' = item
                      \/ Mutates /\ lock' = lock /\ task' = task
                      \/ (\E R \in SUBSET Items : Destroys(R)) /\ task' = task
                      \/ TaskFinalize
<1>1. ASSUME NEW h \in Holders, NEW r \in Items \cup {Root}, NEW deep \in BOOLEAN,
             AcquireLock(h, r, deep)
      PROVE  Goal
  BY <1>1 DEF Coordinates, AcquireLock
<1>2. ASSUME NEW l \in Tokens, ReleaseLock(l) PROVE Goal
  BY <1>2 DEF Coordinates, ReleaseLock
<1>3. ASSUME NEW d \in Folders, NEW p \in Places, NEW ts \in {{}} \cup {{h} : h \in Holders},
             CreateFolder(d, p, ts)
      PROVE  Goal
  <2>1. Grows(d, p) /\ UNCHANGED <<cast, lock, task, purge, session, mover>>
    BY <1>3, CreateEffect
  <2>2. d \in Items /\ d \notin Files
    BY TreeAssumption DEF Items
  <2> QED BY <2>1, <2>2 DEF Mutates
<1>4. ASSUME NEW m \in Movers PROVE MoveCommit(m) \/ BatchCommit(m) => Goal
  BY MoveEffect, BatchEffect DEF Mutates
<1>5. ASSUME NEW m \in Movers,
             \/ \E d \in Folders, p \in Places : MoveRead(m, d, p)
             \/ \E S \in BatchSets, p \in Places : BatchRead(m, S, p)
             \/ MoveRollsBack(m)
      PROVE  Goal
  BY <1>5 DEF Elsewhere, MoveRead, BatchRead, MoveRollsBack
<1>6. ASSUME NEW f \in Files, NEW d \in Places, NEW direct \in BOOLEAN, UploadOpen(f, d, direct)
      PROVE  Goal
  BY <1>6 DEF Elsewhere, UploadOpen
<1>7. ASSUME NEW f \in Files, UploadPublish(f) PROVE Goal
  <2>1. /\ session'[f] = None
        /\ \E p \in Places : Grows(f, p) /\ UNCHANGED <<cast, lock, task, purge, mover>>
    BY <1>7, UploadEffect
  <2>2. f \in Items
    BY DEF Items
  <2> QED BY <2>1, <2>2 DEF Mutates
<1>8. ASSUME NEW n \in Items, TrashItem(n) PROVE Goal
  BY <1>8, TrashEffect DEF Mutates
<1>9. ASSUME NEW n \in Items, RestoreItem(n) PROVE Goal
  BY <1>9, RestoreEffect DEF Mutates
<1>10. ASSUME NEW n \in Items, PurgeItem(n) PROVE Goal
  <2>1. {n} \in SUBSET Items /\ PurgeForest({n})
    BY <1>10 DEF PurgeItem
  <2>2. \E R \in SUBSET Items : Destroys(R)
    BY <2>1, ForestEffect
  <2> QED BY <1>10, <2>2 DEF PurgeItem
<1>11. ASSUME NEW w \in PurgeWorkers, PurgeBatch(w) PROVE Goal
  <2>1. purger[w] \in PurgerType
    BY <1>11 DEF PurgeBatch, TreeInv, TreeTypes
  <2>2. purger[w].page \in SUBSET Items
    BY <2>1 DEF PurgerType
  <2>3. PICK roots \in {purger[w].page} \cup {{n} : n \in purger[w].page} : PurgeForest(roots)
    BY <1>11 DEF PurgeBatch
  <2>4. roots \in SUBSET Items
    BY <2>2, <2>3
  <2>5. \E R \in SUBSET Items : Destroys(R)
    BY <2>3, <2>4, ForestEffect
  <2> QED BY <1>11, <2>5 DEF PurgeBatch
<1>12. ASSUME NEW w \in PurgeWorkers,
              PurgeClaim(w) \/ PurgeList(w) \/ PurgeEnds(w) \/ PurgeWorkerStops(w)
       PROVE  Goal
  BY <1>12 DEF Elsewhere, PurgeClaim, PurgeList, PurgeEnds, PurgeWorkerStops
<1>13. ASSUME PurgeRequest \/ PurgeLeaseEnds \/ PurgeCancel \/ PurgeCanceled PROVE Goal
  BY <1>13 DEF Elsewhere, PurgeRequest, PurgeLeaseEnds, PurgeCancel, PurgeCanceled
<1>14. ASSUME NEW op \in {"delete", "restore"}, NEW d \in Folders, TaskCreate(op, d) PROVE Goal
  BY <1>14 DEF Coordinates, TaskCreate
<1>15. ASSUME TaskRead \/ TaskLock \/ TaskEnds \/ TaskInterrupted PROVE Goal
  BY <1>15 DEF Coordinates, TaskRead, TaskLock, TaskEnds, TaskInterrupted
<1>16. ASSUME TaskFinalize PROVE Goal
  BY <1>16 DEF TaskFinalize
<1>17. ASSUME NEW d \in Folders, TaskStageFolder(d) \/ TaskStageChildren(d) PROVE Goal
  BY <1>17 DEF Coordinates, TaskStageFolder, TaskStageChildren
<1> HIDE DEF Goal
<1>18. Goal
  BY <1>1, <1>2, <1>3, <1>4, <1>5, <1>6, <1>7, <1>8, <1>9, <1>10, <1>11, <1>12, <1>13,
     <1>14, <1>15, <1>16, <1>17 DEF TreeNext
<1> QED BY <1>18 DEF Goal

\* Each change of the tables leaves a sound tree.
LEMMA StepForest ==
  ASSUME TreeInv, TameCasts, TreeNext
  PROVE  TreeOK(item')
<1>0. TreeOK(item)
  BY DEF TreeInv
<1>1. ASSUME NEW n \in Items, NEW p \in Places, Grows(n, p) PROVE TreeOK(item')
  BY <1>0, <1>1, AddOK DEF Grows
<1>2. ASSUME NEW S \in SUBSET Items, NEW p \in Places, Shifts(S, p) PROVE TreeOK(item')
  BY <1>0, <1>2, MoveOK DEF Shifts
<1>3. ASSUME NEW n \in Items, Discards(n) PROVE TreeOK(item')
  <2> DEFINE S == Beneath(item, n, Active)
  <2>1. S \in SUBSET Items /\ Falling(item, S, Active) /\ \A m \in S : m # n => item[m].st \in Active
    BY BeneathSelf, BeneathUp
  <2>2. \A m \in S : item[m].st \in Present
    BY <1>3, <2>1 DEF Discards, Active, Present
  <2>3. item' = Mark(item, S, "trash")
    BY <1>3 DEF Discards
  <2> HIDE DEF S
  <2> QED BY <1>0, <2>1, <2>2, <2>3, TrashOK
<1>4. ASSUME NEW n \in Items, Recovers(n) PROVE TreeOK(item')
  <2>1. PICK p \in Places : /\ p = IF Home(item, item[n].parent) THEN item[n].parent ELSE Root
                            /\ item' = BringBack(item, Beneath(item, n, Present), n, p)
    BY <1>4 DEF Recovers
  <2>2. Home(item, p) /\ item[n].st = "trash"
    BY <1>4, <2>1 DEF Home, Recovers
  <2> QED BY <1>0, <2>1, <2>2, RestoreOK
<1>5. ASSUME NEW R \in SUBSET Items, Destroys(R) PROVE TreeOK(item')
  <2>1. Doomed(R) \in SUBSET Items /\ Falling(item, Doomed(R), Present)
    BY <1>5, DoomedTrash DEF Destroys
  <2> QED BY <1>0, <1>5, <2>1, CutOK DEF Destroys
<1>6. ASSUME item' = item PROVE TreeOK(item')
  BY <1>0, <1>6
<1>7. ASSUME TaskFinalize PROVE TreeOK(item')
  <2>1. item' = item \/ Discards(task.root) \/ Recovers(task.root)
    BY <1>7, FinalizeEffect
  <2>2. task.root \in Items
    BY <1>7, FinalizeEffect
  <2> QED BY <1>3, <1>4, <1>6, <2>1, <2>2
<1> QED BY <1>1, <1>2, <1>3, <1>4, <1>5, <1>6, <1>7, Kinds DEF Mutates, Elsewhere

\* The task's fields keep their types.
LEMMA StepTask ==
  ASSUME TreeInv, TameCasts, TreeNext
  PROVE  TaskType'
<1>0. TaskType /\ cast' = cast /\ Folders \subseteq Items
  BY Kinds DEF TreeInv, Items
<1>1. ASSUME task' = task PROVE TaskType'
  BY <1>0, <1>1 DEF TaskType
<1>2. ASSUME task' = NoTask PROVE TaskType'
  BY <1>2, NoTaskFields DEF TaskType
<1>3. ASSUME NEW op \in {"delete", "restore"}, NEW d \in Folders, TaskCreate(op, d)
      PROVE  TaskType'
  <2>1. "task" \in cast
    BY <1>3 DEF TaskCreate, Acting
  <2> QED BY <1>0, <1>3, <2>1, TaskCreateFields DEF TaskType
<1>4. ASSUME TaskRead PROVE TaskType'
  <2>1. task.st # "none"
    BY <1>4 DEF TaskRead
  <2> QED BY <1>0, <1>4, <2>1, TaskReadFields DEF TaskType
<1>5. ASSUME TaskLock PROVE TaskType'
  <2>1. task.st # "none"
    BY <1>5 DEF TaskLock
  <2> QED BY <1>0, <1>5, <2>1, TaskLockFields DEF TaskType
<1>6. ASSUME TaskInterrupted PROVE TaskType'
  <2>1. task.st # "none"
    BY <1>6 DEF TaskInterrupted
  <2> QED BY <1>0, <1>6, <2>1, InterruptedFields DEF TaskType
<1>7. ASSUME NEW d \in Folders, TaskStageFolder(d) PROVE TaskType'
  <2>1. /\ task'.staged = task.staged \cup {d}
              \cup {f \in Files : item[f].parent = d /\ item[f].st \in WalkedBy(task)}
        /\ IsTask(task') /\ task'.op = task.op /\ task'.root = task.root /\ task'.st = task.st
        /\ task'.todo = task.todo \ {d} /\ task'.scan = task.scan \cup {d}
    BY <1>0, <1>7, StageFolderFields
  <2>2. task'.staged \subseteq Items
    BY <1>0, <2>1 DEF TaskType, Items
  <2> QED BY <1>0, <2>1, <2>2 DEF TaskType
<1>8. ASSUME NEW d \in Folders, TaskStageChildren(d) PROVE TaskType'
  <2>1. /\ task'.todo = task.todo
              \cup {c \in Folders : item[c].parent = d /\ item[c].st \in WalkedBy(task)}
        /\ IsTask(task') /\ task'.op = task.op /\ task'.root = task.root /\ task'.st = task.st
        /\ task'.scan = task.scan \ {d} /\ task'.staged = task.staged
    BY <1>0, <1>8, StageChildrenFields
  <2>2. task'.todo \subseteq Folders
    BY <1>0, <2>1 DEF TaskType
  <2> QED BY <1>0, <2>1, <2>2 DEF TaskType
<1>9. ASSUME Coordinates PROVE TaskType'
  BY <1>1, <1>2, <1>3, <1>4, <1>5, <1>6, <1>7, <1>8, <1>9
     DEF Coordinates, AcquireLock, ReleaseLock, TaskEnds
<1> QED BY <1>1, <1>2, <1>9, Kinds DEF Elsewhere, TaskFinalize

\* What a change of the tables other than a purge does to a row's state.
Keeps(n) ==
    /\ item[n].st \in Present => item'[n].st \in Present
    /\ item[n].st = "gone" <=> item'[n].st = "gone"

\* An added row is live where it was put; the others are as they were.
LEMMA GrowsRows ==
  ASSUME TreeInv, NEW n \in Items, NEW p \in Places, Grows(n, p), NEW m \in Items
  PROVE  Keeps(m) /\ (m # n => item'[m] = item[m]) /\ item'[n].st = "live" /\ item'[n].parent = p
<1>1. item \in Forest
  BY DEF TreeInv, TreeOK
<1>2. \A x \in Items : item'[x] = IF x = n THEN [parent |-> p, st |-> "live"] ELSE item[x]
  BY SMTT(60), Z3T(60), <1>1, AddFacts DEF Grows
<1> QED BY SMTT(60), Z3T(60), <1>2 DEF Keeps, Grows, Present

\* Moved rows change their folder and nothing else.
LEMMA ShiftsRows ==
  ASSUME TreeInv, NEW S \in SUBSET Items, NEW p \in Places, Shifts(S, p), NEW m \in Items
  PROVE  /\ Keeps(m) /\ item'[m].st = item[m].st /\ (m \notin S => item'[m] = item[m])
         /\ m \in S => item'[m].parent = p
<1>1. item \in Forest
  BY DEF TreeInv, TreeOK
<1>2. item'[m] = IF m \in S THEN [parent |-> p, st |-> item[m].st] ELSE item[m]
  BY SMTT(60), Z3T(60), <1>1, MoveFacts DEF Shifts
<1> QED BY SMTT(60), Z3T(60), <1>2 DEF Keeps

\* What is trashed was live, and stays in its folder.
LEMMA DiscardsRows ==
  ASSUME TreeInv, NEW n \in Items, Discards(n), NEW m \in Items
  PROVE  /\ Keeps(m) /\ item'[m].parent = item[m].parent
         /\ m \notin Beneath(item, n, Active) => item'[m] = item[m]
         /\ m \in Beneath(item, n, Active) => item[m].st = "live" /\ item'[m].st = "trash"
         /\ item[m].st = "trash" => item'[m].st = "trash"
<1> DEFINE S == Beneath(item, n, Active)
<1>1. item \in Forest
  BY DEF TreeInv, TreeOK
<1>2. m \in S => item[m].st = "live"
  <2>1. item[n].st = "live"
    BY DEF Discards
  <2>2. m \in S /\ m # n => item[m].st \in Active
    BY BeneathUp
  <2> QED BY <2>1, <2>2 DEF Active
<1>3. item' = Mark(item, S, "trash")
  BY DEF Discards
<1> HIDE DEF S
<1>4. /\ item'[m].parent = item[m].parent
      /\ item'[m].st = IF m \in S THEN "trash" ELSE item[m].st
      /\ m \notin S => item'[m] = item[m]
  <2>1. "trash" \in States
    BY DEF States
  <2> QED BY SMTT(60), Z3T(60), <1>1, <1>3, <2>1, MarkFacts
<1>5. Keeps(m)
  BY <1>2, <1>4 DEF Keeps, Present
<1> QED BY <1>2, <1>4, <1>5 DEF S

\* What a restore brings back was in the trash.
LEMMA RecoversRows ==
  ASSUME TreeInv, NEW n \in Items, Recovers(n), NEW m \in Items
  PROVE  /\ Keeps(m)
         /\ m \in Beneath(item, n, Present) => item[m].st = "trash"
         /\ m \notin Beneath(item, n, Present) => item'[m].st = item[m].st
<1> DEFINE S == Beneath(item, n, Present)
<1>1. item \in Forest /\ LiveLinked(item)
  BY DEF TreeInv, TreeOK
<1>2. m \in S => item[m].st = "trash"
  <2>1. item[n].st = "trash" /\ item[n].st # "live"
    BY DEF Recovers
  <2>2. \A x \in Beneath(item, n, Present) : x # n => item[x].st = "trash"
    BY <1>1, <2>1, BeneathDead
  <2> QED BY <2>1, <2>2
<1>3. PICK p \in Places : item' = BringBack(item, S, n, p)
  BY DEF Recovers
<1> HIDE DEF S
<1>4. BroughtBack(item, item', S, n, p)
  BY <1>1, <1>3, BringBackFacts
<1>5. item'[m].st = IF m \in S THEN "live" ELSE item[m].st
  BY <1>4 DEF BroughtBack
<1>6. Keeps(m)
  BY <1>2, <1>5 DEF Keeps, Present
<1> QED BY <1>2, <1>5, <1>6 DEF S

\* What a purge destroys was in the trash.
LEMMA DestroysRows ==
  ASSUME TreeInv, NEW R, Destroys(R), NEW m \in Items
  PROVE  /\ m \notin Doomed(R) => item'[m] = item[m]
         /\ m \in Doomed(R) => /\ item[m].st = "trash" /\ item'[m].st = "gone"
                               /\ item'[m].parent = Root
<1>1. item \in Forest
  BY DEF TreeInv, TreeOK
<1>2. item'[m] = IF m \in Doomed(R) THEN [parent |-> Root, st |-> "gone"] ELSE item[m]
  BY SMTT(60), Z3T(60), <1>1, CutFacts DEF Destroys
<1>3. m \in Doomed(R) => item[m].st = "trash"
  BY DoomedTrash DEF Destroys
<1> QED BY SMTT(60), Z3T(60), <1>2, <1>3

\* Every change but a purge keeps the rows there are.
LEMMA MutatesRows ==
  ASSUME TreeInv, Mutates, NEW m \in Items
  PROVE  /\ Keeps(m)
         /\ item[m].st # "absent" => item'[m].st # "absent"
         /\ "task" \in cast /\ item[m].st = "trash" => item'[m].st = "trash"
<1>1. Keeps(m) /\ ("task" \in cast /\ item[m].st = "trash" => item'[m].st = "trash")
  <2>1. ASSUME NEW n \in Items, NEW p \in Places, Grows(n, p)
        PROVE  Keeps(m) /\ (item[m].st = "trash" => item'[m].st = "trash")
    <3>1. m # n => item'[m] = item[m]
      BY <2>1, GrowsRows
    <3>2. item[m].st = "trash" => m # n
      BY <2>1 DEF Grows
    <3> QED BY <2>1, <3>1, <3>2, GrowsRows
  <2>2. ASSUME NEW S \in SUBSET Items, NEW p \in Places, Shifts(S, p)
        PROVE  Keeps(m) /\ (item[m].st = "trash" => item'[m].st = "trash")
    BY <2>2, ShiftsRows
  <2> QED BY <2>1, <2>2, DiscardsRows, RecoversRows DEF Mutates
<1>2. item[m].st \in States
  BY ForestFacts DEF TreeInv, TreeOK
<1> QED BY <1>1, <1>2 DEF Keeps, States, Present

\* The locks held after an acquisition, a release and a purge's cascade.
LEMMA AcquireFacts ==
  ASSUME TreeTypes, NEW h \in Holders, NEW r \in Items \cup {Root}, NEW deep, AcquireLock(h, r, deep)
  PROVE  /\ Held' = Held \cup {h} /\ lock'[h].root = r /\ Rooted(item, r)
         /\ \A l \in Tokens : l # h => lock'[l] = lock[l]
         /\ h # OpToken /\ OpToken \in Tokens
<1>1. h \in Tokens /\ OpToken \in Tokens /\ h # OpToken /\ r # None
  BY TreeAssumption DEF Tokens, Items
<1>2. lock'[h].root = r /\ \A l \in Tokens : l # h => lock'[l] = lock[l]
  BY <1>1 DEF TreeTypes, AcquireLock
<1>3. Rooted(item, r)
  BY DEF AcquireLock, Acquirable, Exists, Rooted, Present
<1> QED BY <1>1, <1>2, <1>3 DEF Held

\* A released lock is the only one to go.
LEMMA DropFacts ==
  ASSUME TreeTypes, NEW k \in Tokens, lock' = [lock EXCEPT ![k] = NoLock]
  PROVE  Held' = Held \ {k} /\ \A l \in Tokens : l # k => lock'[l] = lock[l]
<1>1. lock'[k].root = None /\ \A l \in Tokens : l # k => lock'[l] = lock[l]
  BY DEF TreeTypes, NoLock
<1> QED BY <1>1 DEF Held

\* The operation lock covers the whole tree of the task.
LEMMA TaskLockFacts ==
  ASSUME TreeTypes, TaskType, TaskLock
  PROVE  /\ Held' = Held \cup {OpToken}
         /\ lock'[OpToken].root = task.root /\ lock'[OpToken].deep = TRUE
         /\ Rooted(item, task.root) /\ task.root \in Folders
         /\ \A l \in Tokens : l # OpToken => lock'[l] = lock[l]
<1>1. OpToken \in Tokens /\ task.root \in Folders /\ task.root # None
  BY TreeAssumption DEF TaskType, TaskLock, Tokens
<1>2. /\ lock'[OpToken].root = task.root /\ lock'[OpToken].deep = TRUE
      /\ \A l \in Tokens : l # OpToken => lock'[l] = lock[l]
  BY <1>1 DEF TreeTypes, TaskLock
<1>3. Rooted(item, task.root)
  BY <1>1 DEF TaskLock, Acquirable, Exists, Rooted, Present, Items
<1> QED BY <1>1, <1>2, <1>3 DEF Held

\* With destroyed rows go their locks, and no other.
LEMMA CascadeFacts ==
  ASSUME NEW D, lock' = LocksWithout(D)
  PROVE  /\ \A l \in Held' : l \in Held /\ lock'[l] = lock[l] /\ lock[l].root \notin D
         /\ \A l \in Held : lock[l].root \notin D => l \in Held' /\ lock'[l] = lock[l]
<1>1. \A l \in Tokens : lock'[l] = IF lock[l].root \in D THEN NoLock ELSE lock[l]
  BY DEF LocksWithout
<1>2. NoLock.root = None
  BY DEF NoLock
<1> QED BY <1>1, <1>2 DEF Held

\* Locks stay on rows that exist.
LEMMA StepAnchored ==
  ASSUME TreeInv, TameCasts, TreeNext
  PROVE  Anchored'
<1>0. Anchored /\ TreeTypes /\ TaskType
  BY DEF TreeInv
<1>1. ASSUME item' = item, \A l \in Held' : l \in Held /\ lock'[l] = lock[l]
      PROVE  Anchored'
  BY <1>0, <1>1 DEF Anchored
<1>2. ASSUME \A n \in Items : Keeps(n), \A l \in Held' : l \in Held /\ lock'[l] = lock[l]
      PROVE  Anchored'
  BY <1>0, <1>2 DEF Anchored, Rooted, Keeps
<1>3. ASSUME NEW h \in Holders, NEW r \in Items \cup {Root}, NEW deep \in BOOLEAN,
             AcquireLock(h, r, deep), item' = item
      PROVE  Anchored'
  <2>1. /\ Held' = Held \cup {h} /\ lock'[h].root = r /\ Rooted(item, r)
        /\ \A l \in Tokens : l # h => lock'[l] = lock[l]
    BY <1>0, <1>3, AcquireFacts
  <2>2. Held \subseteq Tokens
    BY DEF Held
  <2> QED BY <1>0, <1>3, <2>1, <2>2 DEF Anchored
<1>4. ASSUME TaskLock, item' = item PROVE Anchored'
  <2>1. /\ Held' = Held \cup {OpToken} /\ lock'[OpToken].root = task.root
        /\ Rooted(item, task.root)
        /\ \A l \in Tokens : l # OpToken => lock'[l] = lock[l]
    BY <1>0, <1>4, TaskLockFacts
  <2>2. Held \subseteq Tokens
    BY DEF Held
  <2> QED BY <1>0, <1>4, <2>1, <2>2 DEF Anchored
<1>5. ASSUME NEW k \in Tokens, lock' = [lock EXCEPT ![k] = NoLock]
      PROVE  \A l \in Held' : l \in Held /\ lock'[l] = lock[l]
  <2>1. Held \subseteq Tokens
    BY DEF Held
  <2> QED BY <1>0, <1>5, <2>1, DropFacts
<1>6. OpToken \in Tokens
  BY DEF Tokens
<1>7. ASSUME lock' = lock PROVE \A l \in Held' : l \in Held /\ lock'[l] = lock[l]
  BY <1>7 DEF Held
<1>8. ASSUME Coordinates, item' = item PROVE Anchored'
  <2>1. ASSUME \/ \E l \in Tokens : ReleaseLock(l)
               \/ TaskEnds
        PROVE  Anchored'
    BY <1>1, <1>5, <1>6, <1>8, <2>1 DEF ReleaseLock, TaskEnds
  <2>2. ASSUME \/ \E op \in {"delete", "restore"}, d \in Folders : TaskCreate(op, d)
               \/ TaskRead \/ TaskInterrupted
               \/ \E d \in Folders : TaskStageFolder(d) \/ TaskStageChildren(d)
        PROVE  Anchored'
    BY <1>1, <1>7, <1>8, <2>2
       DEF TaskCreate, TaskRead, TaskInterrupted, TaskStageFolder, TaskStageChildren
  <2> QED BY <1>3, <1>4, <1>8, <2>1, <2>2 DEF Coordinates
<1>9. ASSUME Mutates, lock' = lock PROVE Anchored'
  BY <1>2, <1>7, <1>9, MutatesRows
<1>10. ASSUME NEW R \in SUBSET Items, Destroys(R) PROVE Anchored'
  <2>1. \A l \in Held' : l \in Held /\ lock'[l] = lock[l] /\ lock[l].root \notin Doomed(R)
    BY <1>10, CascadeFacts DEF Destroys
  <2>2. \A m \in Items : m \notin Doomed(R) => item'[m] = item[m]
    BY <1>10, DestroysRows
  <2> QED BY <1>0, <2>1, <2>2 DEF Anchored, Rooted
<1>11. ASSUME TaskFinalize PROVE Anchored'
  <2>1. /\ item' = item \/ Discards(task.root) \/ Recovers(task.root)
        /\ task.root \in Items
    BY <1>11, FinalizeEffect
  <2>2. item' = item \/ \A n \in Items : Keeps(n)
    BY <2>1, DiscardsRows, RecoversRows
  <2>3. \A l \in Held' : l \in Held /\ lock'[l] = lock[l]
    BY <1>5, <1>6, <1>11 DEF TaskFinalize
  <2> QED BY <1>1, <1>2, <2>2, <2>3
<1> QED BY <1>1, <1>7, <1>8, <1>9, <1>10, <1>11, Kinds DEF Elsewhere

\* The operation lock stays with the task's tree.
LEMMA StepOpLocking ==
  ASSUME TreeInv, TameCasts, TreeNext
  PROVE  OpLocking'
<1>0. OpLocking /\ TreeTypes /\ TaskType /\ cast' = cast
  BY Kinds DEF TreeInv
<1>1. OpToken \in Tokens /\ Held \subseteq Tokens /\ Held' \subseteq Tokens
  BY DEF Held, Tokens
<1>2. task.st # "none" =>
         /\ task.root \in Items
         /\ "task" \in cast /\ ~("unlock" \in cast /\ "crash" \in cast)
  <2>1. task.st # "none" => task.root \in Folders /\ "task" \in cast
    BY <1>0 DEF TaskType
  <2> QED BY <1>0, <2>1 DEF TreeTypes, TameCasts, Items
<1>3. ASSUME item' = item, task' = task,
             OpToken \in Held' <=> OpToken \in Held,
             OpToken \in Held => lock'[OpToken] = lock[OpToken]
      PROVE  OpLocking'
  BY <1>0, <1>3 DEF OpLocking
<1>4. ASSUME Mutates, lock' = lock, task' = task PROVE OpLocking'
  <2>1. task.st # "none" =>
          /\ item'[task.root].st # "absent"
          /\ item[task.root].st = "gone" <=> item'[task.root].st = "gone"
          /\ item[task.root].st = "trash" => item'[task.root].st = "trash"
    BY <1>0, <1>2, <1>4, MutatesRows DEF OpLocking, Keeps
  <2>2. Held' = Held
    BY <1>4 DEF Held
  <2>3. task.st \in {"queued", "locking", "staging"} => task.st # "none"
    OBVIOUS
  <2> QED BY <1>0, <1>4, <2>1, <2>2, <2>3 DEF OpLocking
<1>5. ASSUME NEW R \in SUBSET Items, Destroys(R), task' = task PROVE OpLocking'
  <2>1. /\ OpToken \in Held' => /\ OpToken \in Held /\ lock'[OpToken] = lock[OpToken]
                                /\ lock[OpToken].root \notin Doomed(R)
        /\ OpToken \in Held /\ lock[OpToken].root \notin Doomed(R) => OpToken \in Held'
    BY <1>5, CascadeFacts DEF Destroys
  <2>2. task.st # "none" => \/ task.root \notin Doomed(R) /\ item'[task.root] = item[task.root]
                            \/ item'[task.root].st = "gone"
    BY <1>2, <1>5, DestroysRows
  <2>3. CASE task.st # "none" /\ task.root \notin Doomed(R) /\ item'[task.root] = item[task.root]
    BY <1>0, <1>5, <2>1, <2>3 DEF OpLocking
  <2>4. CASE task.st # "none" /\ item'[task.root].st = "gone"
    BY <1>0, <1>5, <2>1, <2>4 DEF OpLocking
  <2>5. CASE task.st = "none"
    BY <1>0, <1>5, <2>1, <2>5 DEF OpLocking
  <2> QED BY <2>2, <2>3, <2>4, <2>5
<1>6. ASSUME task' = NoTask, OpToken \notin Held' PROVE OpLocking'
  BY <1>6, NoTaskFields DEF OpLocking
<1>7. ASSUME NEW h \in Holders, NEW r \in Items \cup {Root}, NEW deep \in BOOLEAN,
             AcquireLock(h, r, deep)
      PROVE  OpLocking'
  <2>1. OpToken \in Held' <=> OpToken \in Held
    BY <1>0, <1>7, AcquireFacts
  <2>2. lock'[OpToken] = lock[OpToken]
    BY <1>0, <1>7, AcquireFacts
  <2> QED BY <1>3, <1>7, <2>1, <2>2 DEF AcquireLock
<1>8. ASSUME NEW l \in Tokens, ReleaseLock(l) PROVE OpLocking'
  <2>1. Held' = Held \ {l} /\ \A k \in Tokens : k # l => lock'[k] = lock[k]
    BY <1>0, <1>8, DropFacts DEF ReleaseLock
  <2>2. item' = item /\ task' = task
    BY <1>8 DEF ReleaseLock
  <2>3. CASE l # OpToken
    BY <1>1, <1>3, <2>1, <2>2, <2>3
  <2>4. CASE l = OpToken
    <3>1. OpToken \in Held /\ "unlock" \in cast /\ OpToken \notin Held'
      BY <1>8, <2>1, <2>4 DEF ReleaseLock, Acting
    <3>2. task.st # "none" /\ "crash" \notin cast
      BY <1>0, <1>2, <3>1 DEF OpLocking
    <3> QED BY <1>0, <2>2, <3>1, <3>2 DEF OpLocking
  <2> QED BY <2>3, <2>4
<1>9. ASSUME lock' = lock PROVE Held' = Held /\ lock'[OpToken] = lock[OpToken]
  BY <1>9 DEF Held
<1>10. ASSUME NEW op \in {"delete", "restore"}, NEW d \in Folders, TaskCreate(op, d)
       PROVE  OpLocking'
  <2>1. task.st = "none" /\ RightState(op, d) /\ lock' = lock /\ item' = item
    BY <1>10 DEF TaskCreate
  <2>2. OpToken \notin Held'
    BY <1>0, <1>9, <2>1 DEF OpLocking
  <2>3. item'[d].st # "absent" /\ (op = "restore" => item'[d].st = "trash")
    BY <2>1 DEF RightState
  <2> QED BY <1>10, <2>2, <2>3, TaskCreateFields DEF OpLocking
<1>11. ASSUME TaskRead PROVE OpLocking'
  <2>1. task.st = "queued" /\ lock' = lock /\ item' = item /\ Held' = Held
    BY <1>9, <1>11 DEF TaskRead
  <2>2. CASE OpToken \in Held
    BY SMTT(60), Z3T(60), <1>0, <1>11, <2>1, <2>2, TaskReadFields DEF OpLocking
  <2>3. CASE OpToken \notin Held
    BY <1>0, <1>11, <2>1, <2>3, TaskReadFields DEF OpLocking
  <2> QED BY <2>2, <2>3
<1>12. ASSUME TaskLock PROVE OpLocking'
  <2>1. task.st = "locking" /\ item' = item
    BY <1>12 DEF TaskLock
  <2>2. OpToken \in Held' /\ lock'[OpToken].root = task.root /\ lock'[OpToken].deep = TRUE
    BY <1>0, <1>12, TaskLockFacts
  <2> QED BY SMTT(60), Z3T(60), <1>0, <1>12, <2>1, <2>2, TaskLockFields DEF OpLocking
<1>13. ASSUME TaskInterrupted PROVE OpLocking'
  <2>1. /\ task.st \in {"locking", "staging"} /\ "crash" \in cast
        /\ lock' = lock /\ item' = item /\ Held' = Held
    BY <1>9, <1>13 DEF TaskInterrupted, Acting
  <2>2. "unlock" \notin cast /\ task.st # "none"
    BY <1>2, <2>1
  <2> QED BY <1>0, <1>13, <2>1, <2>2, InterruptedFields DEF OpLocking
<1>14. ASSUME NEW d \in Folders, TaskStageFolder(d) PROVE OpLocking'
  <2>1. task.st = "staging" /\ lock' = lock /\ item' = item /\ Held' = Held
    BY <1>9, <1>14 DEF TaskStageFolder
  <2>2. task'.st = task.st /\ task'.root = task.root /\ task'.op = task.op
    BY <1>0, <1>14, StageFolderFields
  <2> QED BY <1>0, <2>1, <2>2 DEF OpLocking
<1>15. ASSUME NEW d \in Folders, TaskStageChildren(d) PROVE OpLocking'
  <2>1. task.st = "staging" /\ lock' = lock /\ item' = item /\ Held' = Held
    BY <1>9, <1>15 DEF TaskStageChildren
  <2>2. task'.st = task.st /\ task'.root = task.root /\ task'.op = task.op
    BY <1>0, <1>15, StageChildrenFields
  <2> QED BY <1>0, <2>1, <2>2 DEF OpLocking
<1>16. ASSUME lock' = [lock EXCEPT ![OpToken] = NoLock] PROVE OpToken \notin Held'
  BY <1>0, <1>1, <1>16, DropFacts
<1>17. ASSUME Coordinates PROVE OpLocking'
  BY <1>6, <1>7, <1>8, <1>10, <1>11, <1>12, <1>13, <1>14, <1>15, <1>16, <1>17
     DEF Coordinates, TaskEnds
<1>18. ASSUME Elsewhere PROVE OpLocking'
  BY <1>3, <1>9, <1>18 DEF Elsewhere
<1>19. ASSUME TaskFinalize PROVE OpLocking'
  BY <1>6, <1>16, <1>19 DEF TaskFinalize
<1> QED BY <1>4, <1>5, <1>17, <1>18, <1>19, Kinds

\* While the operation lock is held nothing else touches the task's tree.
LEMMA MutatesOutside ==
  ASSUME TreeInv, Mutates, OpToken \in Held
  PROVE  Untouched(item, item', task.root, WalkedBy(task))
<1> DEFINE W == WalkedBy(task)
           T == Beneath(item, task.root, W)
<1>1. /\ task.root \in Items /\ "task" \in cast /\ item \in Forest
      /\ \A c \in Items : item[c].parent \in Places
  <2>1. task.root \in Folders /\ "task" \in cast
    BY DEF TreeInv, OpLocking, TaskType
  <2> QED BY <2>1, ForestFacts DEF TreeInv, TreeOK, Items
<1>2. "live" \in W /\ "absent" \notin W
  BY DEF WalkedBy, Active, Present
<1>3. T \in SUBSET Items /\ Falling(item, T, W)
  BY <1>1, BeneathSelf
<1>4. \A n : ~OpCovers(n) => n \notin T
  BY <1>3, UncoveredOutside DEF TreeOf
<1> HIDE DEF W, T
<1>5. ASSUME NEW c \in Items,
             \/ item[c].st \in W /\ item[c].parent \in T
             \/ item'[c].st \in W /\ item'[c].parent \in T
      PROVE  /\ item[c].st \in W /\ item'[c].st \in W
             /\ item[c].parent = item'[c].parent
  <2>1. ASSUME NEW n \in Items, NEW p \in Places, Grows(n, p)
        PROVE  item'[c] = item[c]
    <3>1. c # n => item'[c] = item[c]
      BY <2>1, GrowsRows
    <3>2. item'[n].parent = p /\ item[n].st = "absent" /\ p \notin T
      BY <1>4, <2>1, GrowsRows DEF Grows
    <3> QED BY <1>2, <1>5, <3>1, <3>2
  <2>2. ASSUME NEW S \in SUBSET Items, NEW p \in Places, Shifts(S, p)
        PROVE  item'[c] = item[c]
    <3>1. c \notin S => item'[c] = item[c]
      BY <2>2, ShiftsRows
    <3>2. ASSUME c \in S PROVE FALSE
      <4>1. item[c].st = "live" /\ c \notin T /\ (item[c].parent # p => p \notin T)
        BY <1>4, <2>2, <3>2 DEF Shifts
      <4>2. item'[c].parent = p
        BY SMTT(60), Z3T(60), <2>2, <3>2, ShiftsRows
      <4>3. item[c].parent \notin T
        BY <1>2, <1>3, <4>1 DEF Falling
      <4> QED BY <1>5, <4>1, <4>2, <4>3
    <3> QED BY <3>1, <3>2
  <2>3. ASSUME NEW n \in Items, Discards(n), \A d \in Beneath(item, n, Active) : ~OpCovers(d)
        PROVE  item'[c] = item[c]
    <3>1. /\ item'[c].parent = item[c].parent
          /\ c \notin Beneath(item, n, Active) => item'[c] = item[c]
          /\ c \in Beneath(item, n, Active) => item[c].st = "live"
      BY <2>3, DiscardsRows
    <3>2. ASSUME c \in Beneath(item, n, Active) PROVE FALSE
      <4>1. item[c].st = "live" /\ c \notin T /\ item[c].parent \notin T
        BY <1>2, <1>3, <1>4, <2>3, <3>1, <3>2 DEF Falling
      <4> QED BY <1>5, <3>1, <4>1
    <3> QED BY <3>1, <3>2
  <2>4. item'[c] = item[c]
    BY <1>1, <2>1, <2>2, <2>3 DEF Mutates
  <2> QED BY <1>5, <2>4
<1> QED BY <1>5 DEF Untouched, W, T

\* The staging stays true of the task's tree.
LEMMA StepStaging ==
  ASSUME TreeInv, TameCasts, TreeNext
  PROVE  Staging'
<1>0. Staging /\ TreeTypes /\ TaskType /\ OpLocking /\ TreeOK(item) /\ item \in Forest
  BY DEF TreeInv, TreeOK
<1>1. OpToken \in Tokens /\ Folders \subseteq Items
  BY DEF Tokens, Items
<1>2. task.st # "none" => task.root \in Items
  BY <1>0, <1>1 DEF TaskType
<1>3. task.staged \cup task.todo \cup task.scan \subseteq Items
  BY <1>0, <1>1 DEF TaskType
<1>4. OpToken \in Held => task.root \in Items
  BY <1>0, <1>2 DEF OpLocking
<1>5. ASSUME item' = item, task' = task, OpToken \in Held' => OpToken \in Held PROVE Staging'
  BY <1>0, <1>5 DEF Staging
<1>6. ASSUME OpToken \notin Held' PROVE Staging'
  BY <1>6 DEF Staging
<1>7. ASSUME lock' = lock PROVE Held' = Held
  BY <1>7 DEF Held
<1>8. ASSUME Mutates, lock' = lock, task' = task, OpToken \in Held PROVE Staging'
  <2>1. Untouched(item, item', task.root, WalkedBy(task))
    BY <1>8, MutatesOutside
  <2>2. \A n \in Items : item[n].st = "gone" => item'[n].st = "gone"
    BY <1>8, MutatesRows DEF Keeps
  <2>3. task.root \in Items
    BY <1>4, <1>8
  <2>4. /\ Gathered(item, task) => Gathered(item', task)
        /\ Accounted(item, task) /\ Paged(item, task) => Accounted(item', task) /\ Paged(item', task)
    BY <1>3, <2>1, <2>2, <2>3, OutsideStaging
  <2> QED BY <1>0, <1>8, <2>4 DEF Staging
<1>9. ASSUME NEW R \in SUBSET Items, Destroys(R), task' = task, OpToken \in Held' PROVE Staging'
  <2>1. OpToken \in Held /\ task.root \notin Doomed(R)
    <3>1. OpToken \in Held /\ lock[OpToken].root \notin Doomed(R)
      BY <1>9, CascadeFacts DEF Destroys
    <3> QED BY <1>0, <3>1 DEF OpLocking
  <2>2. Doomed(R) \in SUBSET Items /\ Falling(item, Doomed(R), Present)
    BY <1>9, DoomedTrash DEF Destroys
  <2>3. task.root \in Items
    BY <1>4, <2>1
  <2>4. /\ Gathered(item, task) => Gathered(item', task)
        /\ Accounted(item, task) /\ Paged(item, task) => Accounted(item', task) /\ Paged(item', task)
    <3>1. item' = Cut(item, Doomed(R))
      BY <1>9 DEF Destroys
    <3> QED BY <1>0, <1>3, <2>1, <2>2, <2>3, <3>1, PurgedStaging
  <2> QED BY <1>0, <1>9, <2>1, <2>4 DEF Staging
<1>10. ASSUME NEW op \in {"delete", "restore"}, NEW d \in Folders, TaskCreate(op, d)
       PROVE  Staging'
  <2>1. task.st = "none" /\ lock' = lock
    BY <1>10 DEF TaskCreate
  <2>2. OpToken \notin Held
    BY <1>0, <2>1 DEF OpLocking
  <2> QED BY <1>6, <1>7, <2>1, <2>2
<1>11. ASSUME task.root \in Items, item' = item,
              task'.root = task.root, task'.op = task.op, task'.todo = {task.root}, task'.scan = {},
              task'.staged = task.staged, task.staged = {} \/ Gathered(item, task)
       PROVE  Staging'
  <2>1. WalkedBy(task') = WalkedBy(task) /\ TreeOf(item, task') = TreeOf(item, task)
    BY <1>11 DEF WalkedBy, TreeOf
  <2>2. task.root \in TreeOf(item, task)
    BY <1>11, BeneathSelf DEF TreeOf
  <2>3. Gathered(item, task')
    BY <1>11, <2>1, <2>2 DEF Gathered
  <2>4. Accounted(item, task') /\ Paged(item, task')
    <3>1. \A m \in TreeOf(item, task') : Pending(item, task', m)
      BY <1>11, <2>1, <2>2 DEF Pending, TreeOf
    <3> QED BY <1>11, <3>1 DEF Accounted, Paged
  <2> QED BY <1>11, <2>3, <2>4 DEF Staging
<1>12. ASSUME TaskRead, OpToken \in Held PROVE Staging'
  <2>1. /\ task'.op = task.op /\ task'.root = task.root /\ task'.staged = task.staged
        /\ task'.todo = {task.root} /\ task'.scan = {}
    BY <1>0, <1>12, TaskReadFields
  <2>2. item' = item
    BY <1>12 DEF TaskRead
  <2> QED BY <1>0, <1>4, <1>11, <1>12, <2>1, <2>2 DEF Staging
<1>13. ASSUME TaskLock PROVE Staging'
  <2>1. /\ task'.op = task.op /\ task'.root = task.root /\ task'.staged = task.staged
        /\ task'.todo = {task.root} /\ task'.scan = {}
    BY <1>0, <1>13, TaskLockFields
  <2>2. item' = item /\ task.st = "locking" /\ Rooted(item, task.root) /\ task.root \in Folders
    BY <1>0, <1>13, TaskLockFacts DEF TaskLock
  <2>3. task.staged = {} /\ task.root \in Items
    BY <1>0, <1>1, <2>2, TreeAssumption DEF OpLocking, Rooted, Present
  <2> QED BY <1>11, <2>1, <2>2, <2>3
<1>14. ASSUME TaskInterrupted, OpToken \in Held PROVE Staging'
  <2>1. /\ task'.op = task.op /\ task'.root = task.root /\ task'.staged = task.staged
        /\ task'.todo = {} /\ task'.scan = {} /\ task'.st = "queued"
    BY <1>0, <1>14, InterruptedFields
  <2>2. item' = item
    BY <1>14 DEF TaskInterrupted
  <2>3. TreeOf(item, task') = TreeOf(item, task)
    BY <2>1 DEF WalkedBy, TreeOf
  <2>4. Gathered(item, task')
    BY <1>0, <1>14, <2>1, <2>3 DEF Gathered, Staging
  <2> QED BY <2>1, <2>2, <2>4 DEF Staging
<1>15. ASSUME NEW d \in Folders, TaskStageFolder(d), OpToken \in Held PROVE Staging'
  <2>1. /\ task'.op = task.op /\ task'.root = task.root
        /\ task'.todo = task.todo \ {d} /\ task'.scan = task.scan \cup {d}
        /\ task'.staged = task.staged \cup {d}
               \cup {f \in Files : item[f].parent = d /\ item[f].st \in WalkedBy(task)}
    BY <1>0, <1>15, StageFolderFields
  <2>2. item' = item /\ d \in task.todo /\ task.st = "staging" /\ task.todo \subseteq Items
    BY <1>3, <1>15 DEF TaskStageFolder
  <2>3. Gathered(item, task) /\ Accounted(item, task) /\ Paged(item, task)
    BY <1>0, <1>15, <2>2 DEF Staging
  <2>4. task.root \in Items
    BY <1>4, <1>15
  <2>5. Gathered(item, task') /\ Accounted(item, task') /\ Paged(item, task')
    BY <1>0, <2>1, <2>2, <2>3, <2>4, EnterFolder
  <2> QED BY <2>2, <2>5 DEF Staging
<1>16. ASSUME NEW d \in Folders, TaskStageChildren(d), OpToken \in Held PROVE Staging'
  <2>1. /\ task'.op = task.op /\ task'.root = task.root /\ task'.staged = task.staged
        /\ task'.scan = task.scan \ {d}
        /\ task'.todo = task.todo
               \cup {c \in Folders : item[c].parent = d /\ item[c].st \in WalkedBy(task)}
    BY <1>0, <1>16, StageChildrenFields
  <2>2. item' = item /\ d \in task.scan /\ task.st = "staging" /\ task.scan \subseteq Items
    BY <1>3, <1>16 DEF TaskStageChildren
  <2>3. Gathered(item, task) /\ Accounted(item, task) /\ Paged(item, task)
    BY <1>0, <1>16, <2>2 DEF Staging
  <2>4. task.root \in Items
    BY <1>4, <1>16
  <2>5. Gathered(item, task') /\ Accounted(item, task') /\ Paged(item, task')
    BY <1>0, <2>1, <2>2, <2>3, <2>4, PageFolder
  <2> QED BY <2>2, <2>5 DEF Staging
<1>17. ASSUME lock' = [lock EXCEPT ![OpToken] = NoLock] PROVE OpToken \notin Held'
  BY <1>0, <1>1, <1>17, DropFacts
<1>18. ASSUME NEW l \in Tokens, ReleaseLock(l) PROVE Staging'
  <2>1. OpToken \in Held' => OpToken \in Held
    BY <1>0, <1>18, DropFacts DEF ReleaseLock
  <2> QED BY <1>5, <1>18, <2>1 DEF ReleaseLock
<1>19. ASSUME NEW h \in Holders, NEW r \in Items \cup {Root}, NEW deep \in BOOLEAN,
              AcquireLock(h, r, deep)
       PROVE  Staging'
  <2>1. OpToken \in Held' => OpToken \in Held
    BY <1>0, <1>19, AcquireFacts
  <2> QED BY <1>5, <1>19, <2>1 DEF AcquireLock
<1>20. ASSUME Coordinates, OpToken \in Held \/ TaskLock PROVE Staging'
  BY <1>6, <1>10, <1>12, <1>13, <1>14, <1>15, <1>16, <1>17, <1>18, <1>19, <1>20
     DEF Coordinates, TaskEnds
<1>21. ASSUME Coordinates, OpToken \notin Held, ~TaskLock PROVE Staging'
  <2>1. ASSUME \/ TaskRead \/ TaskInterrupted
               \/ \E d \in Folders : TaskStageFolder(d) \/ TaskStageChildren(d)
        PROVE  lock' = lock
    BY <2>1 DEF TaskRead, TaskInterrupted, TaskStageFolder, TaskStageChildren
  <2> QED BY <1>6, <1>7, <1>10, <1>17, <1>18, <1>19, <1>21, <2>1 DEF Coordinates, TaskEnds
<1>22. ASSUME Elsewhere PROVE Staging'
  BY <1>5, <1>7, <1>22 DEF Elsewhere
<1>23. ASSUME TaskFinalize PROVE Staging'
  BY <1>6, <1>17, <1>23 DEF TaskFinalize
<1>24. ASSUME Mutates, lock' = lock, task' = task PROVE Staging'
  BY <1>6, <1>7, <1>8, <1>24
<1>25. ASSUME NEW R \in SUBSET Items, Destroys(R), task' = task PROVE Staging'
  BY <1>6, <1>9, <1>25
<1> QED BY <1>20, <1>21, <1>22, <1>23, <1>24, <1>25, Kinds

\* Which steps write the requests', the uploads' and the purge's rows.
PlansMove ==
    \E m \in Movers : \/ \E d \in Folders, p \in Places : MoveRead(m, d, p)
                      \/ \E S \in BatchSets, p \in Places : BatchRead(m, S, p)
DropsMove == \E m \in Movers : mover' = [mover EXCEPT ![m] = None]
OpensUpload == \E f \in Files, d \in Places, direct \in BOOLEAN : UploadOpen(f, d, direct)
RunsPurge ==
    \/ PurgeRequest \/ PurgeLeaseEnds \/ PurgeCancel \/ PurgeCanceled
    \/ \E w \in PurgeWorkers : PurgeClaim(w) \/ PurgeEnds(w)
DropsWorker == \E w \in PurgeWorkers : purger' = [purger EXCEPT ![w] = None]

\* Requests, uploads and the purge's rows are written by their own steps only.
LEMMA Writers ==
  ASSUME TreeNext
  PROVE  /\ mover' = mover \/ PlansMove \/ DropsMove
         /\ session' = session \/ OpensUpload \/ \E f \in Files : UploadPublish(f)
         /\ purge' = purge \/ RunsPurge
         /\ \/ purger' = purger \/ DropsWorker
            \/ \E w \in PurgeWorkers : PurgeClaim(w) \/ PurgeList(w) \/ PurgeBatch(w)
<1> DEFINE Goal ==
         /\ mover' = mover \/ PlansMove \/ DropsMove
         /\ session' = session \/ OpensUpload \/ \E f \in Files : UploadPublish(f)
         /\ purge' = purge \/ RunsPurge
         /\ \/ purger' = purger \/ DropsWorker
            \/ \E w \in PurgeWorkers : PurgeClaim(w) \/ PurgeList(w) \/ PurgeBatch(w)
<1>1. ASSUME NEW h \in Holders, NEW r \in Items \cup {Root}, NEW deep \in BOOLEAN,
             AcquireLock(h, r, deep)
      PROVE  Goal
  BY <1>1 DEF AcquireLock
<1>2. ASSUME NEW l \in Tokens, ReleaseLock(l) PROVE Goal
  BY <1>2 DEF ReleaseLock
<1>3. ASSUME NEW d \in Folders, NEW p \in Places, NEW ts \in {{}} \cup {{h} : h \in Holders},
             CreateFolder(d, p, ts)
      PROVE  Goal
  BY <1>3 DEF CreateFolder
<1>4. ASSUME NEW m \in Movers, MoveCommit(m) \/ BatchCommit(m) \/ MoveRollsBack(m)
      PROVE  Goal
  BY <1>4 DEF DropsMove, MoveCommit, BatchCommit, MoveRollsBack
<1>5. ASSUME NEW m \in Movers,
             \/ \E d \in Folders, p \in Places : MoveRead(m, d, p)
             \/ \E S \in BatchSets, p \in Places : BatchRead(m, S, p)
      PROVE  Goal
  <2>1. PlansMove
    BY <1>5 DEF PlansMove
  <2> QED BY <1>5, <2>1 DEF MoveRead, BatchRead
<1>6. ASSUME NEW f \in Files, NEW d \in Places, NEW direct \in BOOLEAN, UploadOpen(f, d, direct)
      PROVE  Goal
  <2>1. OpensUpload
    BY <1>6 DEF OpensUpload
  <2> QED BY <1>6, <2>1 DEF UploadOpen
<1>7. ASSUME NEW f \in Files, UploadPublish(f) PROVE Goal
  BY <1>7 DEF UploadPublish
<1>8. ASSUME NEW n \in Items, TrashItem(n) \/ RestoreItem(n) \/ PurgeItem(n) PROVE Goal
  BY <1>8 DEF TrashItem, RestoreItem, PurgeItem
<1>9. ASSUME NEW w \in PurgeWorkers, PurgeClaim(w) \/ PurgeEnds(w) PROVE Goal
  <2>1. RunsPurge
    BY <1>9 DEF RunsPurge
  <2> QED BY <1>9, <2>1 DEF DropsWorker, PurgeClaim, PurgeEnds
<1>10. ASSUME NEW w \in PurgeWorkers, PurgeList(w) \/ PurgeBatch(w) \/ PurgeWorkerStops(w)
       PROVE  Goal
  BY <1>10 DEF DropsWorker, PurgeList, PurgeBatch, PurgeWorkerStops
<1>11. ASSUME PurgeRequest \/ PurgeLeaseEnds \/ PurgeCancel \/ PurgeCanceled PROVE Goal
  <2>1. RunsPurge
    BY <1>11 DEF RunsPurge
  <2> QED BY <1>11, <2>1 DEF PurgeRequest, PurgeLeaseEnds, PurgeCancel, PurgeCanceled
<1>12. ASSUME NEW op \in {"delete", "restore"}, NEW d \in Folders, TaskCreate(op, d) PROVE Goal
  BY <1>12 DEF TaskCreate
<1>13. ASSUME TaskRead \/ TaskLock \/ TaskFinalize \/ TaskEnds \/ TaskInterrupted PROVE Goal
  BY <1>13 DEF TaskRead, TaskLock, TaskFinalize, TaskEnds, TaskInterrupted
<1>14. ASSUME NEW d \in Folders, TaskStageFolder(d) \/ TaskStageChildren(d) PROVE Goal
  BY <1>14 DEF TaskStageFolder, TaskStageChildren
<1> HIDE DEF Goal
<1>15. Goal
  BY <1>1, <1>2, <1>3, <1>4, <1>5, <1>6, <1>7, <1>8, <1>9, <1>10, <1>11, <1>12, <1>13,
     <1>14 DEF TreeNext
<1> QED BY <1>15 DEF Goal

\* The other variables keep their types.
LEMMA StepTypes ==
  ASSUME TreeInv, TameCasts, TreeNext
  PROVE  TreeTypes'
<1>0. TreeTypes /\ item \in Forest /\ cast' = cast
  BY Kinds DEF TreeInv, TreeOK
<1>1. lock' = [l \in Tokens |-> lock'[l]]
  <2>1. ASSUME NEW k, NEW v, lock' = [lock EXCEPT ![k] = v] PROVE lock' = [l \in Tokens |-> lock'[l]]
    BY <1>0, <2>1 DEF TreeTypes
  <2>2. ASSUME NEW D, lock' = LocksWithout(D) PROVE lock' = [l \in Tokens |-> lock'[l]]
    BY <2>2 DEF LocksWithout
  <2>3. ASSUME lock' = lock PROVE lock' = [l \in Tokens |-> lock'[l]]
    BY <1>0, <2>3 DEF TreeTypes
  <2>4. ASSUME Coordinates PROVE lock' = [l \in Tokens |-> lock'[l]]
    BY <2>1, <2>3, <2>4 DEF Coordinates, AcquireLock, ReleaseLock, TaskCreate, TaskRead,
       TaskLock, TaskEnds, TaskInterrupted, TaskStageFolder, TaskStageChildren
  <2> QED BY <2>1, <2>2, <2>3, <2>4, Kinds DEF Elsewhere, Destroys, TaskFinalize
<1>2. mover' \in [Movers -> MoveType \cup {None}]
  <2>1. ASSUME NEW m \in Movers, NEW d \in Folders, NEW p \in Places, MoveRead(m, d, p)
        PROVE  mover' \in [Movers -> MoveType \cup {None}]
    <3> DEFINE r == [set |-> {d}, to |-> p, rows |-> {d} \cup Chain(p), from |-> {}, batch |-> FALSE]
    <3>1. r \in MoveType
      BY DEF MoveType, Chain, Items
    <3>2. mover' = [mover EXCEPT ![m] = r]
      BY <2>1 DEF MoveRead
    <3> HIDE DEF r
    <3> QED BY <1>0, <3>1, <3>2 DEF TreeTypes
  <2>2. ASSUME NEW m \in Movers, NEW S \in BatchSets, NEW p \in Places, BatchRead(m, S, p)
        PROVE  mover' \in [Movers -> MoveType \cup {None}]
    <3> DEFINE r == [set |-> S, to |-> p, rows |-> {}, from |-> {item[n].parent : n \in S},
                     batch |-> TRUE]
    <3>1. S \in SUBSET Items
      BY TreeAssumption DEF Items
    <3>2. {item[n].parent : n \in S} \in SUBSET Places
      BY <1>0, <3>1, ForestFacts
    <3>3. r \in MoveType
      BY <3>1, <3>2 DEF MoveType
    <3>4. mover' = [mover EXCEPT ![m] = r]
      BY <2>2 DEF BatchRead
    <3> HIDE DEF r
    <3> QED BY <1>0, <3>3, <3>4 DEF TreeTypes
  <2>3. ASSUME DropsMove PROVE mover' \in [Movers -> MoveType \cup {None}]
    BY <1>0, <2>3 DEF DropsMove, TreeTypes
  <2> QED BY <1>0, <2>1, <2>2, <2>3, Writers DEF PlansMove, TreeTypes
<1>3. session' \in [Files -> SessionType \cup {None}]
  <2>1. ASSUME NEW f \in Files, NEW d \in Places, NEW direct \in BOOLEAN, UploadOpen(f, d, direct)
        PROVE  session' \in [Files -> SessionType \cup {None}]
    BY <1>0, <2>1 DEF UploadOpen, TreeTypes, SessionType
  <2>2. ASSUME NEW f \in Files, UploadPublish(f)
        PROVE  session' \in [Files -> SessionType \cup {None}]
    BY <1>0, <2>2 DEF UploadPublish, TreeTypes
  <2> QED BY <1>0, <2>1, <2>2, Writers DEF OpensUpload, TreeTypes
<1>4. purge' \in PurgeType
  <2>1. purge \in PurgeType
    BY <1>0 DEF TreeTypes
  <2>2. ASSUME RunsPurge PROVE purge' \in PurgeType
    <3>1. Trashed \in SUBSET Items
      BY DEF Trashed
    <3>2. CASE PurgeRequest
      BY <2>1, <3>1, <3>2 DEF PurgeRequest, PurgeType
    <3>3. CASE PurgeLeaseEnds \/ PurgeCancel \/ PurgeCanceled
      BY <2>1, <3>3 DEF PurgeLeaseEnds, PurgeCancel, PurgeCanceled, PurgeType
    <3>4. ASSUME NEW w \in PurgeWorkers, PurgeClaim(w) PROVE purge' \in PurgeType
      <4>1. purge' = [purge EXCEPT !.st = "processing", !.token = purge.token + 1, !.lease = TRUE]
        BY <3>4 DEF PurgeClaim
      <4>2. purge.token + 1 \in Nat
        BY SMTT(60), Z3T(60), <2>1 DEF PurgeType
      <4> QED BY <2>1, <4>1, <4>2 DEF PurgeType
    <3>5. ASSUME NEW w \in PurgeWorkers, PurgeEnds(w) PROVE purge' \in PurgeType
      BY <2>1, <3>5 DEF PurgeEnds, PurgeType
    <3> QED BY <2>2, <3>2, <3>3, <3>4, <3>5 DEF RunsPurge
  <2> QED BY <2>1, <2>2, Writers
<1>5. purger' \in [PurgeWorkers -> PurgerType \cup {None}]
  <2>1. purger \in [PurgeWorkers -> PurgerType \cup {None}]
    BY <1>0 DEF TreeTypes
  <2>2. ASSUME NEW w \in PurgeWorkers, PurgeClaim(w)
        PROVE  purger' \in [PurgeWorkers -> PurgerType \cup {None}]
    <3>1. [token |-> purge.token + 1, page |-> {}] \in PurgerType
      BY SMTT(60), Z3T(60), <1>0 DEF TreeTypes, PurgeType, PurgerType
    <3> QED BY <2>1, <2>2, <3>1 DEF PurgeClaim
  <2>3. ASSUME NEW w \in PurgeWorkers, purger[w] # None, NEW page \in SUBSET Items,
               purger' = [purger EXCEPT ![w].page = page]
        PROVE  purger' \in [PurgeWorkers -> PurgerType \cup {None}]
    <3>1. purger[w] \in PurgerType
      BY <2>1, <2>3
    <3>2. [purger[w] EXCEPT !.page = page] \in PurgerType
      BY <3>1 DEF PurgerType
    <3>3. purger' = [purger EXCEPT ![w] = [purger[w] EXCEPT !.page = page]]
      BY <2>1, <2>3
    <3> HIDE DEF PurgerType
    <3> QED BY <2>1, <3>2, <3>3
  <2>4. ASSUME NEW w \in PurgeWorkers, PurgeList(w)
        PROVE  purger' \in [PurgeWorkers -> PurgerType \cup {None}]
    <3>1. TopTrashed \in SUBSET Items
      BY DEF TopTrashed, Trashed
    <3> QED BY <2>3, <2>4, <3>1 DEF PurgeList
  <2>5. ASSUME NEW w \in PurgeWorkers, PurgeBatch(w)
        PROVE  purger' \in [PurgeWorkers -> PurgerType \cup {None}]
    <3>1. purger[w] # None
      BY <2>5 DEF PurgeBatch
    <3>2. PICK roots : purger' = [purger EXCEPT ![w].page = purger[w].page \ roots]
      BY <2>5 DEF PurgeBatch
    <3>3. purger[w].page \ roots \in SUBSET Items
      BY <2>1, <3>1 DEF PurgerType
    <3> QED BY <2>3, <3>1, <3>2, <3>3
  <2>6. ASSUME DropsWorker PROVE purger' \in [PurgeWorkers -> PurgerType \cup {None}]
    BY <2>1, <2>6 DEF DropsWorker
  <2> QED BY <2>1, <2>2, <2>4, <2>5, <2>6, Writers
<1> QED BY <1>0, <1>1, <1>2, <1>3, <1>4, <1>5 DEF TreeTypes

\* Who takes part stays as it is, and uploads find their folders live.
LEMMA StepCompany ==
  ASSUME TreeInv, TameCasts, TreeNext
  PROVE  Company'
<1>0. /\ Company /\ TreeTypes /\ TaskType /\ OpLocking /\ cast' = cast
      /\ Files \subseteq Items /\ Folders \subseteq Items
      /\ \A m \in Items : item[m].st \in States
  BY Kinds, ForestFacts DEF TreeInv, TreeOK, Items
<1>1. OpToken \in Tokens /\ Held \subseteq Tokens
  BY DEF Held, Tokens
<1>2. "upload" \in cast => "task" \notin cast /\ "trash" \notin cast
  BY <1>0 DEF TreeTypes, TameCasts
<1>3. ASSUME "upload" \in cast
      PROVE  /\ \A n \in Items : item'[n].st \in {"live", "absent"}
             /\ \A n \in Items : item[n].st = "live" => item'[n].st = "live"
             /\ \A f \in Files : session'[f] # None => item'[f].st = item[f].st
  <2>0. \A n \in Items : item[n].st \in {"live", "absent"}
    BY <1>0, <1>3 DEF Company
  <2>1. ASSUME NEW n \in Items, NEW p \in Places, Grows(n, p)
        PROVE  /\ \A m \in Items : item'[m].st \in {"live", "absent"}
               /\ \A m \in Items : item[m].st = "live" => item'[m].st = "live"
               /\ \A m \in Items : m # n => item'[m].st = item[m].st
    <3>1. \A m \in Items : m # n => item'[m] = item[m]
      BY <2>1, GrowsRows
    <3>2. item'[n].st = "live"
      BY <2>1, GrowsRows
    <3> QED BY <2>0, <3>1, <3>2
  <2>2. ASSUME NEW S \in SUBSET Items, NEW p \in Places, Shifts(S, p)
        PROVE  \A m \in Items : item'[m].st = item[m].st
    BY <2>2, ShiftsRows
  <2>3. \A n \in Items : ~Discards(n) /\ ~Recovers(n)
    BY <1>3, <2>0 DEF Discards, Recovers
  <2>4. ASSUME NEW R \in SUBSET Items, Destroys(R) PROVE \A m \in Items : item'[m] = item[m]
    <3>1. \A m \in Items : m \in Doomed(R) => item[m].st = "trash"
      BY <2>4, DestroysRows
    <3>2. \A m \in Items : m \notin Doomed(R)
      BY <2>0, <3>1
    <3> QED BY <2>4, <3>2, DestroysRows
  <2>5. ~TaskFinalize
    BY <1>0, <1>2, <1>3 DEF TaskFinalize, TaskType
  <2>6. \/ \E n \in Items, p \in Places : Grows(n, p) /\ (n \in Files => session'[n] = None)
        \/ \A m \in Items : item'[m].st = item[m].st
    BY <2>2, <2>3, <2>4, <2>5, Kinds DEF Mutates, Elsewhere
  <2> QED BY <1>0, <2>0, <2>1, <2>6
<1>4. ASSUME "upload" \in cast, NEW f \in Files, session'[f] # None
      PROVE  item'[f].st = "absent" /\ Home(item', session'[f].to)
  <2>0. item'[f].st = item[f].st
    BY <1>3, <1>4
  <2>1. ASSUME session'[f] = session[f]
        PROVE  item'[f].st = "absent" /\ Home(item', session'[f].to)
    <3>1. item[f].st = "absent" /\ Home(item, session[f].to)
      BY <1>0, <1>4, <2>1 DEF Company
    <3>2. session[f].to \in Places
      BY <1>0, <1>4, <2>1 DEF TreeTypes, SessionType
    <3>3. Home(item', session[f].to)
      BY <1>0, <1>3, <1>4, <3>1, <3>2 DEF Home, Places
    <3> QED BY <2>0, <2>1, <3>1, <3>3
  <2>2. ASSUME NEW g \in Files, NEW d \in Places, NEW direct \in BOOLEAN, UploadOpen(g, d, direct)
        PROVE  item'[f].st = "absent" /\ Home(item', session'[f].to)
    <3>1. CASE f # g
      <4>1. session'[f] = session[f]
        BY <1>0, <2>2, <3>1 DEF UploadOpen, TreeTypes
      <4> QED BY <2>1, <4>1
    <3>2. CASE f = g
      <4>1. session'[f].to = d
        BY <1>0, <2>2, <3>2 DEF UploadOpen, TreeTypes
      <4> QED BY <2>2, <3>2, <4>1, HomeIsLive DEF UploadOpen
    <3> QED BY <3>1, <3>2
  <2>3. ASSUME NEW g \in Files, UploadPublish(g)
        PROVE  item'[f].st = "absent" /\ Home(item', session'[f].to)
    <3>1. session'[f] = session[f]
      BY <1>0, <1>4, <2>3 DEF UploadPublish, TreeTypes
    <3> QED BY <2>1, <3>1
  <2> QED BY <2>1, <2>2, <2>3, Writers DEF OpensUpload
<1>5. ASSUME NEW f \in Files, session'[f] # None PROVE "upload" \in cast
  <2>1. ASSUME NEW g \in Files, UploadPublish(g), session[f] = None PROVE FALSE
    BY <1>0, <1>5, <2>1 DEF UploadPublish, TreeTypes
  <2> QED BY <1>0, <1>5, <2>1, Writers DEF OpensUpload, UploadOpen, Acting, Company
<1>6. ASSUME NEW m \in Movers, mover'[m] # None, mover'[m].batch PROVE "batch" \in cast
  <2>1. ASSUME mover'[m] = mover[m] PROVE "batch" \in cast
    BY <1>0, <1>6, <2>1 DEF Company
  <2>2. ASSUME NEW k \in Movers, NEW d \in Folders, NEW p \in Places, MoveRead(k, d, p)
        PROVE  "batch" \in cast
    <3>1. m # k
      BY <1>0, <1>6, <2>2 DEF MoveRead, TreeTypes
    <3>2. mover'[m] = mover[m]
      BY <1>0, <2>2, <3>1 DEF MoveRead, TreeTypes
    <3> QED BY <2>1, <3>2
  <2>3. ASSUME DropsMove PROVE mover'[m] = mover[m]
    BY <1>0, <1>6, <2>3 DEF DropsMove, TreeTypes
  <2> QED BY <2>1, <2>2, <2>3, Writers DEF PlansMove, BatchRead, Acting
<1>7. ASSUME "lock" \notin cast PROVE Held' \subseteq {OpToken}
  <2>0. Held \subseteq {OpToken}
    BY <1>0, <1>7 DEF Company
  <2>1. ASSUME lock' = lock PROVE Held' \subseteq {OpToken}
    BY <2>0, <2>1 DEF Held
  <2>2. ASSUME NEW k \in Tokens, lock' = [lock EXCEPT ![k] = NoLock] PROVE Held' \subseteq {OpToken}
    BY <1>0, <2>0, <2>2, DropFacts
  <2>3. ASSUME NEW D, lock' = LocksWithout(D) PROVE Held' \subseteq {OpToken}
    BY <2>0, <2>3, CascadeFacts
  <2>4. ASSUME TaskLock PROVE Held' \subseteq {OpToken}
    <3>1. Held' = Held \cup {OpToken}
      BY <1>0, <2>4, TaskLockFacts
    <3> QED BY <2>0, <3>1
  <2>5. ASSUME Coordinates PROVE Held' \subseteq {OpToken}
    BY <1>1, <1>7, <2>1, <2>2, <2>4, <2>5 DEF Coordinates, AcquireLock, Acting, ReleaseLock,
       TaskCreate, TaskRead, TaskEnds, TaskInterrupted, TaskStageFolder, TaskStageChildren
  <2> QED BY <1>1, <2>1, <2>2, <2>3, <2>5, Kinds DEF Elsewhere, Destroys, TaskFinalize
<1> QED BY <1>0, <1>3, <1>4, <1>5, <1>6, <1>7 DEF Company

\* What is in the trash while it is being emptied was there when that was asked.
LEMMA StepAsked ==
  ASSUME TreeInv, TameCasts, TreeNext
  PROVE  Asked'
<1>0. Asked /\ purge \in PurgeType
  BY DEF TreeInv, TreeTypes
<1>1. PurgeRequest \/ (/\ PurgeActive' => PurgeActive
                       /\ purge'.asked = purge.asked)
  <2>1. ASSUME purge' = purge PROVE PurgeActive' => PurgeActive
    BY <2>1 DEF PurgeActive
  <2>2. ASSUME PurgeLeaseEnds \/ PurgeCancel \/ PurgeCanceled
        PROVE  PurgeActive /\ purge'.asked = purge.asked
    BY <1>0, <2>2 DEF PurgeLeaseEnds, PurgeCancel, PurgeCanceled, PurgeActive, PurgeType
  <2>3. ASSUME NEW w \in PurgeWorkers, PurgeClaim(w) \/ PurgeEnds(w)
        PROVE  PurgeActive /\ purge'.asked = purge.asked
    BY <1>0, <2>3 DEF PurgeClaim, PurgeEnds, PurgeActive, PurgeType
  <2> QED BY <2>1, <2>2, <2>3, Writers DEF RunsPurge
<1>2. ASSUME PurgeRequest PROVE Asked'
  <2>1. item' = item /\ purge'.asked = Trashed
    BY <1>0, <1>2 DEF PurgeRequest, PurgeType
  <2> QED BY <2>1 DEF Asked, Trashed
<1>3. ASSUME \A n \in Items : item'[n].st = "trash" => item[n].st = "trash"
      PROVE  Trashed' \subseteq Trashed
  BY <1>3 DEF Trashed
<1>4. ASSUME \E n \in Items : Discards(n) PROVE ~PurgeActive
  BY <1>4 DEF Discards
<1>5. ASSUME NEW n \in Items, NEW p \in Places, Grows(n, p) PROVE Trashed' \subseteq Trashed
  <2>1. item'[n].st = "live" /\ \A m \in Items : m # n => item'[m] = item[m]
    BY <1>5, GrowsRows
  <2> QED BY <1>3, <2>1
<1>6. ASSUME NEW S \in SUBSET Items, NEW p \in Places, Shifts(S, p) PROVE Trashed' \subseteq Trashed
  BY <1>3, <1>6, ShiftsRows
<1>7. ASSUME NEW n \in Items, Recovers(n) PROVE Trashed' \subseteq Trashed
  BY <1>3, <1>7, RecoversRows
<1>8. ASSUME NEW R \in SUBSET Items, Destroys(R) PROVE Trashed' \subseteq Trashed
  BY <1>3, <1>8, DestroysRows
<1>9. ASSUME item' = item PROVE Trashed' \subseteq Trashed
  BY <1>3, <1>9
<1>10. ASSUME TaskFinalize PROVE ~PurgeActive
  BY <1>10 DEF TaskFinalize, Admitted
<1>11. ~PurgeActive \/ Trashed' \subseteq Trashed
  BY <1>4, <1>5, <1>6, <1>7, <1>8, <1>9, <1>10, Kinds DEF Mutates, Elsewhere
<1> QED BY <1>0, <1>1, <1>2, <1>11 DEF Asked

-----------------------------------------------------------------------------
(***************************************************************************)
(* The theorems.                                                           *)
(***************************************************************************)
\* No step breaks the invariant.
LEMMA TreeInvStep ==
  ASSUME TameCasts, TreeInv, [TreeNext]_treeVars
  PROVE  TreeInv'
<1>1. CASE TreeNext
  BY <1>1, StepTypes, StepTask, StepForest, StepCompany, StepAnchored, StepOpLocking,
     StepStaging, StepAsked DEF TreeInv
<1>2. CASE UNCHANGED treeVars
  <2>1. TreeTypes' /\ TaskType'
    BY <1>2 DEF treeVars, TreeInv, TreeTypes, TaskType
  <2>2. TreeOK(item') /\ Company' /\ Anchored' /\ OpLocking'
    BY <1>2 DEF treeVars, TreeInv, Company, Anchored, OpLocking, Held
  <2>3. Staging' /\ Asked'
    BY <1>2 DEF treeVars, TreeInv, Staging, Held, Asked, PurgeActive, Trashed
  <2> QED BY <2>1, <2>2, <2>3 DEF TreeInv
<1> QED BY <1>1, <1>2

\* The invariant holds throughout, for every set of folders, files, requests,
\* locks and workers, in companies of actors that may meet.
THEOREM TreeInvHolds == ASSUME TameCasts PROVE TreeSpec => []TreeInv
<1>1. TreeInit => TreeInv
  BY InitTreeInv
<1>2. TreeInv /\ [TreeNext]_treeVars => TreeInv'
  BY TreeInvStep
<1> QED BY <1>1, <1>2, PTL DEF TreeSpec

\* The tree stays a tree of live folders: moves planned side by side close no
\* loop, and no create, move, restore or staged task leaves a live row under a
\* folder that is not (update_in_scope, batch_move_in_scope, restore, trash).
THEOREM TreeStaysSound == ASSUME TameCasts PROVE TreeSpec => []TreeSound
<1>1. TreeInv => TreeSound
  <2> SUFFICES ASSUME TreeInv PROVE TreeSound
    OBVIOUS
  <2>1. TreeAcyclic
    BY ChainIsAbove DEF TreeInv, TreeOK, Loopless, TreeAcyclic
  <2>2. LiveUnderLive
    <3>1. \A n \in Items : n # Root
      BY TreeAssumption DEF Items
    <3> QED BY <3>1 DEF TreeInv, TreeOK, LiveLinked, LiveUnderLive, Live
  <2> QED BY <2>1, <2>2 DEF TreeSound
<1> QED BY <1>1, TreeInvHolds, PTL

\* Emptying the trash destroys only what was there when it was asked for
\* (fence_purge_on, admit_mutation_on), however many workers take the task over.
THEOREM PurgeTakesWhatWasAsked == ASSUME TameCasts PROVE TreeSpec => EmptiesWhatWasAsked
<1> DEFINE A == \A w \in PurgeWorkers, n \in Items :
                   PurgeBatch(w) /\ item[n].st # "gone" /\ item'[n].st = "gone" => n \in purge.asked
<1>1. TreeInv /\ [TreeNext]_treeVars => [A]_treeVars
  <2> SUFFICES ASSUME TreeInv, NEW w \in PurgeWorkers, NEW n \in Items,
                      PurgeBatch(w), item[n].st # "gone", item'[n].st = "gone"
               PROVE  n \in purge.asked
    OBVIOUS
  <2>1. purger[w] \in PurgerType
    BY DEF PurgeBatch, TreeInv, TreeTypes
  <2>2. purger[w].page \in SUBSET Items
    BY <2>1 DEF PurgerType
  <2>3. PICK roots \in {purger[w].page} \cup {{x} : x \in purger[w].page} : PurgeForest(roots)
    BY DEF PurgeBatch
  <2>4. roots \in SUBSET Items
    BY <2>2, <2>3
  <2>5. PICK R \in SUBSET Items : Destroys(R)
    BY <2>3, <2>4, ForestEffect
  <2>6. item[n].st = "trash"
    BY <2>5, DestroysRows
  <2>7. PurgeActive
    BY DEF PurgeBatch, Fenced, PurgeActive
  <2> QED BY <2>6, <2>7 DEF TreeInv, Asked, Trashed
<1>2. TreeSpec => [][A]_treeVars
  BY <1>1, TreeInvHolds, PTL DEF TreeSpec
<1> QED BY <1>2 DEF EmptiesWhatWasAsked

\* A purge destroys nothing that is not in the trash, unless an upload may
\* still add files to a folder after it was trashed.
THEOREM PurgeSparesTheLiving == ASSUME TameCasts PROVE TreeSpec => PurgedWasTrashed
<1> DEFINE A == \A n \in Items : item[n].st = "live" => item'[n].st # "gone"
<1>1. TreeInv /\ TreeNext => A
  <2> SUFFICES ASSUME TreeInv, TreeNext, NEW n \in Items, item[n].st = "live"
               PROVE  item'[n].st # "gone"
    OBVIOUS
  <2>0. item[n].st # "gone" /\ item[n].st # "trash"
    OBVIOUS
  <2>1. ASSUME Mutates PROVE item'[n].st # "gone"
    BY <2>0, <2>1, MutatesRows DEF Keeps
  <2>2. ASSUME NEW R \in SUBSET Items, Destroys(R) PROVE item'[n].st # "gone"
    BY <2>0, <2>2, DestroysRows
  <2>3. ASSUME TaskFinalize PROVE item'[n].st # "gone"
    <3>1. /\ item' = item \/ Discards(task.root) \/ Recovers(task.root)
          /\ task.root \in Items
      BY <2>3, FinalizeEffect
    <3> QED BY <2>0, <3>1, DiscardsRows, RecoversRows DEF Keeps
  <2>4. ASSUME item' = item PROVE item'[n].st # "gone"
    BY <2>0, <2>4
  <2> QED BY <2>1, <2>2, <2>3, <2>4, Kinds DEF Elsewhere
<1>2. TreeSpec => [][A]_treeVars
  BY <1>1, TreeInvHolds, PTL DEF TreeSpec
<1> QED BY <1>2 DEF PurgedWasTrashed

-----------------------------------------------------------------------------
(***************************************************************************)
(* Locks keep others out.                                                  *)
(***************************************************************************)
Respects(l, n) ==
    /\ ~Covers(l, n)
    /\ item'[n].parent # item[n].parent =>
          ~Covers(l, item[n].parent) /\ ~Covers(l, item'[n].parent)

\* A task's lock that covers a row's folder covers the row.
LEMMA OpCoversBelow ==
  ASSUME TreeInv, OpToken \in Held, NEW n \in Items, Covers(OpToken, item[n].parent)
  PROVE  Covers(OpToken, n)
<1> DEFINE q == item[n].parent
           r == task.root
<1>1. item \in Forest /\ r \in Folders /\ r # Root /\ n # Root
  BY TreeAssumption DEF TreeInv, TreeOK, OpLocking, TaskType, Items
<1>2. lock[OpToken].root = r /\ lock[OpToken].deep = TRUE
  BY DEF TreeInv, OpLocking
<1>3. r = q \/ r \in Chain(ParentOf(q))
  BY <1>1, <1>2 DEF Covers
<1>4. r \in Above(item, q)
  <2>1. CASE r = q
    BY <1>1, <2>1, AboveSelf
  <2>2. CASE r \in Chain(ParentOf(q)) /\ q = Root
    <3>1. ParentOf(q) = Root
      BY <2>2 DEF ParentOf
    <3> QED BY <2>2, <3>1, ChainIsAbove
  <2>3. CASE r \in Chain(ParentOf(q)) /\ q # Root
    <3>1. q \in Folders /\ ParentOf(q) = item[q].parent
      BY <1>1, <2>3, ForestFacts DEF ParentOf
    <3>2. r \in Above(item, item[q].parent)
      BY <2>3, <3>1, ChainIsAbove
    <3> QED BY <1>1, <3>1, <3>2, AboveParent
  <2> QED BY <1>3, <2>1, <2>2, <2>3
<1>5. r \in Chain(ParentOf(n))
  <2>1. ParentOf(n) = q
    BY <1>1 DEF ParentOf
  <2> QED BY <1>4, <2>1, ChainIsAbove
<1> QED BY <1>2, <1>5 DEF Covers

\* update_in_scope moves a folder no lock covers, between folders none covers.
LEMMA MoveRespects ==
  ASSUME TreeInv, NEW m \in Movers, MoveCommit(m), NEW l \in Held, NEW n \in Items,
         item'[n] # item[n]
  PROVE  Respects(l, n)
<1>1. mover[m] \in MoveType /\ item \in Forest
  BY DEF TreeInv, TreeTypes, TreeOK, MoveCommit
<1> DEFINE p == mover[m].to
<1>2. p \in Places /\ mover[m].set \in SUBSET Items
  BY <1>1 DEF MoveType
<1>3. PICK d \in mover[m].set :
        /\ Free(d, {})
        /\ p # item[d].parent => MemberFree(item[d].parent, {}) /\ MemberFree(p, {})
        /\ item' = [item EXCEPT ![d].parent = p]
  BY DEF MoveCommit
<1> HIDE DEF p
<1>4. d \in Items
  BY <1>2
<1>5. n = d /\ item'[n].parent = p
  BY <1>1, <1>3, <1>4 DEF Forest
<1>6. \A q : Free(q, {}) => ~Covers(l, q)
  BY DEF Free
<1> QED BY <1>3, <1>5, <1>6 DEF Respects, MemberFree

\* batch_move_in_scope does too, and the folders it planned to take its rows
\* from matter only to locks that take no part beside it.
LEMMA BatchRespects ==
  ASSUME TreeInv, SteadyCasts, NEW m \in Movers, BatchCommit(m), NEW l \in Held, NEW n \in Items,
         item'[n] # item[n]
  PROVE  Respects(l, n)
<1>1. mover[m] \in MoveType /\ item \in Forest
  BY DEF TreeInv, TreeTypes, TreeOK, BatchCommit
<1> DEFINE p == mover[m].to
           S == mover[m].set
<1>2. p \in Places /\ S \in SUBSET Items
  BY <1>1 DEF MoveType
<1>3. /\ MemberFree(p, {}) /\ \A x \in S : Free(x, {})
      /\ item' = [x \in Items |-> IF x \in S THEN [item[x] EXCEPT !.parent = p] ELSE item[x]]
  BY DEF BatchCommit
<1>4. l = OpToken
  <2>1. "batch" \in cast
    BY DEF BatchCommit, TreeInv, Company
  <2>2. "lock" \notin cast
    BY <2>1 DEF TreeInv, TreeTypes, SteadyCasts
  <2> QED BY <2>2 DEF TreeInv, Company
<1> HIDE DEF p, S
<1>5. n \in S /\ item'[n].parent = p
  BY <1>1, <1>3 DEF Forest
<1>6. ~Covers(l, n) /\ ~Covers(l, p)
  BY <1>3, <1>5 DEF Free, MemberFree
<1>7. ~Covers(l, item[n].parent)
  BY <1>4, <1>6, OpCoversBelow
<1> QED BY <1>5, <1>6, <1>7 DEF Respects

\* delete_in_scope trashes only rows that no lock covers.
LEMMA TrashRespects ==
  ASSUME TreeInv, TameCasts, NEW r \in Items, TrashItem(r), NEW l \in Held, NEW n \in Items,
         item'[n] # item[n]
  PROVE  Respects(l, n)
<1>1. Discards(r)
  BY TrashEffect
<1>2. n \in Beneath(item, r, Active) /\ item'[n].parent = item[n].parent
  BY <1>1, DiscardsRows
<1>3. n \in Subtree(r, Active)
  BY <1>2, SubtreeIsBeneath
<1>4. ~Covers(l, n)
  BY <1>3 DEF TrashItem, Free
<1> QED BY <1>2, <1>4 DEF Respects

\* Rows that come back or go for good were not live.
LEMMA RestoreRespects ==
  ASSUME TreeInv, NEW r \in Items, Recovers(r), NEW n \in Items, item[n].st = "live"
  PROVE  item'[n] = item[n]
<1>1. item \in Forest /\ item[r].st = "trash"
  BY DEF TreeInv, TreeOK, Recovers
<1>2. PICK p \in Places : item' = BringBack(item, Beneath(item, r, Present), r, p)
  BY DEF Recovers
<1>3. BroughtBack(item, item', Beneath(item, r, Present), r, p)
  BY <1>1, <1>2, BringBackFacts
<1>4. n \notin Beneath(item, r, Present) /\ n # r
  <2>1. item[n].st # "trash"
    OBVIOUS
  <2> QED BY <1>1, <2>1, RecoversRows
<1>5. item'[n].parent = item[n].parent /\ item'[n].st = item[n].st /\ item' \in Forest
  BY <1>3, <1>4 DEF BroughtBack
<1> QED BY <1>1, <1>5, ForestFacts

\* Every step respects every lock that it leaves in place.
LEMMA StepRespects ==
  ASSUME TreeInv, TameCasts, SteadyCasts, TreeNext, NEW l \in Held, NEW n \in Items,
         lock'[l] = lock[l], item[n].st = "live", item'[n] # item[n]
  PROVE  Respects(l, n)
<1>0. item[n].st # "trash" /\ item[n].st # "absent" /\ item' # item
  OBVIOUS
<1>1. ASSUME NEW x \in Items, NEW p \in Places, Grows(x, p) PROVE FALSE
  BY <1>0, <1>1, GrowsRows DEF Grows
<1>2. ASSUME NEW R \in SUBSET Items, Destroys(R) PROVE FALSE
  BY <1>0, <1>2, DestroysRows
<1>3. ~TaskFinalize
  <2> SUFFICES ASSUME TaskFinalize PROVE FALSE
    OBVIOUS
  <2>1. "task" \in cast
    BY DEF TaskFinalize, TreeInv, TaskType
  <2>2. "lock" \notin cast
    BY <2>1 DEF TreeInv, TreeTypes, SteadyCasts
  <2>3. l = OpToken
    BY <2>2 DEF TreeInv, Company
  <2>4. OpToken \notin Held'
    BY FinalizeEffect
  <2> QED BY <2>3, <2>4 DEF Held
<1>4. ASSUME NEW d \in Folders, NEW p \in Places, NEW ts \in {{}} \cup {{h} : h \in Holders},
             CreateFolder(d, p, ts)
      PROVE  FALSE
  BY <1>1, <1>4, CreateEffect DEF Items
<1>5. ASSUME NEW f \in Files, UploadPublish(f) PROVE FALSE
  BY <1>1, <1>5, UploadEffect DEF Items
<1>6. ASSUME NEW m \in Movers, MoveCommit(m) \/ BatchCommit(m) PROVE Respects(l, n)
  BY <1>6, MoveRespects, BatchRespects
<1>7. ASSUME NEW r \in Items, TrashItem(r) PROVE Respects(l, n)
  BY <1>7, TrashRespects
<1>8. ASSUME NEW r \in Items, RestoreItem(r) PROVE FALSE
  BY <1>8, RestoreEffect, RestoreRespects
<1>9. ASSUME NEW r \in Items, PurgeItem(r) PROVE FALSE
  <2>1. {r} \in SUBSET Items /\ PurgeForest({r})
    BY <1>9 DEF PurgeItem
  <2> QED BY <1>2, <2>1, ForestEffect
<1>10. ASSUME NEW w \in PurgeWorkers, PurgeBatch(w) PROVE FALSE
  <2>1. purger[w] \in PurgerType
    BY <1>10 DEF PurgeBatch, TreeInv, TreeTypes
  <2>2. purger[w].page \in SUBSET Items
    BY <2>1 DEF PurgerType
  <2>3. PICK roots \in {purger[w].page} \cup {{x} : x \in purger[w].page} : PurgeForest(roots)
    BY <1>10 DEF PurgeBatch
  <2>4. roots \in SUBSET Items
    BY <2>2, <2>3
  <2> QED BY <1>2, <2>3, <2>4, ForestEffect
<1>11. ASSUME NEW h \in Holders, NEW r \in Items \cup {Root}, NEW deep \in BOOLEAN,
              AcquireLock(h, r, deep)
       PROVE  FALSE
  BY <1>0, <1>11 DEF AcquireLock
<1>12. ASSUME NEW h \in Tokens, ReleaseLock(h) PROVE FALSE
  BY <1>0, <1>12 DEF ReleaseLock
<1>13. ASSUME NEW m \in Movers,
             \/ \E d \in Folders, p \in Places : MoveRead(m, d, p)
             \/ \E S \in BatchSets, p \in Places : BatchRead(m, S, p)
             \/ MoveRollsBack(m)
       PROVE  FALSE
  BY <1>0, <1>13 DEF MoveRead, BatchRead, MoveRollsBack
<1>14. ASSUME NEW f \in Files, NEW d \in Places, NEW direct \in BOOLEAN, UploadOpen(f, d, direct)
       PROVE  FALSE
  BY <1>0, <1>14 DEF UploadOpen
<1>15. ASSUME NEW w \in PurgeWorkers,
              PurgeClaim(w) \/ PurgeList(w) \/ PurgeEnds(w) \/ PurgeWorkerStops(w)
       PROVE  FALSE
  BY <1>0, <1>15 DEF PurgeClaim, PurgeList, PurgeEnds, PurgeWorkerStops
<1>16. ASSUME PurgeRequest \/ PurgeLeaseEnds \/ PurgeCancel \/ PurgeCanceled PROVE FALSE
  BY <1>0, <1>16 DEF PurgeRequest, PurgeLeaseEnds, PurgeCancel, PurgeCanceled
<1>17. ASSUME NEW op \in {"delete", "restore"}, NEW d \in Folders, TaskCreate(op, d) PROVE FALSE
  BY <1>0, <1>17 DEF TaskCreate
<1>18. ASSUME TaskRead \/ TaskLock \/ TaskEnds \/ TaskInterrupted PROVE FALSE
  BY <1>0, <1>18 DEF TaskRead, TaskLock, TaskEnds, TaskInterrupted
<1>19. ASSUME NEW d \in Folders, TaskStageFolder(d) \/ TaskStageChildren(d) PROVE FALSE
  BY <1>0, <1>19 DEF TaskStageFolder, TaskStageChildren
<1> QED BY <1>3, <1>4, <1>5, <1>6, <1>7, <1>8, <1>9, <1>10, <1>11, <1>12, <1>13,
     <1>14, <1>15, <1>16, <1>17, <1>18, <1>19 DEF TreeNext

\* While a lock is held no other request changes a live row it covers, takes a
\* row out of a folder it covers or puts one in (enforce_mutation_locks_*), in
\* companies where a client's lock meets neither batch moves nor the task.
THEOREM LocksHold == ASSUME TameCasts, SteadyCasts PROVE TreeSpec => LockedUntouched
<1> DEFINE A == \A l \in Held, n \in Items :
          lock'[l] = lock[l] /\ Live(n) /\ item'[n] # item[n] =>
              /\ ~Covers(l, n)
              /\ item'[n].parent # item[n].parent =>
                    ~Covers(l, item[n].parent) /\ ~Covers(l, item'[n].parent)
<1>1. TreeInv /\ TreeNext => A
  <2> SUFFICES ASSUME TreeInv, TreeNext, NEW l \in Held, NEW n \in Items,
                      lock'[l] = lock[l], Live(n), item'[n] # item[n]
               PROVE  Respects(l, n)
    BY DEF Respects
  <2>1. item[n].st = "live"
    BY TreeAssumption DEF Live, Items
  <2> QED BY <2>1, StepRespects
<1>2. TreeSpec => [][A]_treeVars
  BY <1>1, TreeInvHolds, PTL DEF TreeSpec
<1> QED BY <1>2 DEF LockedUntouched

-----------------------------------------------------------------------------
(***************************************************************************)
(* Refinement: every step is one of AtomicTree's, or leaves the tables.    *)
(***************************************************************************)
\* The whole subtree of a row, in both modules' words.
LEMMA BelowIsBeneath ==
  ASSUME NEW n
  PROVE  Atomic!Below(n, Atomic!Rows) = Beneath(item, n, Present)
<1>1. Atomic!Everything = Items
  BY DEF Atomic!Everything, Items
<1>2. Atomic!Rows = {m \in Items : item[m].st \in Present}
  BY <1>1 DEF Atomic!Rows, Present
<1>3. \A T \in SUBSET Items :
        (\A m \in Atomic!Rows : item[m].parent \in T => m \in T) <=> Falling(item, T, Present)
  BY <1>2 DEF Falling
<1> QED BY <1>1, <1>3 DEF Atomic!Below, Beneath

\* The folders a row may be put in.
LEMMA LivePlacesAreHomes ==
  Atomic!LivePlaces = {p \in Places : Home(item, p)}
BY TreeAssumption DEF Atomic!LivePlaces, Places, Home

\* An added row appears in a live folder.
LEMMA GrowsAtomically ==
  ASSUME NEW n \in Items, NEW p \in Places, Grows(n, p)
  PROVE  Atomic!AtomicNext
<1>1. p \in Atomic!LivePlaces
  BY LivePlacesAreHomes DEF Grows
<1>2. Atomic!Add(n)
  BY <1>1 DEF Atomic!Add, Grows, AddTo
<1> QED BY <1>2 DEF Atomic!AtomicNext, Atomic!Everything, Items

\* A move changes the folder of its rows at once, and puts none below itself.
LEMMA ShiftsAtomically ==
  ASSUME TreeInv, NEW S \in SUBSET Items, NEW p \in Places, Shifts(S, p)
  PROVE  Atomic!AtomicNext
<1>0. item \in Forest /\ Atomic!Everything = Items
  BY DEF TreeInv, TreeOK, Atomic!Everything, Items
<1>1. p \in Atomic!LivePlaces
  BY LivePlacesAreHomes DEF Shifts
<1>2. ASSUME NEW n \in S PROVE item[n].st = "live" /\ p \notin Atomic!Below(n, Atomic!Rows)
  <2>1. item[n].st = "live" /\ n \notin Above(item, p) /\ n \in Items
    BY DEF Shifts
  <2>2. ASSUME p \in Beneath(item, n, Present) PROVE FALSE
    <3>1. p \in Items /\ (p = n \/ n \in Above(item, item[p].parent))
      BY <1>0, <2>1, <2>2, BeneathSelf, BeneathAbove
    <3>2. p \in Folders
      BY <3>1, TreeAssumption DEF Places, Items
    <3> QED BY <1>0, <2>1, <3>1, <3>2, AboveSelf, AboveParent
  <2> QED BY <2>1, <2>2, BelowIsBeneath
<1>3. item' = [n \in Atomic!Everything |->
                  IF n \in S THEN [item[n] EXCEPT !.parent = p] ELSE item[n]]
  BY <1>0 DEF Shifts, MoveTo
<1>4. Atomic!Move(S, p)
  BY <1>1, <1>2, <1>3 DEF Atomic!Move
<1> QED BY <1>0, <1>1, <1>4 DEF Atomic!AtomicNext

\* A subtree is trashed at once: the live rows below a live row are those
\* reached through live rows.
LEMMA DiscardsAtomically ==
  ASSUME TreeInv, NEW n \in Items, Discards(n)
  PROVE  Atomic!AtomicNext
<1>0. item \in Forest /\ LiveLinked(item) /\ Atomic!Everything = Items
  BY DEF TreeInv, TreeOK, Atomic!Everything, Items
<1> DEFINE S == Beneath(item, n, Active)
           T == {m \in Atomic!Below(n, Atomic!Rows) : item[m].st = "live"}
<1>1. \A m \in S : m \in Items /\ item[m].st = "live"
  <2>1. \A m \in S : m \in Items
    BY BeneathSelf
  <2> QED BY <2>1, DiscardsRows
<1>2. S = T
  <2>1. Atomic!Below(n, Atomic!Rows) = Beneath(item, n, Present)
    BY BelowIsBeneath
  <2>2. S \subseteq T
    BY <1>0, <1>1, <2>1, BeneathActive
  <2>3. T \subseteq S
    BY <1>0, <2>1, BeneathActive
  <2> QED BY <2>2, <2>3
<1>3. item' = Atomic!With(S, "trash")
  BY <1>0 DEF Discards, Mark, Atomic!With
<1>4. Atomic!Trash(n)
  BY <1>2, <1>3 DEF Atomic!Trash, Discards
<1> QED BY <1>0, <1>4 DEF Atomic!AtomicNext

\* A subtree is restored at once, under its folder if that is live.
LEMMA RecoversAtomically ==
  ASSUME TreeInv, NEW n \in Items, Recovers(n)
  PROVE  Atomic!AtomicNext
<1>0. item \in Forest /\ Atomic!Everything = Items
  BY DEF TreeInv, TreeOK, Atomic!Everything, Items
<1>1. PICK p \in Places : /\ p = IF Home(item, item[n].parent) THEN item[n].parent ELSE Root
                          /\ item' = BringBack(item, Beneath(item, n, Present), n, p)
  BY DEF Recovers
<1>2. p = IF item[n].parent \in Atomic!LivePlaces THEN item[n].parent ELSE Root
  <2>1. item[n].parent \in Atomic!LivePlaces <=> Home(item, item[n].parent)
    BY <1>0, ForestFacts, LivePlacesAreHomes
  <2> QED BY <1>1, <2>1
<1>3. item' = [Atomic!With(Atomic!Below(n, Atomic!Rows), "live") EXCEPT ![n].parent = p]
  BY <1>0, <1>1, BelowIsBeneath DEF BringBack, Mark, Atomic!With
<1>4. Atomic!Restore(n)
  BY <1>2, <1>3 DEF Atomic!Restore, Recovers
<1> QED BY <1>0, <1>4 DEF Atomic!AtomicNext

\* A forest is purged at once, and all of it was in the trash.
LEMMA DestroysAtomically ==
  ASSUME TreeInv, NEW R \in SUBSET Items, Destroys(R)
  PROVE  Atomic!AtomicNext
<1>0. Atomic!Everything = Items
  BY DEF Atomic!Everything, Items
<1>1. Doomed(R) = UNION {Atomic!Below(n, Atomic!Rows) : n \in R}
  BY BelowIsBeneath DEF Doomed
<1>2. /\ \A n \in R : item[n].st = "trash"
      /\ \A n \in Doomed(R) : item[n].st = "trash"
  BY DoomedTrash DEF Destroys
<1>3. item' = [n \in Atomic!Everything |->
                  IF n \in Doomed(R) THEN [parent |-> Root, st |-> "gone"] ELSE item[n]]
  BY <1>0 DEF Destroys, Cut
<1>4. Atomic!Purge(R)
  BY <1>1, <1>2, <1>3 DEF Atomic!Purge
<1> QED BY <1>0, <1>4 DEF Atomic!AtomicNext

\* Although the folder-tree task stages a subtree row by row and moves are
\* planned from earlier reads, what the clients see is AtomicTree: each
\* operation happens to a whole subtree at once.
THEOREM TreeActsAtomically == ASSUME TameCasts PROVE TreeSpec => ActsAtomically
<1>1. TreeInit => Atomic!AtomicInit
  <2> SUFFICES ASSUME TreeInit, NEW n \in Items PROVE item[n].st \in {"live", "absent"}
    BY DEF Atomic!AtomicInit, Atomic!Everything, Items
  <2> QED BY DEF TreeInit
<1>2. TreeInv /\ TreeNext => [Atomic!AtomicNext]_item
  <2> SUFFICES ASSUME TreeInv, TreeNext PROVE item' = item \/ Atomic!AtomicNext
    OBVIOUS
  <2>1. Mutates => Atomic!AtomicNext
    BY GrowsAtomically, ShiftsAtomically, DiscardsAtomically, RecoversAtomically DEF Mutates
  <2>2. TaskFinalize => item' = item \/ Atomic!AtomicNext
    BY FinalizeEffect, DiscardsAtomically, RecoversAtomically
  <2> QED BY <2>1, <2>2, DestroysAtomically, Kinds DEF Elsewhere
<1>3. UNCHANGED treeVars => [Atomic!AtomicNext]_item
  BY DEF treeVars
<1> QED BY <1>1, <1>2, <1>3, TreeInvHolds, PTL DEF TreeSpec, ActsAtomically, Atomic!AtomicSpec
=============================================================================
