----------------------------- MODULE AtomicTree -----------------------------
(***************************************************************************)
(* What the folder tree promises its clients: every operation happens to a *)
(* whole subtree at once.  A subtree is trashed, restored or purged in one *)
(* step, nothing is moved below itself, and nothing is moved into the      *)
(* trash.  FolderTree, in which a large subtree is staged row by row and   *)
(* moves are planned from earlier reads, implements this.                  *)
(***************************************************************************)
EXTENDS Naturals, FiniteSets

CONSTANTS Folders, Files, Root

VARIABLE item

Everything == Folders \cup Files
Rows == {n \in Everything : item[n].st \in {"live", "trash"}}
LivePlaces == {Root} \cup {d \in Folders : item[d].st = "live"}

\* d and what is below it along rows that are all in S.
Below(d, S) ==
    {m \in Everything : \A T \in SUBSET Everything :
        d \in T /\ (\A n \in S : item[n].parent \in T => n \in T) => m \in T}

With(S, st) == [n \in Everything |-> IF n \in S THEN [item[n] EXCEPT !.st = st] ELSE item[n]]

Add(n) ==
    /\ item[n].st = "absent"
    /\ \E p \in LivePlaces : item' = [item EXCEPT ![n] = [parent |-> p, st |-> "live"]]

Move(S, p) ==
    /\ p \in LivePlaces
    /\ \A n \in S : item[n].st = "live" /\ p \notin Below(n, Rows)
    /\ item' = [n \in Everything |-> IF n \in S THEN [item[n] EXCEPT !.parent = p] ELSE item[n]]

Trash(n) ==
    /\ item[n].st = "live"
    /\ item' = With({m \in Below(n, Rows) : item[m].st = "live"}, "trash")

Restore(n) ==
    /\ item[n].st = "trash"
    /\ LET home == IF item[n].parent \in LivePlaces THEN item[n].parent ELSE Root
       IN  item' = [With(Below(n, Rows), "live") EXCEPT ![n].parent = home]

Purge(S) ==
    /\ \A n \in S : item[n].st = "trash"
    /\ LET dead == UNION {Below(n, Rows) : n \in S}
       IN  /\ \A n \in dead : item[n].st = "trash"
           /\ item' = [n \in Everything |-> IF n \in dead THEN [parent |-> Root, st |-> "gone"]
                                            ELSE item[n]]

AtomicInit == \A n \in Everything : item[n].st \in {"live", "absent"}

AtomicNext ==
    \/ \E n \in Everything : Add(n) \/ Trash(n) \/ Restore(n)
    \/ \E S \in SUBSET Everything : Purge(S) \/ \E p \in LivePlaces : Move(S, p)

AtomicSpec == AtomicInit /\ [][AtomicNext]_item
=============================================================================
