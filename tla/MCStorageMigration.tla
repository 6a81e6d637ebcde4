------------------------- MODULE MCStorageMigration -------------------------
(***************************************************************************)
(* StorageMigration for model checking: the scenes.                        *)
(***************************************************************************)
EXTENDS StorageMigration, TLC

CONSTANTS h, o, e

Fresh == [a \in Attempts |-> [i \in MgIds |-> <<a, i>>]]

Row(p, k, n) == [pol |-> p, key |-> k, count |-> n]
Nothing == Row("none", e, 0)

\* A content blob, and an opaque blob whose key another blob of the target has.
Conflicting(breaks, late) ==
    [start |-> <<Row("src", h, 1), Row("src", o, 1), Row("tgt", o, 1), Nothing>>,
     content |-> <<"a", "b", "c", "a">>, refs |-> <<1, 2, 3>>, missing |-> {},
     recover |-> FALSE, faults |-> TRUE, breaks |-> breaks, late |-> late,
     copies |-> FALSE, uploads |-> FALSE, upkey |-> h]

\* A content blob and a virtual-empty blob that the target has too.
Twins(breaks, late, copies) ==
    [start |-> <<Row("src", h, 1), Row("src", e, 1), Row("tgt", e, 0), Row("tgt", h, 1)>>,
     content |-> <<"a", "", "", "a">>, refs |-> <<1, 2, 4>>, missing |-> {},
     recover |-> FALSE, faults |-> TRUE, breaks |-> breaks, late |-> late,
     copies |-> copies, uploads |-> FALSE, upkey |-> h]

\* The target gets the content, or a virtual-empty blob, while the task runs.
Arriving(k, c) ==
    [start |-> <<Row("src", h, 1), Row("src", e, 1), Nothing, Nothing>>,
     content |-> <<"a", "", "", c>>, refs |-> <<1, 2, 0>>, missing |-> {},
     recover |-> FALSE, faults |-> FALSE, breaks |-> FALSE, late |-> TRUE,
     copies |-> TRUE, uploads |-> TRUE, upkey |-> k]

\* RecoverAvailable: one object of the source is lost; a twin of the virtual-empty blob.
Recovering(twin, breaks, late) ==
    [start |-> <<Row("src", h, 1), Row("src", e, 1), Row("src", o, 1), twin>>,
     content |-> <<"a", "", "b", "">>, refs |-> <<1, 2, 3>>, missing |-> {1},
     recover |-> TRUE, faults |-> TRUE, breaks |-> breaks, late |-> late,
     copies |-> FALSE, uploads |-> FALSE, upkey |-> h]

\* A copy that fails and a commit that comes late are told apart: see LateMove.
AllMigrations ==
    {Arriving(h, "a"), Arriving(e, "")} \cup
    UNION {{Conflicting(b, ~b), Twins(b, ~b, ~b)} : b \in BOOLEAN} \cup
    {Recovering(Nothing, TRUE, FALSE), Recovering(Row("tgt", e, 0), FALSE, TRUE)}

LateMove == {Conflicting(TRUE, TRUE)}
=============================================================================
