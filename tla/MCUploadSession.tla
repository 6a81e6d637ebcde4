--------------------------- MODULE MCUploadSession ---------------------------
(***************************************************************************)
(* Instances of UploadSession for TLC: every kind of session, two chunks,  *)
(* one cancel, one sweeper, and two PUTs or two completes at once.         *)
(***************************************************************************)
EXTENDS UploadSession

CONSTANTS p1, p2, c1, c2, k1, sw

TwoParts == 1..2
TwoPutters == {p1, p2}
TwoCompleters == {c1, c2}
OneCancel == {k1}

Kinds == {"staging", "relay", "parts", "single", "direct"}
Scene(kinds, lossy, crew) == [kind : kinds, lossy : {lossy}, crew : {crew}]

AllScenes == Scene(Kinds, FALSE, {p1, c1, c2})
             \cup Scene({"staging", "relay"}, FALSE, {p1, p2, c1})
             \cup Scene(Kinds, TRUE, {p1, c1})
LossyParts == Scene({"parts"}, TRUE, {c1})
=============================================================================
