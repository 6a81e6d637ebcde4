--------------------------- MODULE MCBlobLifecycle ---------------------------
(* Instances of BlobLifecycle for TLC. *)
EXTENDS BlobLifecycle, TLC

CONSTANTS u1, u2, u3, x1, v1, c1, c2, k1, k2

TwoUploads   == {u1, u2}
ThreeUploads == {u1, u2, u3}
OneCopy      == {x1}
OneVersion   == {v1}
OneCleaner   == {c1}
TwoCleaners  == {c1, c2}
None         == {}
LastChunked  == {u3}

\* All uploads have the same content, on a content-addressed policy ...
SharedKey   == [u \in Uploads |-> k1]
SharedDedup == {k1}
\* ... or one has a path of its own and the others share theirs.
MixedKeys  == [u \in Uploads |-> IF u = u1 THEN k2 ELSE k1]

CleanersAlike == Permutations(Cleaners)
=============================================================================
