------------------------------ MODULE MCReclaim ------------------------------
(***************************************************************************)
(* What is taken back in the background, for TLC in one run: blobs without *)
(* references, and the counts of downloads that were broken off.  The two  *)
(* modules have no state in common: a behaviour is the one's or the        *)
(* other's, which then stays as it begins.                                 *)
(***************************************************************************)
EXTENDS MCBlobLifecycle, MCShareDownloads

VARIABLE system

reclaimVars == <<system, vars, sdVars>>

ReclaimInit == system \in {"blobs", "shares"} /\ Init /\ ShareInit

OfBlobs(A) == system = "blobs" /\ A /\ UNCHANGED <<system, sdVars>>
OfShares(A) == system = "shares" /\ A /\ UNCHANGED <<system, vars>>

ReclaimFair ==
    /\ Fairness
    /\ WF_reclaimVars(OfShares(Rollback))
    /\ \A d \in Downloads : WF_reclaimVars(OfShares(PushOverflow(d)))

ReclaimSpec ==
    ReclaimInit /\ [][OfBlobs(Next) \/ OfShares(ShareNext)]_reclaimVars /\ ReclaimFair
=============================================================================
