-------------------------- MODULE MCRefreshSessions --------------------------
(* Instances of RefreshSessions for TLC. *)
EXTENDS RefreshSessions, TLC

CONSTANTS sid1, sid2, req1, req2, login1

TwoSids     == {sid1, sid2}
TwoRequests == {req1, req2}
OneLogin    == {login1}

\* Sessions and requests are interchangeable.
RefreshAlike == Permutations(TwoSids) \cup Permutations(TwoRequests)
=============================================================================
