--------------------------- MODULE MCShareDownloads ---------------------------
(* Constants with which TLC checks ShareDownloads. *)
EXTENDS ShareDownloads

CONSTANTS d1, d2, d3, g1, g2
=============================================================================
