----------------------------- MODULE MCLiveFeed -----------------------------
(* Small instances of LiveFeed for TLC. *)
EXTENDS LiveFeed

CONSTANTS k1, k2
=============================================================================
