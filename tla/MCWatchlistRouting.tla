------------------------ MODULE MCWatchlistRouting ------------------------
(***************************************************************************)
(* WatchlistRouting with a few users and items and two overlapping drains. *)
(***************************************************************************)
EXTENDS WatchlistRouting

CONSTANTS u1, u2, i1, i2, d1, d2

=============================================================================
