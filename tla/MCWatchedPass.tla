---------------------------- MODULE MCWatchedPass ----------------------------
(* Instances of WatchedPass for TLC. *)
EXTENDS WatchedPass

CONSTANT x

TwoOfACoin == <<x, x>>
=============================================================================
