----------------------------- MODULE MCLiveDesk -----------------------------
(* Instances of LiveDesk for TLC. *)
EXTENDS LiveDesk
=============================================================================
