---------------------------- MODULE MCSupervisor ----------------------------
(* Instances of Supervisor for TLC. *)
EXTENDS Supervisor, TLC

CONSTANTS a, b

\* The second batch repeats a candidate of the first.
TwoBatches == [f \in Files |-> IF f = 1 THEN <<a, b>> ELSE <<b>>]
=============================================================================
