--------------------------- MODULE MCExecutorPass ---------------------------
(* Instances of ExecutorPass for TLC. *)
EXTENDS ExecutorPass, TLC

CONSTANTS a, b, x, y, exec, sentry

OneCand == {a}
TwoCands == {a, b}
OneCoin == [c \in Cands |-> x]
TwoCoins == [c \in Cands |-> IF c = a THEN x ELSE y]
\* The two processes of exec_pair both pull the intake stream and differ in nothing.
Interchangeable == Permutations({exec, sentry})
=============================================================================
