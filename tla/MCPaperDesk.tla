---------------------------- MODULE MCPaperDesk -----------------------------
(* Instances of PaperDesk for TLC: marks in steps of 36, so that sixths of a mark, halves *)
(* of a risk and averages over lots of 8 and 4 stay whole. *)
EXTENDS PaperDesk

CONSTANTS x, exec, sentry

\* The first candidate buys the coin, the second sells it.
BothSetup == [c \in Cands |->
    IF c = 1 THEN [coin |-> x, side |-> Long, sl |-> 36, tp |-> 144, size |-> 8]
    ELSE [coin |-> x, side |-> Short, sl |-> 144, tp |-> 36, size |-> 8]]

\* A trail of a sixth of the mark.
SixthTrail == [m \in Marks |-> m \div 6]
=============================================================================
