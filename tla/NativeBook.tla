----------------------------- MODULE NativeBook -----------------------------
(***************************************************************************)
(* One coin on a live exchange, as hlcli/exchange/hyperliquid.py and       *)
(* executor/protect.py meet it: a long position, the reduce-only triggers  *)
(* that rest on it and the mark that sets them off.  A trigger is known by *)
(* its oid and fires by itself, whoever is in the middle of what; it never *)
(* closes more than the position that is left, and rests on when there is  *)
(* none.  Shorts are the mirror image.                                     *)
(*                                                                         *)
(* The exchange is external: its calls answer what hlcli handles.          *)
(***************************************************************************)
EXTENDS Integers, FiniteSets, FiniteSetsExt

CONSTANTS
    Marks,     \* what the coin may be quoted at
    MaxMoves   \* bound: moves of the mark

ASSUME NativeAssumption == Marks \subseteq Nat \ {0} /\ MaxMoves \in Nat

VARIABLES
    mark,      \* the mark
    moves,     \* its moves so far
    pos,       \* size of the position
    triggers,  \* resting triggers
    oids       \* oids given out

bookVars == <<mark, moves, pos, triggers, oids>>

NoOid == 0

Stops == {t \in triggers : t.kind = "stop"}
Targets == {t \in triggers : t.kind = "take"}
Resting(oid) == \E t \in triggers : t.oid = oid

\* A trigger order is accepted and rests under the next oid.
PlaceTrigger(kind, level, size) ==
    /\ triggers' = triggers \cup {[oid |-> oids + 1, kind |-> kind, level |-> level, size |-> size]}
    /\ oids' = oids + 1
    /\ UNCHANGED <<mark, moves, pos>>

CancelOids(gone) ==
    /\ triggers' = {t \in triggers : t.oid \notin gone}
    /\ UNCHANGED <<mark, moves, pos, oids>>

Smaller(a, b) == IF a <= b THEN a ELSE b

\* market_close for a size: what of it is filled where `left` is held back by the book.
Closed(size, left) == Smaller(size, pos) - left
MarketClose(size, left) ==
    /\ pos' = pos - Closed(size, left)
    /\ UNCHANGED <<mark, moves, triggers, oids>>

MarketOpen(size) ==
    /\ pos' = pos + size
    /\ UNCHANGED <<mark, moves, triggers, oids>>

-----------------------------------------------------------------------------
\* The exchange's own steps.
MarkMoves ==
    /\ moves < MaxMoves
    /\ mark' \in Marks \ {mark}
    /\ moves' = moves + 1
    /\ UNCHANGED <<pos, triggers, oids>>

Hit(t) == IF t.kind = "stop" THEN mark <= t.level ELSE mark >= t.level

Fires(t) ==
    /\ Hit(t)
    /\ pos' = pos - Smaller(t.size, pos)
    /\ triggers' = triggers \ {t}
    /\ UNCHANGED <<mark, moves, oids>>

\* What of the position the resting stops close at some level.
Stopped == Smaller(pos, SumFunction([t \in Stops |-> t.size]))
=============================================================================
