----------------------------- MODULE PaperBook ------------------------------
(***************************************************************************)
(* The paper account, hlcli/exchange/paper.py over the paper_positions     *)
(* table and the paper_realized row of hlcli/state/store.py.  There is no  *)
(* resting book: an order fills when it is placed.  But a fill is not one  *)
(* write: it reads the position, reads and rewrites the realized P&L, then *)
(* rewrites the position, each on its own commit, so that a crash or       *)
(* another process can fall between any two of them.                       *)
(***************************************************************************)
EXTENDS Integers

CONSTANTS
    Coins,
    Procs    \* the processes that place orders on the account

VARIABLES
    position,   \* paper_positions
    realized,   \* meta paper_realized
    fill        \* per process, the fill its order is going through

bookVars == <<position, realized, fill>>

Flat == [side |-> 1, size |-> 0, entry |-> 0]
NoFill == [step |-> "none"]

BookInit ==
    /\ position = [c \in Coins |-> Flat]
    /\ realized = 0
    /\ fill = [p \in Procs |-> NoFill]

Held == {c \in Coins : position[c].size # 0}

-----------------------------------------------------------------------------
(* _apply_fill, as what it leaves of the position and what it realizes. *)

Smaller(a, b) == IF a < b THEN a ELSE b

\* A flat coin, or one held on the order's side, takes the whole order in.
Opens(held, order) == held.size = 0 \/ held.side = order.side

Opened(held, order) ==
    LET size == held.size + order.size
    IN  [side  |-> order.side,
         size  |-> size,
         entry |-> (held.entry * held.size + order.price * order.size) \div size]

ClosedSize(held, order) == Smaller(order.size, held.size)

\* The excess of an order over the position turns it, unless it is reduce-only.
Reduced(held, order) ==
    LET remaining == held.size - ClosedSize(held, order)
        flipped == order.size - ClosedSize(held, order)
    IN  IF remaining > 0 THEN [held EXCEPT !.size = remaining]
        ELSE IF flipped > 0 /\ ~order.reduce_only
        THEN [side |-> order.side, size |-> flipped, entry |-> order.price]
        ELSE Flat

AfterFill(held, order) ==
    IF Opens(held, order) THEN Opened(held, order) ELSE Reduced(held, order)

RealizedBy(held, order) ==
    held.side * (order.price - held.entry) * ClosedSize(held, order)

-----------------------------------------------------------------------------
(* The steps of place_order. *)

\* The fill starts by reading the coin's position.
PlaceOrder(p, order) ==
    /\ fill' = [fill EXCEPT ![p] =
           [step  |-> IF Opens(position[order.coin], order) THEN "write" ELSE "read",
            order |-> order, held |-> position[order.coin], sum |-> 0]]
    /\ UNCHANGED <<position, realized>>

ReadRealized(p) ==
    /\ fill[p].step = "read"
    /\ fill' = [fill EXCEPT ![p].step = "add", ![p].sum = realized]
    /\ UNCHANGED <<position, realized>>

AddRealized(p) ==
    /\ fill[p].step = "add"
    /\ realized' = fill[p].sum + RealizedBy(fill[p].held, fill[p].order)
    /\ fill' = [fill EXCEPT ![p].step = "write"]
    /\ UNCHANGED position

WritePosition(p) ==
    /\ fill[p].step = "write"
    /\ position' = [position EXCEPT ![fill[p].order.coin] =
                        AfterFill(fill[p].held, fill[p].order)]
    /\ fill' = [fill EXCEPT ![p].step = "filled"]
    /\ UNCHANGED realized

FillStep(p) == ReadRealized(p) \/ AddRealized(p) \/ WritePosition(p)
=============================================================================
