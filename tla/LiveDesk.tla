------------------------------ MODULE LiveDesk ------------------------------
(***************************************************************************)
(* The management of a live position: `hl sentry run --manage` on a        *)
(* network with native protection.  A pass adopts what nobody manages      *)
(* (hlcli/sentry/adopt.py), puts the model's verdicts on the open rows     *)
(* through the gate (sentry/live.py, sentry/gate.py), moves the triggers   *)
(* on the exchange and books what it did (sentry/apply.py), and resolves   *)
(* what is due or gone (executor/resolve.py).  `hl exec reconcile` halts   *)
(* when exchange and ledger disagree (executor/reconcile.py).              *)
(*                                                                         *)
(* Every call to the exchange and every commit is a step of its own,       *)
(* between which triggers fire and the process may die; a call that raises *)
(* ends the pass as a death does.  The rows are those of one coin, all     *)
(* long: an add makes a sibling.  The rules of 6a are PaperDesk's subject. *)
(* The clock is the choice whether a row's interval, cooldown or window    *)
(* has passed; the day does not end.                                       *)
(***************************************************************************)
EXTENDS NativeBook, Sequences

CONSTANTS
    Entry, InitialStop, Target, Size,  \* the position the run begins with
    StopLevels,    \* stops the model may name
    TargetLevels,  \* targets the model may name
    ReduceShares,  \* sizes a reduce may bank
    MinMove,       \* trail.min_move_r in price
    AddMinMove,    \* sentry_add_min_r in price
    Room,          \* the caps on one order leave the coin this size
    MaxAdds,       \* HL_SENTRY_MAX_ADDS_PER_POSITION
    MaxActions,    \* HL_SENTRY_MAX_ACTIONS_PER_POSITION_PER_DAY
    MaxCalls,      \* HL_SENTRY_MAX_LLM_CALLS_PER_DAY
    MaxFaults      \* bound: deaths, refusals and partial fills

ASSUME DeskAssumption ==
    /\ {Entry, InitialStop, Target, Size} \subseteq Nat \ {0}
    /\ StopLevels \subseteq Nat /\ TargetLevels \subseteq Nat /\ ReduceShares \subseteq Nat
    /\ {MinMove, AddMinMove, Room, MaxAdds, MaxActions, MaxCalls, MaxFaults} \subseteq Nat

VARIABLES
    rows,    \* the coin's rows of the ledger; a row's id is its place
    log,     \* per row, what sentry_log holds of it
    calls,   \* evaluations the log holds
    keys,    \* idempotency keys
    halted,  \* the kill switch
    pass,    \* the pass, or Idle
    faults,  \* faults so far
    past,    \* what has happened to the position: history, read by no action
    sent     \* the adds that filled, each with its row and the rows there were: history

deskVars == <<rows, log, calls, keys, halted, pass, faults, past, sent>>
vars == <<bookVars, deskVars>>

Idle == [at |-> "idle"]

NoLog == [applied |-> 0, evaluated |-> FALSE, adds |-> {}]

NewRow(entry, sl, tp, size, sl_oid, tp_oid) ==
    [entry |-> entry, sl |-> sl, initial_sl |-> sl, tp |-> tp, size |-> size,
     status |-> "open", sl_oid |-> sl_oid, tp_oid |-> tp_oid, scaled_out |-> FALSE]

Open(r) == rows[r].status = "open"
OpenRows == {r \in DOMAIN rows : Open(r)}

\* A position that has just been protected and booked (ExecutorPass's subject), or one
\* somebody opened by hand and put a stop to.
Init ==
    /\ mark \in {m \in Marks : Entry < m /\ m < Target}
    /\ moves = 0 /\ pos = Size /\ oids = 2
    /\ LET stop == [oid |-> 1, kind |-> "stop", level |-> InitialStop, size |-> Size]
           take == [oid |-> 2, kind |-> "take", level |-> Target, size |-> Size]
       IN  \/ /\ triggers = {stop, take}
              /\ rows = <<NewRow(Entry, InitialStop, Target, Size, 1, 2)>>
              /\ log = <<NoLog>>
           \/ triggers = {stop} /\ rows = <<>> /\ log = <<>>
    /\ calls = 0 /\ keys = {} /\ halted = FALSE
    /\ pass = Idle /\ faults = 0
    /\ past = {} /\ sent = <<>>

-----------------------------------------------------------------------------
(* The pass, a step at a time. *)

At(step) == pass.at = step
Slice == Len(rows)   \* the row an add opened: nothing else opens rows in mid-pass
Row == rows[pass.row]
Go(step) == pass' = [pass EXCEPT !.at = step]

\* The rows of a phase are taken in order.
Taken(r) == r \in pass.todo /\ \A q \in pass.todo : r <= q
Skip(r) == pass' = [pass EXCEPT !.todo = @ \ {r}]

\* On to the next row of the phase.
NextRow == Go(pass.phase)

\* A step of the process that the exchange has no part in, and one that books nothing.
Books == UNCHANGED <<bookVars, calls, halted, faults, past, sent>>
Calls == UNCHANGED <<rows, log, calls, keys, halted, sent>>

Faulty == faults < MaxFaults /\ faults' = faults + 1
Sound == UNCHANGED faults

Log(r, entry) == log' = [log EXCEPT ![r] = entry]
Evaluated(r) == [log[r] EXCEPT !.evaluated = TRUE]
Applied(r) == [Evaluated(r) EXCEPT !.applied = @ + 1]

Distance(level) == IF level >= Entry THEN level - Entry ELSE Entry - level

\* manage_live reads the book: the coin's rows and what they hold.
Manage(book, held) ==
    [at |-> "manage", phase |-> "manage", todo |-> book, row |-> 0,
     mark |-> mark, book |-> book, held |-> held, level |-> 0, size |-> 0,
     oid |-> NoOid, oid2 |-> NoOid, for |-> "none", flat |-> FALSE]

\* What adopt_unmanaged goes by: the farthest stop and the nearest target, or one far away.
Farthest == {t \in Stops : \A u \in Stops : t.level <= u.level}
Nearest(stop) ==
    IF Targets = {} THEN {[oid |-> NoOid, level |-> Entry + 100 * (Entry - stop.level)]}
    ELSE {t \in Targets : \A u \in Targets : Distance(t.level) <= Distance(u.level)}

\* A position without a row gets one first, if it has a stop.
StartPass ==
    /\ At("idle")
    /\ IF pos > 0 /\ OpenRows = {} /\ Stops # {}
       THEN \E stop \in Farthest : \E take \in Nearest(stop) :
                /\ rows' = Append(rows, NewRow(Entry, stop.level, take.level, pos, stop.oid, take.oid))
                /\ log' = Append(log, NoLog)
                /\ pass' = Manage({Len(rows) + 1}, pos)
       ELSE /\ pass' = Manage(OpenRows, MapThenSumSet(LAMBDA r : rows[r].size, OpenRows))
            /\ UNCHANGED <<rows, log>>
    /\ UNCHANGED <<bookVars, calls, keys, halted, faults, past, sent>>

\* A row is passed over while its interval lasts, and every row once the day's calls are
\* spent.
PassOver ==
    /\ At("manage")
    /\ \E r \in pass.todo :
           /\ Taken(r)
           /\ \/ log[r].evaluated /\ Skip(r)
              \/ calls >= MaxCalls /\ pass' = [pass EXCEPT !.todo = {}]
    /\ Books /\ UNCHANGED <<rows, log, keys>>

\* The model says hold, its answer is dropped, or the gate rejects it: logged, no more.
Holds ==
    /\ At("manage") /\ calls < MaxCalls
    /\ calls' = calls + 1
    /\ \E r \in pass.todo : Taken(r) /\ Log(r, Evaluated(r)) /\ Skip(r)
    /\ UNCHANGED <<bookVars, rows, keys, halted, faults, past, sent>>

\* The gate, sentry/gate.py, against the mark and the sizes read at the start of the pass.
Acts(r) == log[r].applied < MaxActions /\ rows[r].entry # rows[r].initial_sl
Tightens(r, level) ==
    /\ level > rows[r].sl
    /\ level - rows[r].sl >= MinMove
    /\ level < pass.mark
\* Slip: the budget is each row's own.
RowAdds(r) == Cardinality(log[r].adds)

\* The adds logged since the oldest row of the book was opened, whichever row took them.
Adds == UNION {log[o].adds : o \in DOMAIN log}
CoinAdds(r) == Cardinality({c \in Adds : \E o \in pass.book : o <= c})

MayAdd(r, level) ==
    /\ ~halted
    /\ CoinAdds(r) < MaxAdds
    /\ pass.mark - rows[r].entry >= AddMinMove
    /\ level > rows[r].sl /\ level < pass.mark
AddSize(r, level) ==
    Smaller(((pass.mark - rows[r].entry) * rows[r].size) \div (pass.mark - level),
            Smaller(pass.held \div 2, Room - pass.held))
MayExtend(r, level) ==
    /\ ~halted
    /\ rows[r].sl >= rows[r].entry
    /\ level > rows[r].tp
    /\ level - rows[r].tp <= rows[r].entry - rows[r].initial_sl

Does(r, step, level, size, for) ==
    pass' = [pass EXCEPT !.at = step, !.row = r, !.todo = @ \ {r},
                         !.level = level, !.size = size, !.for = for]

\* An approved verdict.
Judge ==
    /\ At("manage") /\ calls < MaxCalls
    /\ \E r \in pass.todo :
           /\ Taken(r)
           /\ \/ Does(r, "claim", pass.mark, rows[r].size, "close")
              \/ /\ Acts(r)
                 /\ \/ \E level \in StopLevels :
                           \/ Tightens(r, level) /\ Does(r, "place stop", level, 0, "tighten")
                           \/ /\ MayAdd(r, level)
                              /\ \E size \in 1..Room :
                                     /\ size = AddSize(r, level)
                                     /\ Does(r, "place stop", level, size, "add")
                    \/ \E size \in ReduceShares :
                           /\ ~rows[r].scaled_out /\ size < rows[r].size
                           /\ Does(r, "claim", 0, size, "scale")
                    \/ \E level \in TargetLevels :
                           MayExtend(r, level) /\ Does(r, "place take", level, 0, "extend")
    /\ Books /\ UNCHANGED <<rows, log, keys>>

-----------------------------------------------------------------------------
(* apply_move_stop and apply_move_tp: the new trigger is placed, the old one *)
(* cancelled whatever comes of that, the oid and then the level booked.      *)

\* Slip: a refused trigger is booked all the same.
PlaceUnlooked(step, kind, next) ==
    /\ At(step)
    /\ \/ /\ PlaceTrigger(kind, pass.level, Row.size)
          /\ pass' = [pass EXCEPT !.at = next, !.oid = oids + 1]
          /\ Sound
       \/ Faulty /\ Go(IF kind = "stop" THEN "book stop" ELSE "book take") /\ UNCHANGED bookVars
    /\ Calls /\ UNCHANGED past

PlaceNew(step, kind, next) ==
    /\ At(step)
    /\ \/ /\ PlaceTrigger(kind, pass.level, Row.size)
          /\ pass' = [pass EXCEPT !.at = next, !.oid = oids + 1]
          /\ Sound
       \/ Faulty /\ NextRow /\ UNCHANGED bookVars
    /\ Calls /\ UNCHANGED past

PlaceStop == PlaceNew("place stop", "stop", "cancel stop")
PlaceTake == PlaceNew("place take", "take", "cancel take")

\* Slip: the coin's other triggers of the kind go, a sibling's among them.
ReplacedAll(kind, oid) ==
    {t.oid : t \in {u \in triggers : u.kind = kind}} \ {pass.oid}

\* By the recorded oid; a row without one has every other trigger of the kind cancelled.
Replaced(kind, oid) ==
    IF oid # NoOid THEN {oid} ELSE {t.oid : t \in {u \in triggers : u.kind = kind}} \ {pass.oid}

CancelOld(step, kind, oid, next) ==
    /\ At(step)
    /\ \/ CancelOids(Replaced(kind, oid)) /\ Sound
       \/ Faulty /\ UNCHANGED bookVars
    /\ Go(next)
    /\ Calls /\ UNCHANGED past

CancelStop == CancelOld("cancel stop", "stop", Row.sl_oid, "book stop oid")
CancelTake == CancelOld("cancel take", "take", Row.tp_oid, "book take oid")

Book(step, row, next) ==
    /\ At(step)
    /\ rows' = [rows EXCEPT ![pass.row] = row]
    /\ Go(next)
    /\ Books /\ UNCHANGED <<log, keys>>

BookStopOid == Book("book stop oid", [Row EXCEPT !.sl_oid = pass.oid], "book stop")
BookStop == Book("book stop", [Row EXCEPT !.sl = pass.level],
                 IF pass.for = "add" THEN "claim" ELSE "log")
BookTakeOid == Book("book take oid", [Row EXCEPT !.tp_oid = pass.oid], "book take")
BookTake == Book("book take", [Row EXCEPT !.tp = pass.level], "log")

\* The managed_* row.  The stop an add raises is logged as a plain move.
LogAction ==
    /\ At("log")
    /\ Log(pass.row,
           [Applied(pass.row) EXCEPT !.adds = IF pass.for = "add" THEN @ \cup {Slice} ELSE @])
    /\ calls' = calls + 1
    /\ NextRow
    /\ UNCHANGED <<bookVars, rows, keys, halted, faults, past, sent>>

-----------------------------------------------------------------------------
(* Orders, each under a key claimed before it is sent. *)

\* One partial and one close to a row, and one add to each add logged before it.
Key == <<pass.for, pass.row, IF pass.for = "add" THEN Cardinality(log[pass.row].adds) ELSE 0>>

OrderFor ==
    [close |-> "order close", scale |-> "order scale", add |-> "order add"]

Claim ==
    /\ At("claim")
    /\ IF Key \in keys
       THEN NextRow /\ UNCHANGED keys
       ELSE keys' = keys \cup {Key} /\ Go(OrderFor[pass.for])
    /\ Books /\ UNCHANGED <<rows, log>>

\* release_fire: nothing reached the book.
Release ==
    /\ At("release")
    /\ keys' = keys \ {Key}
    /\ NextRow
    /\ Books /\ UNCHANGED <<rows, log>>

\* The order is refused, by a fault or because there is nothing to close; or it fills, by
\* a fault in part.
Refused == \/ pos = 0 /\ Sound
           \/ pos > 0 /\ Faulty
Filled(size, left) == \/ left = 0 /\ Sound
                      \/ left \in 1..(size - 1) /\ Faulty

\* An order to close whose result is not looked at: it may be refused, or fill in part.
ClosesUnseen ==
    \E left \in 0..Smaller(pass.size, pos) :
        /\ MarketClose(pass.size, left)
        /\ IF left = 0 THEN Sound /\ UNCHANGED past
           ELSE Faulty /\ past' = past \cup {"short close"}

OrderScale ==
    /\ At("order scale")
    /\ \/ Refused /\ Go("release") /\ UNCHANGED bookVars
       \/ /\ pos > 0
          /\ \E left \in 0..(Smaller(pass.size, pos) - 1) :
                 /\ Filled(Smaller(pass.size, pos), left)
                 /\ MarketClose(pass.size, left)
                 /\ pass' = [pass EXCEPT !.at = "book scale", !.size = Closed(pass.size, left)]
    /\ Calls /\ UNCHANGED past

BookScale ==
    Book("book scale", [Row EXCEPT !.size = @ - pass.size, !.scaled_out = TRUE], "log")

\* A close is booked whole, whatever it filled.
OrderClose ==
    /\ At("order close")
    /\ \/ Refused /\ Go("release") /\ UNCHANGED <<bookVars, past>>
       \/ /\ pos > 0
          /\ \E left \in 0..(Smaller(pass.size, pos) - 1) :
                 /\ Filled(Smaller(pass.size, pos), left)
                 /\ MarketClose(pass.size, left)
                 /\ past' = IF left > 0 THEN past \cup {"short close"} ELSE past
          /\ Go("book close")
    /\ Calls

\* An add may fill in part; the slice is as large as it filled.
OrderAdd ==
    /\ At("order add")
    /\ \/ Faulty /\ Go("release") /\ UNCHANGED <<bookVars, sent>>
       \/ \E left \in 0..(pass.size - 1) :
              /\ Filled(pass.size, left)
              /\ MarketOpen(pass.size - left)
              /\ pass' = [pass EXCEPT !.at = "open slice", !.size = @ - left]
              /\ sent' = Append(sent, [row |-> pass.row, rows |-> Len(rows)])
    /\ UNCHANGED <<rows, log, calls, keys, halted, past>>

-----------------------------------------------------------------------------
(* The slice an add opens: its row, then its own pair of triggers. *)

OpenSlice ==
    /\ At("open slice")
    /\ rows' = Append(rows, NewRow(pass.mark, pass.level, Row.tp, pass.size, NoOid, NoOid))
    /\ log' = Append(log, NoLog)
    /\ Go("slice stop")
    /\ Books /\ UNCHANGED keys

\* _protect_slice: a refusal of either trigger has the slice closed at market.
SliceStop ==
    /\ At("slice stop")
    /\ \/ /\ PlaceTrigger("stop", pass.level, pass.size)
          /\ pass' = [pass EXCEPT !.at = "slice take", !.oid = oids + 1]
          /\ Sound
       \/ /\ Faulty
          /\ pass' = [pass EXCEPT !.at = "slice close", !.oid = NoOid]
          /\ UNCHANGED bookVars
    /\ Calls /\ UNCHANGED past

SliceTake ==
    /\ At("slice take")
    /\ \/ /\ PlaceTrigger("take", rows[Slice].tp, pass.size)
          /\ pass' = [pass EXCEPT !.at = "slice oids", !.oid2 = oids + 1]
          /\ Sound
       \/ Faulty /\ Go("slice close") /\ UNCHANGED bookVars
    /\ Calls /\ UNCHANGED past

\* The close is not looked at before the trigger that rests is cancelled.
SliceClose ==
    /\ At("slice close")
    /\ ClosesUnseen
    /\ Go("slice cancel")
    /\ Calls

SliceCancel ==
    /\ At("slice cancel")
    /\ \/ CancelOids({pass.oid}) /\ Sound
       \/ Faulty /\ UNCHANGED bookVars
    /\ Go("slice abort")
    /\ Calls /\ UNCHANGED past

SliceAbort ==
    /\ At("slice abort")
    /\ rows' = [rows EXCEPT ![Slice].status = "aborted"]
    /\ NextRow
    /\ Books /\ UNCHANGED <<log, keys>>

SliceOids ==
    /\ At("slice oids")
    /\ rows' = [rows EXCEPT ![Slice].sl_oid = pass.oid, ![Slice].tp_oid = pass.oid2]
    /\ Go("log")
    /\ Books /\ UNCHANGED <<log, keys>>

-----------------------------------------------------------------------------
(* Resolution, by the manager's close or by run_once. *)

\* resolve_open_trades reads the mark and the position, then the rows.
StartResolve ==
    /\ At("manage") /\ pass.todo = {}
    /\ pass' = [pass EXCEPT !.at = "resolve", !.phase = "resolve", !.todo = OpenRows,
                            !.mark = mark, !.flat = (pos = 0), !.for = "resolve"]
    /\ Books /\ UNCHANGED <<rows, log, keys>>

\* A level crossed is closed at market; a row whose position is gone is booked as it is.
Due(r) == pass.mark <= rows[r].sl \/ pass.mark >= rows[r].tp

\* Slip: only the mark resolves a row.
ResolveDue ==
    /\ At("resolve")
    /\ \E r \in pass.todo :
           /\ Taken(r)
           /\ IF Due(r) THEN Does(r, "order resolve", 0, rows[r].size, "resolve") ELSE Skip(r)
    /\ Books /\ UNCHANGED <<rows, log, keys>>

Resolve ==
    /\ At("resolve")
    /\ \E r \in pass.todo :
           /\ Taken(r)
           /\ IF pass.flat THEN Does(r, "book close", 0, 0, "resolve")
              ELSE IF Due(r) THEN Does(r, "order resolve", 0, rows[r].size, "resolve")
              ELSE Skip(r)
    /\ Books /\ UNCHANGED <<rows, log, keys>>

\* Whether that order was accepted, and what it filled, is not looked at.
OrderResolve ==
    /\ At("order resolve")
    /\ ClosesUnseen
    /\ Go("book close")
    /\ Calls

BookClose == Book("book close", [Row EXCEPT !.status = "resolved"], "cancel row")

\* _cancel_after_close: the row's own triggers, then the coin's once no row is open.
AfterClose == IF pass.phase = "manage" THEN Go("log") ELSE NextRow

\* Slip: no coin is ever swept.
AfterCancelUnswept == AfterClose
AfterCancel == IF OpenRows = {} THEN Go("sweep") ELSE AfterClose

CancelRow ==
    /\ At("cancel row")
    /\ \/ CancelOids({Row.sl_oid, Row.tp_oid}) /\ Sound
       \/ Faulty /\ UNCHANGED bookVars
    /\ AfterCancel
    /\ Calls /\ UNCHANGED past

Sweep ==
    /\ At("sweep")
    /\ \/ CancelOids({t.oid : t \in triggers}) /\ Sound /\ UNCHANGED past
       \/ Faulty /\ past' = past \cup {"unswept"} /\ UNCHANGED bookVars
    /\ AfterClose
    /\ Calls

EndPass ==
    /\ At("resolve") /\ pass.todo = {}
    /\ pass' = Idle
    /\ Books /\ UNCHANGED <<rows, log, keys>>

-----------------------------------------------------------------------------
(* Around the pass. *)

\* The process dies, or a call raises: the next pass starts over.  An add is cut off once
\* its order has filled and before its slice has its triggers on record.
CutOff == pass.at \in {"open slice", "slice stop", "slice take", "slice oids", "slice close",
                       "slice cancel", "slice abort"}

Dies ==
    /\ ~At("idle")
    /\ Faulty
    /\ pass' = Idle
    /\ past' = IF CutOff THEN past \cup {"cut-off add"}
               ELSE IF pass.at \in {"cancel row", "sweep"} THEN past \cup {"unswept"} ELSE past
    /\ UNCHANGED <<bookVars, rows, log, calls, keys, halted, sent>>

\* The interval since a row was evaluated has passed.
IntervalPasses ==
    /\ At("idle")
    /\ \E r \in OpenRows :
           /\ log[r].evaluated /\ calls < MaxCalls
           /\ Log(r, [log[r] EXCEPT !.evaluated = FALSE])
    /\ UNCHANGED <<bookVars, rows, calls, keys, halted, pass, faults, past, sent>>

\* `exec reconcile`: one row stands for the coin.
Diverges ==
    IF OpenRows = {} THEN TRUE
    ELSE \/ rows[Max(OpenRows)].size # pos
         \/ triggers = {}
Reconcile ==
    /\ At("idle") /\ ~halted
    /\ pos > 0 /\ Diverges
    /\ halted' = TRUE
    /\ UNCHANGED <<bookVars, rows, log, calls, keys, pass, faults, past, sent>>

\* `exec breaker off`.
Clears ==
    /\ halted
    /\ halted' = FALSE
    /\ UNCHANGED <<bookVars, rows, log, calls, keys, pass, faults, past, sent>>

TriggerFires ==
    /\ \E t \in triggers :
           /\ Fires(t)
           /\ past' = IF t.kind = "stop" THEN past \cup {"stopped"} ELSE past \cup {"taken"}
    /\ UNCHANGED <<rows, log, calls, keys, halted, pass, faults, sent>>

Moves == MarkMoves /\ UNCHANGED deskVars

Step ==
    \/ StartPass \/ PassOver \/ Holds \/ Judge
    \/ PlaceStop \/ CancelStop \/ BookStopOid \/ BookStop
    \/ PlaceTake \/ CancelTake \/ BookTakeOid \/ BookTake
    \/ LogAction \/ Claim \/ Release
    \/ OrderScale \/ BookScale \/ OrderClose \/ OrderAdd
    \/ OpenSlice \/ SliceStop \/ SliceTake \/ SliceClose \/ SliceCancel \/ SliceAbort \/ SliceOids
    \/ StartResolve \/ Resolve \/ OrderResolve \/ BookClose \/ CancelRow \/ Sweep \/ EndPass

Next == Step \/ Dies \/ IntervalPasses \/ Reconcile \/ Clears \/ TriggerFires \/ Moves

Spec == Init /\ [][Next]_vars

\* The loop keeps running passes.
FairSpec == Spec /\ WF_vars(Step)

-----------------------------------------------------------------------------
(* Properties. *)

TypeOK ==
    /\ mark \in Marks /\ pos \in Nat
    /\ \A t \in triggers : t.oid \in 1..oids /\ t.kind \in {"stop", "take"} /\ t.size > 0
    /\ DOMAIN log = DOMAIN rows
    /\ \A r \in DOMAIN rows :
           /\ rows[r].status \in {"open", "resolved", "aborted"}
           /\ rows[r].size > 0
           /\ rows[r].initial_sl <= rows[r].sl
           /\ {rows[r].sl_oid, rows[r].tp_oid} \subseteq 0..oids
           /\ log[r].applied <= MaxActions + 1
    /\ calls <= MaxCalls

\* "The position must never be naked" (docs/decisions.md:31): at every step of every pass
\* the resting stops close the whole position at some level, whatever is refused and
\* wherever the process dies, but for an add on its way to its own stop or cut off on
\* it, and a close that was booked for more than it filled.
NeverNaked ==
    Stopped = pos \/ CutOff \/ past \cap {"short close", "cut-off add"} # {}

\* "The ledger must never claim protection tighter than what the exchange holds"
\* (docs/decisions.md:31): while no stop has fired and no add was cut off, an open row that
\* is not an add on its way has a stop resting no lower than the one it claims, and for its
\* size, unless adoption took a position over at the triggers a sweep had failed to remove.
Underway(r) == CutOff /\ ~At("open slice") /\ r = Slice
LedgerNeverTighter ==
    past \cap {"stopped", "cut-off add"} = {} =>
        \A r \in OpenRows :
            \/ Underway(r)
            \/ \E t \in Stops :
                   t.level >= rows[r].sl /\ (t.size >= rows[r].size \/ "unswept" \in past)

\* No trigger is left behind to close the coin's next position (protect.py: the last-resort
\* sweep): triggers rest on where nothing is held and no row is open only if the sweep
\* itself was refused or never reached.
NoAmbush ==
    At("idle") /\ pos = 0 /\ OpenRows = {} /\ triggers # {} => "unswept" \in past

\* "A crash between order and ledger row cannot double-add" (apply.py:237): however adds,
\* crashes and siblings come together, a row sends no more adds than the budget, and the coin
\* gets no more than that, and one for each fault, while a row of it stays open.
SentBy(r) == {i \in DOMAIN sent : sent[i].row = r}
SentSince(r) == {i \in DOMAIN sent : sent[i].rows >= r}
AddsBounded ==
    /\ \A r \in DOMAIN rows : Cardinality(SentBy(r)) <= MaxAdds
    /\ \A r \in OpenRows : Cardinality(SentSince(r)) <= MaxAdds + faults

\* A position that is gone is booked in the end, row and sibling, unless an add that was
\* under way opens it anew.
FlatIsBooked == (pos = 0 /\ OpenRows # {}) ~> (OpenRows = {} \/ pos > 0)

\* The close of a row is "harmless if a native trigger already closed the position"
\* (resolve.py): it leaves the siblings whose own levels are not crossed what they hold.
Undue(r) == rows[r].sl < mark /\ mark < rows[r].tp
ClaimedBy(ids) == MapThenSumSet(LAMBDA r : rows[r].size, ids)
CloseSparesSiblings ==
    [][At("order resolve") /\ pos' < pos =>
           pos' >= Smaller(pos, ClaimedBy({r \in OpenRows \ {pass.row} : Undue(r)}))]_vars

\* "A crash mid-add always leaves LESS risk than before, never more"
\* (docs/decisions.md:35): what the resting stops leave uncovered stays nothing.
CrashLeavesLessRisk == At("idle") /\ past \subseteq {"cut-off add"} => Stopped = pos
=============================================================================
