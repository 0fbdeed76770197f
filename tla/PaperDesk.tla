----------------------------- MODULE PaperDesk ------------------------------
(***************************************************************************)
(* Trade management on the paper network: the passes that judge, ratchet,  *)
(* bank, close and open the rows of the trades ledger, each order of which *)
(* goes through PaperBook.  One process is one loop (`hl exec run`,        *)
(* `hl sentry run [--manage]`, `hl agent run`); they share the SQLite file *)
(* and nothing else.  A pass of a managing process starts with manage_live *)
(* (hlcli/sentry/live.py); then run_once (hlcli/executor/runner.py) runs   *)
(* the rules over the open rows, resolves what is due and fires entries.   *)
(*                                                                         *)
(* A process works on the rows as it read them at the start of a phase.    *)
(* Every commit, every order and every read that something depends on is   *)
(* a step of its own.  Intake, deferral, the model's answer and the limits *)
(* that depend on the clock are the choice to pass over a row or candidate.*)
(* Shadow rows and manual trades are left out.                             *)
(***************************************************************************)
EXTENDS TradeRules, PaperBook, Sequences, SequencesExt

CONSTANTS
    Cands,        \* candidates the passes may fire, numbered as they come up
    Setup,        \* a candidate's coin, side, sl, tp and approved size
    Managers,     \* the processes run with --manage
    StopLevels,   \* stops and targets the model may name
    TargetLevels,
    AddSizes,     \* sizes the gate may give an add
    MaxAdds,      \* HL_SENTRY_MAX_ADDS_PER_POSITION
    NoMark,       \* the feed quotes nothing for the coin
    MaxPasses,    \* bound: passes of all processes
    MaxFaults     \* bound: processes that die, or calls that raise, in mid-pass

ASSUME DeskAssumption ==
    /\ IsFiniteSet(Coins)
    /\ Cands \subseteq Nat
    /\ Setup \in [Cands -> [coin : Coins, side : Sides, sl : Nat, tp : Nat, size : Nat \ {0}]]
    /\ Managers \subseteq Procs
    /\ StopLevels \subseteq Nat /\ TargetLevels \subseteq Nat
    /\ AddSizes \subseteq Nat \ {0}
    /\ NoMark \notin Marks
    /\ {MaxAdds, MaxPasses, MaxFaults} \subseteq Nat

VARIABLES
    trades,     \* the ledger; a row's id is its place
    keys,       \* idempotency table
    run,        \* per process, the pass it is in
    passes,     \* passes begun
    faults,     \* faults so far
    partials    \* ids whose partial close was sent to the book: history, read by no action

vars == <<position, realized, fill, trades, keys, run, passes, faults, partials>>

Idle == [phase |-> "idle"]
NoJob == [kind |-> "none"]
NoStop == 0

OpenIds == {i \in DOMAIN trades : trades[i].status = "open"}
OpenTrades == [i \in OpenIds |-> trades[i]]

Init ==
    /\ BookInit
    /\ trades = <<>>
    /\ keys = {}
    /\ run = [p \in Procs |-> Idle]
    /\ passes = 0
    /\ faults = 0
    /\ partials = <<>>

-----------------------------------------------------------------------------
(* The ledger, hlcli/state/store.py. *)

\* open_trade; `parent` is the row an add was made to, `logged` whether its managed_add
\* row has reached the sentry log.
NewRow(id, coin, side, entry, sl, tp, size, parent) ==
    [id |-> id, coin |-> coin, side |-> side, entry |-> entry, sl |-> sl, initial_sl |-> sl,
     tp |-> tp, size |-> size, status |-> "open", realized |-> 0, scaled_out |-> FALSE,
     parent |-> parent, logged |-> FALSE]

OpenTrade(coin, side, entry, sl, tp, size, parent) ==
    trades' = Append(trades, NewRow(Len(trades) + 1, coin, side, entry, sl, tp, size, parent))

ResolveTrade(id, status, pnl) ==
    trades' = [trades EXCEPT ![id].status = status, ![id].realized = pnl]

\* split_trade: the banked part becomes a resolved row, the parent keeps the rest.
SplitTrade(id, size, pnl) ==
    trades' = Append([trades EXCEPT ![id].size = @ - size, ![id].scaled_out = TRUE],
                     [trades[id] EXCEPT !.id = Len(trades) + 1, !.size = size,
                          !.status = "scaled", !.realized = pnl, !.scaled_out = TRUE,
                          !.parent = 0, !.logged = FALSE])

AddsLogged(id) == Cardinality({i \in DOMAIN trades : trades[i].parent = id /\ trades[i].logged})

\* The adds logged since the coin's position in that book was opened.
CoinAdds(book, coin) ==
    LET open == {i \in DOMAIN book : book[i].coin = coin}
    IN  Cardinality({i \in DOMAIN trades :
            /\ trades[i].coin = coin /\ trades[i].logged
            /\ \E o \in open : i >= o})

-----------------------------------------------------------------------------
(* A pass: its phases, and the row or candidate it is at. *)

Quotes == Marks \cup {NoMark}

EnterPhase(p, phase, marks, book, moved) ==
    run' = [run EXCEPT ![p] =
        [phase |-> phase, step |-> "next", marks |-> marks, book |-> book,
         todo |-> DOMAIN book, job |-> NoJob, moved |-> moved, held |-> Held]]

In(p, phase) == run[p].phase = phase /\ run[p].step = "next"
AtEnd(p) == run[p].todo = {}
\* Rows and candidates come up in the order of their ids.
Turn(p) == CHOOSE i \in run[p].todo : \A j \in run[p].todo : i <= j
Current(p) == run[p].book[Turn(p)]
MarkOf(p, coin) == run[p].marks[coin]

deskVars == <<trades, keys, partials>>
Still == UNCHANGED <<deskVars, bookVars, passes, faults>>

\* manage_live and run_once each fetch the marks, then read the open rows.
StartPass(p) ==
    /\ run[p].phase = "idle"
    /\ passes < MaxPasses
    /\ passes' = passes + 1
    /\ \E marks \in [Coins -> Quotes] :
           EnterPhase(p, IF p \in Managers THEN "judge" ELSE "rule", marks, OpenTrades, {})
    /\ UNCHANGED <<deskVars, bookVars, faults>>

StartRules(p) ==
    /\ In(p, "judge") /\ AtEnd(p)
    /\ \E marks \in [Coins -> Quotes] : EnterPhase(p, "rule", marks, OpenTrades, {})
    /\ Still

\* Slip: the resolver works on the rows the rules read.
ResolveRuledRows(p) ==
    /\ In(p, "rule") /\ AtEnd(p)
    /\ EnterPhase(p, "resolve", run[p].marks, run[p].book, run[p].moved)
    /\ Still

\* The resolver runs over fresh rows but the pass's own marks.
StartResolve(p) ==
    /\ In(p, "rule") /\ AtEnd(p)
    /\ EnterPhase(p, "resolve", run[p].marks, OpenTrades, run[p].moved)
    /\ Still

\* Entries are gated against the positions as they stand now.
StartEntries(p) ==
    /\ In(p, "resolve") /\ AtEnd(p)
    /\ EnterPhase(p, "enter", run[p].marks, [c \in Cands |-> c], {})
    /\ Still

EndPass(p) ==
    /\ In(p, "enter") /\ AtEnd(p)
    /\ run' = [run EXCEPT ![p] = Idle]
    /\ Still

\* The process goes on to the next row or candidate.
Onward(p) == [run EXCEPT ![p].step = "next", ![p].job = NoJob]

Start(p, step, job) ==
    run' = [run EXCEPT ![p].step = step, ![p].todo = @ \ {Turn(p)}, ![p].job = job]
Goto(p, step) == run' = [run EXCEPT ![p].step = step]

Opposite(side) == -side

\* What is to be done to a row: an order for `size`, a stop to move to, a status to book.
Job(kind, row, size, price, status, stop) ==
    [kind |-> kind, row |-> row, size |-> size, price |-> price, status |-> status,
     stop |-> stop, key |-> <<kind, row.id, 0>>]

-----------------------------------------------------------------------------
(* manage_live: the model's verdict on a row, once the management gate let it pass. *)

Judging(p) == In(p, "judge") /\ ~AtEnd(p) /\ MarkOf(p, Current(p).coin) # NoMark

CoinSize(book, coin) ==
    FoldFunctionOnSet(LAMBDA row, sum : sum + row.size, 0, book,
                      {i \in DOMAIN book : book[i].coin = coin})

JudgeTighten(p) ==
    /\ Judging(p)
    /\ \E stop \in StopLevels :
           LET row == Current(p)
           IN  /\ MayTighten(row, MarkOf(p, row.coin), stop)
               /\ Start(p, "stop", Job("stop", row, 0, 0, "", stop))
    /\ Still

\* Half stands for the fraction of the row the verdict names.
JudgeReduce(p) ==
    /\ Judging(p)
    /\ LET row == Current(p)
       IN  /\ MayReduce(row)
           /\ Start(p, "claim", Job("scale", row, row.size \div 2, MarkOf(p, row.coin), "",
                                    NoStop))
    /\ Still

JudgeClose(p) ==
    /\ Judging(p)
    /\ LET row == Current(p)
           mark == MarkOf(p, row.coin)
       IN  Start(p, "claim", Job("close", row, row.size, mark,
                                 CloseStatus(Pnl(row, row.size, mark)), NoStop))
    /\ Still

JudgeExtend(p) ==
    /\ Judging(p)
    /\ \E tp \in TargetLevels :
           LET row == Current(p)
           IN  /\ MayExtend(row, tp)
               /\ Start(p, "target", Job("extend", row, 0, tp, "", NoStop))
    /\ Still

JudgeAdd(p) ==
    /\ Judging(p)
    /\ \E stop \in StopLevels, size \in AddSizes :
           LET row == Current(p)
           IN  /\ CoinAdds(run[p].book, row.coin) < MaxAdds
               /\ MayAdd(row, MarkOf(p, row.coin), stop, size, CoinSize(run[p].book, row.coin))
               /\ Start(p, "stop", Job("add", row, size, 0, "", stop))
    /\ Still

-----------------------------------------------------------------------------
(* The rules, the resolver and the entry gate. *)

\* plan: the partial goes first, the stop move computed with it follows.
RuleDue(p) ==
    /\ In(p, "rule") /\ ~AtEnd(p)
    /\ LET row == Current(p)
           mark == MarkOf(p, row.coin)
       IN  /\ mark # NoMark
           /\ \/ \E part \in ScaleOut(row, mark) :
                     LET stop == IF MoveStop(row, mark) = {} THEN NoStop
                                 ELSE CHOOSE s \in MoveStop(row, mark) : TRUE
                     IN  Start(p, "claim", Job("scale", row, part.size, part.level, "", stop))
              \/ /\ ScaleOut(row, mark) = {}
                 /\ \E stop \in MoveStop(row, mark) :
                        Start(p, "stop", Job("stop", row, 0, 0, "", stop))
    /\ Still

\* Whether the row is past its hold time is the clock's to say.
ResolveDue(p) ==
    /\ In(p, "resolve") /\ ~AtEnd(p)
    /\ LET row == Current(p)
           mark == MarkOf(p, row.coin)
       IN  /\ mark # NoMark
           /\ \E aged \in BOOLEAN : \E due \in Classify(row, mark, aged) :
                  Start(p, "place", Job("resolve", row, row.size, due.level, due.status, NoStop))
    /\ Still

GateEntry(p) ==
    /\ In(p, "enter") /\ ~AtEnd(p)
    /\ LET c == Current(p)
           mark == MarkOf(p, Setup[c].coin)
       IN  /\ mark # NoMark
           /\ MarkInsideLevels(Setup[c], mark)
           /\ RewardRiskHolds(Setup[c], mark)
           /\ Setup[c].coin \notin run[p].held
           /\ Start(p, "claim", Job("enter", [id |-> c], Setup[c].size, 0, "", NoStop))
    /\ Still

NothingDue(p) ==
    LET row == Current(p)
        mark == MarkOf(p, row.coin)
    IN  CASE run[p].phase = "rule" ->
                mark # NoMark => ScaleOut(row, mark) = {} /\ MoveStop(row, mark) = {}
          [] run[p].phase = "resolve" -> mark # NoMark => Classify(row, mark, FALSE) = {}
          [] OTHER -> TRUE

\* The model may hold, a budget or a cooldown refuse; a candidate may be no one's wish.
PassOver(p) ==
    /\ run[p].phase # "idle" /\ run[p].step = "next" /\ ~AtEnd(p)
    /\ NothingDue(p)
    /\ run' = [run EXCEPT ![p].todo = @ \ {Turn(p)}]
    /\ Still

-----------------------------------------------------------------------------
(* The steps of an action: sentry/apply.py, executor/execute.py. *)

Doing(p, step) == run[p].phase # "idle" /\ run[p].step = step

\* After a partial, or where its key was taken, the stop planned with it still moves.
AfterJob(p) ==
    IF run[p].job.kind = "scale" /\ run[p].job.stop # NoStop
    THEN [run EXCEPT ![p].step = "stop", ![p].job.kind = "stop"]
    ELSE Onward(p)

\* Slip: the claim is checked but not recorded.
ClaimUnrecorded(p) ==
    /\ Doing(p, "claim")
    /\ IF run[p].job.key \in keys THEN run' = AfterJob(p) ELSE Goto(p, "place")
    /\ UNCHANGED <<bookVars, keys, trades, partials, passes, faults>>

\* record_fire: one commit claims the key or finds it taken.
Claim(p) ==
    /\ Doing(p, "claim")
    /\ LET key == run[p].job.key
       IN  \/ /\ key \notin keys
              /\ keys' = keys \cup {key}
              /\ Goto(p, "place")
           \/ /\ key \in keys
              /\ run' = AfterJob(p)
              /\ UNCHANGED keys
    /\ UNCHANGED <<bookVars, trades, partials, passes, faults>>

Entries == {"enter", "add"}

\* An entry or an add is a MARKET order at a newly fetched mark; every close is a
\* reduce-only LIMIT at its level.
OrderOf(job, mark) ==
    IF job.kind = "enter"
    THEN [coin |-> Setup[job.row.id].coin, side |-> Setup[job.row.id].side,
          size |-> job.size, price |-> mark, reduce_only |-> FALSE]
    ELSE IF job.kind = "add"
    THEN [coin |-> job.row.coin, side |-> job.row.side,
          size |-> job.size, price |-> mark, reduce_only |-> FALSE]
    ELSE [coin |-> job.row.coin, side |-> Opposite(job.row.side),
          size |-> job.size, price |-> job.price, reduce_only |-> TRUE]

Place(p) ==
    /\ Doing(p, "place")
    /\ LET job == run[p].job
       IN  /\ \/ /\ job.kind \in Entries
                 /\ \E mark \in Marks : PlaceOrder(p, OrderOf(job, mark))
              \/ /\ job.kind \notin Entries
                 /\ PlaceOrder(p, OrderOf(job, job.price))
           /\ partials' = IF job.kind = "scale" THEN Append(partials, job.row.id) ELSE partials
    /\ Goto(p, "fill")
    /\ UNCHANGED <<trades, keys, passes, faults>>

\* No mark, no fill: release_fire gives the key back.
Refused(p) ==
    /\ Doing(p, "place")
    /\ run[p].job.kind \in Entries
    /\ keys' = keys \ {run[p].job.key}
    /\ run' = Onward(p)
    /\ UNCHANGED <<bookVars, trades, partials, passes, faults>>

Filling(p) ==
    /\ Doing(p, "fill")
    /\ FillStep(p)
    /\ UNCHANGED <<deskVars, run, passes, faults>>

Filled(p) == Doing(p, "fill") /\ fill[p].step = "filled"
FillDone(p) ==
    /\ fill' = [fill EXCEPT ![p] = NoFill]
    /\ UNCHANGED <<position, realized, keys, partials, passes, faults>>

\* The ledger is told after the book.
BookEntry(p) ==
    /\ Filled(p) /\ run[p].job.kind = "enter"
    /\ LET c == Setup[run[p].job.row.id]
       IN  /\ OpenTrade(c.coin, c.side, fill[p].order.price, c.sl, c.tp, c.size, 0)
           /\ run' = [Onward(p) EXCEPT ![p].held = @ \cup {c.coin}]
    /\ FillDone(p)

BookPartial(p) ==
    /\ Filled(p) /\ run[p].job.kind = "scale"
    /\ LET job == run[p].job
       IN  SplitTrade(job.row.id, job.size, Pnl(job.row, job.size, job.price))
    /\ run' = AfterJob(p)
    /\ FillDone(p)

BookClose(p) ==
    /\ Filled(p) /\ run[p].job.kind \in {"close", "resolve"}
    /\ LET job == run[p].job
       IN  ResolveTrade(job.row.id, job.status, Pnl(job.row, job.size, job.price))
    /\ run' = Onward(p)
    /\ FillDone(p)

\* The slice of an add: entered at its fill, stopped at the raised stop.
BookAdd(p) ==
    /\ Filled(p) /\ run[p].job.kind = "add"
    /\ LET job == run[p].job
       IN  OpenTrade(job.row.coin, job.row.side, fill[p].order.price, job.stop, job.row.tp,
                     job.size, job.row.id)
    /\ run' = [run EXCEPT ![p].step = "log", ![p].job.row.id = Len(trades) + 1]
    /\ FillDone(p)

LogAdd(p) ==
    /\ Doing(p, "log")
    /\ trades' = [trades EXCEPT ![run[p].job.row.id].logged = TRUE]
    /\ run' = Onward(p)
    /\ UNCHANGED <<bookVars, keys, partials, passes, faults>>

\* apply_move_stop writes the level it planned.  An add raises the stop first and then
\* keys itself by how many adds to the row are logged.
WriteStop(p) ==
    /\ Doing(p, "stop")
    /\ LET job == run[p].job
       IN  /\ trades' = [trades EXCEPT ![job.row.id].sl = job.stop]
           /\ run' = IF job.kind = "add"
                     THEN [run EXCEPT ![p].step = "claim",
                              ![p].job.key = <<"add", job.row.id, AddsLogged(job.row.id)>>]
                     ELSE [Onward(p) EXCEPT ![p].moved = @ \cup {job.row.id}]
    /\ UNCHANGED <<bookVars, keys, partials, passes, faults>>

WriteTarget(p) ==
    /\ Doing(p, "target")
    /\ trades' = [trades EXCEPT ![run[p].job.row.id].tp = run[p].job.price]
    /\ run' = Onward(p)
    /\ UNCHANGED <<bookVars, keys, partials, passes, faults>>

\* The process is killed, or a call raises and the loop gives the pass up: what was
\* committed stays, what was in memory is gone.
Die(p) ==
    /\ run[p].phase # "idle"
    /\ faults < MaxFaults
    /\ faults' = faults + 1
    /\ run' = [run EXCEPT ![p] = Idle]
    /\ fill' = [fill EXCEPT ![p] = NoFill]
    /\ UNCHANGED <<position, realized, deskVars, passes>>

Step(p) ==
    \/ StartPass(p) \/ StartRules(p) \/ StartResolve(p) \/ StartEntries(p) \/ EndPass(p)
    \/ JudgeTighten(p) \/ JudgeReduce(p) \/ JudgeClose(p) \/ JudgeExtend(p) \/ JudgeAdd(p)
    \/ RuleDue(p) \/ ResolveDue(p) \/ GateEntry(p) \/ PassOver(p)
    \/ Claim(p) \/ Place(p) \/ Refused(p) \/ Filling(p)
    \/ BookEntry(p) \/ BookPartial(p) \/ BookClose(p) \/ BookAdd(p) \/ LogAdd(p)
    \/ WriteStop(p) \/ WriteTarget(p)
    \/ Die(p)

\* The bound on passes ends the runs; the program has no such end.
Finished ==
    /\ passes = MaxPasses
    /\ \A p \in Procs : run[p].phase = "idle"
    /\ UNCHANGED vars

Next == (\E p \in Procs : Step(p)) \/ Finished

Spec == Init /\ [][Next]_vars

-----------------------------------------------------------------------------
(* Properties. *)

Statuses == {"open", "won", "lost", "expired", "closed", "scaled"}

\* Type invariant: the columns of the ledger, the book and the counters keep to their
\* kinds; a split (store.split_trade) never takes more than the row has.
TypeOK ==
    /\ \A c \in Coins : position[c].side \in Sides /\ position[c].size \in Nat
    /\ \A p \in Procs : fill[p].step \in {"none", "read", "add", "write", "filled"}
    /\ \A i \in DOMAIN trades :
           /\ trades[i].id = i
           /\ trades[i].status \in Statuses
           /\ trades[i].size \in Nat
           /\ trades[i].status = "open" => trades[i].realized = 0
    /\ passes \in 0..MaxPasses
    /\ faults \in 0..MaxFaults

Signed(t) == t.side * t.size
Cost(t) == t.side * t.size * t.entry
IsOpen(t) == t.status = "open"

\* What each row holds of the coin, and what it makes of the account: the profit booked
\* on it, less what an open one cost.
Holding(c) == [i \in DOMAIN trades |->
    IF IsOpen(trades[i]) /\ trades[i].coin = c THEN Signed(trades[i]) ELSE 0]
Worth == [i \in DOMAIN trades |->
    trades[i].realized - (IF IsOpen(trades[i]) THEN Cost(trades[i]) ELSE 0)]
Outlay == [c \in Coins |-> Cost(position[c])]

BookMatchesLedger == \A c \in Coins : Signed(position[c]) = SumFunction(Holding(c))
EquityMatchesLedger == realized - SumFunction(Outlay) = SumFunction(Worth)

\* Between orders, and as long as no pass died in mid-way, a coin's position is the sum of
\* its open rows, and the account's equity is what the ledger says at every mark: what
\* the book has realized less the cost of what it holds is what the resolved rows made
\* less the cost of the open ones.  The two keep their accounts apart: paper.py averages
\* the entry of a coin over entries and adds and realizes against the average, the ledger
\* keeps a row per slice with an entry of its own and splits rows for partials.
AccountAgrees ==
    (faults = 0 /\ \A p \in Procs : run[p].phase = "idle" \/ run[p].step # "fill") =>
        BookMatchesLedger /\ EquityMatchesLedger

\* One partial per row, whether the rules or the model bank it and whatever dies between
\* its key, its order and its split (apply_scale_out): the book never gets the order for
\* it a second time.
BankedOnce == IsInjective(partials)

\* A row booked lost has made no profit, be it the resolver's stop (_stop_status: a stop
\* ratcheted past entry is a win) or a judgment close at the mark (apply_close).
LostNeverProfits ==
    \A i \in DOMAIN trades : trades[i].status = "lost" => trades[i].realized <= 0

\* A stop the rules moved does not close its own row in the same pass (run_once's comment
\* on why the rules go before the resolver), though the resolver reads the rows anew.
MovedStopHolds ==
    \A p \in Procs :
        (run[p].phase = "resolve" /\ run[p].step \in {"place", "fill"}) =>
            ~ (/\ run[p].job.row.id \in run[p].moved
               /\ StopHit(run[p].job.row, MarkOf(p, run[p].job.row.coin)))

\* The ratchet (engine.py, sentry/gate.py): the stop of an open row only ever moves toward
\* profit, through tightens of the model, adds and the rules' own moves.
StopNeverLoosens ==
    [][\A i \in DOMAIN trades :
           trades[i].status = "open" =>
               trades[i].side * (trades'[i].sl - trades[i].sl) >= 0]_vars

\* A reduce-only order never leaves a coin holding more than it held (paper.py: "reduce-only
\* never opens").
ReduceOnlyNeverOpens ==
    [][\A p \in Procs :
           (/\ fill[p].step = "write" /\ fill'[p].step = "filled"
            /\ fill[p].order.reduce_only) =>
               LET c == fill[p].order.coin IN position'[c].size <= position[c].size]_vars
=============================================================================
