---------------------------- MODULE ExecutorPass ----------------------------
(***************************************************************************)
(* run_once (hlcli/executor/runner.py) on the paths that can change state: *)
(* a pass with firing enabled, by any number of processes that share one   *)
(* state store and one exchange account -- `exec run` and `agent run` pull *)
(* the intake stream, `sentry run` only re-checks parked candidates.       *)
(*                                                                         *)
(* A pass is cut at every commit to the store and every call to the        *)
(* exchange.  Between two cuts another process may run, the exchange may   *)
(* move, or the process may die and start over.                            *)
(*                                                                         *)
(*   rows     list the open rows            claim    record_fire           *)
(*   resolve  close out triggered rows      submit   place the entry       *)
(*   book     record a row's close-out      lookup   resolve by cloid      *)
(*   own      cancel the row's triggers     cancel   cancel a resting entry*)
(*   last     is a row of the coin open?    release  give the claim back   *)
(*   sweep    cancel the coin's triggers    open     write the ledger row  *)
(*   read     snapshot the book             protect  place SL and TP       *)
(*   queues   snapshot due and new work     flatten  emergency close       *)
(*   next     take the next work item       abort    resolve the row       *)
(*   decide   decision and gate             log      log_decision          *)
(*   file     park or drop the deferral     status, hwm, mark: intake rows *)
(***************************************************************************)
EXTENDS StateStore, LiveBook

CONSTANTS
    Procs,         \* processes that run passes
    IntakeProcs,   \* those that pull the intake stream
    NoCand,        \* "no candidate in hand"
    Protected,     \* requires_native_protection: testnet and mainnet
    MaxOpen,       \* max_concurrent_positions
    MaxTrades,     \* max_trades_per_day, 0 when off
    BatchLimit,    \* max_candidates_per_pass
    MaxFaults,     \* bound: crashes and raised calls that end a pass
    MaxHalts       \* bound: changes of the kill switch and the loss limit

ASSUME PassAssumption ==
    /\ IntakeProcs \subseteq Procs
    /\ NoCand \notin Cands
    /\ Protected \in BOOLEAN
    /\ {MaxOpen, MaxTrades, BatchLimit, MaxFaults, MaxHalts} \subseteq Nat

VARIABLES
    pc,      \* where each process is in its pass
    cand,    \* the candidate it holds
    ctx,     \* its _PassContext: what it read at the start, and still uses
    lossHit, \* the day's drawdown has reached the limit
    faults,  \* crashes and raised calls so far
    halts,   \* changes of breaker and lossHit so far
    looks    \* history: decisions asked for, per candidate

passVars == <<pc, cand, ctx>>
vars == <<storeVars, bookVars, passVars, lossHit, faults, halts, looks>>

Stages ==
    {"idle", "rows", "resolve", "book", "own", "last", "sweep", "read", "queues",
     "next", "decide", "claim", "submit", "lookup", "cancel", "release", "open",
     "protect", "flatten", "abort", "log", "file", "status", "hwm", "mark"}

Context ==
    [rows: SUBSET Cands,      \* open rows the resolver has yet to look at
     coins: SUBSET Coins,     \* open_coins
     trades: Nat,             \* trades_today
     tripped: BOOLEAN,        \* breaker_tripped
     loss: BOOLEAN,           \* daily_loss
     due: SUBSET Cands,       \* due deferrals not yet looked at
     left: [Cands -> {NotParked} \cup 1..FollowupMax],
                               \* attempts_remaining as read with `due`
     next: Nat \ {0}, last: Nat, \* the rest of the intake batch, by seq
     fresh: BOOLEAN,          \* cand comes from the batch, not from `due`
     attempts: 0..FollowupMax,    \* attempts_left of the current evaluation
     verdict: Verdicts]       \* what _evaluate will return

NoContext ==
    [rows |-> {}, coins |-> {}, trades |-> 0, tripped |-> FALSE, loss |-> FALSE,
     due |-> {}, left |-> [c \in Cands |-> NotParked], next |-> 1, last |-> 0,
     fresh |-> FALSE, attempts |-> 0, verdict |-> "rejected"]

PassTypeOK ==
    /\ pc \in [Procs -> Stages]
    /\ cand \in [Procs -> Cands \cup {NoCand}]
    /\ ctx \in [Procs -> Context]

EnvTypeOK ==
    /\ lossHit \in BOOLEAN
    /\ faults \in 0..MaxFaults
    /\ halts \in 0..MaxHalts
    /\ looks \in [Cands -> Nat]

\* Every variable keeps to its kind.  Beyond typing: an attempt counter never
\* leaves 1..FollowupMax while a candidate is parked, so a re-check is never
\* parked with nothing left (runner.py _wait, _process_deferred).
TypeOK == StoreTypeOK /\ BookTypeOK /\ PassTypeOK /\ EnvTypeOK

Init ==
    /\ StoreInit
    /\ BookInit
    /\ pc = [p \in Procs |-> "idle"]
    /\ cand = [p \in Procs |-> NoCand]
    /\ ctx = [p \in Procs |-> NoContext]
    /\ lossHit = FALSE
    /\ faults = 0
    /\ halts = 0
    /\ looks = [c \in Cands |-> 0]

-----------------------------------------------------------------------------
(* Moving a process on. *)

At(p, stage) == pc[p] = stage
Holds(p, c) == cand[p] = c

Goto(p, from, to) ==
    /\ pc[p] = from
    /\ pc' = [pc EXCEPT ![p] = to]

\* What the process knows becomes x.
Note(p, x) == ctx' = [ctx EXCEPT ![p] = x]

\* The same candidate in hand, the same context.
KeepHand == UNCHANGED <<cand, ctx>>
KeepEnv == UNCHANGED <<lossHit, faults, halts, looks>>

\* A candidate is done with: back to the loop, its locals out of scope.
Done(p, from, loop) ==
    /\ Goto(p, from, loop)
    /\ cand' = [cand EXCEPT ![p] = NoCand]

Forget(x) == [x EXCEPT !.fresh = FALSE, !.attempts = 0, !.verdict = "rejected"]

\* The pass is over, finished or not: everything it held in memory is gone.
Leave(p) ==
    /\ pc' = [pc EXCEPT ![p] = "idle"]
    /\ cand' = [cand EXCEPT ![p] = NoCand]
    /\ Note(p, NoContext)

\* An exception that run_once lets out, or the death of the process.
Fault(p) ==
    /\ faults < MaxFaults
    /\ faults' = faults + 1
    /\ Leave(p)
    /\ UNCHANGED <<lossHit, halts, looks>>

-----------------------------------------------------------------------------
(* Monitor step: resolve_open_trades. *)

\* Mutant of BeginPass: the position snapshot comes back empty.
BeginBlind(p) ==
    /\ Goto(p, "idle", "rows")
    /\ Note(p, NoContext)
    /\ UNCHANGED <<storeVars, bookVars, cand>>
    /\ KeepEnv

\* The pass begins: the resolver reads the coins held, once ...
BeginPass(p) ==
    /\ Goto(p, "idle", "rows")
    /\ Note(p, [NoContext EXCEPT !.coins = LiveCoins])
    /\ UNCHANGED <<storeVars, bookVars, cand>>
    /\ KeepEnv

\* ... and then the open rows.
ListRows(p) ==
    /\ Goto(p, "rows", "resolve")
    /\ Note(p, [ctx[p] EXCEPT !.rows = OpenRows])
    /\ UNCHANGED <<storeVars, bookVars, cand>>
    /\ KeepEnv

\* A row whose SL, TP or hold time has come (the mark decides), or whose coin
\* is no longer held.  A coin still held is flattened first.  The result of
\* that order is not looked at: a refused or unfilled flatten goes on alike.
CloseRow(p, c) ==
    /\ c \in ctx[p].rows
    /\ Goto(p, "resolve", "book")
    /\ cand' = [cand EXCEPT ![p] = c]
    /\ Note(p, [ctx[p] EXCEPT !.rows = @ \ {c}])
    /\ \/ CoinOf[c] \in ctx[p].coins /\ Flatten(c)
       \/ UNCHANGED bookVars
    /\ UNCHANGED storeVars
    /\ KeepEnv

\* resolve_trade.
ResolveRow(p, c) ==
    /\ Holds(p, c)
    /\ ResolveTrade(c, "closed")
    /\ IF Protected THEN Goto(p, "book", "own") /\ UNCHANGED cand
                    ELSE Done(p, "book", "resolve")
    /\ UNCHANGED <<bookVars, ctx>>
    /\ KeepEnv

\* _cancel_after_close: the row's own triggers first ...
CancelOwn(p, c) ==
    /\ Holds(p, c)
    /\ Goto(p, "own", "last")
    /\ Uncover({c})
    /\ UNCHANGED storeVars
    /\ KeepHand
    /\ KeepEnv

\* Mutant of LastOfCoin: every close-out sweeps the coin.
SweepAlways(c) == TRUE

\* ... and if no row of the coin is open any more ...
LastOfCoin(c) == OpenRows \cap SameCoin(c) = {}

LookForSiblings(p, c) ==
    /\ Holds(p, c)
    /\ IF LastOfCoin(c) THEN Goto(p, "last", "sweep") /\ UNCHANGED cand
                        ELSE Done(p, "last", "resolve")
    /\ UNCHANGED <<storeVars, bookVars, ctx>>
    /\ KeepEnv

\* ... every trigger that rests on the coin.
SweepCoin(p, c) ==
    /\ Holds(p, c)
    /\ Done(p, "sweep", "resolve")
    /\ Uncover(SameCoin(c))
    /\ UNCHANGED <<storeVars, ctx>>
    /\ KeepEnv

\* The rows left are still live, or have no mark.
EndResolve(p) ==
    /\ Goto(p, "resolve", "read")
    /\ Note(p, [ctx[p] EXCEPT !.rows = {}])
    /\ UNCHANGED <<storeVars, bookVars, cand>>
    /\ KeepEnv

-----------------------------------------------------------------------------
(* The snapshots the rest of the pass works from. *)

\* positions, open_coins, trades_today.
ReadBook(p) ==
    /\ Goto(p, "read", "queues")
    /\ Note(p, [ctx[p] EXCEPT !.coins = LiveCoins,
               !.trades = Cardinality(TradesToday)])
    /\ UNCHANGED <<storeVars, bookVars, cand>>
    /\ KeepEnv

\* Only the kill switch freezes re-checks; the loss limit does not.
DueFor(tripped) == IF tripped THEN {} ELSE DueDeferred

\* Mutant of BatchEnd: the end of the batch is taken as exclusive.
BatchEndExclusive(p) ==
    IF p \notin IntakeProcs \/ Len(stream) <= hwm THEN hwm
    ELSE IF Len(stream) < hwm + BatchLimit THEN Len(stream) - 1
    ELSE hwm + BatchLimit - 1

\* pull_new: the seqs past the high-water mark, at most a batch of them.
BatchEnd(p) ==
    IF p \notin IntakeProcs THEN hwm
    ELSE IF Len(stream) < hwm + BatchLimit THEN Len(stream)
    ELSE hwm + BatchLimit

\* breaker_tripped, daily_loss, due, batch.
ReadQueues(p) ==
    /\ Goto(p, "queues", "next")
    /\ Note(p, [ctx[p] EXCEPT !.tripped = breaker, !.loss = lossHit,
               !.due = DueFor(breaker),
               !.left = [c \in Cands |->
                          IF c \in DueFor(breaker) THEN parked[c] ELSE NotParked],
               !.next = hwm + 1, !.last = BatchEnd(p)])
    /\ UNCHANGED <<storeVars, bookVars, cand>>
    /\ KeepEnv

-----------------------------------------------------------------------------
(* Work items: due deferrals first, then the batch in seq order. *)

\* Mutant of SkipFired: the row of a fired candidate is passed over, not dropped.
PassOverFired(p, c) ==
    /\ At(p, "next")
    /\ c \in ctx[p].due
    /\ c \in keys
    /\ Note(p, [ctx[p] EXCEPT !.due = @ \ {c}, !.left = [@ EXCEPT ![c] = NotParked]])
    /\ UNCHANGED <<storeVars, bookVars, pc, cand>>
    /\ KeepEnv

\* _process_deferred on a candidate some pass has fired already.
SkipFired(p, c) ==
    /\ At(p, "next")
    /\ c \in ctx[p].due
    /\ c \in keys
    /\ DropDeferred(c)
    /\ Note(p, [ctx[p] EXCEPT !.due = @ \ {c}, !.left = [@ EXCEPT ![c] = NotParked]])
    /\ UNCHANGED <<bookVars, pc, cand>>
    /\ KeepEnv

\* Mutant of AttemptsAfterLook: a re-check costs nothing.
AttemptsKept(attempts) == attempts

\* This re-check consumes one of the attempts read with the deferral.
AttemptsAfterLook(attempts) == attempts - 1

\* Mutant of TakeDue: the deferral is dropped as it is taken, not when settled.
TakeAndDrop(p, c) ==
    /\ c \in ctx[p].due
    /\ c \notin keys
    /\ Goto(p, "next", "decide")
    /\ cand' = [cand EXCEPT ![p] = c]
    /\ Note(p, [ctx[p] EXCEPT !.due = @ \ {c},
               !.left = [@ EXCEPT ![c] = NotParked],
               !.attempts = AttemptsAfterLook(ctx[p].left[c])])
    /\ DropDeferred(c)
    /\ UNCHANGED bookVars
    /\ KeepEnv

TakeDue(p, c) ==
    /\ c \in ctx[p].due
    /\ c \notin keys
    /\ Goto(p, "next", "decide")
    /\ cand' = [cand EXCEPT ![p] = c]
    /\ Note(p, [ctx[p] EXCEPT !.due = @ \ {c},
               !.left = [@ EXCEPT ![c] = NotParked],
               !.attempts = AttemptsAfterLook(ctx[p].left[c])])
    /\ UNCHANGED <<storeVars, bookVars>>
    /\ KeepEnv

TakeNew(p) ==
    /\ ctx[p].due = {}
    /\ ctx[p].next <= ctx[p].last
    /\ Goto(p, "next", "decide")
    /\ cand' = [cand EXCEPT ![p] = stream[ctx[p].next]]
    /\ Note(p, [ctx[p] EXCEPT !.fresh = TRUE, !.attempts = FollowupMax])
    /\ UNCHANGED <<storeVars, bookVars>>
    /\ KeepEnv

EndPass(p) ==
    /\ At(p, "next")
    /\ ctx[p].due = {}
    /\ ctx[p].next > ctx[p].last
    /\ Leave(p)
    /\ UNCHANGED <<storeVars, bookVars>>
    /\ KeepEnv

-----------------------------------------------------------------------------
(* _evaluate: decide, gate, and what the verdict leads to. *)

Asked(c) == looks' = [looks EXCEPT ![c] = @ + 1]

\* The verdict ends _evaluate: it is logged next.
Conclude(p, from, verdict) ==
    /\ Goto(p, from, "log")
    /\ Note(p, [ctx[p] EXCEPT !.verdict = verdict])
    /\ UNCHANGED cand

\* No mark, a schema-invalid decision, a skip, or any check of the gate that
\* depends on prices, freshness or sizing.
Refuse(p, c) ==
    /\ Holds(p, c)
    /\ \E verdict \in {"rejected", "dropped"} : Conclude(p, "decide", verdict)
    /\ Asked(c)
    /\ UNCHANGED <<storeVars, bookVars, lossHit, faults, halts>>

\* Mutant of MayWait: a wait is parked even with no attempt left.
MayWaitAtZero(attempts) == attempts >= 0

\* _wait: act + wait.  It is parked only while an attempt is left; with none,
\* or with too little freshness left, it is rejected (see Refuse).
MayWait(attempts) == attempts >= 1

Wait(p, c) ==
    /\ Holds(p, c)
    /\ MayWait(ctx[p].attempts)
    /\ Conclude(p, "decide", "deferred")
    /\ Asked(c)
    /\ UNCHANGED <<storeVars, bookVars, lossHit, faults, halts>>

\* Mutant of GateAllows: no one-per-coin check.
GateStacksCoins(x, coin) ==
    /\ ~x.tripped
    /\ ~x.loss
    /\ MaxTrades > 0 => x.trades < MaxTrades
    /\ Cardinality(x.coins) < MaxOpen

\* Mutant of GateAllows: the day's budget is off by one.
GateOneTradeMore(x, coin) ==
    /\ ~x.tripped
    /\ ~x.loss
    /\ MaxTrades > 0 => x.trades <= MaxTrades
    /\ coin \notin x.coins
    /\ Cardinality(x.coins) < MaxOpen

\* The gate's checks on the state this model keeps, against the snapshots.
GateAllows(x, coin) ==
    /\ ~x.tripped
    /\ ~x.loss
    /\ MaxTrades > 0 => x.trades < MaxTrades
    /\ coin \notin x.coins
    /\ Cardinality(x.coins) < MaxOpen

Approve(p, c) ==
    /\ Holds(p, c)
    /\ GateAllows(ctx[p], CoinOf[c])
    /\ Goto(p, "decide", "claim")
    /\ Asked(c)
    /\ KeepHand
    /\ UNCHANGED <<storeVars, bookVars, lossHit, faults, halts>>

\* The decision call itself fails: the exception ends the pass.
DecideRaises(p, c) ==
    /\ At(p, "decide")
    /\ Holds(p, c)
    /\ faults < MaxFaults
    /\ faults' = faults + 1
    /\ Leave(p)
    /\ Asked(c)
    /\ UNCHANGED <<storeVars, bookVars, lossHit, halts>>

-----------------------------------------------------------------------------
(* fire (hlcli/executor/execute.py). *)

Claim(p, c) ==
    /\ Holds(p, c)
    /\ ClaimWins(c)
    /\ Goto(p, "claim", "submit")
    /\ RecordFire(c)
    /\ UNCHANGED bookVars
    /\ KeepHand
    /\ KeepEnv

Duplicate(p, c) ==
    /\ Holds(p, c)
    /\ ~ClaimWins(c)
    /\ Conclude(p, "claim", "rejected")
    /\ UNCHANGED <<storeVars, bookVars>>
    /\ KeepEnv

\* Mutant of SubmitFilled: a partial fill is taken for none.
PartialForgotten(p, c) ==
    /\ Holds(p, c)
    /\ Conclude(p, "submit", "unfilled")
    /\ Fill(c)
    /\ UNCHANGED storeVars
    /\ KeepEnv

\* place_order answers: filled (wholly or in part).
SubmitFilled(p, c) ==
    /\ Holds(p, c)
    /\ Goto(p, "submit", "open")
    /\ Fill(c)
    /\ UNCHANGED storeVars
    /\ KeepHand
    /\ KeepEnv

\* It answers: refused.
SubmitRefused(p, c) ==
    /\ Holds(p, c)
    /\ Goto(p, "submit", "release")
    /\ UNCHANGED <<storeVars, bookVars>>
    /\ KeepHand
    /\ KeepEnv

\* Mutant of SubmitUnfilled: an accepted order is taken for a filled one.
UnfilledBooked(p, c) ==
    /\ Holds(p, c)
    /\ Goto(p, "submit", "open")
    /\ UNCHANGED <<storeVars, bookVars>>
    /\ KeepHand
    /\ KeepEnv

\* It answers: accepted, nothing filled (an IOC remainder was cancelled).
\* The claim stays.
SubmitUnfilled(p, c) ==
    /\ Holds(p, c)
    /\ Conclude(p, "submit", "unfilled")
    /\ UNCHANGED <<storeVars, bookVars>>
    /\ KeepEnv

\* It raises, and the entry may have filled, may rest, or never arrived.
SubmitRaises(p, c) ==
    /\ Holds(p, c)
    /\ Goto(p, "submit", "lookup")
    /\ \/ Fill(c)
       \/ Rest(c)
       \/ UNCHANGED bookVars
    /\ UNCHANGED storeVars
    /\ KeepHand
    /\ KeepEnv

\* Mutant of AfterLookup: only a resting entry is told from none.
AfterLookupBlind(e) == IF e = "resting" THEN "cancel" ELSE "release"

\* _resolve_unknown: what the status under the cloid makes of the raise.
AfterLookup(e) ==
    CASE e = "filled" -> "open" [] e = "resting" -> "cancel" [] OTHER -> "release"

Lookup(p, c) ==
    /\ Holds(p, c)
    /\ Goto(p, "lookup", AfterLookup(entry[c]))
    /\ UNCHANGED <<storeVars, bookVars>>
    /\ KeepHand
    /\ KeepEnv

\* The cancel's result is not looked at.
CancelResting(p, c) ==
    /\ Holds(p, c)
    /\ Goto(p, "cancel", "release")
    /\ CancelEntry(c)
    /\ UNCHANGED storeVars
    /\ KeepHand
    /\ KeepEnv

Release(p, c) ==
    /\ Holds(p, c)
    /\ Conclude(p, "release", "rejected")
    /\ ReleaseFire(c)
    /\ UNCHANGED bookVars
    /\ KeepEnv

-----------------------------------------------------------------------------
(* _fire_and_reconcile after an accepted fill; _secure. *)

\* Mutant of Fired: the new coin is not added to the pass's view of the book.
FiredUnseen(p, c, from) ==
    /\ Goto(p, from, "log")
    /\ Note(p, [ctx[p] EXCEPT !.verdict = "fired",
               !.trades = IF from = "open" THEN @ + 1 ELSE @])
    /\ UNCHANGED cand

\* The coin joins the pass's own view of the book only here, at the very end.
Fired(p, c, from) ==
    /\ Goto(p, from, "log")
    /\ Note(p, [ctx[p] EXCEPT !.verdict = "fired",
               !.coins = @ \cup {CoinOf[c]},
               !.trades = IF from = "open" THEN @ + 1 ELSE @])
    /\ UNCHANGED cand

\* open_trade: the row is written before any protection is placed.
OpenRow(p, c) ==
    /\ Holds(p, c)
    /\ OpenTrade(c)
    /\ IF Protected
       THEN /\ Goto(p, "open", "protect")
            /\ Note(p, [ctx[p] EXCEPT !.trades = @ + 1])
            /\ UNCHANGED cand
       ELSE Fired(p, c, "open")
    /\ UNCHANGED bookVars
    /\ KeepEnv

\* place_protection: both triggers rest.
Protect(p, c) ==
    /\ Holds(p, c)
    /\ Fired(p, c, "protect")
    /\ Cover(c)
    /\ UNCHANGED storeVars
    /\ KeepEnv

\* One of them was refused, or its retries ran out.
ProtectFails(p, c) ==
    /\ Holds(p, c)
    /\ Goto(p, "protect", "flatten")
    /\ UNCHANGED <<storeVars, bookVars>>
    /\ KeepHand
    /\ KeepEnv

\* Emergency close: a fill of any size confirms it, and only a fill that was
\* reported does; whatever was reported, the position may be gone or not.
EmergencyClose(p, c) ==
    /\ Holds(p, c)
    /\ Goto(p, "flatten", "abort")
    /\ \E verdict \in {"aborted", "abort_failed"} :
         Note(p, [ctx[p] EXCEPT !.verdict = verdict])
    /\ Flatten(c) \/ UNCHANGED bookVars
    /\ UNCHANGED <<storeVars, cand>>
    /\ KeepEnv

\* resolve_trade under the terminal status.  Neither branch adds the coin to
\* open_coins.
Abort(p, c) ==
    /\ Holds(p, c)
    /\ Goto(p, "abort", "log")
    /\ ResolveTrade(c, ctx[p].verdict)
    /\ UNCHANGED bookVars
    /\ KeepHand
    /\ KeepEnv

-----------------------------------------------------------------------------
(* What run_once and _process_deferred do with the verdict. *)

Log(p, c) ==
    /\ Holds(p, c)
    /\ Goto(p, "log", "file")
    /\ LogDecision(c, ctx[p].verdict)
    /\ UNCHANGED bookVars
    /\ KeepHand
    /\ KeepEnv

\* _process_deferred ends here; a batch candidate still gets its intake row.
Filed(p) ==
    IF ctx[p].fresh
    THEN Goto(p, "file", "status") /\ KeepHand
    ELSE Done(p, "file", "next") /\ Note(p, Forget(ctx[p]))

\* A wait is parked, with the attempts left to it.
Park(p, c) ==
    /\ Holds(p, c)
    /\ ctx[p].verdict = "deferred"
    /\ DeferCandidate(c, ctx[p].attempts)
    /\ Filed(p)
    /\ UNCHANGED bookVars
    /\ KeepEnv

\* Any other verdict on a deferral is terminal and drops it; on a batch
\* candidate it leaves the deferred table alone.
Settle(p, c) ==
    /\ Holds(p, c)
    /\ ctx[p].verdict # "deferred"
    /\ IF ctx[p].fresh THEN UNCHANGED storeVars ELSE DropDeferred(c)
    /\ Filed(p)
    /\ UNCHANGED bookVars
    /\ KeepEnv

MarkStatus(p, c) ==
    /\ Holds(p, c)
    /\ Goto(p, "status", "hwm")
    /\ SetStatus(c, ctx[p].verdict)
    /\ UNCHANGED bookVars
    /\ KeepHand
    /\ KeepEnv

\* advance_hwm: a read, then a write if the read was behind.
ReadHwm(p) ==
    /\ hwm < ctx[p].next
    /\ Goto(p, "hwm", "mark")
    /\ UNCHANGED <<storeVars, bookVars>>
    /\ KeepHand
    /\ KeepEnv

HwmAhead(p) ==
    /\ hwm >= ctx[p].next
    /\ Done(p, "hwm", "next")
    /\ Note(p, [Forget(ctx[p]) EXCEPT !.next = @ + 1])
    /\ UNCHANGED <<storeVars, bookVars>>
    /\ KeepEnv

\* Mutant of AdvanceHwm: the mark jumps to the end of the batch.
AdvanceToLast(p) ==
    /\ Done(p, "mark", "next")
    /\ WriteHwm(ctx[p].last)
    /\ Note(p, [Forget(ctx[p]) EXCEPT !.next = @ + 1])
    /\ UNCHANGED bookVars
    /\ KeepEnv

AdvanceHwm(p) ==
    /\ Done(p, "mark", "next")
    /\ WriteHwm(ctx[p].next)
    /\ Note(p, [Forget(ctx[p]) EXCEPT !.next = @ + 1])
    /\ UNCHANGED bookVars
    /\ KeepEnv

-----------------------------------------------------------------------------
(* The world around the passes. *)

\* A call that raises past run_once, or the process killed, at any step.
Crash(p) ==
    /\ pc[p] # "idle"
    /\ Fault(p)
    /\ UNCHANGED <<storeVars, bookVars>>

\* intake_watch or `exec propose` adds a candidate.
Enqueue(c) ==
    /\ c \notin ToSet(stream)
    /\ EnqueueRow(c)
    /\ UNCHANGED <<bookVars, passVars>>
    /\ KeepEnv

TimePasses(c) ==
    /\ ComeDue(c)
    /\ UNCHANGED <<bookVars, passVars>>
    /\ KeepEnv

\* `exec breaker`, or reconcile's halt.
Switch ==
    /\ halts < MaxHalts
    /\ halts' = halts + 1
    /\ SetBreaker(~breaker)
    /\ UNCHANGED <<bookVars, passVars, lossHit, faults, looks>>

\* Equity falls to the day's limit, or comes back, or a new day starts.
EquityMoves ==
    /\ halts < MaxHalts
    /\ halts' = halts + 1
    /\ lossHit' = ~lossHit
    /\ UNCHANGED <<storeVars, bookVars, passVars, faults, looks>>

Market(c) ==
    /\ RestingFills(c) \/ ExternalClose(c)
    /\ UNCHANGED <<storeVars, passVars>>
    /\ KeepEnv

-----------------------------------------------------------------------------
Resolving(p) ==
    \/ BeginPass(p)
    \/ ListRows(p)
    \/ \E c \in Cands : CloseRow(p, c)
    \/ \E c \in Cands : ResolveRow(p, c)
    \/ \E c \in Cands : CancelOwn(p, c)
    \/ \E c \in Cands : LookForSiblings(p, c)
    \/ \E c \in Cands : SweepCoin(p, c)
    \/ EndResolve(p)

Queueing(p) ==
    \/ ReadBook(p)
    \/ ReadQueues(p)
    \/ \E c \in Cands : SkipFired(p, c)
    \/ \E c \in Cands : TakeDue(p, c)
    \/ TakeNew(p)
    \/ EndPass(p)

Deciding(p, c) ==
    \/ Refuse(p, c)
    \/ Wait(p, c)
    \/ Approve(p, c)

Firing(p, c) ==
    \/ Claim(p, c)
    \/ Duplicate(p, c)
    \/ SubmitFilled(p, c)
    \/ SubmitRefused(p, c)
    \/ SubmitUnfilled(p, c)
    \/ SubmitRaises(p, c)
    \/ Lookup(p, c)
    \/ CancelResting(p, c)
    \/ Release(p, c)

Securing(p, c) ==
    \/ OpenRow(p, c)
    \/ Protect(p, c)
    \/ ProtectFails(p, c)
    \/ EmergencyClose(p, c)
    \/ Abort(p, c)

Filing(p, c) ==
    \/ Log(p, c)
    \/ Park(p, c)
    \/ Settle(p, c)
    \/ MarkStatus(p, c)

Marking(p) ==
    \/ ReadHwm(p)
    \/ HwmAhead(p)
    \/ AdvanceHwm(p)

\* One step of a running pass.
PassStep(p) ==
    \/ Resolving(p)
    \/ Queueing(p)
    \/ \E c \in Cands : Deciding(p, c)
    \/ \E c \in Cands : Firing(p, c)
    \/ \E c \in Cands : Securing(p, c)
    \/ \E c \in Cands : Filing(p, c)
    \/ Marking(p)

Environment ==
    \/ \E c \in Cands : Enqueue(c)
    \/ \E c \in Cands : TimePasses(c)
    \/ \E c \in Cands : Market(c)
    \/ Switch
    \/ EquityMoves

Failing(p) ==
    \/ Crash(p)
    \/ \E c \in Cands : DecideRaises(p, c)

Next ==
    \/ \E p \in Procs : PassStep(p)
    \/ \E p \in Procs : Failing(p)
    \/ Environment

Spec == Init /\ [][Next]_vars

\* The loop of each process keeps running passes, and time keeps passing.
Fairness ==
    /\ \A p \in Procs : WF_vars(PassStep(p))
    /\ \A c \in Cands : WF_vars(TimePasses(c))

FairSpec == Spec /\ Fairness

-----------------------------------------------------------------------------
(* Entries, claims and the ledger. *)

\* A candidate's entry fills at most once, whatever crashes, raises, retries
\* and concurrent passes happen (execute.py: "a restart never re-fires a
\* candidate"; the claim is one INSERT OR IGNORE).
EntryOnce == \A c \in Cands : entered[c] <= 1

\* A candidate whose entry filled keeps its claim for good: release_fire only
\* ever undoes a claim behind which nothing reached the book.
ClaimCoversEntry == \A c \in Cands : entered[c] > 0 => c \in keys

\* The ledger never books a trade whose entry did not fill.
LedgerMatchesBook == \A c \in Cands : ledger[c] # "none" => entered[c] > 0

\* Every filled entry gets its ledger row, unless the very pass that sent it
\* was cut off between the fill and open_trade: each orphan position costs a
\* crash or a raised call of its own.
BeingFired(c) == \E p \in Procs : Holds(p, c) /\ pc[p] \in {"lookup", "open"}
Orphans == {c \in Cands : entered[c] > 0 /\ ledger[c] = "none" /\ ~BeingFired(c)}
OrphanNeedsFault == Cardinality(Orphans) <= faults

\* On a protected network a position under an open row is naked only while its
\* pass is still securing it, or after that pass was cut off: a long run of
\* closes, sweeps and aborts never strips a tracked position of its triggers.
BeingSecured(c) == \E p \in Procs : Holds(p, c) /\ pc[p] \in {"protect", "flatten", "abort"}
NakedRows == {c \in Cands : ledger[c] = "open" /\ slice[c] = "naked" /\ ~BeingSecured(c)}
TrackedIsCovered == Protected => Cardinality(NakedRows) <= faults

\* A row is booked as vanished only if its position really is gone, as long as
\* one process runs passes (resolve.py: "The exchange is flat but the ledger
\* says open").
VanishedIsFlat ==
    \A p \in Procs, c \in Cands :
        At(p, "book") /\ Holds(p, c) /\ CoinOf[c] \notin ctx[p].coins => c \notin Live

\* The executor implements the claim protocol of EntryClaim.
Claims == INSTANCE EntryClaim WITH
    fate <- [c \in Cands |-> IF entered[c] > 0 THEN "entered"
                             ELSE IF c \in keys THEN "claimed" ELSE "free"]
ImplementsEntryClaim == Claims!Spec

-----------------------------------------------------------------------------
(* The intake stream and the deferrals. *)

\* The high-water mark never passes a candidate nobody has given a verdict on,
\* wherever a pass was cut off and whichever pass moved the mark.
NoSkippedCandidate == \A i \in 1..hwm : status[stream[i]] # "pending"

\* A candidate filed as deferred, and behind the mark for good, is still parked
\* or has since had a terminal look or fired: a crash never loses a WAIT.
NoLostWait ==
    \A i \in 1..hwm :
        LET c == stream[i] IN
        status[c] = "deferred" =>
            IsParked(c) \/ outcome[c] # "deferred" \/ c \in keys

\* One candidate is looked at once and re-checked FollowupMax times, and only
\* a fault can make a look be spent twice.
LooksBounded == \A c \in Cands : looks[c] <= 1 + FollowupMax + 2 * faults

\* The cap itself, for a run of several processes without faults
\* (decisions.md: side by side they "cannot double-spend an attempt").
LooksCapped == \A c \in Cands : looks[c] <= 1 + FollowupMax

-----------------------------------------------------------------------------
(* The ceilings of the gate, on the book as it is. *)

\* An entry the pass gave up on: its flatten was unconfirmed, or partial.
GivenUp(c) == ledger[c] \in {"aborted", "abort_failed"}

\* A single executor, through any crashes and restarts, holds at most MaxOpen
\* coins and one position per coin, save for entries it has given up on.
HeldCoins == {CoinOf[c] : c \in {d \in Live : ~GivenUp(d)}}
OpenCapHolds == Cardinality(HeldCoins) <= MaxOpen
OnePerCoinHolds ==
    \A c, d \in Live : c # d /\ CoinOf[c] = CoinOf[d] => GivenUp(c) \/ GivenUp(d)

\* A single executor opens at most MaxTrades rows a day.
DailyBudgetHolds == MaxTrades > 0 => Cardinality(TradesToday) <= MaxTrades

\* A row booked closed has no position behind it (resolve.py: "the position is
\* closed and the outcome ... is written to the `trades` ledger").
ClosedIsFlat == \A c \in Cands : ledger[c] = "closed" => slice[c] = "flat"

-----------------------------------------------------------------------------
(* Halts. *)

Moved(p) == <<pc[p], cand[p], ctx[p]>>' # <<pc[p], cand[p], ctx[p]>>

-----------------------------------------------------------------------------
(* Progress, while the loops keep running and faults are bounded. *)

\* Every enqueued candidate is given a verdict.
EveryCandidateHandled ==
    \A c \in Cands : c \in ToSet(stream) ~> status[c] # "pending"

\* Every parked candidate leaves the table, unless the kill switch stays on.
DeferralSettles ==
    \A c \in Cands : IsParked(c) ~> ~IsParked(c) \/ breaker
=============================================================================
