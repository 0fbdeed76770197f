# hl-cli: TLA+ models and proofs

A verification development for `hlcli`, a command-line trading executor for Hyperliquid.
It models what a pass of the executor does to the persistent store and to the exchange
account, how a position is managed and resolved, the agent that runs the passes, and the
loop from configuration to evidence and back; checks it with TLC on small instances, and
proves the central results with TLAPS for every instance. Definitions are translated from the Python source; `PROJECT.json` maps
each one to its lines.

## 1. The system

| Component (under `hlcli/`) | State it keeps | Operations | What makes it correct |
|---|---|---|---|
| **executor pass** `executor/runner.py`, `execute.py` | nothing between passes; `_PassContext` during one | `run_once`: resolve, snapshot, re-check deferrals, take a batch, decide, gate, fire, secure, log, file | no candidate fires twice, none is skipped or forgotten by a crash, every fill gets a row, limits hold |
| **trade resolution** `executor/resolve.py` | ledger rows | close rows whose SL, TP or hold time came, or whose position vanished | a closed row has no position; siblings keep their triggers |
| **native protection** `executor/protect.py` | resting triggers on the exchange | place SL+TP, emergency close, cancel by oid, sweep by coin | a tracked position is covered, or flattened, or somebody is told |
| **risk gate** `executor/gate.py` | none (pure) | `evaluate`, `_size` | first failure wins; sizes within every cap |
| **state store** `state/store.py` | SQLite, one file per network: intake, meta, idempotency, decision_log, trades, deferred, sentry_log, reflections, paper_positions | one committing method per write | keys outlive fills; the mark never passes unhandled rows |
| **live exchange** `exchange/hyperliquid.py` | (external) | orders, lookup by cloid, cancels, positions | answers mean what the executor takes them for |
| **paper exchange** `exchange/paper.py` | paper_positions, paper_realized | immediate fills | the book is the sum of the open rows |
| **market data** `exchange/marks.py`, `rounding.py`, `core/backoff.py` | a 2 s cache | reads with bounded retries | waits are bounded; size rounds down |
| **intake, enrichment, decision** `executor/intake.py`, `enrich.py`, `regime.py`, `monitor.py`, `decision.py` | none | parse, build the context, ask the model, validate | the id is the content; a bad answer is dropped |
| **reconciliation, adoption** `executor/reconcile.py`, `sentry/adopt.py` | ledger | diff the account against the ledger, book unmanaged positions | every live position is known |
| **sentry** `sentry/engine.py`, `apply.py`, `context.py`, `gate.py`, `live.py`, `shadow.py`, `decision.py` | sentry_log, trade levels, `sentry:*` keys | ratchet stops, scale out, close, add | protection is never lowered; each action happens at most once; budgets hold |
| **breaker** `safety/breaker.py` | meta: kill switch, day, day-start equity | trip, clear, measure the day's loss | entries stop; the day's reference does not move |
| **alerts, graduation** `safety/alerts.py`, `graduation.py` | alert log, `alert_*_last` | edge-triggered alerts, thresholds | one alert per change |
| **agent** `agent/supervisor.py`, `intake_watch.py`, `daily.py`, `liveness.py` | in-memory cadences, meta timestamps | tick: poll, exec, sentry, daily | every cadence is served; the daily job runs once a day |
| **tuner** `tuner/*` | proposal and active files, promotions log | propose, promote | a proposal is promoted once, clamped |
| **configuration** `core/*` | files | load, clamp | every tunable stays within its caps |
| **accounts, journal, command line** `accounts/*`, `journal/*`, `cli/*` | files | storage and rendering | - |

How they interact. `exec run`, `agent run` and `sentry run` are separate processes. Each
loops over `run_once`, catches what it raises, backs off and starts again. They share one
SQLite file and one exchange account and no lock: every store method commits on its own,
and everything a pass knows between two calls is a snapshot in `_PassContext`. `exec` and
`agent` pull the intake stream; `sentry run` passes `include_intake=False` and only
re-checks parked candidates. `exec propose` and the intake watcher append to the stream;
`exec breaker` and `exec reconcile` flip the kill switch; the exchange moves on its own.

The hard behaviours are therefore: a crash or a raised call between any two commits; an
entry whose submit raised and may have filled; a cancel, a close or a trigger that is
answered with a refusal instead of raising; two processes between each other's steps; and
snapshots that are old when they are used. `PROJECT.json` lists the hazards line by line.

## 2. Modules

Six families, each composing its parts by EXTENDS: the executor pass, the watched pass, the
paper desk, the live desk, the agent, and the learning loop.

| Module | Models | State |
|---|---|---|
| `Candidates` | candidates and their coins | - |
| `StateStore` | the store's tables, one operator per committing method | `stream`, `status`, `hwm`, `keys`, `parked`, `ripe`, `outcome`, `ledger`, `breaker` |
| `LiveBook` | the account as the executor meets it | `entry`, `entered`, `slice` |
| `ExecutorPass` | `run_once` with firing enabled, by any number of processes | `pc`, `cand`, `ctx`; `lossHit`, `faults`, `halts`, `looks` |
| `EntryClaim` | the abstract promise about entries | `fate` |
| `Breaker` | kill switch and daily loss limit with its two rollover commits | `tripped`, `breakerDay`, `dayStart` |
| `EdgeAlert` | alerts on a change of a condition | `known`, `told`, `unrecorded`, `pages` |
| `WatchedPass` | the rest of a pass, live and shadow: measuring, alerting, hypothetical rows | `day`, `equity`, `danger`, `parked`, `rows`, `hwm`, `pass`; `moves`, `faults`, `opened`, `cutRoll` |
| `TradeRules` | the pure rules a ledger row is judged by: resolver, sentry engine, management gate | - |
| `PaperBook` | the paper account, an order's fill cut at every commit | `position`, `realized`, `fill` |
| `PaperDesk` | passes that judge, ratchet, bank, close and open rows on the paper network | `trades`, `keys`, `run`; `passes`, `faults`, `partials` |
| `NativeBook` | one coin of the live account: position, resting triggers by oid, mark | `mark`, `pos`, `triggers`, `oids`; `moves` |
| `LiveDesk` | management and resolution of a live position, reconciliation | `rows`, `log`, `calls`, `keys`, `halted`, `pass`; `faults`, `past`, `sent` |
| `IntakeWatch` | the intake directory and the stream its batches go to | `folder`, `queue`, `done` |
| `DayJournal` | the journal of the days, its cached narrative and lessons | `journaled`, `narrative`, `lessons` |
| `Promotion` | the proposal, the active file and the audit trail | `written`, `proposed`, `active`, `promo`, `audit` |
| `Supervisor` | `agent run`: the tick and its four jobs | `agent`, `clock`, `execAge`, `sentryAge`, `beat`, `lastDaily`; `started`, `faults` |
| `ConfigClamp` | the tunable fields, their clamp and the overlay of a proposal | - |
| `Verdicts` | what the code makes of an answer of the model | - |
| `EntryGate` | `gate.evaluate`, the size and the caps | - |
| `Evidence` | cohorts, calibration, drawdown, graduation | - |
| `LearningLoop` | configuration, passes, rows, statistics and proposals in a loop | `active`, `editor`, `tuner`, `proposal`, `open`, `resolved`, `pass`; four counters |
| `ExecutorPass_proofs`, `PaperDesk_proofs`, `PaperAccount_proofs`, `LiveDesk_proofs`, `WatchedPass_proofs`, `Supervisor_proofs`, `LearningLoop_proofs`, and `Sums_proofs`: sums over finite sets | theorems and lemmas | - |
| `MCExecutorPass`, `MCPaperDesk`, `MCLiveDesk`, `MCWatchedPass`, `MCSupervisor`, `MCLearningLoop` | values for TLC | - |

**ExecutorPass.** The pass is cut at every commit to the store and at every call to the
exchange: `pc[p]` names the cut, `ctx[p]` is `_PassContext`, `cand[p]` the loop variable.
Two reads share a step only where nothing between them can tell them apart for any property
(`positions`, `open_coins`, `trades_today` in `ReadBook`; the two halts, the due deferrals
and the batch in `ReadQueues`). A pass starts over from nothing after `Leave`: that is both
its normal end and what a crash leaves behind. The steps, in the order of the code:
`BeginPass` reads the live coins and `ListRows` the open rows (resolve.py:56, 59); per row
`CloseRow`, `ResolveRow`, `CancelOwn`, `LookForSiblings`, `SweepCoin`; `ReadBook`,
`ReadQueues`; per work item `SkipFired`, `TakeDue` or `TakeNew`; `Refuse`, `Wait` or
`Approve`; `Claim` or `Duplicate`; the answers to the submit, `Lookup`, `CancelResting`,
`Release`; `OpenRow`, `Protect`, `ProtectFails`, `EmergencyClose`, `Abort`; `Log`, `Park`,
`Settle`, `MarkStatus`, `ReadHwm`, `HwmAhead`, `AdvanceHwm`.

Abstracted there: prices, sizes, marks, R multiples and texts. A mark that crosses a level
is the nondeterministic choice to close a row, and the gate's checks are one refusal that
may always come. `won`, `lost`, `expired` and `closed` are one status, "closed". One UTC
day is modelled. Slices of a coin are on the same side. `update_trade_triggers` is part of
`Protect`; stray duplicate triggers that a retry can leave are not represented.

**LiveBook.** The exchange is external. A call answers only what the code distinguishes:
an entry is refused, fills (in whole or in part), is accepted without a fill, or raises
and has filled, rests or never arrived. The lookup by cloid is taken to be authoritative:
it reports what happened to the order, and an order that raised does not arrive later. An
"ok" with no status in it (`_parse_order_response`, hyperliquid.py:280), which the executor
takes for a full fill, is assumed not to come for an entry. A candidate's `slice` is the
position its entry opened; the exchange itself nets one position per coin, so a reduce-only
order whose own slice is gone eats into another slice of the coin (`Eaten`).

**Breaker, EdgeAlert, WatchedPass.** What a pass does around its candidates, one process
passing at a time, live (`exec run`) or shadow (`exec shadow`) as it pleases: both take the
same stream. Every commit and every alert is a step: `RollDay` and `RollStart` are the two
rows breaker.py:49-50 writes, `Alert` sends before `Recording` commits the fingerprint,
`BookShadow` opens the hypothetical row before `AdvanceHwm`. `Dies` loses the pass between
any two. The world moves in between: the account's worth, the day, the dangers, the switch,
the deferred rows. A fingerprint is the set of what is wrong. `unrecorded` is history: the
conditions whose last alert was sent and whose row is not written. What a live pass fires leaves
no row here, that is ExecutorPass's subject.

**TradeRules, PaperBook, PaperDesk.** The other side of a pass: not whether an entry is
claimed and tracked but what becomes of the row, with prices, sizes and P&L. `TradeRules`
holds the decisions as operators over a row and a mark. `PaperBook` is the account:
`place_order` reads the position, `add_paper_realized` reads and rewrites the P&L, the
position is written, three commits with room between them. `PaperDesk` runs the phases of a
pass in the order of the code: `manage_live` ("judge", only with `--manage`), the rules
("rule"), the resolver, the entries, each on the rows and marks it read at its start; `run[p]`
is what the process holds in memory (`book` the rows, `todo` the ids still to come, of which the lowest is next, `job` what is
to be done, `moved` the rows whose stop the rules moved) and `run[p].step` the cut it stands
at: claim, place, fill, then the ledger. `Die` throws the memory away. What only the clock
or the model decides (spacing, cooldowns, budgets, hold, WAIT) is `PassOver`. A close of the
model is let through by the gate in every state, so it may always come. Half of a row stands
for the fraction a verdict names. Prices are whole, P&L is gross: `realized + fee_paid` of the code.

**NativeBook, LiveDesk.** The same management where the protection rests on the exchange.
`NativeBook` is one coin of the account, long: a position, the reduce-only triggers known by
oid, and a mark that sets them off in any order, in the middle of whatever a process is
doing; a trigger closes no more than is left and rests on when nothing is. `LiveDesk` runs
the pass: `Judge` puts a verdict through the gate and picks one of scale out, stop, target,
close and add; each of them is then its calls and commits in the order of apply.py. The rows
of a phase are the set `pass.todo`, of which the lowest id comes next (`Taken`); `pass.book`
holds the rows open when the pass read the ledger, which date the add budget. A stop move is
`PlaceStop`, `CancelStop`, `BookStopOid`, `BookStop`, `LogAction`; an
add is the raise of the parent's stop, `OrderAdd`, `OpenSlice`, `SliceStop`, `SliceTake`,
`SliceOids`, with `SliceClose`, `SliceCancel`, `SliceAbort` where the stop cannot be placed;
the resolver is `Resolve`, `OrderResolve`, `BookClose`, `CancelRow`, `Sweep`. A call
answers, is refused, raises without effect or raises after it took effect. `Reconcile` halts
between any two passes when size or protection diverge, `Clears` lifts it. The budget and
the spacing of the gate are read from `log`, which is the sentry log as far as it matters;
that the interval passes is a step. `past` and `sent` are history, read by no action:
what has happened to the position, and the adds that filled. The hourly call budget and the opposing window may
refuse at any time.

**IntakeWatch, DayJournal, Promotion, Supervisor.** `Supervisor` is `tick` and
`run_forever`: heartbeat, `_due`, poll, exec, sentry, daily, then the nap with its backoff.
`agent.at` is the stage; a poll is cut at every file operation and every `enqueue`
(`ArchiveFirst`, `ParseBatch`, `EnqueueNext`, `ArchiveBatch`, `Quarantine`), the daily job
at every commit (`StartDaily`, `Narrate`, `KeepLesson`, `WriteJournal`, `Tune`, `Promote`,
`Report`, `Stamp`). `Raise` is an exception from a call that may raise, `Die` a death,
anywhere; `Start` is a restart. Time is counted in poll intervals, and what the code
compares is kept as the time since an event, up to where every comparison has come out. A
tick works with the clock it read at its start (`agent.since` is the time since), the daily
job and a failing tick read it again, as the code does. The operator drops files and runs
`tune promote` beside the agent, whose own promotions are the same three file operations.
A firing pass is a step that handles up to `PassLimit` rows of the queue.

**ConfigClamp, Verdicts, EntryGate, Evidence, LearningLoop.** The four first are the pure
parts, each operator one function of the code over scaled integers: percents are
hundredths, a size is a whole number of ticks, NaN and infinities are `NonFinite`, a mean is
compared by its sum. `EntryGate` lists the checks of `evaluate` in their order and fails at
the first; `Size` is the nominal size and its roundings. `Evidence` reads the record by its
places: a cohort, a bucket or what is graded is a set of them, and `Performance` walks the
equity from row to row. `LearningLoop` puts them to work on
one configuration file: `ConfigSet`, `ConfigReset`, `EditorSaves` and `EditNormalises` (the
editor's draft is on disk, unclamped, in between), `TuneAsks`, `TuneAnswers`, `Promote`; a
pass that loads the file, sees marks and judges candidates with any of the arbiters; rows
that resolve, are banked, added to or adopted; and the statistics over what resolved.

## 3. Runs

Deadlock is checked in every run. Model values: candidates `a`, `b`; coins `x`, `y`.

| Run | Instance | Shows |
|---|---|---|
| `exec_restart` | one executor, two coins, cap of one position, one fault, one halt | each orphan position costs a fault (`OrphanNeedsFault`); a row booked vanished is flat; the mark never passes an unhandled candidate; a crash loses no WAIT; looks are bounded, and only faults add to them; the open cap holds |
| `exec_one_coin` | one executor, two candidates of one coin, cap of two | one position per coin; closes and sweeps never strip another row of its triggers |
| `exec_paper` | no native protection, one entry a day | the day's budget holds through aborts and crashes |
| `exec_pair` | two processes, both pulling the stream, one candidate, one fault | an entry fills once; a fill keeps its claim; a row stands for a fill; `ExecutorPass` implements `EntryClaim` |
| `exec_live` | one executor, fair, resting entries may fill | every candidate gets a verdict; every deferral leaves the table, unless the kill switch stays on |
| `watch` | live and shadow passes, two candidates of one coin, two days, three moves of the world, two deaths | the day's loss is measured from the worth at the day's first pass, unless a process died between the two rollover commits; the operator knows what the last look saw, unless a death lost the record of an alert, and is paged again only for a change or a death; a hypothetical entry is booked once, but for deaths |
| `desk_one` | paper, one managing process, a buy and a sell of one coin, one crash | book and ledger agree on positions and on equity at every mark (`AccountAgrees`); a partial is banked once through crashes; stops only ratchet; a moved stop does not close its row in its own pass; a row booked lost made no profit |
| `live_desk` | one live position, native triggers, one add, two actions, one fault | the resting stops close the whole position at every step, but for an add on its way or cut off and a close booked short (`NeverNaked`); the ledger claims no stop tighter than one that rests for the row's size; triggers are left behind on a flat coin only where the sweep itself failed (`NoAmbush`); a row sends no more adds than the budget, and the coin no more than that and one per fault while a row of it stays open (`AddsBounded`); a position that went flat is booked, in the end |
| `agent_day` | two days, one file of two candidates, one proposal, one fault, an operator | an archived batch is queued; the daily job of a date is run once, plus once per fault; a stamped day is journaled; no more is audited than was proposed; the queue drains; the last day is served |
| `rules` | two setups of opposite sides, two entries, an edit, a proposal, an adopted row, an add | the evidence counts orders that ran their course, not banked partials, aborts or adopted rows; the drawdown is the worst fall of the equity curve; a proposal leaves alone what the model is not asked for; every fill is within every cap |
| `v_closed` | no faults | **violation** of `ClosedIsFlat`: a refused close is booked closed |
| `v_midadd` | `live_desk` with a fourth mark, another move and another call | **violation** of `CrashLeavesLessRisk`: a crash in the middle of an add leaves the new size without a stop |

Bounds. Two candidates are the fewest that can compete for a coin, for the last place
under the cap or for the last entry of the day, and the fewest of which one can be skipped
by the other's mark. One follow-up (`FollowupMax = 1`) is enough for a re-check, a re-park
and the last attempt. One fault is enough for every property that compares with `faults`;
`LooksBounded` was also run with two. `BatchLimit = 2` lets a batch hold both candidates.
One halt lets the kill switch be thrown at any step. Two processes are enough for every
race between two steps. `exec_pair` declares its two processes symmetric: they pull the
same stream and nothing in the instance tells them apart.

`watch` has two worths on either side of a ten percent limit, and needs two deaths so that
one may spoil the rollover and another come after it; two candidates of one coin are what a
second hypothetical booking takes. `desk_one` has four marks in steps of 36, so that a sixth
(the trail), a half of a risk (breakeven) and averages over lots of 8 and 4 are whole, and
an entry may fill at any of them: with no risk at all, at one unit of risk, or where
breakeven lies exactly at the mark. Three passes are one to enter, one to raise the stop,
add or bank, and one to act on what that left; four passes were run for one side without
faults. `live_desk` starts with the position: entry 10, stop 8, target 16, and marks on
either side of a moved stop (10, 12) and above the target (17); one move of the mark, one
add and two actions reach every sequence of two calls to the model, and `MaxActions` lets a
scale-out be followed by an add or the other way round. `agent_day` has a poll interval as
its unit, two of them to a day, a backoff of at most two, so that a tick can
span midnight; `TwoBatches` defines a second file for larger instances. `rules` keeps every cap within reach of two orders.

Fairness. `exec_live`: `WF(PassStep(p))`, because `exec_.py:109-128` runs pass after pass
and catches what a pass raises, and `WF(TimePasses(c))`: `next_check_at` is a time, and time
passes. `agent_day`: `WF(Loop)`, the loop of `run_forever`, and `WF(TimePasses)`; the
liveness properties presuppose `KeepsRunning`, that an agent that is down is started again,
since nothing in the code restarts it. `live_desk`: `WF(Step)`, a pass goes on once begun
and another begins after it. Nothing is assumed of crashes, of the market, of the operator
or of which verdict a candidate gets. Faults are bounded: a decision call that raises for
ever on one candidate does hold up everything behind it, and no fairness the code gives
would help.

Each property has a mutant, an operator defined just above the one it replaces, that
breaks it the way a plausible slip in the code would.

## 4. Disagreements with the repository's own words

The two violation runs and their quotations are listed under `findings`. Met while
modelling, and found by TLC or by hand but not kept as runs of their own:

Entries and deferrals

- Two passes that read the same deferred row spend one attempt between them
  (runner.py:262; `LooksCapped` fails with two processes; decisions.md:38: "cannot
  double-spend an attempt or double-fire").
- With `RestingMayFill`, `ClaimCoversEntry` fails: the result of cancelling a resting entry
  is not looked at (execute.py:68), so the claim of an entry that filled first is given
  back (store.py:204: "the key store reflects only orders that actually reached the book").
- With two processes `VanishedIsFlat` fails: live_coins is read before open_trades
  (resolve.py:56, 59), so a row opened in between is booked vanished and loses its triggers
  (resolve.py:72: "The exchange is flat but the ledger says open").
- runner.py:548 confirms an emergency close on a fill of any size, so `aborted` may leave
  part of the position open (runner.py:392: "flattened cleanly"). `EmergencyClose` models
  it; `OpenCapHolds` and `OnePerCoinHolds` exempt such entries.
- runner.py:403 returns before the coin joins `open_coins`, so a later candidate of the
  same pass may open a coin whose emergency close was unconfirmed (gate.py:135: "opens a
  coin we don't already hold").
- `open_coins` is a snapshot: two processes together can exceed `max_concurrent_positions`
  (config.py:65: "the order path can never exceed these").
- runner.py:162 freezes re-checks under the kill switch only; under the daily loss limit
  they go on and spend attempts (runner.py:582: "they're frozen while halted").
- A re-check that the model asks for at the very limit of freshness is looked at after it
  and is then always refused as stale.
- A size rounded to the nearest millionth may pass a cap by half a millionth of a unit
  times the price; `ApprovedKeepsCaps` states the caps with that slack.
- A row that scaling out or an add splits off counts toward `max_trades_per_day`; an add of
  the sentry is not subject to the account-wide exposure ceiling.
- `exec shadow` and `exec run` share one intake mark: what a shadow pass has consumed no
  live pass ever sees.

Positions

- With two processes `StopNeverLoosens` fails: `update_trade_sl` writes the level planned
  against the row as read (apply.py:148), whatever its stop is by then (engine.py:9: "the
  stop only ever moves toward profit (ratchet) — it never widens").
- With a crash between a close on the paper book and `resolve_trade`, the reduce-only order
  of the next pass opens the other side (paper.py:110; paper.py:124: "reduce-only never
  opens"); `ReduceOnlyNeverOpens` states it.
- On the paper book with two processes `AccountAgrees` fails without any fault: both read
  the position before either writes it (paper.py:108), and both may close the same row.
  `ResolvedIsFinal` fails with them: `resolve_trade` and the updates write to a row whatever
  its status. With one process, a crash between the two commits of a fill (paper.py:122)
  realizes a close twice, and one after an add's order (apply.py:254) leaves a position no
  row tracks.
- resolve.py:109-111 looks for sibling rows and then sweeps the coin: with two processes
  `TrackedIsCovered` fails (protect.py:116: "Never call this while a sibling slice is
  still open").
- A close of one row eats into its sibling when the row's own trigger has fired already
  (resolve.py:133-134); `CloseSparesSiblings` of `LiveDesk` fails without any fault.
- A row without oids can have a sibling: that of an add cut off before its oids were
  recorded, which the next cancel strips by coin (apply.py:335-336: "legacy rows with no
  oid, which by construction have no sibling to strip").
- An add's order is sent even if the position went flat since the verdict; a market close
  that fills in part, and a refused emergency close of a slice, are booked whole.
- The adds counted against the budget are those logged since the oldest row still open was
  opened (live.py:101-104, store.py:400-415): when that row closes while a younger slice of
  it stays open, the coin gets the budget again without having been flat. config.py:133 says
  "cap per open position (resets when the coin is flat)". `AddsBounded` therefore counts from
  each row that is still open; over the life of the position, with a budget of two, no
  fault is needed to exceed it.
- After a close that filled in part and a sweep that failed, adoption takes the rest over at
  the trigger left behind, whatever its size: the row then claims a stop larger than the one
  that rests. `LedgerNeverTighter` excepts that case ("unswept").
- A retried trigger order can rest twice, and the first copy's oid is lost (protect.py:47).
- `reconcile` keeps the last row of a coin only: after an add it reports a size mismatch
  that is none, and halts (`Diverges`).
- An approved action that dies at the exchange is logged nowhere, and an add whose raise
  alone went through is logged as a plain `move_stop` (live.py:18: "Every evaluation is
  logged").

Breaker and alerts

- A crash, or a second process, between the two commits of the rollover measures the day
  against an older worth (breaker.py:49-50). A crash between an alert and its record
  (runner.py:608) sends the alert twice; if the danger is meanwhile again what the record says,
  the operator is left with the alert of the crash and hears nothing. The breaker's day is local, the entry budget's
  is UTC. With two processes a stale pass can record an alert's key after another cleared it.

Agent

- A tick that spans midnight journals the date of its own start, or a later one, and the
  day before is never journaled; a day the agent is down all through likewise.
- A crash between the daily job and its stamp runs the job again, and so does a call that
  raises after the tuners (supervisor.py's docstring: "a restart never re-runs it").
- A crash between writing the active file and removing the proposal promotes it again, as
  do two promoters; one that is slow can put back an older version; one that removes the
  proposal it read can remove a newer one nobody read (promote.py:83: "promotable exactly
  once"). A crash before the audit row leaves an active version out of the audit.
- A crash between caching the narrative and adding its reflection (writer.py:88-90) loses
  the lesson for good.
- The heartbeat is the time a tick began, and the backoff is longer than its limit: a
  living agent that is in a long pass, or backing off, reads as dead
  (supervisor.py:153-154; `BackingOffReadsAlive` fails with one day, a limit of three polls,
  a backoff of eight and three faults).

Tuner

- `_validate` overlays a section whole where the proposal names it, so `sizing.enabled` goes
  back to False; an operator's edit between proposal and promotion is lost.
- Where losses exceed the account, the drawdown of `performance` is that from the highest peak,
  which is not the worst one in percent (stats.py:277-286).
- An add's slice is a graded decision of its own, so adding to one winner brings graduation
  nearer (graduation.py:31-34); `GraduationCountsPositions` fails in `rules` for that reason.

## 5. Proofs

`tlapm` checks the eight proof modules from nothing. The theorems hold for any constants that
satisfy the assumptions the modules name: of the executor `CandidatesAssumption`,
`FollowupAssumption`, `BookAssumption`, `PassAssumption`; of the agent `IntakeAssumption`,
`JournalAssumption`, `SupervisorAssumption`; of the watched pass `BreakerAssumption` and
`WatchAssumption`; of the paper desk `RulesAssumption` and `DeskAssumption`; of the live desk `NativeAssumption` and `DeskAssumption`; of the loop `NonFiniteAssumption`, `GateAssumption`,
`EvidenceAssumption`, `VerdictAssumption` and `LoopAssumption`.

Executor

- **TypeCorrect**: `Spec => []TypeOK`. `TypeOK` alone is not inductive: parking writes
  `ctx[p].attempts` into a table whose entries are positive, `Abort` writes the verdict
  into a column with fewer values, `TakeNew` indexes the stream. `TypeInv` adds what those
  steps need of the process that takes them (`LocalOK`): a verdict "deferred" has an
  attempt left, an abort has a row status, due deferrals have an attempt, the batch lies
  within the stream.
- **EntersOnce**, **ClaimOutlivesEntry**, **BookedIsEntered**: `EntryOnce`,
  `ClaimCoversEntry` and `LedgerMatchesBook`, under `~RestingMayFill` (section 4 says why it
  is needed). The inductive invariant `EntryInv` says, of each process and the
  candidate in its hand, what its `pc` means: from "submit" on it holds the claim and
  nothing has filled; at "open" the entry has filled; at "lookup" the status is what filled
  or not; and no two processes are between claim and verdict with the same candidate
  (`OneClaimer`), which is what makes `release_fire` safe.
- **PassImplementsEntryClaim**: under the same assumption every step of a pass is a claim,
  a give-back or an entry of `EntryClaim`, or leaves every candidate's fate alone.
  `FateMovesInFour` isolates the four steps that move a fate.

Executor, beyond the entry. `Alone` says that there is at most one
process; section 4 lists what a second one breaks.

- **NothingSkipped**: `NoSkippedCandidate`, for any number of processes. `SkipInv`: the mark
  lies within the stream, everything a process has passed in its batch has a verdict, and so
  has what it is about to set the mark to; a status once written is never pending again.
- **OrphansCostFaults**: `OrphanNeedsFault`, under `~RestingMayFill`. Of a pass that goes on,
  every step between fill and row keeps the candidate in hand, so only a fault makes an
  orphan, and one at a time.
- **WaitsAreKept** (`Alone`): `NoLostWait`. `WaitInv`: no candidate is twice in the
  stream, the batch goes on where the mark is, and a deferral in the queue or under re-check
  is still in the table, with the attempts that were read with it, until its verdict is filed.
- **LooksAreBounded** (`Alone`): `LooksBounded`. `LookInv` is an account: of a candidate behind
  the mark, the looks spent and those its deferral still grants are at most
  `1 + FollowupMax` and two for each fault; one ahead of the mark was looked at twice for each
  fault at most, and at most the next of the stream is parked there.
- **VanishedRowsAreFlat**, **OpenCapIsKept**, **OnePositionPerCoin**, **DailyBudgetIsKept**,
  **TrackedStaysCovered** (`Alone`, `~RestingMayFill`) share one inductive invariant,
  `BookInv`, since each needs the others. It says what the snapshot a pass took is still
  worth: a position that is live now is in the snapshot, is the entry in hand, or was given up
  after its protection failed (`HeldSeen`), so a check on the snapshot is a check on the book
  (`RoomLeft`); the pass's own count is no less than the day's rows (`TradesSeen`); nothing
  enters while the resolver runs (`CoinsRead`); and the row in hand is in the state the stage
  says (`RowInHand`).

Agent (`Supervisor_proofs`)

- **TypeCorrect**: `TypeOK` with its failure counter bounded by the faults so far, without
  which the nap's backoff is not.
- **NoBatchLost**: `ArchivedIsQueued`. `BatchInHand` says what is left of the file in hand:
  what was parsed and is not yet queued is in `agent.rest`, so the rename comes when all is.
- **JobRunsOnceButForFaults**: `JobRunsBounded`. A run of the job that was started and not
  stamped is either the one in progress (`OneRun`) or was paid for by a fault
  (`RunsCounted`), and a date in hand is never behind the stamp (`DatesInOrder`).
- **StampedIsJournaled**: `JobJournals`, from `JournalInStep`: past the journal's stage the
  file of the day before the one in hand is written.
- **PromotesNoMoreThanProposed**: `AuditedIsConsumed` by counting: the audit, the promoters
  that have consumed a proposal and not recorded it yet, and the proposal still in the file
  add up to no more than was written.

Watched pass (`WatchedPass_proofs`)

- **LossMeasuredFromDaysFirst**: `LossFromDaysFirst`. `RollInHand` ties the pass at the
  second commit to the first, `DayHasStart` and `MeasuredToday` carry the start to the
  pass's judgement.
- **ShadowBooksOnce**: `ShadowBookedOnce`. Each row of a candidate is behind the mark, in the
  hand of the pass or owed to a death (`Owed`), and the coins a pass knows include every
  open row's (`CoinsKnown`).
- **OperatorIsToldOnce**: `ToldOncePerChange`, for `LimitPct > 0` (with a limit of zero the
  breaker halts, and pages, before anything moved). `AlertInv`: a condition's record is what the
  operator was told, or a death came between the two (`CutByFault`), or the pass that told
  him still has the row to write (`PagedInHand`). `PagesPaid` counts: pages sent and pages
  due are no more than changes of the world and deaths. What is due is what the pass in
  progress will make of a condition, given what is recorded, and what the next pass would
  make of the world after it (`Due`): a change of the world adds one at most, sending moves one
  from due to sent, and only a death puts one back.

Live desk (`LiveDesk_proofs`): any levels, sizes and budgets, any number of moves, faults,
passes and rows. All four rest on `TypeInv` and on `ControlInv`, which says what a stage of
the pass means: whose row is in hand, that it is open until its close is booked and of an add
the elder of two, and what the stage was entered for.

- **NothingLeftBehind**: `NoAmbush`. `AmbushInv` says it between the steps too: where no row
  is open and no sweep failed, either no trigger rests, or the sweep is still to come, or it is
  the hand-opened position of the start, which nobody has adopted yet.
- **AddsKeepTheBudget**: `AddsBounded` by counting. `KeysPaid`: the adds a row sent, and the
  claim it holds, are no more than its ordinals among the keys, which lie below the budget.
  `AddsPaid`: the adds sent since a row was opened are no more than those logged since, the
  faults, and the one that is not logged yet. `BookIsOldest` makes the pass's reading of the
  budget a reading of every open row's, for the whole of the pass.
- **LedgerFollowsTheBook**: `LedgerNeverTighter`. `AllGuarded` gives every open row a stop of
  its own: it rests at the claimed level or beyond, for the row's size, and no step under way
  may remove it, since its oid is recorded in no other row (`Foreign`) and is not the one in
  hand for another (`InHand`). `StopPlaced` says that the new stop rests from its
  placement to the booking of its level, so that the row changes guards in the step that
  cancels the old one; `SlicePlaced` the same of an add's slice. `OidsUnique`, `OidsGiven`
  and `TargetsNoStops` keep the oids of rows and triggers apart, and `StopsRecorded` excludes
  the row without an oid, whose cancel would strip its siblings. After a cut-off add or
  a fired stop none of this holds any more, which is what `Calm` leaves out.
- **PositionIsCovered**: `NeverNaked`, with stops that fire at any moment. That the stops add
  up to the position is no invariant a step can be argued from: which of them may still be
  counted on depends on the row they are recorded for. `CoverInv` says that the position can be
  shared out among the resting stops (`Backs`): to none more than its size, to the stop of a row
  no more than the row has left to close (`Share`: nothing once its replacement rests or the
  row is closed, the rest of it while a partial is booked), to one about to be cancelled
  with its slice nothing; what has filled of an add and has no stop yet (`Bare`) comes on top.
  A step that cancels, fires or banks then takes from one share only, and the position falls by
  as much or the share was nothing. `OwnInv` keeps the stops of the rows apart, `PlanInv` says
  that a close is for the whole row and that a pass that saw the coin flat finds it flat still,
  and `BookedInv` that the open rows add up to the position at least, so that the sweep of a
  coin without rows takes nothing that is needed. `LedgerInv` is needed for the oids.

Paper desk (`PaperDesk_proofs`): any candidates, levels, sizes, marks and rules, any number of
passes and faults. All rest on `Base`: what a process has in memory is typed and known to the
ledger (`JobOK`, `Known`: same row, same coin and side, though its stop and size may have
changed since), of which each step keeps what the next one needs.

- **TypeCorrect**, **PartialsAreBankedOnce**, **LossesAreLosses**, for any number of
  processes. `BankInv`: a process that holds the order for a partial holds its key, no other
  process holds one for the same row, and what the book was sent is keyed. `SizeInv` is why a
  split fits: a row's size changes only in its one split, so until its key is taken a reading
  of it is current. A loss is a loss since outcome and P&L are computed from the same reading
  (`NoProfit`), however old that is.
- **MovedStopsHold**, **StopsRatchet**: under `OneProcess`, since with two each may write a stop
  planned on a row the other has changed (section 4). `StopInv`: a row still to come has the
  stop it was read with, the stop about to be written is better than the row's
  (`MoveStopRatchets`), the job's row is no longer to come, and a stop the rules moved is short
  of the mark the resolver will judge it by, which is the mark of the rules.

Paper account (`PaperAccount_proofs`), under `OneProcess`; with two, both read before either
writes (section 4).

- **BookFollowsLedger**: as long as no process died, a coin's position is the sum of its open
  rows whenever no order is under way. `LedgerInv` is `DeskInv` with `RowsInv` and `SharesInv`.
  `RowsInv`: the rows a pass still has to go through, and the one in its hand, are open and as
  large as they were read, a partial takes less than its row has and a close all of it.
  `SharesInv`: the rows of a coin are on one side (`OneSide`), since a pass that enters knows
  every coin that has a row (`EntryOK`); so an order that closes finds at least what it is to
  close (`Finds`) and what it fills is what the ledger will book (`Pending`). No rounding is
  assumed: shares are never averaged.
- **AccountsAgree**: `AccountAgrees`, from `LedgerInv` and `EquityInv`: the book's realized
  P&L less what its positions cost is the ledger's profits less what its open rows cost,
  but for what is filled and not yet booked (`Proceeds`). `WholeAverages` is assumed of every
  state: an average entry price times the size it is over is what was paid. The code keeps
  averages in floats, where this is so up to the last digits; the model's prices are whole
  numbers, where it is so when the division leaves no remainder. `desk_one`'s sizes and marks
  are such that it never does.
- `Sums_proofs` has what both, and **PositionIsCovered**, rest on. Its `Counting` proves an
  induction with a set for the predicate, by the least counterexample, and from it that a sum
  over a finite set is the same in whatever order it is taken: one element more adds its value
  (`SumWith`), sums of equal terms are equal, a sum of natural numbers reaches each of its
  terms.

Loop (`LearningLoop_proofs`)

- **ClampInBox**, **ClampKeepsTheBox**: the clamp's result lies within every bound whatever
  it was given, numbers or not, and it changes nothing that lies there.
- **ConfigStaysInBox**: so does every configuration a pass acts on, a tuner asks about or
  proposes, and the file once the editor is shut.
- **ProposalsKeepCadence**: `ProposalKeepsCadence`, since the overlay names no field of the
  section the model is not shown (`OverlayKeepsAgent`).
- **ApprovedKeepsCaps**: an order `Evaluate` approves is within the caps on notional, on
  leverage, on gross exposure and on risk, for every input. `NearestWithin` bounds what the
  rounding adds, `ApprovedFailsNothing` reads the checks off the approval.
- **CapsAlwaysHold**: `CapsHold`, the order a pass fires and the whole book after it. The gate
  only sees the gross exposure the pass counted; that this is the book's at the marks of the
  pass, whatever the pass has opened since it measured, is `PassInv` (`Sound`): its gross
  exposure and open coins follow `open` from one judged candidate to the next. It needs
  `LedgerInv` (the book is finite, its rows are typed and have a size) for the sums and
  `ConfigInv` for the bounds. The tunable switches are truth values wherever a configuration
  lies (`SwitchInv`), the draft in the editor included.
- **LoopTyped**: `TypeOK`, from `LoopInv` (these four) and `FilesInv` (a file is there once or
  not at all).
- **ReadinessCountsOrders**: `EvidenceCountsOrders`. `BookStep` sums up what any step does to
  the book: it opens a row, ends one, halves one, adds to one, or nothing. `OrderInv`: no order
  (a candidate and its leg) has two rows but for what was banked of it (`OrdersDistinct`), for
  which a row that may yet be added to knows of every leg of its position (`LegsKnown`) and
  new positions get numbers no row has (`Counted`). So what is graded, or lies in a bucket, is
  counted one to one by orders.
- **DrawdownIsFound**: `DrawdownIsWorst`. `Knows(n, s)` is the invariant of the walk after `n`
  rows: it holds the highest equity so far and a fall that no other one exceeds; the induction
  over the rows is by the set of the places it holds for (`Counting`). The proof failed for
  falls to below nothing, and TLC then showed one, with a position larger than the account: a
  loss above the account is a larger share of a lower peak than of the highest, which is the
  only one the walk measures from. `DrawdownIsWorst` leaves those falls out, section 4 says so.

`LoopAssumption` types what is put in: a candidate's levels and marks are natural numbers and
its side is 1 or -1, a model's conviction is an integer or no number, an adopted position has
a size. `rules` evaluates it.

Only model-checked: liveness. Fairness and ENABLED are out of the prover's reach. Every
invariant and action property of a passing run is stated by a theorem. No module uses a
RECURSIVE operator.

## 6. Not modelled

- Command line, interactive shell and rendering (`cli/*`), the digest of the journal: they
  print what the store holds. The loops and the state-changing commands are actions.
- Market data, rounding of prices and sizes to the venue's steps, the bounded retries of a
  read: no state but a cache of two seconds.
- Enrichment, regimes, the monitor and every prompt: context for a model whose answer is
  taken to be anything. So is the prompt tuner, which shares its promotion with the other.
- Accounts: files and a keyring without concurrency and without influence on a pass.
- Dry runs; the shadow manager of the sentry, which writes its log only.
- What a vanished row is priced at (the venue's fills, then candles), and the default stop an
  adopted position is given.
- The second copy a retried trigger leaves; `ghost` and `unmanaged` of `reconcile`, which
  only report; an operator who trades the account by hand.
- Torn writes of files: a file is written whole or not.

## 7. What is left

To model: shorts and siblings from the outset in `LiveDesk`, the retry's second copy with its
sweep, and two processes on the live desk.
