---------------------------- MODULE LearningLoop ----------------------------
(***************************************************************************)
(* The loop from configuration to money to evidence and back: a pass loads *)
(* and clamps the configuration, has an arbiter judge candidates, sizes    *)
(* and gates what it says and opens rows (hlcli/executor/runner.py); the   *)
(* rows resolve; the tuner reads the record and proposes a configuration   *)
(* (hlcli/tuner/config_tuner.py), which is promoted (tuner/promote.py)     *)
(* while an operator sets, edits or resets the same file                   *)
(* (hlcli/cli/commands/config.py).                                         *)
(*                                                                         *)
(* The book is paper's or shadow's: an entry fills at the pass's mark, as  *)
(* approved.  How orders and the ledger can come apart is ExecutorPass's   *)
(* and PaperDesk's subject; here a row opens, is banked or added to, and   *)
(* resolves in one step each.                                              *)
(***************************************************************************)
EXTENDS EntryGate, Verdicts, Evidence

CONSTANTS
    Setups,       \* candidates the intake may hold
    Payloads,     \* answers of the model on a candidate
    Sources,      \* HL_DECISION_SOURCE of the processes that may run a pass
    Quotes,       \* [coin -> mark] the feed may report
    Regimes,      \* [coin -> regime] the candles may show
    Settings,     \* <<key, value>> the operator may set
    Drafts,       \* configurations an editor may leave in the file
    Answers,      \* proposals of the tuner's model
    Deposit,      \* HL_STARTING_EQUITY
    AdoptedSize,  \* what an adopted position holds, in ticks
    MaxAdds,      \* HL_SENTRY_MAX_ADDS_PER_POSITION
    MaxEntries,   \* bound: rows opened for candidates or adopted
    MaxEdits,     \* bound: changes of the operator
    MaxProposals, \* bound: answers of the tuner's model
    MaxAdopted    \* bound: positions adopted

\* CONFIG_TOOL: the fields the tuner's model is asked for.
Exposed == {key \in TunableKeys : Section(key) # "agent"} \ {"sizing_enabled"}

ASSUME LoopAssumption ==
    /\ \A cfg \in Drafts : \A key \in TunableKeys : OfKind(key, cfg[key])
    /\ \A s \in Settings : s[1] \in TunableKeys /\ OfKind(s[1], s[2])
    /\ \A answer \in Answers :
           DOMAIN answer \subseteq Exposed /\ \A key \in DOMAIN answer : OfKind(key, answer[key])
    /\ \A c \in Setups :
           /\ c.side \in {1, -1} /\ {c.entry, c.sl, c.tp} \subseteq Nat
           /\ c.confidence \in Int \cup {NonFinite}
           /\ \A marks \in Quotes : marks[c.coin] \in Nat
    /\ \A payload \in Payloads : payload.conviction \in Int \cup {NonFinite}
    /\ {Deposit, MaxAdds} \subseteq Nat /\ AdoptedSize \in Nat \ {0}

VARIABLES
    active,      \* active_config.json: the configurations it may hold, none when absent
    editor,      \* whether `config edit` has the file open
    tuner,       \* the configuration a tune run is waiting with for an answer
    proposal,    \* proposed_config.json, and the configuration it was made from
    open,        \* open rows
    resolved,    \* resolved rows, oldest-closed first
    pass,        \* the pass, or Idle
    entries,     \* candidates fired so far
    adopted,     \* positions adopted so far
    edits,       \* changes of the operator so far
    proposals    \* answers of the tuner's model so far

vars == <<active, editor, tuner, proposal, open, resolved, pass, entries, adopted, edits,
          proposals>>

files == <<active, editor, tuner, proposal, edits, proposals>>
books == <<open, resolved, entries, adopted>>

Idle == [running |-> FALSE]

Init ==
    /\ active = {} /\ proposal = {} /\ tuner = {}
    /\ editor = "closed"
    /\ open = {} /\ resolved = <<>>
    /\ pass = Idle
    /\ entries = 0 /\ adopted = 0 /\ edits = 0 /\ proposals = 0

-----------------------------------------------------------------------------
(* The configuration file. *)

\* load_tunable: clamped whatever the file holds, the defaults without one.
Load == IF active = {} THEN Clamp(Defaults) ELSE Clamp(CHOOSE cfg \in active : TRUE)

\* `config set`: load, set one leaf, clamp, write.
ConfigSet ==
    /\ edits < MaxEdits
    /\ \E s \in Settings : active' = {Clamp(SetField(Load, s[1], s[2]))}
    /\ edits' = edits + 1
    /\ UNCHANGED <<books, editor, tuner, proposal, pass, proposals>>

ConfigReset ==
    /\ edits < MaxEdits
    /\ active # {}
    /\ active' = {}
    /\ edits' = edits + 1
    /\ UNCHANGED <<books, editor, tuner, proposal, pass, proposals>>

\* `config edit`: what the editor saves lies in the file as it is until the command reads
\* it back.
EditorSaves ==
    /\ edits < MaxEdits
    /\ editor = "closed"
    /\ \E cfg \in Drafts : active' = {cfg}
    /\ editor' = "saved"
    /\ edits' = edits + 1
    /\ UNCHANGED <<books, tuner, proposal, pass, proposals>>

EditNormalises ==
    /\ editor = "saved"
    /\ active' = {Load}
    /\ editor' = "closed"
    /\ UNCHANGED <<books, tuner, proposal, pass, edits, proposals>>

-----------------------------------------------------------------------------
(* The tuner. *)

\* propose_config asks its model only about a record with an eligible cohort.
TuneAsks ==
    /\ tuner = {}
    /\ proposals < MaxProposals
    /\ Cohorts(resolved) # {}
    /\ tuner' = {Load}
    /\ UNCHANGED <<books, active, editor, proposal, pass, edits, proposals>>

\* The answer overlays the configuration the tuner read before it asked.
TuneAnswers ==
    /\ \E cfg \in tuner, answer \in Answers :
           proposal' = {[cfg |-> Clamp(Overlay(cfg, answer)), from |-> cfg]}
    /\ tuner' = {}
    /\ proposals' = proposals + 1
    /\ UNCHANGED <<books, active, editor, pass, edits>>

\* promote: clamped once more, live, and consumed.
Promote ==
    /\ \E p \in proposal : active' = {Clamp(p.cfg)}
    /\ proposal' = {}
    /\ UNCHANGED <<books, editor, tuner, pass, edits, proposals>>

-----------------------------------------------------------------------------
(* A pass. *)

Total(rows) == SumFunction([i \in DOMAIN rows |-> rows[i].realized])

\* Paper's equity: the deposit, what was realized and what the open rows are worth.
Equity(marks) ==
    Deposit + (Total(resolved) + SumFunction([t \in open |->
        t.side * ((IF marks[t.coin] = NoQuote THEN t.entry ELSE marks[t.coin]) - t.entry)
               * t.size])) \div Ticks

StartPass ==
    /\ ~pass.running
    /\ entries + adopted < MaxEntries
    /\ \E marks \in Quotes, regime \in Regimes, source \in Sources :
           pass' = [running |-> TRUE, source |-> source, cfg |-> Load, marks |-> marks, regime |-> regime,
                    equity |-> Equity(marks), gross |-> GrossNotional(open, marks),
                    open_coins |-> {t.coin : t \in open}, trades_today |-> Cardinality(open) + Len(resolved),
                    breaker_tripped |-> FALSE, daily_loss |-> FALSE, margin |-> 0,
                    now |-> 0, judged |-> {}]
    /\ UNCHANGED <<books, files>>

\* _evaluate of one candidate: no mark, no verdict; an act-wait is parked, a skip or a
\* refusal ends it; what the gate approves is filled at the mark and counted, so that the
\* candidates after it see it.
OpenRow(c, size, mark, conviction) ==
    [candidate |-> entries + 1, coin |-> c.coin, side |-> c.side, entry |-> mark,
     sl |-> c.sl, initial_sl |-> c.sl, tp |-> c.tp, size |-> size, conviction |-> conviction,
     status |-> "open", realized |-> 0, r |-> 0, scaled_out |-> FALSE, adopted |-> FALSE,
     closed_at |-> 0, adds |-> 0, leg |-> 0]

Unjudged == {c \in Setups : c.id \notin pass.judged}

\* Slip: what the pass fires is not counted towards the account's ceiling.
JudgeUncounted(c, d, outcome) ==
    IF outcome.reason = "approved"
    THEN /\ open' = open \cup {OpenRow(c, outcome.size, pass.marks[c.coin], d.conviction)}
         /\ entries' = entries + 1
         /\ pass' = [pass EXCEPT !.judged = @ \cup {c.id}, !.open_coins = @ \cup {c.coin}]
    ELSE /\ pass' = [pass EXCEPT !.judged = @ \cup {c.id}]
         /\ UNCHANGED <<open, entries>>

Judge(c, d, outcome) ==
    LET mark == pass.marks[c.coin]
    IN  IF outcome.reason = "approved"
        THEN /\ open' = open \cup {OpenRow(c, outcome.size, mark, d.conviction)}
             /\ entries' = entries + 1
             /\ pass' = [pass EXCEPT !.judged = @ \cup {c.id},
                             !.open_coins = @ \cup {c.coin},
                             !.gross = @ + outcome.size * mark,
                             !.trades_today = @ + 1]
        ELSE /\ pass' = [pass EXCEPT !.judged = @ \cup {c.id}]
             /\ UNCHANGED <<open, entries>>

PassJudges ==
    /\ pass.running
    /\ \E c \in Unjudged, payload \in Payloads :
           /\ pass.marks[c.coin] # NoQuote
           /\ \E d \in Verdict(pass.source, c, payload) :
                  /\ d.timing = "now" \/ d.action = "skip"
                  /\ Judge(c, d, Evaluate(c, d, pass.cfg, pass))
    /\ entries + adopted < MaxEntries
    /\ UNCHANGED <<files, resolved, adopted>>

EndPass ==
    /\ pass.running
    /\ pass' = Idle
    /\ UNCHANGED <<books, files>>

-----------------------------------------------------------------------------
(* What becomes of the rows. *)

\* In percent of the row's initial risk.
RMultiple(t, exit) ==
    LET made == 100 * t.side * (exit - t.entry)
        risk == Dist(t.entry, t.initial_sl)
    IN  IF made >= 0 THEN made \div risk ELSE -((-made) \div risk)

Booked(t, size, exit, status) ==
    [t EXCEPT !.status = status, !.size = size, !.realized = t.side * (exit - t.entry) * size,
              !.r = RMultiple(t, exit), !.closed_at = Len(resolved)]

\* The stop, the target, or an abort at cost.
Exits(t) == {<<"lost", t.sl>>, <<"won", t.tp>>, <<"aborted", t.entry>>}

Resolve ==
    /\ ~pass.running
    /\ \E t \in open : \E exit \in Exits(t) :
           /\ open' = open \ {t}
           /\ resolved' = Append(resolved, Booked(t, t.size, exit[2], exit[1]))
    /\ UNCHANGED <<files, pass, entries, adopted>>

\* split_trade: half is banked where the row has made its risk.
ScaleOut ==
    /\ ~pass.running
    /\ \E t \in open :
           LET half == t.size \div 2
           IN  /\ ~t.scaled_out /\ half > 0
               /\ open' = (open \ {t}) \cup {[t EXCEPT !.size = @ - half, !.scaled_out = TRUE]}
               /\ resolved' = Append(resolved,
                      Booked([t EXCEPT !.scaled_out = TRUE], half,
                             t.entry + t.side * Dist(t.entry, t.initial_sl), "scaled"))
    /\ UNCHANGED <<files, pass, entries, adopted>>

\* _check_add's size: covered by the row's own profit, at most half of the coin and within
\* the caps on one order, which the whole coin has to fit.
Held(coin) == SumFunction([t \in {t \in open : t.coin = coin} |-> t.size])
AddSize(t, mark, stop, equity) ==
    LET held == Held(t.coin)
    IN  Min({(t.side * (mark - t.entry) * t.size) \div Dist(mark, stop),
             held \div 2,
             (MaxNotional * Ticks) \div mark - held,
             (equity * MaxLeverage * Ticks) \div mark - held})

\* apply_add: a winner of at least 1R, its stop raised to entry, gets a second row.
AddToWinner ==
    /\ ~pass.running
    /\ \E t \in open, marks \in Quotes :
           LET mark == marks[t.coin]
               size == AddSize(t, mark, t.entry, Equity(marks))
           IN  /\ t.adds < MaxAdds
               /\ mark # NoQuote
               /\ t.side * (mark - t.entry) >= Dist(t.entry, t.initial_sl)
               /\ t.side * (t.entry - t.sl) > 0
               /\ size > 0
               /\ open' = (open \ {t}) \cup
                      {[t EXCEPT !.sl = t.entry, !.adds = @ + 1],
                       [t EXCEPT !.sl = t.entry, !.initial_sl = t.entry, !.entry = mark,
                                 !.size = size, !.scaled_out = FALSE, !.adds = MaxAdds,
                                 !.leg = t.adds + 1]}
    /\ UNCHANGED <<files, pass, resolved, entries, adopted>>

\* adopt_unmanaged: a position of nobody's is booked with no conviction behind it.
Adopt ==
    /\ ~pass.running
    /\ adopted < MaxAdopted
    /\ entries + adopted < MaxEntries
    /\ \E c \in Setups :
           /\ c.coin \notin {t.coin : t \in open}
           /\ open' = open \cup
                  {[OpenRow(c, AdoptedSize, c.entry, 0) EXCEPT !.adopted = TRUE,
                                                               !.candidate = 0 - adopted]}
    /\ adopted' = adopted + 1
    /\ UNCHANGED <<files, pass, resolved, entries>>

\* The bounds end the runs; the program has no such end.
Finished ==
    /\ ~pass.running /\ open = {} /\ entries + adopted = MaxEntries
    /\ UNCHANGED vars

Next ==
    \/ ConfigSet \/ ConfigReset \/ EditorSaves \/ EditNormalises
    \/ TuneAsks \/ TuneAnswers \/ Promote
    \/ StartPass \/ PassJudges \/ EndPass
    \/ Resolve \/ ScaleOut \/ AddToWinner \/ Adopt
    \/ Finished

Spec == Init /\ [][Next]_vars

-----------------------------------------------------------------------------
(* Properties. *)

\* Type invariant: every configuration the program acts on or writes is in the box (the
\* clamp's contract, config_schema.py), though the file itself may hold anything while an
\* editor has saved it and `config edit` has not read it back; rows keep a size.
TypeOK ==
    /\ Cardinality(active) <= 1 /\ Cardinality(tuner) <= 1 /\ Cardinality(proposal) <= 1
    /\ editor \in {"closed", "saved"}
    /\ editor = "closed" => \A cfg \in active : InBox(cfg)
    /\ \A cfg \in tuner : InBox(cfg)
    /\ \A p \in proposal : InBox(p.cfg)
    /\ pass.running => InBox(pass.cfg)
    /\ \A t \in open : t.size \in Nat \ {0} /\ t.status = "open"
    /\ \A i \in DOMAIN resolved : resolved[i].status # "open"

\* Whatever the file, the tuner and the model say, an order keeps the caps
\* (executor/gate.py): its notional within the caps of one order up to the rounding of
\* its size, its loss at the stop within the 5 percent the widest configuration may risk,
\* and the book it makes within the account's ceiling at the marks of its pass, however
\* many orders that pass has fired before.
FiredWithinCaps(t) ==
    /\ 2 * t.size * t.entry <= 2 * MaxNotional * Ticks + t.entry
    /\ 2 * t.size * t.entry <= 2 * pass.equity * MaxLeverage * Ticks + t.entry
    /\ 40 * t.size * Dist(t.entry, t.sl) <= 2 * pass.equity * Ticks + 20 * Dist(t.entry, t.sl)
    /\ MaxGross > 0 => GrossNotional(open', pass.marks) <= MaxGross * Ticks
    /\ \A o \in open : o.coin # t.coin
CapsHold ==
    [][entries' > entries => \A t \in open' \ open : FiredWithinCaps(t)]_vars

\* Evidence is orders that opened a position and ran their course (graduation.py:
\* "partials of a position, and mechanical protection failures" never grade): no
\* scale-out, abort or adoption along the way brings a book of too few of them to
\* readiness, nor to a calibrated conviction.
RanItsCourse(t) == t.status \in {"won", "lost", "expired", "closed"} /\ ~t.adopted
Courses == {resolved[i] : i \in {j \in DOMAIN resolved : RanItsCourse(resolved[j])}}
Orders(rows) == {<<t.candidate, t.leg>> : t \in rows}
EvidenceCountsOrders ==
    /\ GraduationReady(resolved) => Cardinality(Orders(Courses)) >= MinTrades
    /\ CalibrationReady(resolved) =>
           /\ Cardinality(Orders({t \in Courses : t.conviction < 40})) >= MinBucket
           /\ Cardinality(Orders({t \in Courses : t.conviction >= 70})) >= MinBucket

\* And it counts positions, as its docstring has it ("`min_trades` counts positions, not
\* banked partials"): orders of one candidate's position count once.
GraduationCountsPositions ==
    GraduationReady(resolved) => Cardinality({t.candidate : t \in Courses}) >= MinTrades

\* The drawdown of stats.performance, found in one walk, is the worst fall of equity from
\* any moment of the record to any later one.  A fall to below nothing is more than the
\* whole of its peak, and the more the lower the peak: those are only measured from the
\* highest.
EquityAfter(n) == Deposit * Ticks + Total(SubSeq(resolved, 1, n))
DrawdownIsWorst ==
    LET worst == Performance(resolved, Deposit * Ticks).worst
        span == {mn \in (0..Len(resolved)) \X (0..Len(resolved)) : mn[1] <= mn[2]}
        later == {[peak |-> EquityAfter(mn[1]),
                   fall |-> EquityAfter(mn[1]) - EquityAfter(mn[2])] : mn \in span}
    IN  /\ \A f \in later : f.peak > 0 /\ f.fall <= f.peak => ~Worse(f, worst)
        /\ \E f \in later : ~Worse(worst, f)

\* A proposal keeps the fields the tuner's model cannot name (config_tuner._validate:
\* "preserves fields the tool schema doesn't expose - e.g. `agent` cadences"), as they
\* stood when the tuner read them, past both clamps.
ProposalKeepsCadence ==
    \A p \in proposal : \A key \in TunableKeys :
        Section(key) = "agent" => p.cfg[key] = p.from[key]

=============================================================================
