----------------------------- MODULE StateStore -----------------------------
(***************************************************************************)
(* The executor's persistent state, hlcli/state/store.py: one SQLite file  *)
(* per network, shared by every process that runs an executor or a sentry  *)
(* pass.  Each method of the class commits on its own, so each one is an   *)
(* action of its own here and a crash can fall between any two of them.    *)
(*                                                                         *)
(* A candidate stands for its intake row: its id, which is also its        *)
(* idempotency key and the key of its deferral.  Prices, sizes and texts   *)
(* are left out; a ledger row keeps only its status.                       *)
(***************************************************************************)
EXTENDS Candidates, Integers, Sequences, SequencesExt

CONSTANT
    FollowupMax   \* HL_FOLLOWUP_MAX_ATTEMPTS: re-checks one WAIT is worth

ASSUME FollowupAssumption == FollowupMax \in Nat

VARIABLES
    stream,   \* intake rows in seq order
    status,   \* intake.status per candidate
    hwm,      \* meta intake_hwm: every row up to it has been handled
    keys,     \* idempotency table: candidates whose entry is claimed
    parked,   \* deferred.attempts_remaining, or NotParked
    ripe,     \* parked candidates whose next_check_at has come
    outcome,  \* outcome of the newest decision_log row
    ledger,   \* status of the candidate's trades row
    breaker   \* meta breaker: the kill switch

storeVars ==
    <<stream, status, hwm, keys, parked, ripe, outcome, ledger, breaker>>

NotParked == -1
Verdicts ==
    {"rejected", "dropped", "deferred", "unfilled", "aborted", "abort_failed", "fired"}
RowStatus == {"none", "open", "closed", "aborted", "abort_failed"}

StoreTypeOK ==
    /\ stream \in Seq(Cands)
    /\ status \in [Cands -> Verdicts \cup {"pending"}]
    /\ hwm \in Nat
    /\ keys \in SUBSET Cands
    /\ parked \in [Cands -> {NotParked} \cup 1..FollowupMax]
    /\ ripe \in SUBSET Cands
    /\ outcome \in [Cands -> Verdicts \cup {"none"}]
    /\ ledger \in [Cands -> RowStatus]
    /\ breaker \in BOOLEAN

StoreInit ==
    /\ stream = <<>>
    /\ status = [c \in Cands |-> "pending"]
    /\ hwm = 0
    /\ keys = {}
    /\ parked = [c \in Cands |-> NotParked]
    /\ ripe = {}
    /\ outcome = [c \in Cands |-> "none"]
    /\ ledger = [c \in Cands |-> "none"]
    /\ breaker = FALSE

-----------------------------------------------------------------------------
(* What a pass reads. *)

IsParked(c) == parked[c] # NotParked
OpenRows == {c \in Cands : ledger[c] = "open"}

\* count_trades_opened_since, within one UTC day: every row counts, however
\* it was later resolved.
TradesToday == {c \in Cands : ledger[c] # "none"}

\* due_deferred: parked rows with next_check_at <= now.
DueDeferred == {c \in ripe : IsParked(c)}

-----------------------------------------------------------------------------
(* The methods that write. *)

\* enqueue: INSERT OR IGNORE, keyed by the candidate id.
EnqueueRow(c) ==
    /\ stream' = IF c \in ToSet(stream) THEN stream ELSE Append(stream, c)
    /\ UNCHANGED <<status, hwm, keys, parked, ripe, outcome, ledger, breaker>>

SetStatus(c, s) ==
    /\ status' = [status EXCEPT ![c] = s]
    /\ UNCHANGED <<stream, hwm, keys, parked, ripe, outcome, ledger, breaker>>

\* The write half of advance_hwm; its read half is a step of the pass.
WriteHwm(seq) ==
    /\ hwm' = seq
    /\ UNCHANGED <<stream, status, keys, parked, ripe, outcome, ledger, breaker>>

\* record_fire: INSERT OR IGNORE.  It reports a win only when the row is new.
\* Mutant of ClaimWins: an ignored insert is taken for a win.
AlwaysWins(c) == TRUE

ClaimWins(c) == c \notin keys

\* Mutant of RecordFire: the insert is never committed.
RecordNothing(c) == UNCHANGED storeVars

RecordFire(c) ==
    /\ keys' = keys \cup {c}
    /\ UNCHANGED <<stream, status, hwm, parked, ripe, outcome, ledger, breaker>>

ReleaseFire(c) ==
    /\ keys' = keys \ {c}
    /\ UNCHANGED <<stream, status, hwm, parked, ripe, outcome, ledger, breaker>>

LogDecision(c, o) ==
    /\ outcome' = [outcome EXCEPT ![c] = o]
    /\ UNCHANGED <<stream, status, hwm, keys, parked, ripe, ledger, breaker>>

\* defer_candidate: an upsert that also moves next_check_at into the future.
DeferCandidate(c, attempts) ==
    /\ parked' = [parked EXCEPT ![c] = attempts]
    /\ ripe' = ripe \ {c}
    /\ UNCHANGED <<stream, status, hwm, keys, outcome, ledger, breaker>>

DropDeferred(c) ==
    /\ parked' = [parked EXCEPT ![c] = NotParked]
    /\ ripe' = ripe \ {c}
    /\ UNCHANGED <<stream, status, hwm, keys, outcome, ledger, breaker>>

OpenTrade(c) ==
    /\ ledger' = [ledger EXCEPT ![c] = "open"]
    /\ UNCHANGED <<stream, status, hwm, keys, parked, ripe, outcome, breaker>>

ResolveTrade(c, s) ==
    /\ ledger' = [ledger EXCEPT ![c] = s]
    /\ UNCHANGED <<stream, status, hwm, keys, parked, ripe, outcome, breaker>>

SetBreaker(on) ==
    /\ breaker' = on
    /\ UNCHANGED <<stream, status, hwm, keys, parked, ripe, outcome, ledger>>

\* Time passes: a parked candidate's next_check_at is reached.
ComeDue(c) ==
    /\ IsParked(c)
    /\ c \notin ripe
    /\ ripe' = ripe \cup {c}
    /\ UNCHANGED <<stream, status, hwm, keys, parked, outcome, ledger, breaker>>
=============================================================================
