----------------------------- MODULE Supervisor -----------------------------
(***************************************************************************)
(* `hl agent run`: the loop of hlcli/agent/supervisor.py over its four     *)
(* jobs - poll the intake directory, firing pass, sentry pass, daily job   *)
(* (hlcli/agent/daily.py) - with its cadences, its backoff and the         *)
(* heartbeat other processes read (hlcli/agent/liveness.py).               *)
(*                                                                         *)
(* Time is counted in poll intervals.  What the code compares is kept as   *)
(* the time since an event, which stops counting where every comparison    *)
(* has come out; the calendar stops at the end of its last day.  A tick    *)
(* works with the clock it read at its start (agent.since is the time      *)
(* passed since), the daily job and a failing tick read it again.          *)
(***************************************************************************)
EXTENDS IntakeWatch, DayJournal, Promotion

CONSTANTS
    Operator,        \* who runs `hl tune promote` by hand
    AutoPromotes,    \* is this the paper network?
    ExecEvery, SentryEvery,   \* the two cadences
    StaleAfter,      \* age past which a heartbeat counts as dead
    MaxBackoff,
    DayLength,
    DailyAt,         \* HL_AGENT_DAILY_UTC
    MaxProposals,    \* bound: tuner runs that propose something
    MaxFaults        \* bound: crashes and calls that end a tick by raising

Agent == "agent"

ASSUME SupervisorAssumption ==
    /\ Promoters = {Agent, Operator}
    /\ AutoPromotes \in BOOLEAN
    /\ {ExecEvery, SentryEvery, MaxBackoff, DayLength} \subseteq Nat \ {0}
    /\ DailyAt \in 0..DayLength - 1
    /\ {StaleAfter, MaxProposals, MaxFaults} \subseteq Nat

VARIABLES
    clock,       \* [day, hour]
    execAge,     \* time since _last_exec
    sentryAge,   \* time since _last_sentry
    beat,        \* time since the meta row agent_last_tick_ts, or NeverBeat
    lastDaily,   \* meta agent_last_daily_date
    agent,       \* the process: where it is in its loop and what it holds
    started,     \* how often the daily job of a date was started
    faults

agentVars == <<clock, execAge, sentryAge, beat, lastDaily, agent, started, faults>>
vars == <<intakeVars, journalVars, promotionVars, agentVars>>

Least(m, n) == IF m < n THEN m ELSE n
Greatest(m, n) == IF m < n THEN n ELSE m

NeverBeat == -1
NoDay == 0
Oldest == StaleAfter + 1
Longest == Greatest(Oldest, Greatest(ExecEvery, SentryEvery))

\* backoff_delay, base one poll interval.
Backoff(failures) == IF failures = 0 THEN 1 ELSE Least(2 ^ Least(failures, 10), MaxBackoff)

\* classify: a heartbeat is read as dead once it is older than StaleAfter.
Stale == beat > StaleAfter

Stages == {"down", "nap", "poll", "file", "exec", "sentry", "daily", "journal",
           "lesson", "write", "tune", "promote", "report", "stamp", "beat"}

AgentType ==
    [at       : Stages,
     since    : 0..Longest,             \* since the tick's clock reading
     day      : Days,                   \* the date of that reading
     dueNow   : SUBSET {"exec", "sentry", "daily"},   \* what it found due
     files    : SUBSET Files,           \* files of this poll still to do
     rest     : Seq(Cands),             \* what is left of the batch in hand
     enqueued : BOOLEAN,                \* IntakeResult.enqueued > 0
     date     : Days,                   \* the day being journaled
     failures : 0..MaxFaults,
     nap      : 0..MaxBackoff]

Down == [at |-> "down", since |-> 0, day |-> 1, dueNow |-> {}, files |-> {}, rest |-> <<>>,
         enqueued |-> FALSE, date |-> 0, failures |-> 0, nap |-> 0]

TypeOK ==
    /\ IntakeTypeOK /\ JournalTypeOK /\ PromotionTypeOK
    /\ clock \in [day : 1..LastDay, hour : 0..DayLength - 1]
    /\ execAge \in 0..ExecEvery
    /\ sentryAge \in 0..SentryEvery
    /\ beat \in NeverBeat..Oldest
    /\ lastDaily \in Days
    /\ agent \in AgentType
    /\ started \in [Days -> Nat]
    /\ faults \in 0..MaxFaults

Init ==
    /\ IntakeInit /\ JournalInit /\ PromotionInit
    /\ clock = [day |-> 1, hour |-> 0]
    /\ execAge = ExecEvery
    /\ sentryAge = SentryEvery
    /\ beat = NeverBeat
    /\ lastDaily = NoDay
    /\ agent = Down
    /\ started = [d \in Days |-> 0]
    /\ faults = 0

-----------------------------------------------------------------------------
(* The world. *)

\* Time that counts passes between ticks and in two stages of a tick: the firing pass stands
\* for both passes, the tuners for every model call of the daily job.
Slow == {"down", "nap", "exec", "tune"}
Ticking == agent.at \notin {"down", "nap"}

TimePasses ==
    /\ agent.at \in Slow
    /\ clock' = IF clock.hour < DayLength - 1 THEN [clock EXCEPT !.hour = @ + 1]
                ELSE IF clock.day < LastDay THEN [day |-> clock.day + 1, hour |-> 0]
                ELSE clock
    /\ execAge' = Least(execAge + 1, ExecEvery)
    /\ sentryAge' = Least(sentryAge + 1, SentryEvery)
    /\ beat' = IF beat = NeverBeat THEN beat ELSE Least(beat + 1, Oldest)
    /\ agent' = [agent EXCEPT !.since = IF Ticking THEN Least(@ + 1, Longest) ELSE 0,
                              !.nap = IF @ > 0 THEN @ - 1 ELSE 0]
    /\ UNCHANGED <<intakeVars, journalVars, promotionVars, lastDaily, started, faults>>

ProducerDrops(f) ==
    /\ Drop(f)
    /\ UNCHANGED <<journalVars, promotionVars, agentVars>>

OperatorPromotes ==
    /\ \/ ReadProposal(Operator)
       \/ GoLive(Operator)
       \/ Consume(Operator)
       \/ ConsumeRaises(Operator)
       \/ Record(Operator)
    /\ UNCHANGED <<intakeVars, journalVars, agentVars>>

-----------------------------------------------------------------------------
(* The loop.  Goes(stage) is a step of the process that ends before `stage`. *)

At(stage) == agent.at = stage
Goes(stage) == agent' = [agent EXCEPT !.at = stage]
QuietLoop == UNCHANGED <<clock, execAge, sentryAge, beat, lastDaily, started, faults>>

\* A new process: nothing is remembered, both cadences are long due, no nap before the
\* first tick.
Start ==
    /\ At("down")
    /\ agent' = [Down EXCEPT !.at = "nap"]
    /\ execAge' = ExecEvery
    /\ sentryAge' = SentryEvery
    /\ UNCHANGED <<intakeVars, journalVars, promotionVars, clock, beat, lastDaily, started, faults>>

\* Slip: due after the minute, not from it on.
DailyDueLate == clock.hour > DailyAt /\ lastDaily # clock.day

\* _daily_date_due, at the clock read when the tick starts.
DailyDue == clock.hour >= DailyAt /\ lastDaily # clock.day

BeginTick ==
    /\ At("nap")
    /\ agent.nap = 0
    /\ agent' = [agent EXCEPT !.at = "poll", !.since = 0, !.day = clock.day,
                              !.files = Found, !.enqueued = FALSE,
                              !.dueNow = {j \in {"exec", "sentry", "daily"} :
                                            CASE j = "exec" -> execAge >= ExecEvery
                                              [] j = "sentry" -> sentryAge >= SentryEvery
                                              [] OTHER -> DailyDue}]
    /\ QuietLoop
    /\ UNCHANGED <<intakeVars, journalVars, promotionVars>>

-----------------------------------------------------------------------------
(* poll: file by file in sorted order; a batch is enqueued row by row, then archived. *)

NextFile == CHOOSE f \in agent.files : \A g \in agent.files : f <= g

Quarantine ==
    /\ At("poll")
    /\ agent.files # {}
    /\ folder[NextFile] = "corrupt"
    /\ Archive(NextFile, "failed")
    /\ agent' = [agent EXCEPT !.files = @ \ {NextFile}]
    /\ QuietLoop
    /\ UNCHANGED <<journalVars, promotionVars>>

\* Slip: the file is moved away before its batch is in the stream.
ArchiveFirst ==
    /\ At("poll")
    /\ agent.files # {}
    /\ folder[NextFile] = "dropped"
    /\ Archive(NextFile, "processed")
    /\ agent' = [agent EXCEPT !.at = "file", !.rest = Batch[NextFile]]
    /\ QuietLoop
    /\ UNCHANGED <<journalVars, promotionVars>>

ParseBatch ==
    /\ At("poll")
    /\ agent.files # {}
    /\ folder[NextFile] = "dropped"
    /\ agent' = [agent EXCEPT !.at = "file", !.rest = Batch[NextFile]]
    /\ QuietLoop
    /\ UNCHANGED <<intakeVars, journalVars, promotionVars>>

EnqueueNext ==
    /\ At("file")
    /\ agent.rest # <<>>
    /\ Enqueue(Head(agent.rest))
    /\ agent' = [agent EXCEPT !.rest = Tail(@), !.enqueued = @ \/ IsNew(Head(agent.rest))]
    /\ QuietLoop
    /\ UNCHANGED <<journalVars, promotionVars>>

ArchiveBatch ==
    /\ At("file")
    /\ agent.rest = <<>>
    /\ Archive(NextFile, "processed")
    /\ agent' = [agent EXCEPT !.at = "poll", !.files = @ \ {NextFile}]
    /\ QuietLoop
    /\ UNCHANGED <<journalVars, promotionVars>>

PollDone ==
    /\ At("poll")
    /\ agent.files = {}
    /\ Goes("exec")
    /\ QuietLoop
    /\ UNCHANGED <<intakeVars, journalVars, promotionVars>>

-----------------------------------------------------------------------------
(* The passes. *)

\* Slip: only an arrival starts a pass.
ExecOnArrival == agent.enqueued

\* What the tick found due or enqueued is of no use after the pass it was found for.
PassedOn(job, stage) ==
    agent' = [agent EXCEPT !.at = stage, !.enqueued = FALSE, !.dueNow = @ \ {job}]

\* A batch that was just enqueued does not wait for the cadence.
ExecWanted == agent.enqueued \/ "exec" \in agent.dueNow

ExecPass ==
    /\ At("exec")
    /\ ExecWanted
    /\ HandleUpTo(BatchEnd)
    /\ execAge' = Least(agent.since, ExecEvery)
    /\ PassedOn("exec", "sentry")
    /\ UNCHANGED <<journalVars, promotionVars, clock, sentryAge, beat, lastDaily, started, faults>>

SentryPass ==
    /\ At("sentry")
    /\ "sentry" \in agent.dueNow
    /\ sentryAge' = Least(agent.since, SentryEvery)
    /\ PassedOn("sentry", "daily")
    /\ UNCHANGED <<intakeVars, journalVars, promotionVars, clock, execAge, beat, lastDaily,
                   started, faults>>

SkipPass ==
    /\ \/ At("exec") /\ ~ExecWanted /\ Goes("sentry")
       \/ At("sentry") /\ "sentry" \notin agent.dueNow /\ Goes("daily")
       \/ At("daily") /\ "daily" \notin agent.dueNow /\ Goes("beat")
    /\ QuietLoop
    /\ UNCHANGED <<intakeVars, journalVars, promotionVars>>

-----------------------------------------------------------------------------
(* The daily job. *)

\* run_daily reads the clock again and journals the day before that reading.
StartDaily ==
    /\ At("daily")
    /\ "daily" \in agent.dueNow
    /\ agent' = [agent EXCEPT !.at = "journal", !.date = clock.day - 1]
    /\ started' = [started EXCEPT ![agent.day] = @ + 1]
    /\ UNCHANGED <<intakeVars, journalVars, promotionVars, clock, execAge, sentryAge, beat,
                   lastDaily, faults>>

\* Slip: without a narrative there is no file.
NarrativeOrNothing ==
    /\ At("journal")
    /\ \/ /\ ~Cached(agent.date)
          /\ CacheNarrative(agent.date, "plain")
          /\ Goes("write")
       \/ Goes("tune") /\ UNCHANGED journalVars
    /\ QuietLoop
    /\ UNCHANGED <<intakeVars, promotionVars>>

\* A model call that raises or answers nothing degrades the file and is not cached.
Narrate ==
    /\ At("journal")
    /\ \/ /\ ~Cached(agent.date)
          /\ \E kind \in {"plain", "lesson"} :
                 /\ CacheNarrative(agent.date, kind)
                 /\ Goes(IF kind = "lesson" THEN "lesson" ELSE "write")
       \/ Goes("write") /\ UNCHANGED journalVars
    /\ QuietLoop
    /\ UNCHANGED <<intakeVars, promotionVars>>

KeepLesson ==
    /\ At("lesson")
    /\ AddReflection(agent.date)
    /\ Goes("write")
    /\ QuietLoop
    /\ UNCHANGED <<intakeVars, promotionVars>>

WriteJournal ==
    /\ At("write")
    /\ WriteFile(agent.date)
    /\ agent' = [agent EXCEPT !.at = "tune", !.date = 0]
    /\ QuietLoop
    /\ UNCHANGED <<intakeVars, promotionVars>>

\* The tuners propose something, or see too thin a record.
Tune ==
    /\ At("tune")
    /\ \/ written < MaxProposals /\ WriteProposal
       \/ UNCHANGED promotionVars
    /\ Goes("promote")
    /\ QuietLoop
    /\ UNCHANGED <<intakeVars, journalVars>>

\* Paper only.  The code that follows a promotion is the report.
Promote ==
    /\ At("promote")
    /\ \/ /\ AutoPromotes
          /\ \/ ReadProposal(Agent)
             \/ GoLive(Agent)
             \/ Consume(Agent)
          /\ UNCHANGED agent
       \/ (Record(Agent) \/ ConsumeRaises(Agent)) /\ Goes("report")
       \/ /\ promo[Agent] = Idle
          /\ ~AutoPromotes \/ proposed = NoFile
          /\ Goes("report")
          /\ UNCHANGED promotionVars
    /\ QuietLoop
    /\ UNCHANGED <<intakeVars, journalVars>>

\* Slip: a call that raises in the tuners ends the tick.
TunerFaultEndsTick ==
    /\ At("tune") \/ At("promote")
    /\ Forget(Agent)
    /\ agent' = [Down EXCEPT !.at = "nap", !.nap = 1]
    /\ UNCHANGED <<intakeVars, journalVars, clock, execAge, sentryAge, beat, lastDaily,
                   started, faults>>

\* _run_tuners catches what the tuners and the promotion raise.
TunerFault ==
    /\ At("tune") \/ At("promote")
    /\ Forget(Agent)
    /\ Goes("report")
    /\ UNCHANGED <<intakeVars, journalVars, clock, execAge, sentryAge, beat, lastDaily,
                   started, faults>>

Report ==
    /\ At("report")
    /\ Goes("stamp")
    /\ QuietLoop
    /\ UNCHANGED <<intakeVars, journalVars, promotionVars>>

\* The date written is the date that was due.
Stamp ==
    /\ At("stamp")
    /\ lastDaily' = agent.day
    /\ Goes("beat")
    /\ UNCHANGED <<intakeVars, journalVars, promotionVars, clock, execAge, sentryAge, beat,
                   started, faults>>

\* The heartbeat is the clock reading of the tick's start.
EndTick ==
    /\ At("beat")
    /\ beat' = Least(agent.since, Oldest)
    /\ agent' = [Down EXCEPT !.at = "nap", !.nap = Backoff(0)]
    /\ UNCHANGED <<intakeVars, journalVars, promotionVars, clock, execAge, sentryAge,
                   lastDaily, started, faults>>

-----------------------------------------------------------------------------
(* What goes wrong. *)

\* A pass that ends early has handled some of its rows.
PassMayHaveRun ==
    IF At("exec") /\ ExecWanted THEN \E seq \in done..BatchEnd : HandleUpTo(seq)
    ELSE UNCHANGED intakeVars

\* A call raises: the tick is over, a fresh heartbeat is written, the nap grows.
Raise ==
    /\ agent.at \in {"poll", "file", "exec", "sentry", "journal", "lesson", "write", "report",
                     "stamp", "beat"}
    /\ faults < MaxFaults
    /\ faults' = faults + 1
    /\ PassMayHaveRun
    /\ beat' = 0
    /\ agent' = [Down EXCEPT !.at = "nap", !.failures = agent.failures + 1,
                             !.nap = Backoff(agent.failures + 1)]
    /\ UNCHANGED <<journalVars, promotionVars, clock, execAge, sentryAge, lastDaily, started>>

Die ==
    /\ ~At("down")
    /\ faults < MaxFaults
    /\ faults' = faults + 1
    /\ PassMayHaveRun
    /\ Forget(Agent)
    /\ agent' = Down
    /\ UNCHANGED <<journalVars, clock, execAge, sentryAge, beat, lastDaily, started>>

Loop ==
    \/ BeginTick
    \/ Quarantine \/ ParseBatch \/ EnqueueNext \/ ArchiveBatch \/ PollDone
    \/ ExecPass \/ SentryPass \/ SkipPass
    \/ StartDaily \/ Narrate \/ KeepLesson \/ WriteJournal \/ Tune \/ Promote
    \/ Report \/ Stamp \/ EndTick

Next ==
    \/ Loop
    \/ Start
    \/ TunerFault
    \/ Raise
    \/ Die
    \/ TimePasses
    \/ \E f \in Files : ProducerDrops(f)
    \/ OperatorPromotes

Spec == Init /\ [][Next]_vars

\* `while True` with everything that raises caught; time passes.
FairSpec == Spec /\ WF_vars(Loop) /\ WF_vars(TimePasses)

-----------------------------------------------------------------------------
(* Properties. *)

\* A batch whose file was archived is in the stream, whatever died in between
\* (intake_watch.py:57-60: enqueue, then move).
ArchivedIsQueued ==
    \A f \in Files : folder[f] = "processed" => ToSet(Batch[f]) \subseteq ToSet(queue)

\* The daily job of a date is started again only after a crash or a raise outside the
\* tuners; a fault the job catches never costs a second run (supervisor.py:112-115,
\* daily.py:76-79).
JobRunsBounded == \A d \in Days : started[d] <= 1 + faults

\* A day's job leaves a journal of the day before it - or of a later day, when its tick ran
\* past midnight - however its model calls went (daily.py:48).
JobJournals == lastDaily # NoDay => \E d \in journaled : d >= lastDaily - 1

\* A promotion uses up a proposal, however promoters and tuner runs overlap: no more
\* entries reach the audit trail than proposals were written (promote.py:82-84).
AuditedIsConsumed ==
    LET consumed == {p \in Promoters : promo[p].next = "record"}
        pending  == IF proposed = NoFile THEN 0 ELSE 1
    IN  Len(audit) + Cardinality(consumed) + pending <= written

Up == ~At("down")
KeepsRunning == []<>Up

\* The stream is drained in the end, also when the pass that a batch's arrival triggered
\* failed, as long as somebody restarts a dead agent (supervisor.py:100).
QueueIsDrained == KeepsRunning => []<>(done = Len(queue))

\* The daily job is served in the end, whatever a tick ran into (supervisor.py:112-115).
DailyIsServed == KeepsRunning => <>(lastDaily = LastDay)

\* What supervisor.py:153-154 says: a failing loop is marked alive, "backing off", not
\* stopped.
BackingOffReadsAlive == agent.failures > 0 /\ agent.nap > 0 => ~Stale
=============================================================================
