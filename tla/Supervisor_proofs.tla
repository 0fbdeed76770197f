-------------------------- MODULE Supervisor_proofs --------------------------
(***************************************************************************)
(* Proofs about the agent's loop: for any number of days, files and        *)
(* candidates, any cadences, and any number of crashes and raised calls.   *)
(***************************************************************************)
EXTENDS Supervisor, FiniteSetTheorems, WellFoundedInduction, TLAPS

-----------------------------------------------------------------------------
(* Type correctness.  The backoff counts failures, and each of them was a  *)
(* fault: that is what bounds it.                                          *)

FailuresAreFaults == agent.failures <= faults

ClockTypeOK ==
    /\ clock \in [day : 1..LastDay, hour : 0..DayLength - 1]
    /\ execAge \in 0..ExecEvery
    /\ sentryAge \in 0..SentryEvery
    /\ beat \in NeverBeat..Oldest
    /\ lastDaily \in Days
    /\ started \in [Days -> Nat]
    /\ faults \in 0..MaxFaults

TypeInv ==
    /\ IntakeTypeOK /\ JournalTypeOK /\ PromotionTypeOK
    /\ ClockTypeOK
    /\ agent \in AgentType
    /\ FailuresAreFaults

(* What the constants are, for arithmetic. *)
LEMMA Constants ==
    /\ ExecEvery \in Nat \ {0} /\ SentryEvery \in Nat \ {0} /\ MaxBackoff \in Nat \ {0}
    /\ DayLength \in Nat \ {0} /\ StaleAfter \in Nat /\ MaxFaults \in Nat
    /\ LastDay \in Nat \ {0}
    /\ Oldest \in Nat /\ Longest \in Nat /\ NeverBeat = -1 /\ Oldest <= Longest
    /\ Days = 0..LastDay
    /\ Agent \in Promoters /\ Operator \in Promoters
BY SupervisorAssumption, JournalAssumption
DEF SupervisorAssumption, JournalAssumption, Oldest, Longest, Greatest, NeverBeat, Days

LEMMA OneMore ==
    ASSUME NEW M \in Nat, NEW k \in 0..M, NEW n \in 0..M, k <= n, n < M
    PROVE  k + 1 \in 0..M /\ k + 1 \in Nat /\ n + 1 \in 0..M /\ k + 1 <= n + 1
OBVIOUS

LEMMA LeastBounded ==
    ASSUME NEW m \in Nat, NEW n \in Nat PROVE Least(m, n) \in 0..n /\ Least(m, n) \in Nat
BY DEF Least

Doubled(k) == 2 ^ k

(* The nap after any number of failures is within the cap. *)
LEMMA BackoffBounded ==
    ASSUME NEW n \in Nat PROVE Backoff(n) \in 0..MaxBackoff
<1>1. CASE n = 0
  BY <1>1, Constants DEF Backoff
<1>2. CASE n # 0
  <2>1. Backoff(n) = Least(2 ^ Least(n, 10), MaxBackoff)
    BY <1>2 DEF Backoff
  <2>2. Least(n, 10) \in 0..10
    BY LeastBounded
  <2>3. ASSUME NEW k \in 0..10 PROVE 2 ^ k \in Nat
    <3>1. /\ Doubled(0) \in Nat /\ Doubled(1) \in Nat /\ Doubled(2) \in Nat
          /\ Doubled(3) \in Nat /\ Doubled(4) \in Nat /\ Doubled(5) \in Nat
          /\ Doubled(6) \in Nat /\ Doubled(7) \in Nat /\ Doubled(8) \in Nat
          /\ Doubled(9) \in Nat /\ Doubled(10) \in Nat
      BY DEF Doubled
    <3>2. k \in {0, 1, 2, 3, 4, 5, 6, 7, 8, 9, 10}
      OBVIOUS
    <3>3. Doubled(k) \in Nat
      BY <3>1, <3>2
    <3> QED BY <3>3 DEF Doubled
  <2>4. 2 ^ Least(n, 10) \in Nat
    BY <2>2, <2>3
  <2> QED BY <2>1, <2>4, LeastBounded, Constants
<1> QED BY <1>1, <1>2

LEMMA DownIsAgent == Down \in AgentType /\ Down.failures = 0 /\ Down.nap = 0
<1>1. <<>> \in Seq(Cands)
  OBVIOUS
<1> QED BY <1>1, Constants DEF Down, AgentType, Stages

(* Each component's steps keep its variables to their kinds. *)
LEMMA IntakeKeepsType ==
    ASSUME TypeInv, [Next]_vars PROVE IntakeTypeOK'
<1>1. CASE UNCHANGED intakeVars
  BY <1>1 DEF TypeInv, IntakeTypeOK, intakeVars
<1>2. ASSUME NEW f, NEW place \in Places, Archive(f, place)
      PROVE  IntakeTypeOK'
  BY <1>2 DEF TypeInv, IntakeTypeOK, Archive
<1>3. ASSUME NEW f, Drop(f)
      PROVE  IntakeTypeOK'
  BY <1>3 DEF TypeInv, IntakeTypeOK, Drop, Waiting, Places
<1>4. ASSUME NEW c \in Cands, Enqueue(c)
      PROVE  IntakeTypeOK'
  BY <1>4 DEF TypeInv, IntakeTypeOK, Enqueue
<1>5. ASSUME NEW n \in Nat, HandleUpTo(n)
      PROVE  IntakeTypeOK'
  BY <1>5 DEF TypeInv, IntakeTypeOK, HandleUpTo
<1>6. BatchEnd \in Nat /\ done \in Nat
  BY IntakeAssumption DEF TypeInv, IntakeTypeOK, BatchEnd, IntakeAssumption
<1>7. CASE EnqueueNext
  <2>1. agent.rest \in Seq(Cands) /\ agent.rest # <<>>
    BY <1>7 DEF EnqueueNext, TypeInv, AgentType
  <2> QED BY <1>4, <1>7, <2>1 DEF EnqueueNext
<1>8. CASE Quarantine \/ ArchiveBatch
  BY <1>2, <1>8 DEF Quarantine, ArchiveBatch, Places
<1>9. CASE ExecPass
  BY <1>5, <1>6, <1>9 DEF ExecPass
<1>10. CASE Raise \/ Die
  <2>1. PassMayHaveRun
    BY <1>10 DEF Raise, Die
  <2>2. CASE At("exec") /\ ExecWanted
    <3>1. PICK n \in done..BatchEnd : HandleUpTo(n)
      BY <2>1, <2>2 DEF PassMayHaveRun
    <3> QED BY <1>5, <1>6, <3>1
  <2> QED BY <1>1, <2>1, <2>2 DEF PassMayHaveRun
<1>11. ASSUME NEW f \in Files, ProducerDrops(f)
       PROVE  IntakeTypeOK'
  BY <1>3, <1>11 DEF ProducerDrops
<1>12. CASE \/ BeginTick \/ ParseBatch \/ PollDone \/ SentryPass \/ SkipPass
            \/ StartDaily \/ Narrate \/ KeepLesson \/ WriteJournal \/ Tune \/ Promote
            \/ Report \/ Stamp \/ EndTick \/ Start \/ TunerFault \/ TimePasses
            \/ OperatorPromotes \/ UNCHANGED vars
  <2>1. UNCHANGED intakeVars
    BY <1>12 DEF BeginTick, ParseBatch, PollDone, SentryPass, SkipPass, StartDaily, Narrate,
       KeepLesson, WriteJournal, Tune, Promote, Report, Stamp, EndTick, Start, TunerFault,
       TimePasses, OperatorPromotes, vars
  <2> QED BY <1>1, <2>1
<1> QED BY <1>7, <1>8, <1>9, <1>10, <1>11, <1>12 DEF Next, Loop

LEMMA JournalKeepsType ==
    ASSUME TypeInv, [Next]_vars PROVE JournalTypeOK'
<1>1. CASE UNCHANGED journalVars
  BY <1>1 DEF TypeInv, JournalTypeOK, journalVars
<1>2. ASSUME NEW d \in Days, NEW kind \in {"plain", "lesson"}, CacheNarrative(d, kind)
      PROVE  JournalTypeOK'
  BY <1>2 DEF TypeInv, JournalTypeOK, CacheNarrative
<1>3. ASSUME NEW d \in Days, AddReflection(d) \/ WriteFile(d)
      PROVE  JournalTypeOK'
  BY <1>3 DEF TypeInv, JournalTypeOK, AddReflection, WriteFile
<1>4. agent.date \in Days
  BY DEF TypeInv, AgentType
<1>5. CASE Narrate
  <2>1. \/ UNCHANGED journalVars
        \/ \E kind \in {"plain", "lesson"} : CacheNarrative(agent.date, kind)
    BY <1>5 DEF Narrate
  <2> QED BY <1>1, <1>2, <1>4, <2>1
<1>6. CASE KeepLesson \/ WriteJournal
  BY <1>3, <1>4, <1>6 DEF KeepLesson, WriteJournal
<1>7. CASE \/ BeginTick \/ Quarantine \/ ParseBatch \/ EnqueueNext \/ ArchiveBatch \/ PollDone
           \/ ExecPass \/ SentryPass \/ SkipPass \/ StartDaily \/ Tune \/ Promote
           \/ Report \/ Stamp \/ EndTick \/ Start \/ TunerFault \/ Raise \/ Die \/ TimePasses
           \/ (\E f \in Files : ProducerDrops(f)) \/ OperatorPromotes \/ UNCHANGED vars
  <2>1. UNCHANGED journalVars
    BY <1>7 DEF BeginTick, Quarantine, ParseBatch, EnqueueNext, ArchiveBatch, PollDone,
       ExecPass, SentryPass, SkipPass, StartDaily, Tune, Promote, Report, Stamp, EndTick, Start,
       TunerFault, Raise, Die, TimePasses, ProducerDrops, OperatorPromotes, vars
  <2> QED BY <1>1, <2>1
<1> QED BY <1>5, <1>6, <1>7 DEF Next, Loop

(* The steps a promoter can take. *)
PromoterSteps(p) ==
    ReadProposal(p) \/ GoLive(p) \/ Consume(p) \/ ConsumeRaises(p) \/ Record(p) \/ Forget(p)

(* What any step does to the proposals, the active file and the audit.     *)
LEMMA PromotionMoves ==
    ASSUME [Next]_vars
    PROVE  \/ UNCHANGED promotionVars
           \/ WriteProposal
           \/ \E p \in Promoters : PromoterSteps(p)
<1>1. CASE Tune
  BY <1>1 DEF Tune
<1>2. CASE Promote
  BY <1>2, Constants DEF Promote, PromoterSteps
<1>3. CASE TunerFault \/ Die
  BY <1>3, Constants DEF TunerFault, Die, PromoterSteps
<1>4. CASE OperatorPromotes
  BY <1>4, Constants DEF OperatorPromotes, PromoterSteps
<1>5. CASE \/ BeginTick \/ Quarantine \/ ParseBatch \/ EnqueueNext \/ ArchiveBatch \/ PollDone
           \/ ExecPass \/ SentryPass \/ SkipPass \/ StartDaily \/ Narrate \/ KeepLesson
           \/ WriteJournal \/ Report \/ Stamp \/ EndTick \/ Start \/ Raise \/ TimePasses
           \/ (\E f \in Files : ProducerDrops(f)) \/ UNCHANGED vars
  BY <1>5 DEF BeginTick, Quarantine, ParseBatch, EnqueueNext, ArchiveBatch, PollDone, ExecPass,
     SentryPass, SkipPass, StartDaily, Narrate, KeepLesson, WriteJournal, Report, Stamp, EndTick,
     Start, Raise, TimePasses, ProducerDrops, vars, promotionVars
<1> QED BY <1>1, <1>2, <1>3, <1>4, <1>5 DEF Next, Loop

LEMMA PromotionKeepsType ==
    ASSUME TypeInv, [Next]_vars PROVE PromotionTypeOK'
<1>1. CASE UNCHANGED promotionVars
  BY <1>1 DEF TypeInv, PromotionTypeOK, promotionVars
<1>2. CASE WriteProposal
  BY <1>2 DEF TypeInv, PromotionTypeOK, WriteProposal
<1>3. ASSUME NEW p \in Promoters, PromoterSteps(p)
      PROVE  PromotionTypeOK'
  <2>0. promo[p].version \in Nat
    BY DEF TypeInv, PromotionTypeOK
  <2>1. CASE ReadProposal(p)
    BY <2>1 DEF TypeInv, PromotionTypeOK, ReadProposal
  <2>4. CASE GoLive(p)
    BY <2>0, <2>4 DEF TypeInv, PromotionTypeOK, GoLive
  <2>5. CASE Consume(p)
    BY <2>5 DEF TypeInv, PromotionTypeOK, Consume, NoFile
  <2>2. CASE ConsumeRaises(p) \/ Forget(p)
    <3>1. Idle \in [next : {"idle", "live", "unlink", "record"}, version : Nat]
      BY DEF Idle, NoFile
    <3> QED BY <2>2, <3>1 DEF TypeInv, PromotionTypeOK, ConsumeRaises, Forget
  <2>3. CASE Record(p)
    BY <2>0, <2>3 DEF TypeInv, PromotionTypeOK, Record, Idle, NoFile
  <2> QED BY <1>3, <2>1, <2>2, <2>3, <2>4, <2>5 DEF PromoterSteps
<1> QED BY <1>1, <1>2, <1>3, PromotionMoves

LEMMA ClockKeepsType ==
    ASSUME TypeInv, [Next]_vars PROVE ClockTypeOK'
<1>a. /\ ClockTypeOK /\ agent.since \in 0..Longest /\ agent.day \in Days
      /\ clock.day \in 1..LastDay /\ clock.hour \in 0..DayLength - 1
      /\ \A d \in Days : started[d] \in Nat
  BY DEF TypeInv, AgentType, ClockTypeOK
<1>b. /\ execAge \in 0..ExecEvery /\ sentryAge \in 0..SentryEvery /\ beat \in NeverBeat..Oldest
      /\ faults \in 0..MaxFaults
  BY <1>a DEF ClockTypeOK
<1>c. /\ execAge + 1 \in Nat /\ sentryAge + 1 \in Nat /\ faults \in Nat
      /\ agent.since \in Nat /\ (beat # NeverBeat => beat + 1 \in Nat)
      /\ Oldest \in Nat /\ ExecEvery \in Nat /\ SentryEvery \in Nat
  BY <1>a, <1>b, Constants
<1>0. ClockTypeOK /\ clock \in [day : 1..LastDay, hour : 0..DayLength - 1]
      /\ clock.day \in 1..LastDay /\ clock.hour \in 0..DayLength - 1
  BY <1>a DEF ClockTypeOK
<1>d. /\ 0..Oldest \subseteq NeverBeat..Oldest
      /\ ExecEvery \in 0..ExecEvery /\ SentryEvery \in 0..SentryEvery
  BY <1>c, Constants
<1>1. CASE UNCHANGED <<clock, execAge, sentryAge, beat, lastDaily, started, faults>>
  BY <1>0, <1>1 DEF ClockTypeOK
<1>2. CASE TimePasses
  <2>1. clock' \in [day : 1..LastDay, hour : 0..DayLength - 1]
    <3>0. LastDay \in Nat /\ DayLength \in Nat \ {0}
      BY Constants
    <3>1. /\ clock.hour < DayLength - 1 => clock.hour + 1 \in 0..DayLength - 1
          /\ clock.day < LastDay => clock.day + 1 \in 1..LastDay
          /\ 0 \in 0..DayLength - 1
      BY <1>0, <3>0
    <3>2. \/ clock' = clock
          \/ clock.hour < DayLength - 1 /\ clock' = [clock EXCEPT !.hour = clock.hour + 1]
          \/ clock.day < LastDay /\ clock' = [day |-> clock.day + 1, hour |-> 0]
      BY <1>0, <1>2 DEF TimePasses, ClockTypeOK
    <3> QED BY <1>0, <3>1, <3>2 DEF ClockTypeOK
  <2>2. execAge' = Least(execAge + 1, ExecEvery) /\ sentryAge' = Least(sentryAge + 1, SentryEvery)
    BY <1>2 DEF TimePasses
  <2>3. execAge' \in 0..ExecEvery /\ sentryAge' \in 0..SentryEvery
    BY <1>c, <2>2, LeastBounded
  <2>4. beat' \in NeverBeat..Oldest
    <3>1. beat' = IF beat = NeverBeat THEN beat ELSE Least(beat + 1, Oldest)
      BY <1>2 DEF TimePasses
    <3>2. beat # NeverBeat => Least(beat + 1, Oldest) \in 0..Oldest
      BY <1>c, LeastBounded
    <3> QED BY <1>b, <1>d, <3>1, <3>2
  <2>5. UNCHANGED <<lastDaily, started, faults>>
    BY <1>2 DEF TimePasses
  <2> QED BY <1>0, <2>1, <2>3, <2>4, <2>5 DEF ClockTypeOK
<1>3. CASE ExecPass \/ SentryPass \/ EndTick \/ Start
  <2>1. /\ execAge' \in {execAge, Least(agent.since, ExecEvery), ExecEvery}
        /\ sentryAge' \in {sentryAge, Least(agent.since, SentryEvery), SentryEvery}
        /\ beat' \in {beat, Least(agent.since, Oldest)}
        /\ UNCHANGED <<clock, lastDaily, started, faults>>
    BY <1>3 DEF ExecPass, SentryPass, EndTick, Start
  <2>2. /\ Least(agent.since, ExecEvery) \in 0..ExecEvery
        /\ Least(agent.since, SentryEvery) \in 0..SentryEvery
        /\ Least(agent.since, Oldest) \in 0..Oldest
    BY <1>c, LeastBounded
  <2>3. execAge' \in 0..ExecEvery /\ sentryAge' \in 0..SentryEvery /\ beat' \in NeverBeat..Oldest
    BY <1>b, <1>d, <2>1, <2>2
  <2> QED BY <1>0, <2>1, <2>3 DEF ClockTypeOK
<1>4. CASE StartDaily \/ Stamp
  <2>1. /\ UNCHANGED <<clock, execAge, sentryAge, beat, faults>>
        /\ lastDaily' \in {lastDaily, agent.day}
        /\ started' \in {started, [started EXCEPT ![agent.day] = @ + 1]}
    BY <1>4 DEF StartDaily, Stamp
  <2>2. started[agent.day] + 1 \in Nat
    BY <1>a
  <2> QED BY <1>a, <2>1, <2>2 DEF ClockTypeOK
<1>5. CASE Raise \/ Die
  <2>1. /\ UNCHANGED <<clock, execAge, sentryAge, lastDaily, started>>
        /\ beat' \in {beat, 0} /\ faults' = faults + 1 /\ faults < MaxFaults
    BY <1>5 DEF Raise, Die
  <2>2. faults' \in 0..MaxFaults
    BY <1>b, <2>1, OneMore, Constants
  <2>3. beat' \in NeverBeat..Oldest
    <3>1. 0 \in 0..Oldest
      BY <1>c
    <3> QED BY <1>b, <1>d, <2>1, <3>1
  <2> QED BY <1>a, <2>1, <2>2, <2>3 DEF ClockTypeOK
<1>6. CASE \/ BeginTick \/ Quarantine \/ ParseBatch \/ EnqueueNext \/ ArchiveBatch \/ PollDone
           \/ SkipPass \/ Narrate \/ KeepLesson \/ WriteJournal \/ Tune \/ Promote \/ Report
           \/ TunerFault \/ (\E f \in Files : ProducerDrops(f)) \/ OperatorPromotes
           \/ UNCHANGED vars
  <2>1. UNCHANGED <<clock, execAge, sentryAge, beat, lastDaily, started, faults>>
    BY <1>6 DEF BeginTick, Quarantine, ParseBatch, EnqueueNext, ArchiveBatch, PollDone, SkipPass,
       Narrate, KeepLesson, WriteJournal, Tune, Promote, Report, TunerFault, ProducerDrops,
       OperatorPromotes, QuietLoop, vars, agentVars
  <2> QED BY <1>1, <2>1
<1> QED BY <1>2, <1>3, <1>4, <1>5, <1>6 DEF Next, Loop

(* A poll takes the files in order, so there is always a next one.         *)
LEMMA NextFileIsOne ==
    ASSUME agent.files \in SUBSET Files, agent.files # {}
    PROVE  NextFile \in agent.files
<1>1. agent.files \subseteq Nat
  BY IntakeAssumption DEF IntakeAssumption
<1>2. PICK f \in agent.files : \A g \in agent.files : ~ (<<g, f>> \in OpToRel(<, Nat))
  BY <1>1, NatLessThanWellFounded, WFMin
<1>3. ASSUME NEW g \in agent.files PROVE f <= g
  <2>1. f \in Nat /\ g \in Nat /\ <<g, f>> \in Nat \X Nat
    BY <1>1
  <2>2. g < f => <<g, f>> \in OpToRel(<, Nat)
    BY <2>1 DEF OpToRel
  <2>3. ~ (g < f)
    BY <1>2, <2>2, Zenon
  <2> QED BY <2>1, <2>3
<1> QED BY <1>3 DEF NextFile

(* The process's own record. *)
LEMMA AgentKeepsType ==
    ASSUME TypeInv, [Next]_vars PROVE agent' \in AgentType /\ FailuresAreFaults'
<1>a. /\ agent \in AgentType /\ agent.failures <= faults
      /\ agent.failures \in 0..MaxFaults /\ agent.since \in 0..Longest
      /\ agent.nap \in 0..MaxBackoff /\ agent.date \in Days /\ agent.rest \in Seq(Cands)
      /\ agent.files \in SUBSET Files /\ agent.at \in Stages
  BY DEF TypeInv, FailuresAreFaults, AgentType
<1>b. faults \in 0..MaxFaults /\ clock.day \in 1..LastDay
  BY DEF TypeInv, ClockTypeOK
<1>c. clock.day \in Days /\ clock.day - 1 \in Days /\ agent.failures \in Nat
      /\ agent.since \in Nat /\ faults \in Nat
  BY <1>a, <1>b, Constants
<1>d. Least(agent.since + 1, Longest) \in 0..Longest
  <2>1. agent.since + 1 \in Nat /\ Longest \in Nat
    BY <1>c, Constants
  <2> QED BY <2>1, LeastBounded
<1>1. ASSUME NEW s \in Stages, Goes(s), faults' = faults
      PROVE  agent' \in AgentType /\ FailuresAreFaults'
  BY <1>a, <1>1 DEF Goes, AgentType, FailuresAreFaults
<1>2. ASSUME NEW n \in 0..MaxBackoff, NEW k \in 0..MaxFaults, k <= faults',
             agent' = [Down EXCEPT !.at = "nap", !.failures = k, !.nap = n]
      PROVE  agent' \in AgentType /\ FailuresAreFaults'
  BY <1>2, DownIsAgent DEF AgentType, FailuresAreFaults, Stages
<1>3. CASE agent' = agent /\ faults' = faults
  BY <1>a, <1>3 DEF FailuresAreFaults
<1>4. CASE TimePasses
  <2> DEFINE m == IF Ticking THEN Least(agent.since + 1, Longest) ELSE 0
             n == IF agent.nap > 0 THEN agent.nap - 1 ELSE 0
  <2>1. m \in 0..Longest
    <3>1. 0 \in 0..Longest
      BY Constants
    <3> QED BY <1>a, <1>d, <3>1
  <2>2. n \in 0..MaxBackoff
    BY <1>a, Constants
  <2>3. agent' = [agent EXCEPT !.since = m, !.nap = n] /\ faults' = faults
    BY <1>a, <1>4 DEF TimePasses, AgentType
  <2> HIDE DEF m, n
  <2> QED BY <1>a, <2>1, <2>2, <2>3 DEF AgentType, FailuresAreFaults
<1>5. CASE Start
  <2>1. agent' = [Down EXCEPT !.at = "nap"] /\ faults' = faults
    BY <1>5 DEF Start
  <2> QED BY <1>c, <2>1, DownIsAgent DEF AgentType, FailuresAreFaults, Stages
<1>6. CASE EndTick
  <2>1. agent' = [Down EXCEPT !.at = "nap", !.nap = Backoff(0)] /\ faults' = faults
    BY <1>6 DEF EndTick
  <2>2. Backoff(0) \in 0..MaxBackoff
    BY BackoffBounded
  <2>3. agent' \in AgentType
    BY <2>1, <2>2, DownIsAgent DEF AgentType, Stages
  <2>4. agent'.failures = 0
    BY <2>1, DownIsAgent DEF AgentType
  <2> QED BY <1>c, <2>1, <2>3, <2>4 DEF FailuresAreFaults
<1>7. CASE Raise
  <2>1. /\ faults < MaxFaults /\ faults' = faults + 1
        /\ agent' = [Down EXCEPT !.at = "nap", !.failures = agent.failures + 1,
                                 !.nap = Backoff(agent.failures + 1)]
    BY <1>7 DEF Raise
  <2>2. agent.failures + 1 \in 0..MaxFaults /\ agent.failures + 1 <= faults'
        /\ agent.failures + 1 \in Nat
    <3>1. MaxFaults \in Nat /\ faults < MaxFaults /\ faults' = faults + 1
      BY <2>1, Constants
    <3> QED BY <1>a, <1>b, <3>1, OneMore
  <2>3. Backoff(agent.failures + 1) \in 0..MaxBackoff
    BY <2>2, BackoffBounded
  <2> QED BY <1>2, <2>1, <2>2, <2>3
<1>8. CASE Die
  <2>1. agent' = Down /\ faults' = faults + 1
    BY <1>8 DEF Die
  <2> QED BY <1>c, <2>1, DownIsAgent DEF FailuresAreFaults
<1>9. CASE BeginTick
  <2>1. PICK due \in SUBSET {"exec", "sentry", "daily"} :
           agent' = [agent EXCEPT !.at = "poll", !.since = 0, !.day = clock.day,
                                  !.files = Found, !.enqueued = FALSE, !.dueNow = due]
    BY <1>9 DEF BeginTick
  <2>2. Found \in SUBSET Files /\ 0 \in 0..Longest /\ faults' = faults
    BY <1>9, Constants DEF Found, BeginTick, QuietLoop
  <2> QED BY <1>a, <1>c, <2>1, <2>2 DEF AgentType, FailuresAreFaults, Stages
<1>10. CASE Quarantine \/ ArchiveBatch
  <2>1. /\ agent' \in {[agent EXCEPT !.files = agent.files \ {NextFile}],
                       [agent EXCEPT !.at = "poll", !.files = agent.files \ {NextFile}]}
        /\ faults' = faults
    BY <1>a, <1>10 DEF Quarantine, ArchiveBatch, AgentType, QuietLoop
  <2>2. agent.files \ {NextFile} \in SUBSET Files
    BY <1>a
  <2> QED BY <1>a, <2>1, <2>2 DEF AgentType, FailuresAreFaults, Stages
<1>11. CASE ParseBatch
  <2>1. Batch[NextFile] \in Seq(Cands)
    BY <1>a, <1>11, NextFileIsOne, IntakeAssumption DEF ParseBatch, IntakeAssumption
  <2>2. agent' = [agent EXCEPT !.at = "file", !.rest = Batch[NextFile]] /\ faults' = faults
    BY <1>11 DEF ParseBatch, QuietLoop
  <2> QED BY <1>a, <2>1, <2>2 DEF AgentType, FailuresAreFaults, Stages
<1>12. CASE EnqueueNext
  <2>1. Tail(agent.rest) \in Seq(Cands)
    BY <1>a, <1>12 DEF EnqueueNext
  <2>2. PICK b \in BOOLEAN : agent' = [agent EXCEPT !.rest = Tail(agent.rest), !.enqueued = b]
    <3>1. agent.enqueued \/ IsNew(Head(agent.rest)) \in BOOLEAN
      BY DEF IsNew
    <3> QED BY <1>a, <1>12, <3>1 DEF EnqueueNext, AgentType
  <2>3. faults' = faults
    BY <1>12 DEF EnqueueNext, QuietLoop
  <2> QED BY <1>a, <2>1, <2>2, <2>3 DEF AgentType, FailuresAreFaults
<1>13. CASE StartDaily \/ WriteJournal
  <2>1. PICK s \in Stages, d \in Days : agent' = [agent EXCEPT !.at = s, !.date = d]
    <3>1. 0 \in Days /\ {"journal", "tune"} \subseteq Stages
      BY Constants DEF Stages
    <3> QED BY <1>c, <1>13, <3>1 DEF StartDaily, WriteJournal
  <2>2. faults' = faults
    BY <1>13 DEF StartDaily, WriteJournal, QuietLoop
  <2> QED BY <1>a, <2>1, <2>2 DEF AgentType, FailuresAreFaults
<1>15. CASE ExecPass \/ SentryPass
  <2>1. PICK s \in Stages, due \in SUBSET {"exec", "sentry", "daily"} :
           agent' = [agent EXCEPT !.at = s, !.enqueued = FALSE, !.dueNow = due]
    <3>1. /\ {"sentry", "daily"} \subseteq Stages
          /\ \A job : agent.dueNow \ {job} \in SUBSET {"exec", "sentry", "daily"}
      BY <1>a DEF AgentType, Stages
    <3> QED BY <1>15, <3>1 DEF ExecPass, SentryPass, PassedOn
  <2>2. faults' = faults
    BY <1>15 DEF ExecPass, SentryPass
  <2> QED BY <1>a, <2>1, <2>2 DEF AgentType, FailuresAreFaults
<1>14. CASE \/ PollDone \/ SkipPass \/ Narrate \/ KeepLesson \/ Tune
            \/ Promote \/ Report \/ Stamp \/ TunerFault \/ OperatorPromotes
            \/ (\E f \in Files : ProducerDrops(f)) \/ UNCHANGED vars
  <2>1. /\ faults' = faults
        /\ agent' = agent \/ \E s \in Stages : Goes(s)
    BY <1>14 DEF PollDone, SkipPass, Narrate, KeepLesson, Tune, Promote,
       Report, Stamp, TunerFault, OperatorPromotes, ProducerDrops, QuietLoop, vars, agentVars,
       Stages
  <2> QED BY <1>1, <1>3, <2>1
<1> QED BY <1>4, <1>5, <1>6, <1>7, <1>8, <1>9, <1>10, <1>11, <1>12, <1>13, <1>14, <1>15
       DEF Next, Loop

LEMMA TypeInvInit == Init => TypeInv
<1> SUFFICES ASSUME Init PROVE TypeInv
  OBVIOUS
<1>1. IntakeTypeOK
  <2>1. <<>> \in Seq(Cands)
    OBVIOUS
  <2> QED BY <2>1 DEF Init, IntakeInit, IntakeTypeOK, Places
<1>2. JournalTypeOK
  BY DEF Init, JournalInit, JournalTypeOK
<1>3. PromotionTypeOK
  <2>1. <<>> \in Seq(Nat)
    OBVIOUS
  <2>2. Idle \in [next : {"idle", "live", "unlink", "record"}, version : Nat]
    BY DEF Idle, NoFile
  <2> QED BY <2>1, <2>2 DEF Init, PromotionInit, PromotionTypeOK, NoFile
<1>4. ClockTypeOK
  <2>1. /\ 1 \in 1..LastDay /\ 0 \in 0..DayLength - 1 /\ 0 \in Days /\ 0 \in 0..MaxFaults
        /\ ExecEvery \in 0..ExecEvery /\ SentryEvery \in 0..SentryEvery
        /\ NeverBeat \in NeverBeat..Oldest
    BY Constants
  <2> QED BY <2>1 DEF Init, ClockTypeOK, NoDay
<1>5. agent \in AgentType /\ FailuresAreFaults
  BY DownIsAgent DEF Init, FailuresAreFaults
<1> QED BY <1>1, <1>2, <1>3, <1>4, <1>5 DEF TypeInv

(* TypeOK holds of every run of the agent: in particular the backoff's nap *)
(* stays within its cap however many failures are in a row (backoff.py:16).*)
THEOREM TypeCorrect == Spec => []TypeOK
<1>1. TypeInv /\ [Next]_vars => TypeInv'
  BY IntakeKeepsType, JournalKeepsType, PromotionKeepsType, ClockKeepsType, AgentKeepsType
  DEF TypeInv
<1>2. TypeInv => TypeOK
  BY DEF TypeInv, ClockTypeOK, TypeOK
<1> QED BY <1>1, <1>2, TypeInvInit, PTL DEF Spec

LEMMA TypeAlways == Spec => []TypeInv
<1>1. TypeInv /\ [Next]_vars => TypeInv'
  BY IntakeKeepsType, JournalKeepsType, PromotionKeepsType, ClockKeepsType, AgentKeepsType
  DEF TypeInv
<1> QED BY <1>1, TypeInvInit, PTL DEF Spec

-----------------------------------------------------------------------------
(* The intake: a file is moved away only when every row of it is in the    *)
(* stream.  The rows still to come are in the process's hand.              *)

BatchInHand ==
    At("file") =>
        /\ folder[NextFile] = "dropped"
        /\ ToSet(Batch[NextFile]) \subseteq ToSet(queue) \cup ToSet(agent.rest)

IntakeInv == ArchivedIsQueued /\ BatchInHand

LEMMA QueueGrows ==
    ASSUME NEW c, NEW s, s \in Seq(Cands), c \in Cands
    PROVE  ToSet(Append(s, c)) = ToSet(s) \cup {c}
<1>1. /\ DOMAIN s = 1..Len(s) /\ Len(s) \in Nat
      /\ DOMAIN Append(s, c) = 1..Len(s) + 1
      /\ \A i \in 1..Len(s) : Append(s, c)[i] = s[i]
      /\ Append(s, c)[Len(s) + 1] = c
  OBVIOUS
<1>2. ASSUME NEW i \in DOMAIN Append(s, c) PROVE Append(s, c)[i] \in ToSet(s) \cup {c}
  <2>1. i \in 1..Len(s) \/ i = Len(s) + 1
    BY <1>1
  <2> QED BY <1>1, <2>1 DEF ToSet
<1>3. ASSUME NEW i \in DOMAIN s PROVE s[i] \in ToSet(Append(s, c))
  BY <1>1 DEF ToSet
<1>4. c \in ToSet(Append(s, c))
  BY <1>1 DEF ToSet
<1> QED BY <1>2, <1>3, <1>4 DEF ToSet

LEMMA HeadAndTail ==
    ASSUME NEW s, s \in Seq(Cands), s # <<>>
    PROVE  ToSet(s) = {Head(s)} \cup ToSet(Tail(s))
<1>1. /\ DOMAIN s = 1..Len(s) /\ Len(s) \in Nat \ {0} /\ Head(s) = s[1]
      /\ DOMAIN Tail(s) = 1..Len(s) - 1
      /\ \A i \in 1..Len(s) - 1 : Tail(s)[i] = s[i + 1]
  OBVIOUS
<1>2. ASSUME NEW i \in DOMAIN s PROVE s[i] \in {Head(s)} \cup ToSet(Tail(s))
  <2>1. CASE i = 1
    BY <1>1, <2>1
  <2>2. CASE i # 1
    <3>1. i - 1 \in DOMAIN Tail(s) /\ Tail(s)[i - 1] = s[i]
      BY <1>1, <2>2
    <3> QED BY <3>1 DEF ToSet
  <2> QED BY <2>1, <2>2
<1>3. Head(s) \in ToSet(s)
  BY <1>1 DEF ToSet
<1>4. ASSUME NEW i \in DOMAIN Tail(s) PROVE Tail(s)[i] \in ToSet(s)
  BY <1>1 DEF ToSet
<1> QED BY <1>2, <1>3, <1>4 DEF ToSet

(* A step that leaves the directory alone and does not touch the batch.    *)
LEMMA FilesStay ==
    ASSUME IntakeInv, folder' = folder, queue' = queue,
           \/ agent'.at # "file"
           \/ agent'.at = agent.at /\ agent'.files = agent.files /\ agent'.rest = agent.rest
    PROVE  IntakeInv'
BY DEF IntakeInv, ArchivedIsQueued, BatchInHand, At, NextFile

LEMMA IntakeInvNext ==
    ASSUME TypeInv, IntakeInv, [Next]_vars PROVE IntakeInv'
<1>0. /\ folder \in [Files -> Places] /\ queue \in Seq(Cands)
      /\ agent \in AgentType /\ agent.rest \in Seq(Cands) /\ agent.files \in SUBSET Files
  BY DEF TypeInv, IntakeTypeOK, AgentType
<1>1. CASE ParseBatch
  <2>1. /\ folder[NextFile] = "dropped" /\ UNCHANGED <<folder, queue>>
        /\ agent'.files = agent.files /\ agent'.rest = Batch[NextFile]
    BY <1>0, <1>1 DEF ParseBatch, AgentType, intakeVars
  <2>2. NextFile' = NextFile
    BY <2>1 DEF NextFile
  <2> QED BY <2>1, <2>2 DEF IntakeInv, ArchivedIsQueued, BatchInHand
<1>2. CASE EnqueueNext
  <2> DEFINE c == Head(agent.rest)
  <2>1. /\ At("file") /\ agent.rest # <<>> /\ folder' = folder
        /\ queue' = IF IsNew(c) THEN Append(queue, c) ELSE queue
        /\ agent'.files = agent.files /\ agent'.rest = Tail(agent.rest)
    BY <1>0, <1>2 DEF EnqueueNext, Enqueue, AgentType
  <2>2. NextFile' = NextFile
    BY <2>1 DEF NextFile
  <2>3. ToSet(agent.rest) = {c} \cup ToSet(agent'.rest) /\ c \in Cands
    BY <1>0, <2>1, HeadAndTail
  <2>4. ToSet(queue') = ToSet(queue) \cup {c}
    <3>1. CASE IsNew(c)
      BY <1>0, <2>1, <2>3, <3>1, QueueGrows
    <3>2. CASE ~IsNew(c)
      BY <2>1, <3>2 DEF IsNew
    <3> QED BY <3>1, <3>2
  <2>5. BatchInHand'
    BY <2>1, <2>2, <2>3, <2>4 DEF IntakeInv, BatchInHand
  <2>6. ArchivedIsQueued'
    BY <2>1, <2>4 DEF IntakeInv, ArchivedIsQueued
  <2> QED BY <2>5, <2>6 DEF IntakeInv
<1>3. CASE ArchiveBatch
  <2>1. /\ At("file") /\ agent.rest = <<>> /\ queue' = queue /\ agent'.at = "poll"
        /\ folder' = [folder EXCEPT ![NextFile] = "processed"]
    BY <1>0, <1>3 DEF ArchiveBatch, Archive, AgentType
  <2>2. ToSet(agent.rest) = {}
    BY <2>1 DEF ToSet
  <2>3. ArchivedIsQueued'
    BY <1>0, <2>1, <2>2 DEF IntakeInv, ArchivedIsQueued, BatchInHand
  <2> QED BY <2>1, <2>3 DEF IntakeInv, BatchInHand, At
<1>4. CASE Quarantine
  <2>1. /\ agent'.at = "poll" /\ queue' = queue
        /\ folder' = [folder EXCEPT ![NextFile] = "failed"]
    BY <1>0, <1>4 DEF Quarantine, Archive, AgentType, At
  <2>2. ArchivedIsQueued'
    BY <1>0, <2>1 DEF IntakeInv, ArchivedIsQueued
  <2> QED BY <2>1, <2>2 DEF IntakeInv, BatchInHand, At
<1>5. ASSUME NEW f \in Files, ProducerDrops(f)
      PROVE  IntakeInv'
  <2>1. PICK place \in Waiting : folder' = [folder EXCEPT ![f] = place]
    BY <1>5 DEF ProducerDrops, Drop
  <2>2. folder[f] = "absent" /\ queue' = queue /\ agent' = agent
    BY <1>5 DEF ProducerDrops, Drop, agentVars
  <2>3. NextFile' = NextFile
    BY <2>2 DEF NextFile
  <2>4. ArchivedIsQueued'
    BY <1>0, <2>1, <2>2 DEF IntakeInv, ArchivedIsQueued, Waiting
  <2>5. BatchInHand'
    BY <1>0, <2>1, <2>2, <2>3 DEF IntakeInv, BatchInHand, At
  <2> QED BY <2>4, <2>5 DEF IntakeInv
<1>6. CASE TimePasses \/ OperatorPromotes \/ UNCHANGED vars
  <2>1. /\ UNCHANGED <<folder, queue>>
        /\ agent'.at = agent.at /\ agent'.files = agent.files /\ agent'.rest = agent.rest
    BY <1>0, <1>6 DEF TimePasses, OperatorPromotes, vars, agentVars, intakeVars, AgentType
  <2> QED BY <2>1, FilesStay
<1>7. CASE Raise \/ Die
  <2>1. UNCHANGED <<folder, queue>>
    BY <1>7 DEF Raise, Die, PassMayHaveRun, HandleUpTo, intakeVars
  <2>2. agent'.at # "file"
    <3>1. Down.at = "down"
      BY DEF Down
    <3>2. CASE Die
      BY <3>1, <3>2 DEF Die
    <3>3. CASE Raise
      BY <3>3, DownIsAgent DEF Raise, AgentType
    <3> QED BY <1>7, <3>2, <3>3
  <2> QED BY <2>1, <2>2, FilesStay
<1>8. CASE \/ BeginTick \/ PollDone \/ ExecPass \/ SentryPass \/ SkipPass \/ StartDaily
           \/ Narrate \/ KeepLesson \/ WriteJournal \/ Tune \/ Promote \/ Report \/ Stamp
           \/ EndTick \/ Start \/ TunerFault
  <2>1. UNCHANGED <<folder, queue>>
    BY <1>8 DEF BeginTick, PollDone, ExecPass, SentryPass, SkipPass, StartDaily, Narrate,
       KeepLesson, WriteJournal, Tune, Promote, Report, Stamp, EndTick, Start, TunerFault,
       HandleUpTo, intakeVars
  <2>2. agent'.at # "file"
    <3>1. CASE BeginTick \/ StartDaily \/ WriteJournal
      BY <1>0, <3>1 DEF BeginTick, StartDaily, WriteJournal, AgentType
    <3>2. CASE EndTick \/ Start
      BY <3>2 DEF EndTick, Start, Down
    <3>3. CASE Promote
      BY <1>0, <3>3 DEF Promote, Goes, At, AgentType
    <3>4. CASE \/ PollDone \/ ExecPass \/ SentryPass \/ SkipPass \/ Narrate \/ KeepLesson
               \/ Tune \/ Report \/ Stamp \/ TunerFault
      BY <1>0, <3>4 DEF PollDone, ExecPass, SentryPass, SkipPass, Narrate, KeepLesson, Tune,
         Report, Stamp, TunerFault, Goes, PassedOn, AgentType
    <3> QED BY <1>8, <3>1, <3>2, <3>3, <3>4
  <2> QED BY <2>1, <2>2, FilesStay
<1> QED BY <1>1, <1>2, <1>3, <1>4, <1>5, <1>6, <1>7, <1>8 DEF Next, Loop

(* A batch whose file was moved away is in the stream, wherever the        *)
(* process died and whatever raised (intake_watch.py:57-60).               *)
THEOREM NoBatchLost == Spec => []ArchivedIsQueued
<1>1. Init => IntakeInv
  BY DEF Init, IntakeInit, IntakeInv, ArchivedIsQueued, BatchInHand, At, Down
<1>2. TypeInv /\ TypeInv' /\ IntakeInv /\ [Next]_vars => IntakeInv'
  BY IntakeInvNext
<1>3. IntakeInv => ArchivedIsQueued
  BY DEF IntakeInv
<1> QED BY <1>1, <1>2, <1>3, TypeAlways, PTL DEF Spec

-----------------------------------------------------------------------------
(* The daily job.  A date is started once more only if its last run left   *)
(* no stamp, and what keeps a run from its stamp is a fault.               *)

BeforeDaily == {"poll", "file", "exec", "sentry", "daily"}
Narrating == {"journal", "lesson", "write"}
AfterJournal == {"tune", "promote", "report", "stamp"}
InJob == agent.at \in Narrating \cup AfterJournal
OwesDaily == InJob \/ (agent.at \in BeforeDaily /\ "daily" \in agent.dueNow)

\* The run of a date that no fault is to blame for.
OneRun(d) == IF d <= lastDaily \/ (InJob /\ d = agent.day) THEN 1 ELSE 0

DatesInOrder ==
    /\ lastDaily <= clock.day
    /\ agent.day <= clock.day
    /\ OwesDaily => lastDaily < agent.day

RunsCounted == \A d \in Days : started[d] <= faults + OneRun(d)

JournalInStep ==
    /\ agent.at \in Narrating => agent.date >= agent.day - 1
    /\ agent.at \in AfterJournal => \E d \in journaled : d >= agent.day - 1

JobInv == DatesInOrder /\ RunsCounted /\ JournalInStep /\ JobJournals

LEMMA JobInvNext ==
    ASSUME TypeInv, JobInv, [Next]_vars PROVE JobInv'
<1>a. /\ agent \in AgentType /\ agent.at \in Stages /\ agent.day \in Days /\ agent.date \in Days
      /\ agent.dueNow \in SUBSET {"exec", "sentry", "daily"}
  BY DEF TypeInv, AgentType
<1>b. /\ clock.day \in Nat /\ lastDaily \in Nat /\ agent.day \in Nat /\ agent.date \in Nat
      /\ faults \in Nat /\ \A d \in Days : d \in Nat /\ started[d] \in Nat
      /\ started \in [Days -> Nat] /\ clock.day \in Days /\ journaled \subseteq Nat
  BY <1>a, Constants DEF TypeInv, ClockTypeOK, JournalTypeOK
<1>1. ASSUME UNCHANGED <<lastDaily, started, journaled, faults>>,
             clock'.day \in Nat, clock'.day >= clock.day,
             agent'.at = agent.at, agent'.day = agent.day, agent'.date = agent.date,
             agent'.dueNow = agent.dueNow
      PROVE  JobInv'
  BY <1>b, <1>1 DEF JobInv, DatesInOrder, RunsCounted, JournalInStep, JobJournals, OneRun,
     OwesDaily, InJob
<1>2. ASSUME UNCHANGED <<lastDaily, started, journaled, clock>>,
             agent'.at \in {"down", "nap"}, agent'.day \in {1, agent.day},
             \/ faults' = faults + 1
             \/ faults' = faults /\ ~InJob
      PROVE  JobInv'
  <2>1. DatesInOrder' /\ JournalInStep' /\ JobJournals'
    <3>1. 1 <= clock.day
      BY Constants DEF TypeInv, ClockTypeOK
    <3>2. agent'.at \notin Narrating \cup AfterJournal \cup BeforeDaily
      BY <1>2 DEF Narrating, AfterJournal, BeforeDaily
    <3> QED BY <1>b, <1>2, <3>1, <3>2
        DEF JobInv, DatesInOrder, JournalInStep, JobJournals, OwesDaily, InJob
  <2>2. RunsCounted'
    BY <1>b, <1>2 DEF JobInv, RunsCounted, OneRun, InJob, Narrating, AfterJournal
  <2> QED BY <2>1, <2>2 DEF JobInv
<1>3. ASSUME UNCHANGED <<clock, lastDaily, started, journaled, faults>>,
             agent.at \in BeforeDaily, agent'.at \in BeforeDaily \cup {"beat"},
             agent'.day = agent.day, "daily" \in agent'.dueNow => "daily" \in agent.dueNow
      PROVE  JobInv'
  BY <1>b, <1>3 DEF JobInv, DatesInOrder, RunsCounted, JournalInStep, JobJournals, OneRun,
     OwesDaily, InJob, BeforeDaily, Narrating, AfterJournal
<1>4. ASSUME UNCHANGED <<clock, lastDaily, started, faults>>, journaled \subseteq journaled',
             agent'.day = agent.day,
             \/ /\ agent.at \in Narrating /\ agent'.at \in Narrating
                /\ agent'.date = agent.date
             \/ /\ agent.at \in Narrating /\ agent'.at \in AfterJournal
                /\ agent.date \in journaled'
             \/ /\ agent.at \in AfterJournal /\ agent'.at \in AfterJournal
      PROVE  JobInv'
  <2>1. InJob /\ InJob'
    BY <1>4 DEF InJob
  <2>2. DatesInOrder' /\ RunsCounted'
    BY <1>4, <2>1 DEF JobInv, DatesInOrder, RunsCounted, OneRun, OwesDaily
  <2>3. JournalInStep' /\ JobJournals'
    BY <1>4 DEF JobInv, JournalInStep, JobJournals, Narrating, AfterJournal
  <2> QED BY <2>2, <2>3 DEF JobInv
<1>5. CASE TimePasses
  <2>1. clock'.day \in Nat /\ clock'.day >= clock.day
    <3>1. clock \in [day : 1..LastDay, hour : 0..DayLength - 1]
      BY DEF TypeInv, ClockTypeOK
    <3> QED BY <1>b, <1>5, <3>1 DEF TimePasses
  <2>2. /\ agent'.at = agent.at /\ agent'.day = agent.day /\ agent'.date = agent.date
        /\ agent'.dueNow = agent.dueNow
        /\ UNCHANGED <<lastDaily, started, journaled, faults>>
    BY <1>a, <1>5 DEF TimePasses, AgentType, journalVars
  <2> QED BY <1>1, <2>1, <2>2
<1>6. CASE OperatorPromotes \/ (\E f \in Files : ProducerDrops(f)) \/ UNCHANGED vars
  <2>1. UNCHANGED <<lastDaily, started, journaled, faults, clock, agent>>
    BY <1>6 DEF OperatorPromotes, ProducerDrops, vars, journalVars, agentVars
  <2> QED BY <1>1, <1>b, <2>1
<1>7. CASE Start \/ EndTick \/ Raise \/ Die
  <2>1. /\ UNCHANGED <<lastDaily, started, journaled, clock>>
        /\ faults' = faults + 1 \/ (faults' = faults /\ agent.at \in {"down", "beat"})
    BY <1>7 DEF Start, EndTick, Raise, Die, At, journalVars
  <2>2. Down.at = "down" /\ Down.day = 1 /\ Down \in AgentType
    BY DownIsAgent DEF Down
  <2>3. agent'.at \in {"down", "nap"} /\ agent'.day = 1
    <3>1. CASE Start \/ Die
      BY <2>2, <3>1 DEF Start, Die, AgentType
    <3>2. CASE EndTick \/ Raise
      BY <2>2, <3>2 DEF EndTick, Raise, AgentType
    <3> QED BY <1>7, <3>1, <3>2
  <2>4. agent.at \in {"down", "beat"} => ~InJob
    BY DEF InJob, Narrating, AfterJournal
  <2> QED BY <1>2, <2>1, <2>3, <2>4
<1>8. CASE BeginTick
  <2>1. /\ UNCHANGED <<clock, lastDaily, started, journaled, faults>> /\ At("nap")
        /\ agent'.at = "poll" /\ agent'.day = clock.day
        /\ "daily" \in agent'.dueNow => DailyDue
    BY <1>a, <1>8 DEF BeginTick, QuietLoop, AgentType, journalVars
  <2>2. ~InJob /\ ~InJob'
    BY <2>1 DEF InJob, Narrating, AfterJournal, At
  <2>3. DatesInOrder'
    BY <1>b, <2>1, <2>2 DEF JobInv, DatesInOrder, OwesDaily, DailyDue
  <2> QED BY <2>1, <2>2, <2>3
      DEF JobInv, RunsCounted, OneRun, JournalInStep, JobJournals, InJob
<1>9. CASE Quarantine \/ ParseBatch \/ EnqueueNext \/ ArchiveBatch \/ PollDone \/ ExecPass
           \/ SentryPass
  <2>1. UNCHANGED <<clock, lastDaily, started, journaled, faults>>
    BY <1>9 DEF Quarantine, ParseBatch, EnqueueNext, ArchiveBatch, PollDone, ExecPass, SentryPass,
       QuietLoop, journalVars
  <2>2. /\ agent.at \in BeforeDaily /\ agent'.at \in BeforeDaily /\ agent'.day = agent.day
        /\ "daily" \in agent'.dueNow => "daily" \in agent.dueNow
    <3>1. CASE Quarantine \/ ParseBatch \/ EnqueueNext \/ ArchiveBatch
      BY <1>a, <3>1 DEF Quarantine, ParseBatch, EnqueueNext, ArchiveBatch, At, AgentType,
         BeforeDaily
    <3>2. CASE PollDone
      BY <1>a, <3>2 DEF PollDone, Goes, At, AgentType, BeforeDaily
    <3>3. CASE ExecPass
      <4>1. At("exec") /\ PassedOn("exec", "sentry")
        BY <3>3 DEF ExecPass
      <4> QED BY <1>a, <4>1 DEF PassedOn, At, AgentType, BeforeDaily
    <3>4. CASE SentryPass
      <4>1. At("sentry") /\ PassedOn("sentry", "daily")
        BY <3>4 DEF SentryPass
      <4> QED BY <1>a, <4>1 DEF PassedOn, At, AgentType, BeforeDaily
    <3> QED BY <1>9, <3>1, <3>2, <3>3, <3>4
  <2> QED BY <1>3, <2>1, <2>2
<1>10. CASE SkipPass
  <2>1. UNCHANGED <<clock, lastDaily, started, journaled, faults>>
    BY <1>10 DEF SkipPass, QuietLoop, journalVars
  <2>2. /\ agent.at \in BeforeDaily /\ agent'.at \in BeforeDaily \cup {"beat"}
        /\ agent'.day = agent.day /\ agent'.dueNow = agent.dueNow
    BY <1>a, <1>10 DEF SkipPass, Goes, At, AgentType, BeforeDaily
  <2> QED BY <1>3, <2>1, <2>2
<1>11. CASE StartDaily
  <2>1. /\ UNCHANGED <<clock, lastDaily, journaled, faults>> /\ At("daily")
        /\ "daily" \in agent.dueNow
        /\ started' = [started EXCEPT ![agent.day] = @ + 1]
        /\ agent'.at = "journal" /\ agent'.day = agent.day /\ agent'.date = clock.day - 1
    BY <1>a, <1>11 DEF StartDaily, AgentType, journalVars
  <2>2. lastDaily < agent.day /\ ~InJob /\ InJob'
    BY <2>1 DEF JobInv, DatesInOrder, OwesDaily, InJob, BeforeDaily, Narrating, AfterJournal, At
  <2>3. DatesInOrder'
    BY <2>1, <2>2 DEF JobInv, DatesInOrder
  <2>4. RunsCounted'
    <3>1. SUFFICES ASSUME NEW d \in Days PROVE (started[d] <= faults + OneRun(d))'
      BY DEF RunsCounted
    <3>2. started[d] <= faults + OneRun(d)
      BY DEF JobInv, RunsCounted
    <3>3. CASE d = agent.day
      BY <1>a, <1>b, <2>1, <2>2, <3>2, <3>3 DEF OneRun
    <3>4. CASE d # agent.day
      BY <1>a, <1>b, <2>1, <2>2, <3>2, <3>4 DEF OneRun
    <3> QED BY <3>3, <3>4
  <2>5. JournalInStep' /\ JobJournals'
    BY <1>b, <2>1 DEF JobInv, DatesInOrder, JournalInStep, JobJournals, AfterJournal
  <2> QED BY <2>3, <2>4, <2>5 DEF JobInv
<1>12. CASE Narrate \/ KeepLesson
  <2>1. /\ UNCHANGED <<clock, lastDaily, started, journaled, faults>>
        /\ agent.at \in Narrating /\ agent'.at \in Narrating
        /\ agent'.day = agent.day /\ agent'.date = agent.date
    BY <1>a, <1>12 DEF Narrate, KeepLesson, CacheNarrative, AddReflection, Goes, At, AgentType,
       Narrating, QuietLoop, journalVars
  <2> QED BY <1>4, <2>1
<1>13. CASE WriteJournal
  <2>1. /\ UNCHANGED <<clock, lastDaily, started, faults>>
        /\ journaled' = journaled \cup {agent.date}
        /\ agent.at \in Narrating /\ agent'.at \in AfterJournal /\ agent'.day = agent.day
    BY <1>a, <1>13 DEF WriteJournal, WriteFile, At, AgentType, Narrating, AfterJournal, QuietLoop
  <2> QED BY <1>4, <2>1
<1>14. CASE Tune \/ Promote \/ TunerFault \/ Report
  <2>1. UNCHANGED <<clock, lastDaily, started, journaled, faults>>
    BY <1>14 DEF Tune, Promote, TunerFault, Report, QuietLoop, journalVars
  <2>2. /\ agent.at \in AfterJournal /\ agent'.at \in AfterJournal /\ agent'.day = agent.day
    BY <1>a, <1>14 DEF Tune, Promote, TunerFault, Report, Goes, At, AgentType, AfterJournal
  <2> QED BY <1>4, <2>1, <2>2
<1>15. CASE Stamp
  <2>1. /\ UNCHANGED <<clock, started, journaled, faults>> /\ At("stamp")
        /\ lastDaily' = agent.day /\ agent'.at = "beat" /\ agent'.day = agent.day
    BY <1>a, <1>15 DEF Stamp, Goes, AgentType, journalVars
  <2>2. InJob /\ ~InJob' /\ ~OwesDaily' /\ agent.at \in AfterJournal
    BY <2>1 DEF InJob, OwesDaily, Narrating, AfterJournal, BeforeDaily, At
  <2>3. DatesInOrder'
    BY <2>1, <2>2 DEF JobInv, DatesInOrder
  <2>4. RunsCounted'
    <3>1. SUFFICES ASSUME NEW d \in Days PROVE (started[d] <= faults + OneRun(d))'
      BY DEF RunsCounted
    <3>2. started[d] <= faults + OneRun(d) /\ lastDaily < agent.day
      BY <2>2 DEF JobInv, RunsCounted, DatesInOrder, OwesDaily
    <3> QED BY <1>b, <2>1, <2>2, <3>2 DEF OneRun
  <2>5. JournalInStep' /\ JobJournals'
    BY <2>1, <2>2 DEF JobInv, JournalInStep, JobJournals, Narrating, AfterJournal
  <2> QED BY <2>3, <2>4, <2>5 DEF JobInv
<1> QED BY <1>5, <1>6, <1>7, <1>8, <1>9, <1>10, <1>11, <1>12, <1>13, <1>14, <1>15 DEF Next, Loop

LEMMA JobAlways == Spec => []JobInv
<1>1. Init => JobInv
  <2> SUFFICES ASSUME Init PROVE JobInv
    OBVIOUS
  <2>1. /\ agent.at = "down" /\ agent.day = 1 /\ clock.day = 1 /\ lastDaily = 0 /\ faults = 0
        /\ \A d \in Days : started[d] = 0
    BY DEF Init, Down, NoDay
  <2> QED BY <2>1, Constants
      DEF JobInv, DatesInOrder, RunsCounted, JournalInStep, JobJournals, OneRun, OwesDaily, InJob,
          Narrating, AfterJournal, BeforeDaily, NoDay
<1>2. TypeInv /\ JobInv /\ [Next]_vars => JobInv'
  BY JobInvNext
<1> QED BY <1>1, <1>2, TypeAlways, PTL DEF Spec

(* The daily job of a date runs once, and once more at most for each crash *)
(* or raised call outside the tuners (supervisor.py:112-115).              *)
THEOREM JobRunsOnceButForFaults == Spec => []JobRunsBounded
<1>1. TypeInv /\ JobInv => JobRunsBounded
  <2> SUFFICES ASSUME TypeInv, JobInv, NEW d \in Days PROVE started[d] <= 1 + faults
    BY DEF JobRunsBounded
  <2>1. started[d] \in Nat /\ faults \in Nat /\ started[d] <= faults + OneRun(d)
    BY Constants DEF TypeInv, ClockTypeOK, JobInv, RunsCounted
  <2> QED BY <2>1 DEF OneRun
<1> QED BY <1>1, TypeAlways, JobAlways, PTL

(* Whatever the model calls did, a stamped date left a journal of the day  *)
(* before it or of a later day (daily.py:48).                              *)
THEOREM StampedIsJournaled == Spec => []JobJournals
<1>1. JobInv => JobJournals
  BY DEF JobInv
<1> QED BY <1>1, JobAlways, PTL

-----------------------------------------------------------------------------
(* Promotion. *)

Consumed == {p \in Promoters : promo[p].next = "record"}
Pending == IF proposed = NoFile THEN 0 ELSE 1

LEMMA ConsumedCount ==
    IsFiniteSet(Promoters) /\ IsFiniteSet(Consumed) /\ Cardinality(Consumed) \in Nat
<1>1. IsFiniteSet(Promoters)
  <2>1. Promoters = ({} \cup {Agent}) \cup {Operator}
    BY SupervisorAssumption DEF SupervisorAssumption
  <2> QED BY <2>1, FS_EmptySet, FS_AddElement
<1>2. Consumed \in SUBSET Promoters
  BY DEF Consumed
<1> QED BY <1>1, <1>2, FS_Subset, FS_CardinalityType

LEMMA AuditNext ==
    ASSUME TypeInv, AuditedIsConsumed, [Next]_vars PROVE AuditedIsConsumed'
<1>0. /\ written \in Nat /\ proposed \in Nat /\ audit \in Seq(Nat) /\ Len(audit) \in Nat
      /\ promo \in [Promoters -> [next : {"idle", "live", "unlink", "record"}, version : Nat]]
      /\ Len(audit) + Cardinality(Consumed) + Pending <= written
  BY DEF TypeInv, PromotionTypeOK, AuditedIsConsumed, Consumed, Pending
<1>1. SUFFICES Len(audit') + Cardinality(Consumed') + Pending' <= written'
  BY DEF AuditedIsConsumed, Consumed, Pending
<1>2. Cardinality(Consumed) \in Nat /\ IsFiniteSet(Consumed)
  BY ConsumedCount
<1>3. CASE UNCHANGED promotionVars
  <2>1. Consumed' = Consumed
    BY <1>3 DEF Consumed, promotionVars
  <2> QED BY <1>0, <1>3, <2>1 DEF Pending, promotionVars
<1>4. CASE WriteProposal
  <2>1. Consumed' = Consumed /\ Len(audit') = Len(audit) /\ written' = written + 1 /\ Pending' \in {0, 1}
        /\ Pending \in {0, 1}
    BY <1>4 DEF WriteProposal, Consumed, Pending
  <2> QED BY <1>0, <1>2, <2>1
<1>5. ASSUME NEW p \in Promoters, ReadProposal(p) \/ GoLive(p)
      PROVE  Len(audit') + Cardinality(Consumed') + Pending' <= written'
  <2>1. Consumed' = Consumed
    BY <1>0, <1>5 DEF ReadProposal, GoLive, Consumed
  <2>2. UNCHANGED <<audit, written, proposed>>
    BY <1>5 DEF ReadProposal, GoLive
  <2> QED BY <1>0, <2>1, <2>2 DEF Pending
<1>6. ASSUME NEW p \in Promoters, Consume(p)
      PROVE  Len(audit') + Cardinality(Consumed') + Pending' <= written'
  <2>1. Consumed' = Consumed \cup {p}
    BY <1>0, <1>6 DEF Consume, Consumed
  <2>2. UNCHANGED <<audit, written>> /\ Pending = 1 /\ Pending' = 0
    BY <1>6 DEF Consume, Pending
  <2>3. Cardinality(Consumed') <= Cardinality(Consumed) + 1 /\ Cardinality(Consumed') \in Nat
    <3>1. IsFiniteSet(Consumed) /\ Cardinality(Consumed) \in Nat
      BY <1>2, FS_CardinalityType
    <3>2. CASE p \in Consumed
      <4>1. Consumed' = Consumed
        BY <2>1, <3>2
      <4> QED BY <3>1, <4>1
    <3>3. CASE p \notin Consumed
      <4>1. Cardinality(Consumed \cup {p}) = Cardinality(Consumed) + 1
        BY <3>1, <3>3, FS_AddElement
      <4>2. Cardinality(Consumed') = Cardinality(Consumed \cup {p})
        BY <2>1
      <4> QED BY <3>1, <4>1, <4>2
    <3> QED BY <3>2, <3>3
  <2> QED BY <1>0, <1>2, <2>2, <2>3
<1>7. ASSUME NEW p \in Promoters, ConsumeRaises(p) \/ Forget(p)
      PROVE  Len(audit') + Cardinality(Consumed') + Pending' <= written'
  <2>1. Consumed' \in SUBSET Consumed
    BY <1>0, <1>7 DEF ConsumeRaises, Forget, Consumed, Idle
  <2>2. Cardinality(Consumed') <= Cardinality(Consumed) /\ Cardinality(Consumed') \in Nat
    BY <1>2, <2>1, FS_Subset, FS_CardinalityType
  <2>3. UNCHANGED <<audit, written, proposed>>
    BY <1>7 DEF ConsumeRaises, Forget
  <2>4. Pending' = Pending /\ Pending \in {0, 1}
    BY <2>3 DEF Pending
  <2> QED BY <1>0, <1>2, <2>2, <2>3, <2>4
<1>8. ASSUME NEW p \in Promoters, Record(p)
      PROVE  Len(audit') + Cardinality(Consumed') + Pending' <= written'
  <2>1. Consumed' = Consumed \ {p} /\ p \in Consumed
    BY <1>0, <1>8 DEF Record, Consumed, Idle
  <2>2. Cardinality(Consumed') = Cardinality(Consumed) - 1
    BY <1>2, <2>1, FS_RemoveElement
  <2>3. UNCHANGED <<written, proposed>> /\ Len(audit') = Len(audit) + 1
    BY <1>0, <1>8 DEF Record, PromotionTypeOK
  <2>4. Pending' = Pending /\ Pending \in {0, 1}
    BY <2>3 DEF Pending
  <2> QED BY <1>0, <1>2, <2>2, <2>3, <2>4
<1> QED BY <1>3, <1>4, <1>5, <1>6, <1>7, <1>8, PromotionMoves DEF PromoterSteps

(* However promoters and tuner runs overlap, and whoever dies, no more     *)
(* promotions are recorded than proposals were written (promote.py:82-84). *)
THEOREM PromotesNoMoreThanProposed == Spec => []AuditedIsConsumed
<1>1. Init => AuditedIsConsumed
  <2> SUFFICES ASSUME Init PROVE AuditedIsConsumed
    OBVIOUS
  <2>1. {p \in Promoters : promo[p].next = "record"} = {}
    BY DEF Init, PromotionInit, Idle
  <2>2. Len(audit) = 0 /\ proposed = NoFile /\ written = 0
    BY DEF Init, PromotionInit
  <2> QED BY <2>1, <2>2, FS_EmptySet DEF AuditedIsConsumed
<1>2. TypeInv /\ AuditedIsConsumed /\ [Next]_vars => AuditedIsConsumed'
  BY AuditNext
<1> QED BY <1>1, <1>2, TypeAlways, PTL DEF Spec
=============================================================================
