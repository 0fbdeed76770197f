------------------------ MODULE ExecutorPass_proofs ------------------------
(***************************************************************************)
(* Proofs about ExecutorPass, for any number of candidates and coins, any  *)
(* limits and any number of crashes: type correctness, the claim protocol  *)
(* and, after it, what else a pass promises.  The number of processes is   *)
(* any, except where a theorem assumes a single executor (Alone).          *)
(***************************************************************************)
EXTENDS ExecutorPass, FiniteSetTheorems, TLAPS

-----------------------------------------------------------------------------
(* Type correctness.  TypeOK is not inductive by itself: what a process    *)
(* writes to the store depends on what it carries in its context.          *)

WaitHasAttempt(stage, x) ==
    stage \in {"log", "file"} /\ x.verdict = "deferred" => x.attempts >= 1
AbortHasStatus(stage, x) == stage = "abort" => x.verdict \in {"aborted", "abort_failed"}
DueHasAttempt(x) == \A c \in x.due : x.left[c] # NotParked
BatchInStream(x) == x.next <= x.last => x.last <= Len(stream)

LocalOK(stage, x) ==
    /\ WaitHasAttempt(stage, x)
    /\ AbortHasStatus(stage, x)
    /\ DueHasAttempt(x)
    /\ BatchInStream(x)

PassOK == PassTypeOK /\ \A p \in Procs : LocalOK(pc[p], ctx[p])

TypeInv == StoreTypeOK /\ BookTypeOK /\ EnvTypeOK /\ PassOK

(* The empty context is a context, and nothing is wrong with it. *)
LEMMA NoContextOK == NoContext \in Context /\ LocalOK("idle", NoContext)
<1>1. [c \in Cands |-> NotParked] \in [Cands -> {NotParked} \cup 1..FollowupMax]
  OBVIOUS
<1>2. NoContext \in Context
  BY <1>1, FollowupAssumption DEF NoContext, Context, Verdicts, FollowupAssumption
<1>3. /\ NoContext.verdict = "rejected" /\ NoContext.due = {}
      /\ NoContext.next = 1 /\ NoContext.last = 0
  BY DEF NoContext
<1>4. LocalOK("idle", NoContext)
  BY <1>3 DEF LocalOK, WaitHasAttempt, AbortHasStatus, DueHasAttempt, BatchInStream
<1> QED BY <1>2, <1>4

(* One process moves, the stream stays: only its own locals need a look. *)
LEMMA OneMoves ==
    ASSUME PassOK, NEW p \in Procs,
           NEW stage \in Stages, NEW h \in Cands \cup {NoCand}, NEW x \in Context,
           pc' = [pc EXCEPT ![p] = stage],
           cand' = [cand EXCEPT ![p] = h],
           ctx' = [ctx EXCEPT ![p] = x],
           stream' = stream,
           LocalOK(stage, x)
    PROVE  PassOK'
<1>1. PassTypeOK'
  BY DEF PassOK, PassTypeOK
<1>2. ASSUME NEW q \in Procs
      PROVE  LocalOK(pc[q], ctx[q])'
  <2>1. CASE q = p
    <3>1. pc'[q] = stage /\ ctx'[q] = x
      BY <2>1 DEF PassOK, PassTypeOK
    <3> QED BY <3>1 DEF LocalOK, WaitHasAttempt, AbortHasStatus, DueHasAttempt, BatchInStream
  <2>2. CASE q # p
    <3>1. pc'[q] = pc[q] /\ ctx'[q] = ctx[q]
      BY <2>2 DEF PassOK, PassTypeOK
    <3>2. LocalOK(pc[q], ctx[q])
      BY DEF PassOK
    <3> QED BY <3>1, <3>2 DEF LocalOK, WaitHasAttempt, AbortHasStatus, DueHasAttempt, BatchInStream
  <2> QED BY <2>1, <2>2
<1> QED BY <1>1, <1>2 DEF PassOK

(* What is known of the process that is about to move. *)
LEMMA Locals ==
    ASSUME PassOK, NEW p \in Procs
    PROVE  /\ ctx[p] \in Context
           /\ LocalOK(pc[p], ctx[p])
           /\ cand = [cand EXCEPT ![p] = cand[p]]
           /\ ctx = [ctx EXCEPT ![p] = ctx[p]]
           /\ pc = [pc EXCEPT ![p] = pc[p]]
           /\ pc[p] \in Stages
           /\ cand[p] \in Cands \cup {NoCand}
BY DEF PassOK, PassTypeOK

LEMMA ResolvingKeepsPass ==
    ASSUME StoreTypeOK, BookTypeOK, PassOK, NEW p \in Procs,
           Resolving(p)
    PROVE  PassOK'
<1> USE DEF Stages
<1>0. /\ ctx[p] \in Context /\ LocalOK(pc[p], ctx[p])
      /\ cand = [cand EXCEPT ![p] = cand[p]] /\ ctx = [ctx EXCEPT ![p] = ctx[p]]
      /\ pc = [pc EXCEPT ![p] = pc[p]]
      /\ cand[p] \in Cands \cup {NoCand}
  BY Locals
<1>1. CASE BeginPass(p)
  <2> DEFINE x == [NoContext EXCEPT !.coins = LiveCoins]
  <2>1. LiveCoins \in SUBSET Coins
    BY CandidatesAssumption DEF CandidatesAssumption, LiveCoins, Live
  <2>2. x \in Context /\ LocalOK("rows", x)
    BY <2>1, NoContextOK
    DEF Context,
        LocalOK, WaitHasAttempt, AbortHasStatus, DueHasAttempt, BatchInStream
  <2> QED BY <1>0, <1>1, <2>2, OneMoves DEF BeginPass, Goto, Note, storeVars
<1>2. CASE ListRows(p)
  <2> DEFINE x == [ctx[p] EXCEPT !.rows = OpenRows]
  <2>1. x \in Context /\ LocalOK("resolve", x)
    BY <1>0, <1>2
    DEF ListRows, Goto, Context, OpenRows,
        LocalOK, WaitHasAttempt, AbortHasStatus, DueHasAttempt, BatchInStream
  <2> QED BY <1>0, <1>2, <2>1, OneMoves DEF ListRows, Goto, Note, storeVars
<1>3. ASSUME NEW c \in Cands, CloseRow(p, c)
      PROVE  PassOK'
  <2> DEFINE x == [ctx[p] EXCEPT !.rows = @ \ {c}]
  <2>1. x \in Context /\ LocalOK("book", x)
    BY <1>0, <1>3
    DEF CloseRow, Goto, Context,
        LocalOK, WaitHasAttempt, AbortHasStatus, DueHasAttempt, BatchInStream
  <2>2. /\ pc' = [pc EXCEPT ![p] = "book"] /\ cand' = [cand EXCEPT ![p] = c]
        /\ ctx' = [ctx EXCEPT ![p] = x] /\ stream' = stream
    BY <1>3 DEF CloseRow, Goto, Note, storeVars
  <2>3. "book" \in Stages
    OBVIOUS
  <2> HIDE DEF x
  <2> QED BY <2>1, <2>2, <2>3, OneMoves
<1>4. ASSUME NEW c \in Cands, ResolveRow(p, c)
      PROVE  PassOK'
  <2>1. LocalOK("own", ctx[p]) /\ LocalOK("resolve", ctx[p])
    BY <1>0, <1>4
    DEF ResolveRow, Goto,
        LocalOK, WaitHasAttempt, AbortHasStatus, DueHasAttempt, BatchInStream
  <2> QED BY <1>0, <1>4, <2>1, OneMoves DEF ResolveRow, Goto, Done, ResolveTrade
<1>5. ASSUME NEW c \in Cands, CancelOwn(p, c)
      PROVE  PassOK'
  <2>1. LocalOK("last", ctx[p])
    BY <1>0, <1>5
    DEF CancelOwn, Goto,
        LocalOK, WaitHasAttempt, AbortHasStatus, DueHasAttempt, BatchInStream
  <2> QED BY <1>0, <1>5, <2>1, OneMoves DEF CancelOwn, Goto, KeepHand, storeVars
<1>6. ASSUME NEW c \in Cands, LookForSiblings(p, c)
      PROVE  PassOK'
  <2>1. LocalOK("sweep", ctx[p]) /\ LocalOK("resolve", ctx[p])
    BY <1>0, <1>6
    DEF LookForSiblings, Goto,
        LocalOK, WaitHasAttempt, AbortHasStatus, DueHasAttempt, BatchInStream
  <2> QED BY <1>0, <1>6, <2>1, OneMoves DEF LookForSiblings, Goto, Done, storeVars
<1>7. ASSUME NEW c \in Cands, SweepCoin(p, c)
      PROVE  PassOK'
  <2>1. LocalOK("resolve", ctx[p])
    BY <1>0, <1>7
    DEF SweepCoin, Goto,
        LocalOK, WaitHasAttempt, AbortHasStatus, DueHasAttempt, BatchInStream
  <2> QED BY <1>0, <1>7, <2>1, OneMoves DEF SweepCoin, Goto, Done, storeVars
<1>8. CASE EndResolve(p)
  <2> DEFINE x == [ctx[p] EXCEPT !.rows = {}]
  <2>1. x \in Context /\ LocalOK("read", x)
    BY <1>0, <1>8
    DEF EndResolve, Goto, Context,
        LocalOK, WaitHasAttempt, AbortHasStatus, DueHasAttempt, BatchInStream
  <2> QED BY <1>0, <1>8, <2>1, OneMoves DEF EndResolve, Goto, Note, storeVars
<1> QED BY <1>1, <1>2, <1>3, <1>4, <1>5, <1>6, <1>7, <1>8 DEF Resolving

LEMMA QueueingKeepsPass ==
    ASSUME StoreTypeOK, BookTypeOK, EnvTypeOK, PassOK, NEW p \in Procs,
           Queueing(p)
    PROVE  PassOK'
<1> USE DEF Stages
<1>0. /\ ctx[p] \in Context /\ LocalOK(pc[p], ctx[p])
      /\ cand = [cand EXCEPT ![p] = cand[p]] /\ ctx = [ctx EXCEPT ![p] = ctx[p]]
      /\ pc = [pc EXCEPT ![p] = pc[p]]
      /\ cand[p] \in Cands \cup {NoCand}
  BY Locals
<1>1. CASE ReadBook(p)
  <2> DEFINE x == [ctx[p] EXCEPT !.coins = LiveCoins, !.trades = Cardinality(TradesToday)]
  <2>1. LiveCoins \in SUBSET Coins
    BY CandidatesAssumption DEF CandidatesAssumption, LiveCoins, Live
  <2>2. Cardinality(TradesToday) \in Nat
    BY CandidatesAssumption, FS_CardinalityType, FS_Subset
    DEF CandidatesAssumption, TradesToday
  <2>3. x \in Context /\ LocalOK("queues", x)
    BY <1>0, <2>1, <2>2
    DEF Context,
        LocalOK, WaitHasAttempt, AbortHasStatus, DueHasAttempt, BatchInStream
  <2> QED BY <1>0, <1>1, <2>3, OneMoves DEF ReadBook, Goto, Note, storeVars
<1>2. CASE ReadQueues(p)
  <2> DEFINE left == [c \in Cands |->
                        IF c \in DueFor(breaker) THEN parked[c] ELSE NotParked]
             x == [ctx[p] EXCEPT !.tripped = breaker, !.loss = lossHit,
                                 !.due = DueFor(breaker), !.left = left,
                                 !.next = hwm + 1, !.last = BatchEnd(p)]
  <2>1. /\ DueFor(breaker) \in SUBSET Cands
        /\ \A c \in DueFor(breaker) : parked[c] \in 1..FollowupMax
    BY DEF StoreTypeOK, DueFor, DueDeferred, IsParked
  <2>2. left \in [Cands -> {NotParked} \cup 1..FollowupMax]
    BY <2>1
  <2>3. \A c \in DueFor(breaker) : left[c] # NotParked
    BY <2>1 DEF DueFor, DueDeferred, IsParked
  <2>4. BatchEnd(p) \in Nat /\ (hwm + 1 <= BatchEnd(p) => BatchEnd(p) <= Len(stream))
    BY PassAssumption DEF PassAssumption, BatchEnd, StoreTypeOK
  <2>5. breaker \in BOOLEAN /\ lossHit \in BOOLEAN /\ hwm + 1 \in Nat \ {0}
    BY DEF StoreTypeOK, EnvTypeOK
  <2> HIDE DEF left
  <2>6. x \in Context
    BY <1>0, <2>1, <2>2, <2>4, <2>5 DEF Context
  <2>7. x.due = DueFor(breaker) /\ x.left = left /\ x.next = hwm + 1 /\ x.last = BatchEnd(p)
    BY <1>0 DEF Context
  <2>8. LocalOK("next", x)
    BY <2>3, <2>4, <2>7
    DEF LocalOK, WaitHasAttempt, AbortHasStatus, DueHasAttempt, BatchInStream
  <2>9. Note(p, x) /\ Goto(p, "queues", "next") /\ UNCHANGED <<storeVars, cand>>
    BY <1>2 DEF ReadQueues, left
  <2> HIDE DEF x
  <2> QED BY <1>0, <2>6, <2>8, <2>9, OneMoves DEF Goto, Note, storeVars
<1>3. ASSUME NEW c \in Cands, SkipFired(p, c)
      PROVE  PassOK'
  <2> DEFINE x == [ctx[p] EXCEPT !.due = @ \ {c}, !.left = [@ EXCEPT ![c] = NotParked]]
  <2>1. x \in Context /\ LocalOK("next", x)
    BY <1>0, <1>3
    DEF Context, SkipFired, At,
        LocalOK, WaitHasAttempt, AbortHasStatus, DueHasAttempt, BatchInStream
  <2>2. Note(p, x) /\ pc' = [pc EXCEPT ![p] = "next"] /\ cand' = cand /\ stream' = stream
    BY <1>0, <1>3 DEF SkipFired, At, DropDeferred
  <2> HIDE DEF x
  <2> QED BY <1>0, <2>1, <2>2, OneMoves DEF Note
<1>4. ASSUME NEW c \in Cands, TakeDue(p, c)
      PROVE  PassOK'
  <2> DEFINE x == [ctx[p] EXCEPT !.due = @ \ {c},
                                 !.left = [@ EXCEPT ![c] = NotParked],
                                 !.attempts = AttemptsAfterLook(ctx[p].left[c])]
  <2>1. ctx[p].left[c] \in 1..FollowupMax
    BY <1>0, <1>4 DEF TakeDue, Context, LocalOK, DueHasAttempt
  <2>2. AttemptsAfterLook(ctx[p].left[c]) \in 0..FollowupMax
    BY <2>1, FollowupAssumption DEF AttemptsAfterLook, FollowupAssumption
  <2>3. x \in Context /\ LocalOK("decide", x)
    BY <1>0, <2>2
    DEF Context,
        LocalOK, WaitHasAttempt, AbortHasStatus, DueHasAttempt, BatchInStream
  <2>4. /\ Note(p, x) /\ Goto(p, "next", "decide")
        /\ cand' = [cand EXCEPT ![p] = c] /\ stream' = stream
    BY <1>4 DEF TakeDue, storeVars
  <2> HIDE DEF x
  <2> QED BY <2>3, <2>4, OneMoves DEF Goto, Note
<1>5. CASE TakeNew(p)
  <2> DEFINE x == [ctx[p] EXCEPT !.fresh = TRUE, !.attempts = FollowupMax]
  <2>1. FollowupMax \in 0..FollowupMax
    BY FollowupAssumption DEF FollowupAssumption
  <2>2. x \in Context
    BY <1>0, <2>1 DEF Context
  <2>3. x.due = ctx[p].due /\ x.left = ctx[p].left /\ x.next = ctx[p].next /\ x.last = ctx[p].last
    BY <1>0 DEF Context
  <2>4. LocalOK("decide", x)
    BY <1>0, <2>3 DEF LocalOK, WaitHasAttempt, AbortHasStatus, DueHasAttempt, BatchInStream
  <2>5. stream[ctx[p].next] \in Cands
    BY <1>0, <1>5 DEF TakeNew, Context, StoreTypeOK, LocalOK, BatchInStream
  <2>6. /\ Note(p, x) /\ Goto(p, "next", "decide")
        /\ cand' = [cand EXCEPT ![p] = stream[ctx[p].next]] /\ stream' = stream
    BY <1>5 DEF TakeNew, storeVars
  <2> HIDE DEF x
  <2> QED BY <2>2, <2>4, <2>5, <2>6, OneMoves DEF Goto, Note
<1>6. CASE EndPass(p)
  BY <1>0, <1>6, NoContextOK, OneMoves DEF EndPass, Leave, Note, storeVars
<1> QED BY <1>1, <1>2, <1>3, <1>4, <1>5, <1>6 DEF Queueing

(* A verdict may be reached from any stage; a wait needs an attempt. *)
LEMMA ConcludeKeepsPass ==
    ASSUME PassOK, NEW p \in Procs, NEW from \in Stages, NEW verdict \in Verdicts,
           Conclude(p, from, verdict), stream' = stream,
           verdict = "deferred" => ctx[p].attempts >= 1
    PROVE  PassOK'
<1> DEFINE x == [ctx[p] EXCEPT !.verdict = verdict]
<1>1. /\ ctx[p] \in Context /\ LocalOK(pc[p], ctx[p])
      /\ cand = [cand EXCEPT ![p] = cand[p]] /\ cand[p] \in Cands \cup {NoCand}
  BY Locals
<1>2. x \in Context
  BY <1>1 DEF Context
<1>3. /\ x.verdict = verdict /\ x.attempts = ctx[p].attempts /\ x.due = ctx[p].due
      /\ x.left = ctx[p].left /\ x.next = ctx[p].next /\ x.last = ctx[p].last
  BY <1>1 DEF Context
<1>4. LocalOK("log", x)
  BY <1>1, <1>3 DEF LocalOK, WaitHasAttempt, AbortHasStatus, DueHasAttempt, BatchInStream
<1>5. "log" \in Stages
  BY DEF Stages
<1> HIDE DEF x
<1> QED BY <1>1, <1>2, <1>4, <1>5, OneMoves DEF Conclude, Goto, Note, x

LEMMA DecidingKeepsPass ==
    ASSUME StoreTypeOK, PassOK, NEW p \in Procs, NEW c \in Cands, Deciding(p, c)
    PROVE  PassOK'
<1> USE DEF Stages
<1>0. /\ ctx[p] \in Context /\ LocalOK(pc[p], ctx[p])
      /\ cand = [cand EXCEPT ![p] = cand[p]] /\ ctx = [ctx EXCEPT ![p] = ctx[p]]
      /\ pc = [pc EXCEPT ![p] = pc[p]]
      /\ cand[p] \in Cands \cup {NoCand}
  BY Locals
<1>1. CASE Refuse(p, c)
  <2>1. PICK verdict \in {"rejected", "dropped"} : Conclude(p, "decide", verdict)
    BY <1>1 DEF Refuse
  <2>2. stream' = stream
    BY <1>1 DEF Refuse, storeVars
  <2> QED BY <2>1, <2>2, ConcludeKeepsPass DEF Verdicts
<1>2. CASE Wait(p, c)
  <2>1. Conclude(p, "decide", "deferred") /\ stream' = stream /\ ctx[p].attempts >= 1
    BY <1>2 DEF Wait, MayWait, storeVars
  <2> QED BY <2>1, ConcludeKeepsPass DEF Verdicts
<1>3. CASE Approve(p, c)
  <2>1. LocalOK("claim", ctx[p])
    BY <1>0 DEF LocalOK, WaitHasAttempt, AbortHasStatus, DueHasAttempt, BatchInStream
  <2> QED BY <1>0, <1>3, <2>1, OneMoves DEF Approve, Goto, KeepHand, storeVars
<1> QED BY <1>1, <1>2, <1>3 DEF Deciding

LEMMA FiringKeepsPass ==
    ASSUME StoreTypeOK, PassOK, NEW p \in Procs, NEW c \in Cands, Firing(p, c)
    PROVE  PassOK'
<1> USE DEF Stages
<1>0. /\ ctx[p] \in Context /\ LocalOK(pc[p], ctx[p])
      /\ cand = [cand EXCEPT ![p] = cand[p]] /\ ctx = [ctx EXCEPT ![p] = ctx[p]]
      /\ pc = [pc EXCEPT ![p] = pc[p]]
      /\ cand[p] \in Cands \cup {NoCand}
  BY Locals
<1>1. CASE Claim(p, c)
  <2>1. LocalOK("submit", ctx[p])
    BY <1>0 DEF LocalOK, WaitHasAttempt, AbortHasStatus, DueHasAttempt, BatchInStream
  <2> QED BY <1>0, <1>1, <2>1, OneMoves DEF Claim, Goto, KeepHand, RecordFire
<1>2. CASE Duplicate(p, c)
  <2>1. Conclude(p, "claim", "rejected") /\ stream' = stream
    BY <1>2 DEF Duplicate, storeVars
  <2> QED BY <2>1, ConcludeKeepsPass DEF Verdicts
<1>3. CASE SubmitFilled(p, c)
  <2>1. LocalOK("open", ctx[p])
    BY <1>0 DEF LocalOK, WaitHasAttempt, AbortHasStatus, DueHasAttempt, BatchInStream
  <2> QED BY <1>0, <1>3, <2>1, OneMoves DEF SubmitFilled, Goto, KeepHand, storeVars
<1>4. CASE SubmitRefused(p, c)
  <2>1. LocalOK("release", ctx[p])
    BY <1>0 DEF LocalOK, WaitHasAttempt, AbortHasStatus, DueHasAttempt, BatchInStream
  <2> QED BY <1>0, <1>4, <2>1, OneMoves DEF SubmitRefused, Goto, KeepHand, storeVars
<1>5. CASE SubmitUnfilled(p, c)
  <2>1. Conclude(p, "submit", "unfilled") /\ stream' = stream
    BY <1>5 DEF SubmitUnfilled, storeVars
  <2> QED BY <2>1, ConcludeKeepsPass DEF Verdicts
<1>6. CASE SubmitRaises(p, c)
  <2>1. LocalOK("lookup", ctx[p])
    BY <1>0 DEF LocalOK, WaitHasAttempt, AbortHasStatus, DueHasAttempt, BatchInStream
  <2> QED BY <1>0, <1>6, <2>1, OneMoves DEF SubmitRaises, Goto, KeepHand, storeVars
<1>7. CASE Lookup(p, c)
  <2>1. AfterLookup(entry[c]) \in {"open", "cancel", "release"}
    BY DEF AfterLookup
  <2>2. \A to \in {"open", "cancel", "release"} : LocalOK(to, ctx[p])
    BY <1>0 DEF LocalOK, WaitHasAttempt, AbortHasStatus, DueHasAttempt, BatchInStream
  <2> QED BY <1>0, <1>7, <2>1, <2>2, OneMoves DEF Lookup, Goto, KeepHand, storeVars
<1>8. CASE CancelResting(p, c)
  <2>1. LocalOK("release", ctx[p])
    BY <1>0 DEF LocalOK, WaitHasAttempt, AbortHasStatus, DueHasAttempt, BatchInStream
  <2> QED BY <1>0, <1>8, <2>1, OneMoves DEF CancelResting, Goto, KeepHand, storeVars
<1>9. CASE Release(p, c)
  <2>1. Conclude(p, "release", "rejected") /\ stream' = stream
    BY <1>9 DEF Release, ReleaseFire
  <2> QED BY <2>1, ConcludeKeepsPass DEF Verdicts
<1> QED BY <1>1, <1>2, <1>3, <1>4, <1>5, <1>6, <1>7, <1>8, <1>9 DEF Firing

(* The coin of a fired entry joins the snapshot. *)
LEMMA FiredKeepsPass ==
    ASSUME PassOK, NEW p \in Procs, NEW c \in Cands, NEW from \in Stages,
           Fired(p, c, from), stream' = stream
    PROVE  PassOK'
<1> DEFINE x == [ctx[p] EXCEPT !.verdict = "fired",
                               !.coins = @ \cup {CoinOf[c]},
                               !.trades = IF from = "open" THEN @ + 1 ELSE @]
<1>1. /\ ctx[p] \in Context /\ LocalOK(pc[p], ctx[p])
      /\ cand = [cand EXCEPT ![p] = cand[p]] /\ cand[p] \in Cands \cup {NoCand}
  BY Locals
<1>2. CoinOf[c] \in Coins
  BY CandidatesAssumption DEF CandidatesAssumption
<1> DEFINE trades == IF from = "open" THEN ctx[p].trades + 1 ELSE ctx[p].trades
<1>7. trades \in Nat /\ ctx[p].coins \cup {CoinOf[c]} \in SUBSET Coins
  BY <1>1, <1>2 DEF Context
<1>8. x = [ctx[p] EXCEPT !.verdict = "fired",
                         !.coins = ctx[p].coins \cup {CoinOf[c]}, !.trades = trades]
  OBVIOUS
<1> HIDE DEF trades
<1>3. x \in Context
  BY <1>1, <1>7, <1>8 DEF Context, Verdicts
<1>4. /\ x.verdict = "fired" /\ x.due = ctx[p].due
      /\ x.left = ctx[p].left /\ x.next = ctx[p].next /\ x.last = ctx[p].last
  BY <1>1 DEF Context
<1>5. LocalOK("log", x) /\ "log" \in Stages
  BY <1>1, <1>4
  DEF LocalOK, WaitHasAttempt, AbortHasStatus, DueHasAttempt, BatchInStream, Stages
<1>6. Note(p, x) /\ Goto(p, from, "log") /\ UNCHANGED cand
  BY DEF Fired
<1> HIDE DEF x
<1> QED BY <1>1, <1>3, <1>5, <1>6, OneMoves DEF Goto, Note

LEMMA SecuringKeepsPass ==
    ASSUME StoreTypeOK, PassOK, NEW p \in Procs, NEW c \in Cands, Securing(p, c)
    PROVE  PassOK'
<1> USE DEF Stages
<1>0. /\ ctx[p] \in Context /\ LocalOK(pc[p], ctx[p])
      /\ cand = [cand EXCEPT ![p] = cand[p]] /\ ctx = [ctx EXCEPT ![p] = ctx[p]]
      /\ pc = [pc EXCEPT ![p] = pc[p]]
      /\ cand[p] \in Cands \cup {NoCand}
  BY Locals
<1>1. CASE OpenRow(p, c)
  <2>1. stream' = stream
    BY <1>1 DEF OpenRow, OpenTrade
  <2>2. CASE Protected
    <3> DEFINE x == [ctx[p] EXCEPT !.trades = @ + 1]
    <3>1. x \in Context /\ LocalOK("protect", x)
      BY <1>0 DEF Context, LocalOK, WaitHasAttempt, AbortHasStatus, DueHasAttempt, BatchInStream
    <3>2. Note(p, x) /\ Goto(p, "open", "protect") /\ UNCHANGED cand
      BY <1>1, <2>2 DEF OpenRow
    <3> HIDE DEF x
    <3> QED BY <1>0, <2>1, <3>1, <3>2, OneMoves DEF Goto, Note
  <2>3. CASE ~Protected
    BY <1>1, <2>1, <2>3, FiredKeepsPass DEF OpenRow
  <2> QED BY <2>2, <2>3
<1>2. CASE Protect(p, c)
  BY <1>2, FiredKeepsPass DEF Protect, storeVars
<1>3. CASE ProtectFails(p, c)
  <2>1. LocalOK("flatten", ctx[p])
    BY <1>0 DEF LocalOK, WaitHasAttempt, AbortHasStatus, DueHasAttempt, BatchInStream
  <2> QED BY <1>0, <1>3, <2>1, OneMoves DEF ProtectFails, Goto, KeepHand, storeVars
<1>4. CASE EmergencyClose(p, c)
  <2>1. PICK verdict \in {"aborted", "abort_failed"} :
          Note(p, [ctx[p] EXCEPT !.verdict = verdict])
    BY <1>4 DEF EmergencyClose
  <2> DEFINE x == [ctx[p] EXCEPT !.verdict = verdict]
  <2>2. x \in Context
    BY <1>0 DEF Context, Verdicts
  <2>3. /\ x.verdict = verdict /\ x.due = ctx[p].due
        /\ x.left = ctx[p].left /\ x.next = ctx[p].next /\ x.last = ctx[p].last
    BY <1>0 DEF Context
  <2>4. LocalOK("abort", x)
    BY <1>0, <2>3 DEF LocalOK, WaitHasAttempt, AbortHasStatus, DueHasAttempt, BatchInStream
  <2>5. Goto(p, "flatten", "abort") /\ UNCHANGED cand /\ stream' = stream
    BY <1>4 DEF EmergencyClose, storeVars
  <2>6. Note(p, x)
    BY <2>1
  <2> HIDE DEF x
  <2> QED BY <1>0, <2>2, <2>4, <2>5, <2>6, OneMoves DEF Goto, Note
<1>5. CASE Abort(p, c)
  <2>1. LocalOK("log", ctx[p])
    BY <1>0, <1>5 DEF Abort, Goto, LocalOK, WaitHasAttempt, AbortHasStatus, DueHasAttempt, BatchInStream
  <2> QED BY <1>0, <1>5, <2>1, OneMoves DEF Abort, Goto, KeepHand, ResolveTrade
<1> QED BY <1>1, <1>2, <1>3, <1>4, <1>5 DEF Securing

(* Filing a verdict takes a batch candidate on to its intake row, and drops *)
(* what the pass knew of a deferral.                                        *)
LEMMA ForgetOK ==
    ASSUME PassOK, NEW p \in Procs
    PROVE  /\ Forget(ctx[p]) \in Context
           /\ LocalOK("next", Forget(ctx[p]))
           /\ [Forget(ctx[p]) EXCEPT !.next = @ + 1] \in Context
           /\ LocalOK("next", [Forget(ctx[p]) EXCEPT !.next = @ + 1])
<1>1. ctx[p] \in Context /\ LocalOK(pc[p], ctx[p])
  BY Locals
<1> DEFINE x == Forget(ctx[p])
           y == [x EXCEPT !.next = @ + 1]
<1>9. 0 \in 0..FollowupMax
  BY FollowupAssumption DEF FollowupAssumption
<1>2. x \in Context
  BY <1>1, <1>9 DEF Forget, Context, Verdicts
<1>3. /\ x.due = ctx[p].due /\ x.left = ctx[p].left
      /\ x.next = ctx[p].next /\ x.last = ctx[p].last
  BY <1>1 DEF Forget, Context
<1>4. LocalOK("next", x)
  BY <1>1, <1>3 DEF LocalOK, WaitHasAttempt, AbortHasStatus, DueHasAttempt, BatchInStream
<1> HIDE DEF x
<1>5. y \in Context
  BY <1>2 DEF Context
<1>6. y.due = x.due /\ y.left = x.left /\ y.next = x.next + 1 /\ y.last = x.last
  BY <1>2 DEF Context
<1>7. x.next \in Nat /\ x.last \in Nat
  BY <1>2 DEF Context
<1> HIDE DEF y
<1>8. LocalOK("next", y)
  BY <1>4, <1>6, <1>7 DEF LocalOK, WaitHasAttempt, AbortHasStatus, DueHasAttempt, BatchInStream
<1> QED BY <1>2, <1>4, <1>5, <1>8 DEF x, y

LEMMA FiledKeepsPass ==
    ASSUME PassOK, NEW p \in Procs, Filed(p), stream' = stream
    PROVE  PassOK'
<1> USE DEF Stages
<1>0. /\ ctx[p] \in Context /\ LocalOK(pc[p], ctx[p])
      /\ cand = [cand EXCEPT ![p] = cand[p]] /\ ctx = [ctx EXCEPT ![p] = ctx[p]]
      /\ cand[p] \in Cands \cup {NoCand}
  BY Locals
<1>1. CASE ctx[p].fresh
  <2>1. LocalOK("status", ctx[p])
    BY <1>0 DEF LocalOK, WaitHasAttempt, AbortHasStatus, DueHasAttempt, BatchInStream
  <2> QED BY <1>0, <1>1, <2>1, OneMoves DEF Filed, Goto, KeepHand
<1>2. CASE ~ctx[p].fresh
  <2> DEFINE x == Forget(ctx[p])
  <2>1. Done(p, "file", "next") /\ Note(p, x)
    BY <1>2 DEF Filed
  <2>2. x \in Context /\ LocalOK("next", x)
    BY ForgetOK
  <2> HIDE DEF x
  <2> QED BY <2>1, <2>2, OneMoves DEF Done, Goto, Note
<1> QED BY <1>1, <1>2

LEMMA FilingKeepsPass ==
    ASSUME StoreTypeOK, PassOK, NEW p \in Procs, NEW c \in Cands, Filing(p, c)
    PROVE  PassOK'
<1> USE DEF Stages
<1>0. /\ ctx[p] \in Context /\ LocalOK(pc[p], ctx[p])
      /\ cand = [cand EXCEPT ![p] = cand[p]] /\ ctx = [ctx EXCEPT ![p] = ctx[p]]
      /\ pc = [pc EXCEPT ![p] = pc[p]]
      /\ cand[p] \in Cands \cup {NoCand}
  BY Locals
<1>1. CASE Log(p, c)
  <2>1. LocalOK("file", ctx[p])
    BY <1>0, <1>1 DEF Log, Goto, LocalOK, WaitHasAttempt, AbortHasStatus, DueHasAttempt, BatchInStream
  <2> QED BY <1>0, <1>1, <2>1, OneMoves DEF Log, Goto, KeepHand, LogDecision
<1>2. CASE Park(p, c)
  BY <1>2, FiledKeepsPass DEF Park, DeferCandidate
<1>3. CASE Settle(p, c)
  BY <1>3, FiledKeepsPass DEF Settle, DropDeferred, storeVars
<1>4. CASE MarkStatus(p, c)
  <2>1. LocalOK("hwm", ctx[p])
    BY <1>0 DEF LocalOK, WaitHasAttempt, AbortHasStatus, DueHasAttempt, BatchInStream
  <2> QED BY <1>0, <1>4, <2>1, OneMoves DEF MarkStatus, Goto, KeepHand, SetStatus
<1> QED BY <1>1, <1>2, <1>3, <1>4 DEF Filing

LEMMA MarkingKeepsPass ==
    ASSUME StoreTypeOK, PassOK, NEW p \in Procs, Marking(p)
    PROVE  PassOK'
<1> USE DEF Stages
<1>0. /\ ctx[p] \in Context /\ LocalOK(pc[p], ctx[p])
      /\ cand = [cand EXCEPT ![p] = cand[p]] /\ ctx = [ctx EXCEPT ![p] = ctx[p]]
      /\ pc = [pc EXCEPT ![p] = pc[p]]
      /\ cand[p] \in Cands \cup {NoCand}
  BY Locals
<1>1. CASE ReadHwm(p)
  <2>1. LocalOK("mark", ctx[p])
    BY <1>0 DEF LocalOK, WaitHasAttempt, AbortHasStatus, DueHasAttempt, BatchInStream
  <2> QED BY <1>0, <1>1, <2>1, OneMoves DEF ReadHwm, Goto, KeepHand, storeVars
<1>2. CASE HwmAhead(p)
  <2> DEFINE x == [Forget(ctx[p]) EXCEPT !.next = @ + 1]
  <2>1. Done(p, "hwm", "next") /\ Note(p, x) /\ stream' = stream
    BY <1>2 DEF HwmAhead, storeVars
  <2>2. x \in Context /\ LocalOK("next", x)
    BY ForgetOK
  <2> HIDE DEF x
  <2> QED BY <2>1, <2>2, OneMoves DEF Done, Goto, Note
<1>3. CASE AdvanceHwm(p)
  <2> DEFINE x == [Forget(ctx[p]) EXCEPT !.next = @ + 1]
  <2>1. Done(p, "mark", "next") /\ Note(p, x) /\ stream' = stream
    BY <1>3 DEF AdvanceHwm, WriteHwm
  <2>2. x \in Context /\ LocalOK("next", x)
    BY ForgetOK
  <2> HIDE DEF x
  <2> QED BY <2>1, <2>2, OneMoves DEF Done, Goto, Note
<1> QED BY <1>1, <1>2, <1>3 DEF Marking

(* A process that dies, or lets an exception out, forgets everything. *)
LEMMA LeaveKeepsPass ==
    ASSUME PassOK, NEW p \in Procs, Leave(p), stream' = stream
    PROVE  PassOK'
BY NoContextOK, OneMoves DEF Leave, Note, Stages

LEMMA PassStepKeepsPass ==
    ASSUME StoreTypeOK, BookTypeOK, EnvTypeOK, PassOK, NEW p \in Procs,
           PassStep(p) \/ Failing(p)
    PROVE  PassOK'
<1>1. ASSUME NEW c \in Cands, DecideRaises(p, c)
      PROVE  PassOK'
  BY <1>1, LeaveKeepsPass DEF DecideRaises, storeVars
<1>2. CASE Crash(p)
  BY <1>2, LeaveKeepsPass DEF Crash, Fault, storeVars
<1> QED
  BY <1>1, <1>2, ResolvingKeepsPass, QueueingKeepsPass, DecidingKeepsPass,
     FiringKeepsPass, SecuringKeepsPass, FilingKeepsPass, MarkingKeepsPass
  DEF PassStep, Failing

LEMMA StoreMethodsKeepType ==
    ASSUME StoreTypeOK, NEW c \in Cands
    PROVE  /\ EnqueueRow(c) => StoreTypeOK'
           /\ \A st \in Verdicts : SetStatus(c, st) => StoreTypeOK'
           /\ \A n \in Nat : WriteHwm(n) => StoreTypeOK'
           /\ RecordFire(c) => StoreTypeOK'
           /\ ReleaseFire(c) => StoreTypeOK'
           /\ \A o \in Verdicts : LogDecision(c, o) => StoreTypeOK'
           /\ \A n \in 1..FollowupMax : DeferCandidate(c, n) => StoreTypeOK'
           /\ DropDeferred(c) => StoreTypeOK'
           /\ OpenTrade(c) => StoreTypeOK'
           /\ \A st \in RowStatus : ResolveTrade(c, st) => StoreTypeOK'
           /\ SetBreaker(~breaker) => StoreTypeOK'
           /\ ComeDue(c) => StoreTypeOK'
<1> USE DEF StoreTypeOK
<1>1. EnqueueRow(c) => StoreTypeOK'
  BY DEF EnqueueRow
<1>2. \A st \in Verdicts : SetStatus(c, st) => StoreTypeOK'
  BY DEF SetStatus
<1>3. \A n \in Nat : WriteHwm(n) => StoreTypeOK'
  BY DEF WriteHwm
<1>4. RecordFire(c) => StoreTypeOK'
  BY DEF RecordFire
<1>5. ReleaseFire(c) => StoreTypeOK'
  BY DEF ReleaseFire
<1>6. \A o \in Verdicts : LogDecision(c, o) => StoreTypeOK'
  BY DEF LogDecision
<1>7. \A n \in 1..FollowupMax : DeferCandidate(c, n) => StoreTypeOK'
  BY DEF DeferCandidate
<1>8. DropDeferred(c) => StoreTypeOK'
  BY DEF DropDeferred
<1>9. OpenTrade(c) => StoreTypeOK'
  BY DEF OpenTrade, RowStatus
<1>10. \A st \in RowStatus : ResolveTrade(c, st) => StoreTypeOK'
  BY DEF ResolveTrade
<1>11. SetBreaker(~breaker) => StoreTypeOK'
  BY DEF SetBreaker
<1>12. ComeDue(c) => StoreTypeOK'
  BY DEF ComeDue
<1> QED
  BY <1>1, <1>2, <1>3, <1>4, <1>5, <1>6, <1>7, <1>8, <1>9, <1>10, <1>11, <1>12

LEMMA BookMovesKeepType ==
    ASSUME BookTypeOK, NEW c \in Cands
    PROVE  /\ Fill(c) => BookTypeOK'
           /\ Rest(c) => BookTypeOK'
           /\ RestingFills(c) => BookTypeOK'
           /\ CancelEntry(c) => BookTypeOK'
           /\ ExternalClose(c) => BookTypeOK'
           /\ Cover(c) => BookTypeOK'
           /\ \A S \in SUBSET Cands : Uncover(S) => BookTypeOK'
           /\ Flatten(c) => BookTypeOK'
<1> USE DEF BookTypeOK
<1>1. Fill(c) => BookTypeOK'
  BY DEF Fill
<1>2. Rest(c) => BookTypeOK'
  BY DEF Rest
<1>3. RestingFills(c) => BookTypeOK'
  BY <1>1 DEF RestingFills
<1>4. CancelEntry(c) => BookTypeOK'
  BY DEF CancelEntry
<1>5. ExternalClose(c) => BookTypeOK'
  BY DEF ExternalClose
<1>6. Cover(c) => BookTypeOK'
  BY DEF Cover
<1>7. \A S \in SUBSET Cands : Uncover(S) => BookTypeOK'
  BY DEF Uncover
<1>8. Flatten(c) => BookTypeOK'
  BY DEF Flatten
<1> QED BY <1>1, <1>2, <1>3, <1>4, <1>5, <1>6, <1>7, <1>8

(* What a pass writes to the store is what the store may hold. *)
LEMMA PassStepKeepsStore ==
    ASSUME StoreTypeOK, PassOK, NEW p \in Procs, PassStep(p) \/ Failing(p)
    PROVE  StoreTypeOK'
<1>0. ctx[p] \in Context /\ LocalOK(pc[p], ctx[p])
  BY Locals
<1>1. UNCHANGED storeVars => StoreTypeOK'
  BY DEF storeVars, StoreTypeOK
<1>2. CASE Resolving(p)
  <2>1. ASSUME NEW c \in Cands, ResolveRow(p, c)
        PROVE  StoreTypeOK'
    BY <2>1, StoreMethodsKeepType DEF ResolveRow, RowStatus
  <2> QED
    BY <1>1, <1>2, <2>1
    DEF Resolving, BeginPass, ListRows, CloseRow, CancelOwn, LookForSiblings, SweepCoin,
        EndResolve
<1>3. CASE Queueing(p)
  <2>1. ASSUME NEW c \in Cands, SkipFired(p, c)
        PROVE  StoreTypeOK'
    BY <2>1, StoreMethodsKeepType DEF SkipFired
  <2> QED
    BY <1>1, <1>3, <2>1 DEF Queueing, ReadBook, ReadQueues, TakeDue, TakeNew, EndPass
<1>4. ASSUME NEW c \in Cands, Deciding(p, c)
      PROVE  StoreTypeOK'
  BY <1>1, <1>4 DEF Deciding, Refuse, Wait, Approve
<1>5. ASSUME NEW c \in Cands, Firing(p, c)
      PROVE  StoreTypeOK'
  <2>1. CASE Claim(p, c)
    BY <2>1, StoreMethodsKeepType DEF Claim
  <2>2. CASE Release(p, c)
    BY <2>2, StoreMethodsKeepType DEF Release
  <2> QED
    BY <1>1, <1>5, <2>1, <2>2
    DEF Firing, Duplicate, SubmitFilled, SubmitRefused, SubmitUnfilled, SubmitRaises,
        Lookup, CancelResting
<1>6. ASSUME NEW c \in Cands, Securing(p, c)
      PROVE  StoreTypeOK'
  <2>1. CASE OpenRow(p, c)
    BY <2>1, StoreMethodsKeepType DEF OpenRow
  <2>2. CASE Abort(p, c)
    <3>1. ctx[p].verdict \in RowStatus
      BY <1>0, <2>2 DEF Abort, Goto, LocalOK, AbortHasStatus, RowStatus
    <3> QED BY <2>2, <3>1, StoreMethodsKeepType DEF Abort
  <2> QED
    BY <1>1, <1>6, <2>1, <2>2 DEF Securing, Protect, ProtectFails, EmergencyClose
<1>7. ASSUME NEW c \in Cands, Filing(p, c)
      PROVE  StoreTypeOK'
  <2>1. ctx[p].verdict \in Verdicts
    BY <1>0 DEF Context
  <2>2. CASE Log(p, c)
    BY <2>1, <2>2, StoreMethodsKeepType DEF Log
  <2>3. CASE Park(p, c)
    <3>1. pc[p] = "file"
      BY <2>3 DEF Park, Filed, Goto, Done
    <3>2. ctx[p].attempts \in 1..FollowupMax
      BY <1>0, <2>3, <3>1, FollowupAssumption
      DEF Park, Context, LocalOK, WaitHasAttempt, FollowupAssumption
    <3> QED BY <2>3, <3>2, StoreMethodsKeepType DEF Park
  <2>4. CASE Settle(p, c)
    BY <1>1, <2>4, StoreMethodsKeepType DEF Settle
  <2>5. CASE MarkStatus(p, c)
    BY <2>1, <2>5, StoreMethodsKeepType DEF MarkStatus
  <2> QED BY <1>7, <2>2, <2>3, <2>4, <2>5 DEF Filing
<1>8. CASE Marking(p)
  <2>1. ctx[p].next \in Nat
    BY <1>0 DEF Context
  <2>2. CASE AdvanceHwm(p)
    BY <2>1, <2>2 DEF AdvanceHwm, WriteHwm, StoreTypeOK
  <2> QED BY <1>1, <1>8, <2>2 DEF Marking, ReadHwm, HwmAhead
<1>9. CASE Failing(p)
  BY <1>1, <1>9 DEF Failing, Crash, DecideRaises
<1> QED BY <1>2, <1>3, <1>4, <1>5, <1>6, <1>7, <1>8, <1>9 DEF PassStep

LEMMA PassStepKeepsBook ==
    ASSUME BookTypeOK, NEW p \in Procs, PassStep(p) \/ Failing(p)
    PROVE  BookTypeOK'
<1>1. UNCHANGED bookVars => BookTypeOK'
  BY DEF bookVars, BookTypeOK
<1>2. CASE Resolving(p)
  <2>1. ASSUME NEW c \in Cands, CloseRow(p, c)
        PROVE  BookTypeOK'
    BY <1>1, <2>1, BookMovesKeepType DEF CloseRow
  <2>2. ASSUME NEW c \in Cands, CancelOwn(p, c)
        PROVE  BookTypeOK'
    BY <2>2, BookMovesKeepType DEF CancelOwn
  <2>3. ASSUME NEW c \in Cands, SweepCoin(p, c)
        PROVE  BookTypeOK'
    <3>1. SameCoin(c) \in SUBSET Cands
      BY DEF SameCoin
    <3> QED BY <2>3, <3>1, BookMovesKeepType DEF SweepCoin
  <2> QED
    BY <1>1, <1>2, <2>1, <2>2, <2>3
    DEF Resolving, BeginPass, ListRows, ResolveRow, LookForSiblings, EndResolve
<1>3. CASE Queueing(p)
  BY <1>1, <1>3
  DEF Queueing, ReadBook, ReadQueues, SkipFired, TakeDue, TakeNew, EndPass
<1>4. ASSUME NEW c \in Cands, Deciding(p, c)
      PROVE  BookTypeOK'
  BY <1>1, <1>4 DEF Deciding, Refuse, Wait, Approve
<1>5. ASSUME NEW c \in Cands, Firing(p, c)
      PROVE  BookTypeOK'
  BY <1>1, <1>5, BookMovesKeepType
  DEF Firing, Claim, Duplicate, SubmitFilled, SubmitRefused, SubmitUnfilled,
      SubmitRaises, Lookup, CancelResting, Release
<1>6. ASSUME NEW c \in Cands, Securing(p, c)
      PROVE  BookTypeOK'
  BY <1>1, <1>6, BookMovesKeepType
  DEF Securing, OpenRow, Protect, ProtectFails, EmergencyClose, Abort
<1>7. ASSUME NEW c \in Cands, Filing(p, c)
      PROVE  BookTypeOK'
  BY <1>1, <1>7 DEF Filing, Log, Park, Settle, MarkStatus
<1>8. CASE Marking(p)
  BY <1>1, <1>8 DEF Marking, ReadHwm, HwmAhead, AdvanceHwm
<1>9. CASE Failing(p)
  BY <1>1, <1>9 DEF Failing, Crash, DecideRaises
<1> QED BY <1>2, <1>3, <1>4, <1>5, <1>6, <1>7, <1>8, <1>9 DEF PassStep

LEMMA PassStepKeepsEnv ==
    ASSUME EnvTypeOK, NEW p \in Procs, PassStep(p) \/ Failing(p)
    PROVE  EnvTypeOK'
<1>1. KeepEnv => EnvTypeOK'
  BY DEF KeepEnv, EnvTypeOK
<1>2. CASE Resolving(p)
  BY <1>1, <1>2
  DEF Resolving, BeginPass, ListRows, CloseRow, ResolveRow, CancelOwn, LookForSiblings,
      SweepCoin, EndResolve
<1>3. CASE Queueing(p)
  BY <1>1, <1>3
  DEF Queueing, ReadBook, ReadQueues, SkipFired, TakeDue, TakeNew, EndPass
<1>4. ASSUME NEW c \in Cands, Deciding(p, c)
      PROVE  EnvTypeOK'
  BY <1>4 DEF Deciding, Refuse, Wait, Approve, Asked, EnvTypeOK
<1>5. ASSUME NEW c \in Cands, Firing(p, c)
      PROVE  EnvTypeOK'
  BY <1>1, <1>5
  DEF Firing, Claim, Duplicate, SubmitFilled, SubmitRefused, SubmitUnfilled,
      SubmitRaises, Lookup, CancelResting, Release
<1>6. ASSUME NEW c \in Cands, Securing(p, c)
      PROVE  EnvTypeOK'
  BY <1>1, <1>6
  DEF Securing, OpenRow, Protect, ProtectFails, EmergencyClose, Abort
<1>7. ASSUME NEW c \in Cands, Filing(p, c)
      PROVE  EnvTypeOK'
  BY <1>1, <1>7 DEF Filing, Log, Park, Settle, MarkStatus
<1>8. CASE Marking(p)
  BY <1>1, <1>8 DEF Marking, ReadHwm, HwmAhead, AdvanceHwm
<1>9. CASE Failing(p)
  BY <1>9, PassAssumption
  DEF Failing, Crash, Fault, DecideRaises, Asked, EnvTypeOK, PassAssumption
<1> QED BY <1>2, <1>3, <1>4, <1>5, <1>6, <1>7, <1>8, <1>9 DEF PassStep

LEMMA EnvironmentKeepsType ==
    ASSUME TypeInv, Environment
    PROVE  TypeInv'
<1> USE DEF TypeInv
<1>1. UNCHANGED storeVars => StoreTypeOK'
  BY DEF storeVars, StoreTypeOK
<1>2. UNCHANGED bookVars => BookTypeOK'
  BY DEF bookVars, BookTypeOK
<1>3. UNCHANGED passVars /\ stream' = stream => PassOK'
  BY DEF passVars, PassOK, PassTypeOK,
         LocalOK, WaitHasAttempt, AbortHasStatus, DueHasAttempt, BatchInStream
<1>4. KeepEnv => EnvTypeOK'
  BY DEF KeepEnv, EnvTypeOK
<1>5. ASSUME NEW c \in Cands, Enqueue(c)
      PROVE  TypeInv'
  <2>1. stream' = Append(stream, c) /\ UNCHANGED passVars
    BY <1>5 DEF Enqueue, EnqueueRow
  <2>2. Len(stream') = Len(stream) + 1 /\ Len(stream) \in Nat
    BY <2>1 DEF StoreTypeOK
  <2>3. ASSUME NEW q \in Procs
        PROVE  LocalOK(pc[q], ctx[q])'
    <3>1. pc'[q] = pc[q] /\ ctx'[q] = ctx[q]
      BY <2>1 DEF passVars
    <3>2. LocalOK(pc[q], ctx[q]) /\ ctx[q] \in Context
      BY Locals
    <3>3. ctx[q].last \in Nat
      BY <3>2 DEF Context
    <3> QED
      BY <2>2, <3>1, <3>2, <3>3
      DEF LocalOK, WaitHasAttempt, AbortHasStatus, DueHasAttempt, BatchInStream
  <2>4. PassOK'
    BY <2>1, <2>3 DEF PassOK, PassTypeOK, passVars
  <2> QED BY <1>2, <1>4, <1>5, <2>4, StoreMethodsKeepType DEF Enqueue
<1>6. ASSUME NEW c \in Cands, TimePasses(c)
      PROVE  TypeInv'
  BY <1>2, <1>3, <1>4, <1>6, StoreMethodsKeepType DEF TimePasses, ComeDue
<1>7. ASSUME NEW c \in Cands, Market(c)
      PROVE  TypeInv'
  BY <1>1, <1>3, <1>4, <1>7, BookMovesKeepType DEF Market, storeVars
<1>8. CASE Switch
  <2>1. StoreTypeOK' /\ stream' = stream
    BY <1>8 DEF Switch, SetBreaker, StoreTypeOK
  <2>2. EnvTypeOK'
    BY <1>8, PassAssumption DEF Switch, EnvTypeOK, PassAssumption
  <2> QED BY <1>2, <1>3, <1>8, <2>1, <2>2 DEF Switch
<1>9. CASE EquityMoves
  <2>1. EnvTypeOK'
    BY <1>9, PassAssumption DEF EquityMoves, EnvTypeOK, PassAssumption
  <2> QED BY <1>1, <1>2, <1>3, <1>9, <2>1 DEF EquityMoves, storeVars
<1> QED BY <1>5, <1>6, <1>7, <1>8, <1>9 DEF Environment

LEMMA TypeInvInit == Init => TypeInv
<1> SUFFICES ASSUME Init PROVE TypeInv
  OBVIOUS
<1>1. StoreTypeOK
  <2>1. /\ hwm \in Nat /\ keys \in SUBSET Cands /\ ripe \in SUBSET Cands
        /\ breaker \in BOOLEAN
    BY DEF Init, StoreInit
  <2>4. stream \in Seq(Cands)
    <3>1. stream = <<>>
      BY DEF Init, StoreInit
    <3> QED BY <3>1
  <2>2. /\ status \in [Cands -> Verdicts \cup {"pending"}]
        /\ outcome \in [Cands -> Verdicts \cup {"none"}]
        /\ parked \in [Cands -> {NotParked} \cup 1..FollowupMax]
    BY DEF Init, StoreInit
  <2>3. ledger \in [Cands -> RowStatus]
    BY DEF Init, StoreInit, RowStatus
  <2> QED BY <2>1, <2>2, <2>3, <2>4 DEF StoreTypeOK
<1>4. BookTypeOK
  BY DEF Init, BookInit, BookTypeOK
<1>5. MaxFaults \in Nat /\ MaxHalts \in Nat
  BY PassAssumption DEF PassAssumption
<1>2. EnvTypeOK
  <2>1. lossHit \in BOOLEAN /\ looks \in [Cands -> Nat]
    BY DEF Init
  <2>2. faults \in 0..MaxFaults /\ halts \in 0..MaxHalts
    BY <1>5 DEF Init
  <2> QED BY <2>1, <2>2 DEF EnvTypeOK
<1>3. PassOK
  BY NoContextOK DEF Init, PassOK, PassTypeOK, Stages
<1> QED BY <1>1, <1>2, <1>3, <1>4 DEF TypeInv

LEMMA TypeInvNext == TypeInv /\ [Next]_vars => TypeInv'
<1> SUFFICES ASSUME TypeInv, [Next]_vars PROVE TypeInv'
  OBVIOUS
<1>1. ASSUME NEW p \in Procs, PassStep(p) \/ Failing(p)
      PROVE  TypeInv'
  BY <1>1, PassStepKeepsStore, PassStepKeepsBook, PassStepKeepsEnv, PassStepKeepsPass
  DEF TypeInv
<1>2. CASE UNCHANGED vars
  BY <1>2
  DEF vars, storeVars, bookVars, passVars, TypeInv, StoreTypeOK, BookTypeOK, EnvTypeOK,
      PassOK, PassTypeOK,
      LocalOK, WaitHasAttempt, AbortHasStatus, DueHasAttempt, BatchInStream
<1> QED BY <1>1, <1>2, EnvironmentKeepsType DEF Next

(* TypeOK holds of every run: whatever crashes and however passes of any   *)
(* number of processes interleave, no candidate is parked with nothing     *)
(* left and no pass reads past the end of the stream.                      *)
THEOREM TypeCorrect == Spec => []TypeOK
<1>1. TypeInv => TypeOK
  BY DEF TypeInv, TypeOK, PassOK
<1> QED BY <1>1, TypeInvInit, TypeInvNext, PTL DEF Spec

-----------------------------------------------------------------------------
(* The claim protocol: a candidate enters at most once, its claim outlives *)
(* its entry, no row is booked without an entry, and the whole implements  *)
(* EntryClaim.  All of it rests on one fact about the exchange: an entry   *)
(* found resting does not fill before it is cancelled (~RestingMayFill).   *)
(* Without that fact the claim is given back under a filled entry.         *)

\* From the claim to its outcome: this process alone holds the claim.
Claiming == {"submit", "lookup", "cancel", "release"}
\* Of those, the stages at which nothing of the entry has filled.
Unsent == {"submit", "cancel", "release"}
\* The entry in hand has filled.
Sent == {"open", "protect", "flatten", "abort", "book"}

HandOK(p) ==
    \A c \in Cands : Holds(p, c) =>
        /\ pc[p] \in Claiming => c \in keys
        /\ pc[p] \in Unsent => entered[c] = 0
        /\ pc[p] \in Sent => entered[c] > 0

\* No two processes are between claim and outcome of one candidate.
OneClaimer ==
    \A p, q \in Procs : \A c \in Cands :
        /\ pc[p] \in Claiming /\ Holds(p, c)
        /\ pc[q] \in Claiming /\ Holds(q, c)
        => p = q

FilledIsEntered == \A c \in Cands : entry[c] = "filled" <=> entered[c] > 0
ListedRowsEntered == \A p \in Procs : \A c \in ctx[p].rows : entered[c] > 0

ClaimInv == FilledIsEntered /\ EntryOnce /\ ClaimCoversEntry /\ LedgerMatchesBook

EntryInv ==
    /\ ClaimInv
    /\ ListedRowsEntered
    /\ \A p \in Procs : HandOK(p)
    /\ OneClaimer

(* A step of one process leaves the locals of the others alone. *)
OthersStay(p) ==
    \A q \in Procs \ {p} : pc'[q] = pc[q] /\ cand'[q] = cand[q] /\ ctx'[q] = ctx[q]

LEMMA StepsOfOne ==
    ASSUME PassTypeOK, NEW p \in Procs, PassStep(p) \/ Failing(p)
    PROVE  OthersStay(p)
<1> USE DEF PassTypeOK, OthersStay, Goto, Done, Leave, Note, KeepHand
<1>1. CASE Resolving(p)
  BY <1>1
  DEF Resolving, BeginPass, ListRows, CloseRow, ResolveRow, CancelOwn, LookForSiblings,
      SweepCoin, EndResolve
<1>2. CASE Queueing(p)
  BY <1>2 DEF Queueing, ReadBook, ReadQueues, SkipFired, TakeDue, TakeNew, EndPass
<1>3. ASSUME NEW c \in Cands, Deciding(p, c)
      PROVE  OthersStay(p)
  BY <1>3 DEF Deciding, Refuse, Wait, Approve, Conclude
<1>4. ASSUME NEW c \in Cands, Firing(p, c)
      PROVE  OthersStay(p)
  BY <1>4
  DEF Firing, Claim, Duplicate, SubmitFilled, SubmitRefused, SubmitUnfilled,
      SubmitRaises, Lookup, CancelResting, Release, Conclude
<1>5. ASSUME NEW c \in Cands, Securing(p, c)
      PROVE  OthersStay(p)
  BY <1>5 DEF Securing, OpenRow, Protect, ProtectFails, EmergencyClose, Abort, Fired
<1>6. ASSUME NEW c \in Cands, Filing(p, c)
      PROVE  OthersStay(p)
  BY <1>6 DEF Filing, Log, Park, Settle, MarkStatus, Filed
<1>7. CASE Marking(p)
  BY <1>7 DEF Marking, ReadHwm, HwmAhead, AdvanceHwm
<1>8. CASE Failing(p)
  BY <1>8 DEF Failing, Crash, Fault, DecideRaises
<1> QED BY <1>1, <1>2, <1>3, <1>4, <1>5, <1>6, <1>7, <1>8 DEF PassStep

(* Only listing the open rows adds to the rows a process has yet to look at. *)
RowsShrink(p) == ctx'[p].rows \subseteq ctx[p].rows

LEMMA RowsOnlyListed ==
    ASSUME PassOK, NEW p \in Procs, PassStep(p) \/ Failing(p), ~ListRows(p)
    PROVE  RowsShrink(p)
<1>0. ctx \in [Procs -> Context] /\ ctx[p] \in Context
  BY DEF PassOK, PassTypeOK
<1>1. NoContext.rows = {}
  BY DEF NoContext
<1>2. Leave(p) => RowsShrink(p)
  BY <1>0, <1>1 DEF RowsShrink, Leave, Note
<1>3. ctx' = ctx => RowsShrink(p)
  BY DEF RowsShrink
<1>4. ASSUME NEW from, NEW verdict, Conclude(p, from, verdict)
      PROVE  RowsShrink(p)
  BY <1>0, <1>4 DEF Conclude, RowsShrink, Note, Context
<1>5. ASSUME NEW c, NEW from, Fired(p, c, from)
      PROVE  RowsShrink(p)
  BY <1>0, <1>5 DEF Fired, RowsShrink, Note, Context
<1>6. Forget(ctx[p]).rows = ctx[p].rows /\ [Forget(ctx[p]) EXCEPT !.next = @ + 1].rows = ctx[p].rows
  BY <1>0 DEF Forget, Context
<1>7. CASE Resolving(p)
  <2>1. CASE BeginPass(p)
    <3>1. [NoContext EXCEPT !.coins = LiveCoins].rows = {}
      BY DEF NoContext
    <3> QED BY <1>0, <2>1, <3>1 DEF BeginPass, RowsShrink, Note
  <2>2. ASSUME NEW c \in Cands, CloseRow(p, c)
        PROVE  RowsShrink(p)
    BY <1>0, <2>2 DEF CloseRow, RowsShrink, Note, Context
  <2>3. CASE EndResolve(p)
    BY <1>0, <2>3 DEF EndResolve, RowsShrink, Note, Context
  <2> QED
    BY <1>3, <1>7, <2>1, <2>2, <2>3
    DEF Resolving, ResolveRow, CancelOwn, LookForSiblings, SweepCoin, KeepHand
<1>8. CASE Queueing(p)
  <2>1. CASE ReadQueues(p)
    BY <1>0, <2>1 DEF ReadQueues, RowsShrink, Note, Context
  <2>2. CASE ReadBook(p)
    BY <1>0, <2>2 DEF ReadBook, RowsShrink, Note, Context
  <2>3. ASSUME NEW c \in Cands, SkipFired(p, c)
        PROVE  RowsShrink(p)
    BY <1>0, <2>3 DEF SkipFired, RowsShrink, Note, Context
  <2>4. ASSUME NEW c \in Cands, TakeDue(p, c)
        PROVE  RowsShrink(p)
    BY <1>0, <2>4 DEF TakeDue, RowsShrink, Note, Context
  <2>5. CASE TakeNew(p)
    BY <1>0, <2>5 DEF TakeNew, RowsShrink, Note, Context
  <2> QED BY <1>2, <1>8, <2>1, <2>2, <2>3, <2>4, <2>5 DEF Queueing, EndPass
<1>9. ASSUME NEW c \in Cands, Deciding(p, c)
      PROVE  RowsShrink(p)
  BY <1>3, <1>4, <1>9 DEF Deciding, Refuse, Wait, Approve, KeepHand
<1>10. ASSUME NEW c \in Cands, Firing(p, c)
      PROVE  RowsShrink(p)
  BY <1>3, <1>4, <1>10
  DEF Firing, Claim, Duplicate, SubmitFilled, SubmitRefused, SubmitUnfilled,
      SubmitRaises, Lookup, CancelResting, Release, KeepHand
<1>11. ASSUME NEW c \in Cands, Securing(p, c)
      PROVE  RowsShrink(p)
  <2>1. CASE OpenRow(p, c)
    BY <1>0, <1>5, <2>1 DEF OpenRow, RowsShrink, Note, Context
  <2>2. CASE EmergencyClose(p, c)
    BY <1>0, <2>2 DEF EmergencyClose, RowsShrink, Note, Context
  <2> QED
    BY <1>3, <1>5, <1>11, <2>1, <2>2 DEF Securing, Protect, ProtectFails, Abort, KeepHand
<1>12. Filed(p) => RowsShrink(p)
  BY <1>0, <1>3, <1>6 DEF Filed, KeepHand, RowsShrink, Note
<1>13. ASSUME NEW c \in Cands, Filing(p, c)
      PROVE  RowsShrink(p)
  BY <1>3, <1>12, <1>13 DEF Filing, Log, Park, Settle, MarkStatus, KeepHand
<1>14. CASE Marking(p)
  BY <1>0, <1>3, <1>6, <1>14
  DEF Marking, ReadHwm, HwmAhead, AdvanceHwm, KeepHand, RowsShrink, Note
<1>15. CASE Failing(p)
  BY <1>2, <1>15 DEF Failing, Crash, Fault, DecideRaises
<1> QED BY <1>7, <1>8, <1>9, <1>10, <1>11, <1>13, <1>14, <1>15 DEF PassStep

(* One process moves; what has to be looked at for EntryInv to be kept. *)
LEMMA EntryMove ==
    ASSUME EntryInv, NEW p \in Procs, OthersStay(p),
           ClaimInv',
           \A c \in ctx'[p].rows : entered'[c] > 0,
           HandOK(p)',
           \A c \in Cands, q \in Procs \ {p} :
               /\ pc'[p] \in Claiming /\ cand'[p] = c
               /\ pc[q] \in Claiming /\ Holds(q, c)
               => FALSE,
           \A c \in Cands, q \in Procs \ {p} :
               Holds(q, c) /\ pc[q] \in Claiming =>
                   /\ c \in keys => c \in keys'
                   /\ entered'[c] = entered[c],
           \A q \in Procs \ {p} : \A c \in ctx[q].rows : c \in Cands,
           \A c \in Cands : entered[c] > 0 => entered'[c] > 0
    PROVE  EntryInv'
<1>1. ListedRowsEntered'
  <2>1. ASSUME NEW q \in Procs, NEW c \in ctx'[q].rows
        PROVE  entered'[c] > 0
    BY <2>1 DEF EntryInv, ListedRowsEntered, OthersStay
  <2> QED BY <2>1 DEF ListedRowsEntered
<1>2. ASSUME NEW q \in Procs
      PROVE  HandOK(q)'
  <2>1. CASE q = p
    BY <2>1
  <2>2. CASE q # p
    <3>1. HandOK(q) /\ pc'[q] = pc[q] /\ cand'[q] = cand[q]
      BY <2>2 DEF EntryInv, OthersStay
    <3> QED BY <2>2, <3>1 DEF HandOK, Holds, Unsent, Claiming
  <2> QED BY <2>1, <2>2
<1>3. OneClaimer'
  BY DEF EntryInv, OneClaimer, OthersStay, Holds
<1> QED BY <1>1, <1>2, <1>3 DEF EntryInv

(* The common case: nothing is claimed, entered or booked, and the process  *)
(* stays within its claim or moves to where its hand is known to be right.  *)
LEMMA LocalMove ==
    ASSUME TypeInv, EntryInv, NEW p \in Procs, OthersStay(p), RowsShrink(p),
           UNCHANGED <<entry, entered, keys, ledger>>,
           pc'[p] \in Claiming => pc[p] \in Claiming /\ cand'[p] = cand[p],
           \A c \in Cands : cand'[p] = c =>
               /\ pc'[p] \in Unsent => entered[c] = 0
               /\ pc'[p] \in Sent => entered[c] > 0
    PROVE  EntryInv'
<1>1. ClaimInv'
  BY DEF EntryInv, ClaimInv, FilledIsEntered, EntryOnce, ClaimCoversEntry, LedgerMatchesBook
<1>2. \A c \in ctx'[p].rows : entered'[c] > 0
  BY DEF RowsShrink, EntryInv, ListedRowsEntered
<1>3. HandOK(p)'
  BY DEF EntryInv, HandOK, Holds
<1>4. \A c \in Cands, q \in Procs \ {p} :
          /\ pc'[p] \in Claiming /\ cand'[p] = c
          /\ pc[q] \in Claiming /\ Holds(q, c)
          => FALSE
  BY DEF EntryInv, OneClaimer, Holds
<1>5. \A q \in Procs \ {p} : \A c \in ctx[q].rows : c \in Cands
  BY DEF TypeInv, PassOK, PassTypeOK, Context
<1> QED BY <1>1, <1>2, <1>3, <1>4, <1>5, EntryMove

\* A stage at which the hand carries no obligation.
Plain(stage) == stage \notin Claiming \cup Sent

LEMMA PlainMove ==
    ASSUME TypeInv, EntryInv, NEW p \in Procs, OthersStay(p), RowsShrink(p),
           UNCHANGED <<entry, entered, keys, ledger>>,
           Plain(pc'[p])
    PROVE  EntryInv'
BY LocalMove DEF Plain, Claiming, Unsent, Sent

LEMMA ResolvingKeepsEntries ==
    ASSUME TypeInv, EntryInv, NEW p \in Procs, Resolving(p)
    PROVE  EntryInv'
<1>0. /\ PassTypeOK /\ OthersStay(p) /\ ctx[p] \in Context
      /\ ~ListRows(p) => RowsShrink(p)
  BY StepsOfOne, RowsOnlyListed DEF TypeInv, PassOK, PassTypeOK, PassStep
<1>1. ASSUME ~ListRows(p), UNCHANGED <<entry, entered, keys, ledger>>, Plain(pc'[p])
      PROVE  EntryInv'
  BY <1>0, <1>1, PlainMove
<1>2. CASE BeginPass(p) \/ EndResolve(p)
  BY <1>0, <1>1, <1>2
  DEF BeginPass, EndResolve, ListRows, Goto, PassTypeOK, storeVars, bookVars,
      Plain, Claiming, Sent
<1>3. CASE ListRows(p)
  <2>1. ctx'[p].rows = OpenRows
    BY <1>0, <1>3 DEF ListRows, Note, PassTypeOK, Context
  <2>2. UNCHANGED <<entry, entered, keys, ledger>> /\ pc'[p] = "resolve"
    BY <1>0, <1>3 DEF ListRows, Goto, PassTypeOK, storeVars, bookVars
  <2>3. \A c \in OpenRows : entered[c] > 0
    BY DEF OpenRows, EntryInv, ClaimInv, LedgerMatchesBook
  <2>4. ClaimInv'
    BY <2>2
    DEF EntryInv, ClaimInv, FilledIsEntered, EntryOnce, ClaimCoversEntry, LedgerMatchesBook
  <2>5. HandOK(p)'
    BY <2>2 DEF HandOK, Claiming, Unsent, Sent
  <2>6. \A q \in Procs \ {p} : \A c \in ctx[q].rows : c \in Cands
    BY <1>0 DEF PassTypeOK, Context
  <2> QED BY <1>0, <2>1, <2>2, <2>3, <2>4, <2>5, <2>6, EntryMove DEF Claiming
<1>4. ASSUME NEW c \in Cands, CloseRow(p, c)
      PROVE  EntryInv'
  <2>1. entered[c] > 0
    BY <1>4 DEF CloseRow, EntryInv, ListedRowsEntered
  <2>2. UNCHANGED <<entry, entered, keys, ledger>>
    BY <1>4 DEF CloseRow, Flatten, storeVars, bookVars
  <2>3. pc'[p] = "book" /\ cand'[p] = c /\ ~ListRows(p)
    BY <1>0, <1>4 DEF CloseRow, ListRows, Goto, PassTypeOK
  <2> QED BY <1>0, <2>1, <2>2, <2>3, LocalMove DEF Claiming, Unsent, Sent
<1>5. ASSUME NEW c \in Cands, ResolveRow(p, c)
      PROVE  EntryInv'
  <2>1. pc[p] = "book" /\ Holds(p, c) /\ pc'[p] \in {"own", "resolve"} /\ ~ListRows(p)
    BY <1>0, <1>5 DEF ResolveRow, ListRows, Goto, Done, PassTypeOK
  <2>2. entered[c] > 0
    BY <2>1 DEF EntryInv, HandOK, Sent
  <2>3. UNCHANGED <<entry, entered, keys>> /\ ledger' = [ledger EXCEPT ![c] = "closed"]
    BY <1>5 DEF ResolveRow, ResolveTrade, bookVars
  <2>4. ClaimInv'
    BY <2>2, <2>3
    DEF EntryInv, ClaimInv, FilledIsEntered, EntryOnce, ClaimCoversEntry, LedgerMatchesBook,
        TypeInv, StoreTypeOK
  <2>5. HandOK(p)' /\ pc'[p] \notin Claiming
    BY <2>1 DEF HandOK, Claiming, Unsent, Sent
  <2>6. \A q \in Procs : \A d \in ctx[q].rows : d \in Cands /\ entered[d] > 0
    BY <1>0 DEF PassTypeOK, Context, EntryInv, ListedRowsEntered
  <2>7. \A d \in ctx'[p].rows : entered'[d] > 0
    BY <1>0, <2>1, <2>3, <2>6 DEF RowsShrink
  <2> QED BY <1>0, <2>3, <2>4, <2>5, <2>6, <2>7, EntryMove
<1>6. ASSUME NEW c \in Cands, CancelOwn(p, c) \/ LookForSiblings(p, c) \/ SweepCoin(p, c)
      PROVE  EntryInv'
  <2>1. UNCHANGED <<entry, entered, keys, ledger>>
    BY <1>6 DEF CancelOwn, LookForSiblings, SweepCoin, Uncover, storeVars, bookVars
  <2>2. pc'[p] \in {"last", "sweep", "resolve"} /\ ~ListRows(p)
    BY <1>0, <1>6
    DEF CancelOwn, LookForSiblings, SweepCoin, ListRows, Goto, Done, PassTypeOK
  <2> QED BY <1>1, <2>1, <2>2 DEF Plain, Claiming, Sent
<1> QED BY <1>2, <1>3, <1>4, <1>5, <1>6 DEF Resolving

LEMMA QueueingKeepsEntries ==
    ASSUME TypeInv, EntryInv, NEW p \in Procs, Queueing(p)
    PROVE  EntryInv'
<1>0. pc \in [Procs -> Stages] /\ pc[p] \in {"read", "queues", "next"}
  BY DEF TypeInv, PassOK, PassTypeOK, Queueing, ReadBook, ReadQueues, SkipFired, TakeDue,
         TakeNew, EndPass, Goto, At
<1>1. OthersStay(p) /\ RowsShrink(p)
  BY <1>0, StepsOfOne, RowsOnlyListed DEF TypeInv, PassOK, PassStep, ListRows, Goto
<1>2. UNCHANGED <<entry, entered, keys, ledger>>
  BY DEF Queueing, ReadBook, ReadQueues, SkipFired, TakeDue, TakeNew, EndPass,
         DropDeferred, storeVars, bookVars
<1>3. pc'[p] \in {"queues", "next", "decide", "idle"}
  BY <1>0
  DEF Queueing, ReadBook, ReadQueues, SkipFired, TakeDue, TakeNew, EndPass, Goto, Leave, At
<1> QED BY <1>1, <1>2, <1>3, PlainMove DEF Plain, Claiming, Sent

LEMMA DecidingKeepsEntries ==
    ASSUME TypeInv, EntryInv, NEW p \in Procs, NEW c \in Cands, Deciding(p, c)
    PROVE  EntryInv'
<1>0. pc \in [Procs -> Stages] /\ pc[p] = "decide"
  BY DEF TypeInv, PassOK, PassTypeOK, Deciding, Refuse, Wait, Approve, Conclude, Goto
<1>1. OthersStay(p) /\ RowsShrink(p)
  BY <1>0, StepsOfOne, RowsOnlyListed DEF TypeInv, PassOK, PassStep, ListRows, Goto
<1>2. UNCHANGED <<entry, entered, keys, ledger>>
  BY DEF Deciding, Refuse, Wait, Approve, storeVars, bookVars
<1>3. pc'[p] \in {"log", "claim"}
  BY <1>0 DEF Deciding, Refuse, Wait, Approve, Conclude, Goto
<1> QED BY <1>1, <1>2, <1>3, PlainMove DEF Plain, Claiming, Sent

LEMMA FilingKeepsEntries ==
    ASSUME TypeInv, EntryInv, NEW p \in Procs, NEW c \in Cands, Filing(p, c)
    PROVE  EntryInv'
<1>0. pc \in [Procs -> Stages] /\ pc[p] \in {"log", "file", "status"}
  BY DEF TypeInv, PassOK, PassTypeOK, Filing, Log, Park, Settle, MarkStatus, Filed, Goto, Done
<1>1. OthersStay(p) /\ RowsShrink(p)
  BY <1>0, StepsOfOne, RowsOnlyListed DEF TypeInv, PassOK, PassStep, ListRows, Goto
<1>2. UNCHANGED <<entry, entered, keys, ledger>>
  BY DEF Filing, Log, Park, Settle, MarkStatus, LogDecision, DeferCandidate, DropDeferred,
         SetStatus, storeVars, bookVars
<1>3. pc'[p] \in {"file", "status", "next", "hwm"}
  BY <1>0 DEF Filing, Log, Park, Settle, MarkStatus, Filed, Goto, Done
<1> QED BY <1>1, <1>2, <1>3, PlainMove DEF Plain, Claiming, Sent

LEMMA MarkingKeepsEntries ==
    ASSUME TypeInv, EntryInv, NEW p \in Procs, Marking(p)
    PROVE  EntryInv'
<1>0. pc \in [Procs -> Stages] /\ pc[p] \in {"hwm", "mark"}
  BY DEF TypeInv, PassOK, PassTypeOK, Marking, ReadHwm, HwmAhead, AdvanceHwm, Goto, Done
<1>1. OthersStay(p) /\ RowsShrink(p)
  BY <1>0, StepsOfOne, RowsOnlyListed DEF TypeInv, PassOK, PassStep, ListRows, Goto
<1>2. UNCHANGED <<entry, entered, keys, ledger>>
  BY DEF Marking, ReadHwm, HwmAhead, AdvanceHwm, WriteHwm, storeVars, bookVars
<1>3. pc'[p] \in {"mark", "next"}
  BY <1>0 DEF Marking, ReadHwm, HwmAhead, AdvanceHwm, Goto, Done
<1> QED BY <1>1, <1>2, <1>3, PlainMove DEF Plain, Claiming, Sent

LEMMA FailingKeepsEntries ==
    ASSUME TypeInv, EntryInv, NEW p \in Procs, Failing(p)
    PROVE  EntryInv'
<1>0. pc \in [Procs -> Stages] /\ Leave(p)
  BY DEF TypeInv, PassOK, PassTypeOK, Failing, Crash, Fault, DecideRaises
<1>1. pc'[p] = "idle" /\ ctx'[p].rows = {}
  BY <1>0 DEF Leave, Note, NoContext, TypeInv, PassOK, PassTypeOK
<1>2. OthersStay(p) /\ RowsShrink(p)
  BY <1>1, StepsOfOne DEF TypeInv, PassOK, RowsShrink
<1>3. UNCHANGED <<entry, entered, keys, ledger>>
  BY DEF Failing, Crash, DecideRaises, storeVars, bookVars
<1> QED BY <1>1, <1>2, <1>3, PlainMove DEF Plain, Claiming, Sent

(* fire: the claim is won once, and only its holder can send the entry. *)
LEMMA FiringKeepsEntries ==
    ASSUME TypeInv, EntryInv, NEW p \in Procs, NEW c \in Cands, Firing(p, c)
    PROVE  EntryInv'
<1>0. /\ pc \in [Procs -> Stages] /\ entered \in [Cands -> Nat] /\ keys \subseteq Cands
      /\ entry \in [Cands -> {"none", "resting", "filled"}]
      /\ \A q \in Procs : ctx[q].rows \subseteq Cands
      /\ pc[p] \in {"claim"} \cup Claiming /\ Holds(p, c)
  BY DEF TypeInv, StoreTypeOK, BookTypeOK, PassOK, PassTypeOK, Context, Claiming,
         Firing, Claim, Duplicate, SubmitFilled, SubmitRefused, SubmitUnfilled,
         SubmitRaises, Lookup, CancelResting, Release, Conclude, Goto
<1>1. OthersStay(p) /\ RowsShrink(p)
  BY <1>0, StepsOfOne, RowsOnlyListed
  DEF TypeInv, PassOK, PassStep, ListRows, Goto, Claiming
<1>2. cand'[p] = cand[p]
  BY DEF Firing, Claim, Duplicate, SubmitFilled, SubmitRefused, SubmitUnfilled,
         SubmitRaises, Lookup, CancelResting, Release, Conclude, KeepHand
<1>3. /\ pc[p] \in Claiming => c \in keys
      /\ pc[p] \in Unsent => entered[c] = 0
  BY <1>0 DEF EntryInv, HandOK
<1>4. pc[p] \in Claiming =>
        \A q \in Procs \ {p} : \A d \in Cands :
            Holds(q, d) /\ pc[q] \in Claiming => d # c
  BY <1>0 DEF EntryInv, OneClaimer, Holds
<1>5. \A d \in ctx'[p].rows : d \in Cands /\ entered[d] > 0
  BY <1>0, <1>1 DEF RowsShrink, EntryInv, ListedRowsEntered
<1>6. CASE Claim(p, c)
  <2>1. /\ c \notin keys /\ keys' = keys \cup {c} /\ UNCHANGED <<entry, entered, ledger>>
        /\ pc'[p] = "submit"
    BY <1>0, <1>6 DEF Claim, ClaimWins, RecordFire, Goto, bookVars
  <2>2. entered[c] = 0
    BY <1>0, <2>1 DEF EntryInv, ClaimInv, FilledIsEntered, EntryOnce, ClaimCoversEntry, LedgerMatchesBook
  <2>3. ClaimInv'
    BY <2>1 DEF EntryInv, ClaimInv, FilledIsEntered, EntryOnce, ClaimCoversEntry, LedgerMatchesBook
  <2>4. HandOK(p)'
    BY <1>0, <1>2, <2>1, <2>2 DEF HandOK, Holds, Sent
  <2>5. \A q \in Procs \ {p} : ~(pc[q] \in Claiming /\ Holds(q, c))
    BY <2>1 DEF EntryInv, HandOK
  <2> QED BY <1>0, <1>1, <1>2, <1>5, <2>1, <2>3, <2>4, <2>5, EntryMove DEF Holds
<1>7. CASE Duplicate(p, c) \/ SubmitUnfilled(p, c)
  <2>1. pc'[p] = "log" /\ UNCHANGED <<entry, entered, keys, ledger>>
    BY <1>0, <1>7 DEF Duplicate, SubmitUnfilled, Conclude, Goto, storeVars, bookVars
  <2> QED BY <1>1, <2>1, PlainMove DEF Plain, Claiming, Sent
<1>8. ASSUME Fill(c), UNCHANGED storeVars, pc[p] = "submit", pc'[p] \in {"open", "lookup"}
      PROVE  EntryInv'
  <2>1. c \in keys /\ entered[c] = 0 /\ pc[p] \in Claiming
    BY <1>3, <1>8 DEF Claiming, Unsent
  <2>2. /\ entered' = [entered EXCEPT ![c] = 1] /\ entry' = [entry EXCEPT ![c] = "filled"]
        /\ keys' = keys /\ ledger' = ledger
    BY <1>0, <1>8, <2>1 DEF Fill, storeVars
  <2>3. ClaimInv'
    BY <1>0, <2>1, <2>2 DEF EntryInv, ClaimInv, FilledIsEntered, EntryOnce, ClaimCoversEntry, LedgerMatchesBook
  <2>4. HandOK(p)'
    BY <1>0, <1>2, <1>8, <2>1, <2>2 DEF HandOK, Holds, Claiming, Unsent, Sent
  <2>5. \A d \in Cands : entered[d] > 0 => entered'[d] > 0
    BY <1>0, <2>2
  <2>6. \A d \in ctx'[p].rows : entered'[d] > 0
    BY <1>5, <2>5
  <2>7. \A d \in Cands, q \in Procs \ {p} :
          Holds(q, d) /\ pc[q] \in Claiming =>
              (d \in keys => d \in keys') /\ entered'[d] = entered[d]
    BY <1>0, <1>4, <2>1, <2>2
  <2>8. \A d \in Cands, q \in Procs \ {p} :
          pc'[p] \in Claiming /\ cand'[p] = d /\ pc[q] \in Claiming /\ Holds(q, d) => FALSE
    BY <1>0, <1>2, <1>4, <2>1 DEF Holds
  <2> QED BY <1>0, <1>1, <2>3, <2>4, <2>5, <2>6, <2>7, <2>8, EntryMove
<1>9. CASE SubmitFilled(p, c)
  BY <1>0, <1>8, <1>9 DEF SubmitFilled, Goto
<1>10. CASE SubmitRefused(p, c)
  <2>1. /\ pc[p] = "submit" /\ pc'[p] = "release"
        /\ UNCHANGED <<entry, entered, keys, ledger>>
    BY <1>0, <1>10 DEF SubmitRefused, Goto, storeVars, bookVars
  <2> QED
    BY <1>0, <1>1, <1>2, <1>3, <2>1, LocalMove DEF Claiming, Unsent, Sent, Holds
\* An entry that came to rest, or went: no fill, one way or the other.
<1>11. ASSUME pc[p] \in Claiming, pc'[p] \in {"lookup", "release"},
              pc'[p] = "release" => entered[c] = 0,
              UNCHANGED <<entered, keys, ledger>>,
              \A d \in Cands : entry'[d] = "filled" <=> entry[d] = "filled"
       PROVE  EntryInv'
  <2>1. ClaimInv'
    BY <1>11 DEF EntryInv, ClaimInv, FilledIsEntered, EntryOnce, ClaimCoversEntry, LedgerMatchesBook
  <2>2. HandOK(p)'
    BY <1>0, <1>2, <1>3, <1>11 DEF HandOK, Holds, Claiming, Unsent, Sent
  <2>3. \A d \in Cands, q \in Procs \ {p} :
          pc'[p] \in Claiming /\ cand'[p] = d /\ pc[q] \in Claiming /\ Holds(q, d) => FALSE
    BY <1>0, <1>2, <1>4, <1>11 DEF Holds
  <2> QED BY <1>0, <1>1, <1>5, <1>11, <2>1, <2>2, <2>3, EntryMove
<1>12. CASE SubmitRaises(p, c)
  <2>1. pc[p] = "submit" /\ pc'[p] = "lookup" /\ UNCHANGED storeVars
    BY <1>0, <1>12 DEF SubmitRaises, Goto
  <2>2. CASE Fill(c)
    BY <1>8, <2>1, <2>2
  <2>3. CASE Rest(c)
    BY <1>0, <1>11, <2>1, <2>3 DEF Rest, Claiming, storeVars
  <2>4. CASE UNCHANGED bookVars
    BY <1>11, <2>1, <2>4 DEF bookVars, Claiming, storeVars
  <2> QED BY <1>12, <2>2, <2>3, <2>4 DEF SubmitRaises
<1>13. CASE Lookup(p, c)
  <2>1. /\ pc[p] = "lookup" /\ pc'[p] = AfterLookup(entry[c])
        /\ UNCHANGED <<entry, entered, keys, ledger>>
    BY <1>0, <1>13 DEF Lookup, Goto, storeVars, bookVars
  <2>2. CASE entry[c] = "filled"
    <3>1. entered[c] > 0 /\ pc'[p] = "open"
      BY <2>1, <2>2 DEF AfterLookup, EntryInv, ClaimInv, FilledIsEntered
    <3> QED
      BY <1>0, <1>1, <1>2, <2>1, <3>1, LocalMove DEF Claiming, Unsent, Sent, Holds
  <2>3. CASE entry[c] # "filled"
    <3>1. entered[c] = 0
      BY <1>0, <2>3 DEF EntryInv, ClaimInv, FilledIsEntered
    <3>2. pc'[p] \in {"cancel", "release"}
      BY <2>1, <2>3 DEF AfterLookup
    <3> QED
      BY <1>0, <1>1, <1>2, <2>1, <3>1, <3>2, LocalMove DEF Claiming, Unsent, Sent, Holds
  <2> QED BY <2>2, <2>3
<1>14. CASE CancelResting(p, c)
  BY <1>0, <1>3, <1>11, <1>14
  DEF CancelResting, CancelEntry, Goto, Claiming, Unsent, storeVars
<1>15. CASE Release(p, c)
  <2>1. /\ pc[p] = "release" /\ pc'[p] = "log" /\ keys' = keys \ {c}
        /\ UNCHANGED <<entry, entered, ledger>>
    BY <1>0, <1>15 DEF Release, Conclude, ReleaseFire, Goto, bookVars
  <2>2. entered[c] = 0 /\ pc[p] \in Claiming
    BY <1>3, <2>1 DEF Claiming, Unsent
  <2>3. ClaimInv'
    BY <2>1, <2>2 DEF EntryInv, ClaimInv, FilledIsEntered, EntryOnce, ClaimCoversEntry, LedgerMatchesBook
  <2>4. HandOK(p)' /\ pc'[p] \notin Claiming
    BY <2>1 DEF HandOK, Claiming, Unsent, Sent
  <2> QED BY <1>0, <1>1, <1>4, <1>5, <2>1, <2>2, <2>3, <2>4, EntryMove
<1> QED
  BY <1>6, <1>7, <1>9, <1>10, <1>12, <1>13, <1>14, <1>15 DEF Firing

(* After the fill: the row is booked, protected, or resolved as aborted. *)
LEMMA SecuringKeepsEntries ==
    ASSUME TypeInv, EntryInv, NEW p \in Procs, NEW c \in Cands, Securing(p, c)
    PROVE  EntryInv'
<1>0. /\ pc \in [Procs -> Stages] /\ ledger \in [Cands -> RowStatus]
      /\ \A q \in Procs : ctx[q].rows \subseteq Cands
      /\ pc[p] \in {"open", "protect", "flatten", "abort"} /\ Holds(p, c)
  BY DEF TypeInv, StoreTypeOK, PassOK, PassTypeOK, Context,
         Securing, OpenRow, Protect, ProtectFails, EmergencyClose, Abort, Fired, Goto
<1>1. OthersStay(p) /\ RowsShrink(p)
  BY <1>0, StepsOfOne, RowsOnlyListed DEF TypeInv, PassOK, PassStep, ListRows, Goto
<1>2. cand'[p] = cand[p]
  BY DEF Securing, OpenRow, Protect, ProtectFails, EmergencyClose, Abort, Fired, KeepHand
<1>3. entered[c] > 0
  BY <1>0 DEF EntryInv, HandOK, Sent
<1>4. \A d \in ctx'[p].rows : entered[d] > 0
  BY <1>1 DEF RowsShrink, EntryInv, ListedRowsEntered
<1>5. pc'[p] \in Sent \cup {"log"}
  BY <1>0
  DEF Securing, OpenRow, Protect, ProtectFails, EmergencyClose, Abort, Fired, Goto, Sent
<1>6. CASE OpenRow(p, c) \/ Abort(p, c)
  <2>1. /\ UNCHANGED <<entry, entered, keys>>
        /\ \A d \in Cands \ {c} : ledger'[d] = ledger[d]
    BY <1>0, <1>6 DEF OpenRow, Abort, OpenTrade, ResolveTrade, bookVars
  <2>2. ClaimInv'
    BY <1>3, <2>1 DEF EntryInv, ClaimInv, FilledIsEntered, EntryOnce, ClaimCoversEntry, LedgerMatchesBook
  <2>3. HandOK(p)' /\ pc'[p] \notin Claiming
    BY <1>0, <1>2, <1>3, <1>5, <2>1 DEF HandOK, Holds, Claiming, Unsent, Sent
  <2> QED BY <1>0, <1>1, <1>4, <2>1, <2>2, <2>3, EntryMove
<1>7. CASE Protect(p, c) \/ ProtectFails(p, c) \/ EmergencyClose(p, c)
  <2>1. UNCHANGED <<entry, entered, keys, ledger>>
    BY <1>7
    DEF Protect, ProtectFails, EmergencyClose, Cover, Flatten, storeVars, bookVars
  <2> QED
    BY <1>0, <1>1, <1>2, <1>3, <1>5, <2>1, LocalMove DEF Claiming, Unsent, Sent, Holds
<1> QED BY <1>6, <1>7 DEF Securing

(* The world around the passes neither claims nor enters. *)
LEMMA EnvironmentKeepsEntries ==
    ASSUME ~RestingMayFill, EntryInv, Environment
    PROVE  EntryInv'
<1>1. UNCHANGED <<entry, entered, keys, ledger, pc, cand, ctx>>
  BY DEF Environment, Enqueue, TimePasses, Market, Switch, EquityMoves, EnqueueRow, ComeDue,
         SetBreaker, RestingFills, ExternalClose, storeVars, bookVars, passVars
<1> QED
  BY <1>1 DEF EntryInv, ClaimInv, FilledIsEntered, EntryOnce, ClaimCoversEntry, LedgerMatchesBook, ListedRowsEntered, HandOK, OneClaimer, Holds

LEMMA EntryInvInit == Init => EntryInv
<1> SUFFICES ASSUME Init PROVE EntryInv
  OBVIOUS
<1>1. /\ pc = [p \in Procs |-> "idle"] /\ ctx = [p \in Procs |-> NoContext]
      /\ entered = [c \in Cands |-> 0] /\ entry = [c \in Cands |-> "none"]
      /\ ledger = [c \in Cands |-> "none"]
  BY DEF Init, StoreInit, BookInit
<1>2. ClaimInv
  BY <1>1 DEF EntryInv, ClaimInv, FilledIsEntered, EntryOnce, ClaimCoversEntry, LedgerMatchesBook
<1>3. ListedRowsEntered
  BY <1>1 DEF ListedRowsEntered, NoContext
<1>4. (\A p \in Procs : HandOK(p)) /\ OneClaimer
  BY <1>1 DEF HandOK, OneClaimer, Claiming, Unsent, Sent
<1> QED BY <1>2, <1>3, <1>4 DEF EntryInv

LEMMA EntryInvNext ==
    ASSUME ~RestingMayFill, TypeInv, EntryInv, [Next]_vars
    PROVE  EntryInv'
<1>1. CASE UNCHANGED vars
  BY <1>1
  DEF vars, storeVars, bookVars, passVars, EntryInv, ClaimInv, FilledIsEntered, EntryOnce, ClaimCoversEntry, LedgerMatchesBook,
      ListedRowsEntered, HandOK, OneClaimer, Holds
<1>2. ASSUME NEW p \in Procs, PassStep(p) \/ Failing(p)
      PROVE  EntryInv'
  BY <1>2, ResolvingKeepsEntries, QueueingKeepsEntries, DecidingKeepsEntries,
     FiringKeepsEntries, SecuringKeepsEntries, FilingKeepsEntries, MarkingKeepsEntries,
     FailingKeepsEntries
  DEF PassStep
<1> QED BY <1>1, <1>2, EnvironmentKeepsEntries DEF Next

LEMMA EntryInvAlways ==
    ASSUME ~RestingMayFill
    PROVE  Spec => [](TypeInv /\ EntryInv)
<1>1. Init => TypeInv /\ EntryInv
  BY TypeInvInit, EntryInvInit
<1>2. TypeInv /\ EntryInv /\ [Next]_vars => (TypeInv /\ EntryInv)'
  BY TypeInvNext, EntryInvNext
<1> QED BY <1>1, <1>2, PTL DEF Spec

(* A candidate's entry fills at most once, through any crashes, raised      *)
(* submits and passes racing for it (execute.py: fire, _resolve_unknown).   *)
THEOREM EntersOnce ==
    ASSUME ~RestingMayFill
    PROVE  Spec => []EntryOnce
<1>1. EntryInv => EntryOnce
  BY DEF EntryInv, ClaimInv
<1> QED BY <1>1, EntryInvAlways, PTL

(* release_fire never undoes the claim of an entry that filled.             *)
THEOREM ClaimOutlivesEntry ==
    ASSUME ~RestingMayFill
    PROVE  Spec => []ClaimCoversEntry
<1>1. EntryInv => ClaimCoversEntry
  BY DEF EntryInv, ClaimInv
<1> QED BY <1>1, EntryInvAlways, PTL

(* No row of the ledger stands for an entry that never filled               *)
(* (runner.py _fire_and_reconcile, resolve.py).                             *)
THEOREM BookedIsEntered ==
    ASSUME ~RestingMayFill
    PROVE  Spec => []LedgerMatchesBook
<1>1. EntryInv => LedgerMatchesBook
  BY DEF EntryInv, ClaimInv
<1> QED BY <1>1, EntryInvAlways, PTL

-----------------------------------------------------------------------------
(* ExecutorPass implements EntryClaim.                                      *)

Fate == [c \in Cands |-> IF entered[c] > 0 THEN "entered"
                         ELSE IF c \in keys THEN "claimed" ELSE "free"]

(* The four steps that move a candidate's fate; every other one leaves both *)
(* what the mapping looks at, claims and entries, alone.                    *)
MovesFate(p, c) ==
    Claim(p, c) \/ SubmitFilled(p, c) \/ SubmitRaises(p, c) \/ Release(p, c)

LEMMA FateMovesInFour ==
    ASSUME ~RestingMayFill, [Next]_vars
    PROVE  UNCHANGED <<keys, entered>> \/ \E p \in Procs, c \in Cands : MovesFate(p, c)
<1>1. CASE UNCHANGED vars
  BY <1>1 DEF vars, storeVars, bookVars
<1>2. CASE Environment
  BY <1>2
  DEF Environment, Enqueue, TimePasses, Market, Switch, EquityMoves, EnqueueRow, ComeDue,
      SetBreaker, RestingFills, ExternalClose, storeVars, bookVars
<1>3. ASSUME NEW p \in Procs, NEW c \in Cands, Firing(p, c)
      PROVE  UNCHANGED <<keys, entered>> \/ MovesFate(p, c)
  BY <1>3
  DEF Firing, MovesFate, Duplicate, SubmitRefused, SubmitUnfilled, Lookup, CancelResting,
      CancelEntry, storeVars, bookVars
<1>4. ASSUME NEW p \in Procs, Resolving(p)
      PROVE  UNCHANGED <<keys, entered>>
  BY <1>4
  DEF Resolving, BeginPass, ListRows, CloseRow, ResolveRow, CancelOwn, LookForSiblings,
      SweepCoin, EndResolve, Flatten, Uncover, ResolveTrade, storeVars, bookVars
<1>5. ASSUME NEW p \in Procs, Queueing(p)
      PROVE  UNCHANGED <<keys, entered>>
  BY <1>5
  DEF Queueing, ReadBook, ReadQueues, SkipFired, TakeDue, TakeNew, EndPass, DropDeferred,
      storeVars, bookVars
<1>6. ASSUME NEW p \in Procs, NEW c \in Cands, Deciding(p, c)
      PROVE  UNCHANGED <<keys, entered>>
  BY <1>6 DEF Deciding, Refuse, Wait, Approve, storeVars, bookVars
<1>7. ASSUME NEW p \in Procs, NEW c \in Cands, Securing(p, c)
      PROVE  UNCHANGED <<keys, entered>>
  BY <1>7
  DEF Securing, OpenRow, Protect, ProtectFails, EmergencyClose, Abort, OpenTrade,
      ResolveTrade, Cover, Flatten, storeVars, bookVars
<1>8. ASSUME NEW p \in Procs, NEW c \in Cands, Filing(p, c)
      PROVE  UNCHANGED <<keys, entered>>
  BY <1>8
  DEF Filing, Log, Park, Settle, MarkStatus, LogDecision, DeferCandidate, DropDeferred,
      SetStatus, storeVars, bookVars
<1>9. ASSUME NEW p \in Procs, Marking(p) \/ Failing(p)
      PROVE  UNCHANGED <<keys, entered>>
  BY <1>9
  DEF Marking, ReadHwm, HwmAhead, AdvanceHwm, WriteHwm, Failing, Crash, DecideRaises,
      storeVars, bookVars
<1> QED
  BY <1>1, <1>2, <1>3, <1>4, <1>5, <1>6, <1>7, <1>8, <1>9 DEF Next, PassStep

LEMMA FateMap ==
    /\ DOMAIN Fate = Cands
    /\ \A c \in Cands : Fate[c] = IF entered[c] > 0 THEN "entered"
                                 ELSE IF c \in keys THEN "claimed" ELSE "free"
    /\ DOMAIN Fate' = Cands
    /\ \A c \in Cands : Fate'[c] = IF entered'[c] > 0 THEN "entered"
                                  ELSE IF c \in keys' THEN "claimed" ELSE "free"
BY DEF Fate

(* One candidate's fate goes from one value to another, and no other moves. *)
LEMMA OneFateMoves ==
    ASSUME NEW c \in Cands, NEW from, NEW to,
           Fate[c] = from, Fate'[c] = to,
           \A d \in Cands \ {c} : Fate'[d] = Fate[d]
    PROVE  Fate[c] = from /\ Fate' = [Fate EXCEPT ![c] = to]
<1>1. Fate' = [d \in Cands |-> Fate'[d]]
  BY DEF Fate
<1>2. [Fate EXCEPT ![c] = to] = [d \in Cands |-> IF d = c THEN to ELSE Fate[d]]
  BY FateMap
<1>3. \A d \in Cands : Fate'[d] = IF d = c THEN to ELSE Fate[d]
  OBVIOUS
<1> QED BY <1>1, <1>2, <1>3

LEMMA StepsImplementClaims ==
    ASSUME ~RestingMayFill, TypeInv, EntryInv, [Next]_vars
    PROVE  [\E c \in Cands : Claims!ClaimIt(c) \/ Claims!GiveBack(c) \/ Claims!Enter(c)]_Fate
<1>0. entered \in [Cands -> Nat]
  BY DEF TypeInv, BookTypeOK
<1>1. ASSUME UNCHANGED <<keys, entered>>
      PROVE  Fate' = Fate
  BY <1>1 DEF Fate
<1>2. ASSUME NEW p \in Procs, NEW c \in Cands, Claim(p, c)
      PROVE  Claims!ClaimIt(c)
  <2>1. c \notin keys /\ keys' = keys \cup {c} /\ entered' = entered
    BY <1>2 DEF Claim, ClaimWins, RecordFire, bookVars
  <2>2. entered[c] = 0
    BY <1>0, <2>1 DEF EntryInv, ClaimInv, ClaimCoversEntry
  <2>3. /\ Fate[c] = "free" /\ Fate'[c] = "claimed"
        /\ \A d \in Cands \ {c} : Fate'[d] = Fate[d]
    BY <2>1, <2>2, FateMap
  <2> QED BY <2>3, OneFateMoves DEF Claims!ClaimIt, Claims!Moves, Fate
<1>3. ASSUME NEW p \in Procs, NEW c \in Cands, Release(p, c)
      PROVE  Claims!GiveBack(c)
  <2>1. keys' = keys \ {c} /\ entered' = entered
    BY <1>3 DEF Release, ReleaseFire, bookVars
  <2>2. c \in keys /\ entered[c] = 0
    BY <1>3 DEF Release, Conclude, Goto, EntryInv, HandOK, Claiming, Unsent
  <2>3. /\ Fate[c] = "claimed" /\ Fate'[c] = "free"
        /\ \A d \in Cands \ {c} : Fate'[d] = Fate[d]
    BY <2>1, <2>2, FateMap
  <2> QED BY <2>3, OneFateMoves DEF Claims!GiveBack, Claims!Moves, Fate
<1>4. ASSUME NEW p \in Procs, NEW c \in Cands, Holds(p, c), pc[p] = "submit",
             UNCHANGED storeVars, Fill(c)
      PROVE  Claims!Enter(c)
  <2>1. c \in keys /\ entered[c] = 0
    BY <1>4 DEF EntryInv, HandOK, Claiming, Unsent
  <2>2. keys' = keys /\ entered' = [entered EXCEPT ![c] = 1]
    BY <1>0, <1>4, <2>1 DEF Fill, storeVars
  <2>3. /\ Fate[c] = "claimed" /\ Fate'[c] = "entered"
        /\ \A d \in Cands \ {c} : Fate'[d] = Fate[d]
    BY <1>0, <2>1, <2>2, FateMap
  <2> QED BY <2>3, OneFateMoves DEF Claims!Enter, Claims!Moves, Fate
<1>5. ASSUME NEW p \in Procs, NEW c \in Cands, SubmitFilled(p, c) \/ SubmitRaises(p, c)
      PROVE  Claims!Enter(c) \/ UNCHANGED <<keys, entered>>
  BY <1>4, <1>5 DEF SubmitFilled, SubmitRaises, Goto, Rest, storeVars, bookVars
<1> QED BY <1>1, <1>2, <1>3, <1>5, FateMovesInFour DEF MovesFate

(* Every run of the executor's passes is a run of the claim protocol of     *)
(* EntryClaim: claim before entry, give back only what never entered.       *)
THEOREM PassImplementsEntryClaim ==
    ASSUME ~RestingMayFill
    PROVE  Spec => ImplementsEntryClaim
<1>1. Init => Claims!Init
  BY DEF Init, BookInit, StoreInit, Claims!Init
<1>2. TypeInv /\ EntryInv /\ [Next]_vars => [Claims!Next]_Fate
  BY StepsImplementClaims DEF Claims!Next
<1> QED BY <1>1, <1>2, EntryInvAlways, PTL DEF Spec, ImplementsEntryClaim, Claims!Spec, Fate

-----------------------------------------------------------------------------
(* What a pass promises beyond the claim protocol: the intake stream is    *)
(* never skipped, and (for a single executor) no WAIT is lost and looks    *)
(* are bounded; every orphan costs a fault, and the ceilings of the gate   *)
(* hold of the book as it is.                                              *)

-----------------------------------------------------------------------------
(* A pass in four parts.  Early: up to the snapshots, nothing is in hand    *)
(* but a row.  Then one candidate at a time is evaluated, and a candidate   *)
(* of the batch is marked; `next` is the loop between them.                 *)

Early == {"idle", "rows", "resolve", "book", "own", "last", "sweep", "read", "queues"}
Middle ==
    {"claim", "submit", "lookup", "cancel", "release", "open", "protect", "flatten",
     "abort", "log"}
Evaluating == {"decide", "file"} \cup Middle
Marks == {"status", "hwm", "mark"}

InBatch(p) == pc[p] \notin Early
InHand(p) == pc[p] \in Evaluating \cup Marks

\* The queues of a pass that has not read them yet.
Blank(x) ==
    ~x.fresh /\ x.due = {} /\ x.next = 1 /\ x.last = 0 /\ x.attempts = 0

\* The candidate, its attempts and the queues are as they were.
KeepsWork(p) ==
    /\ cand'[p] = cand[p]
    /\ ctx'[p].fresh = ctx[p].fresh /\ ctx'[p].attempts = ctx[p].attempts
    /\ ctx'[p].due = ctx[p].due /\ ctx'[p].left = ctx[p].left
    /\ ctx'[p].next = ctx[p].next /\ ctx'[p].last = ctx[p].last

\* Nothing the intake side of the store knows has changed.
StreamStill == UNCHANGED <<stream, hwm, status, parked, outcome, faults>>

LEMMA Functions ==
    ASSUME TypeInv, NEW p \in Procs
    PROVE  /\ pc \in [Procs -> Stages] /\ cand \in [Procs -> Cands \cup {NoCand}]
           /\ ctx \in [Procs -> Context] /\ ctx[p] \in Context
           /\ status \in [Cands -> Verdicts \cup {"pending"}]
           /\ outcome \in [Cands -> Verdicts \cup {"none"}]
           /\ parked \in [Cands -> {NotParked} \cup 1..FollowupMax]
           /\ looks \in [Cands -> Nat] /\ faults \in Nat /\ hwm \in Nat
           /\ stream \in Seq(Cands) /\ Len(stream) \in Nat
           /\ FollowupMax \in Nat
<1>1. MaxFaults \in Nat
  BY PassAssumption DEF PassAssumption
<1> QED
  BY <1>1, FollowupAssumption
  DEF TypeInv, PassOK, PassTypeOK, StoreTypeOK, EnvTypeOK, FollowupAssumption

(* The resolver and the snapshot of the book leave the queues alone. *)
LEMMA EarlyEffect ==
    ASSUME TypeInv, NEW p \in Procs, Resolving(p) \/ ReadBook(p)
    PROVE  /\ pc[p] \in Early /\ pc'[p] \in Early
           /\ Blank(ctx[p]) => Blank(ctx'[p])
           /\ StreamStill /\ looks' = looks
<1>0. /\ pc \in [Procs -> Stages] /\ ctx \in [Procs -> Context] /\ ctx[p] \in Context
  BY Functions
<1>1. StreamStill /\ looks' = looks
  BY DEF Resolving, BeginPass, ListRows, CloseRow, ResolveRow, CancelOwn, LookForSiblings,
         SweepCoin, EndResolve, ReadBook, ResolveTrade, storeVars, StreamStill, KeepEnv
<1>2. pc[p] \in Early /\ pc'[p] \in Early
  BY <1>0
  DEF Resolving, BeginPass, ListRows, CloseRow, ResolveRow, CancelOwn, LookForSiblings,
      SweepCoin, EndResolve, ReadBook, Goto, Done, Early
<1>3. Blank(ctx[p]) => Blank(ctx'[p])
  <2>1. CASE BeginPass(p)
    <3>1. Blank([NoContext EXCEPT !.coins = LiveCoins])
      BY DEF Blank, NoContext
    <3> QED BY <1>0, <2>1, <3>1 DEF BeginPass, Note
  <2>2. CASE ListRows(p)
    BY <1>0, <2>2 DEF ListRows, Note, Blank, Context
  <2>3. ASSUME NEW c \in Cands, CloseRow(p, c)
        PROVE  Blank(ctx[p]) => Blank(ctx'[p])
    BY <1>0, <2>3 DEF CloseRow, Note, Blank, Context
  <2>4. CASE EndResolve(p)
    BY <1>0, <2>4 DEF EndResolve, Note, Blank, Context
  <2>5. CASE ReadBook(p)
    BY <1>0, <2>5 DEF ReadBook, Note, Blank, Context
  <2> QED
    BY <2>1, <2>2, <2>3, <2>4, <2>5
    DEF Resolving, ResolveRow, CancelOwn, LookForSiblings, SweepCoin, KeepHand
<1> QED BY <1>1, <1>2, <1>3

(* A verdict touches nothing but the verdict. *)
LEMMA ConcludeEffect ==
    ASSUME TypeInv, NEW p \in Procs, NEW from, NEW verdict, Conclude(p, from, verdict)
    PROVE  pc[p] = from /\ pc'[p] = "log" /\ KeepsWork(p) /\ ctx'[p].verdict = verdict
<1>0. pc \in [Procs -> Stages] /\ ctx \in [Procs -> Context] /\ ctx[p] \in Context
  BY Functions
<1> QED BY <1>0 DEF Conclude, Goto, Note, KeepsWork, Context

LEMMA FiredEffect ==
    ASSUME TypeInv, NEW p \in Procs, NEW c, NEW from, Fired(p, c, from)
    PROVE  /\ pc[p] = from /\ pc'[p] = "log" /\ KeepsWork(p)
           /\ ctx'[p].coins = ctx[p].coins \cup {CoinOf[c]}
<1>0. pc \in [Procs -> Stages] /\ ctx \in [Procs -> Context] /\ ctx[p] \in Context
  BY Functions
<1> QED BY <1>0 DEF Fired, Goto, Note, KeepsWork, Context

LEMMA DecidingEffect ==
    ASSUME TypeInv, NEW p \in Procs, NEW c \in Cands, Deciding(p, c)
    PROVE  /\ pc[p] = "decide" /\ pc'[p] \in {"log", "claim"}
           /\ Holds(p, c) /\ KeepsWork(p) /\ StreamStill
           /\ looks' = [looks EXCEPT ![c] = @ + 1]
<1>0. pc \in [Procs -> Stages] /\ ctx \in [Procs -> Context] /\ ctx[p] \in Context
  BY Functions
<1>1. Holds(p, c) /\ StreamStill /\ looks' = [looks EXCEPT ![c] = @ + 1]
  BY DEF Deciding, Refuse, Wait, Approve, Asked, storeVars, StreamStill
<1>2. CASE Approve(p, c)
  BY <1>0, <1>1, <1>2 DEF Approve, Goto, KeepHand, KeepsWork
<1>3. ASSUME NEW verdict, Conclude(p, "decide", verdict)
      PROVE  pc[p] = "decide" /\ pc'[p] = "log" /\ KeepsWork(p)
  BY <1>3, ConcludeEffect
<1> QED BY <1>1, <1>2, <1>3 DEF Deciding, Refuse, Wait

LEMMA MiddleEffect ==
    ASSUME TypeInv, NEW p \in Procs, NEW c \in Cands, Firing(p, c) \/ Securing(p, c)
    PROVE  /\ pc[p] \in Middle \ {"log"} /\ pc'[p] \in Middle
           /\ Holds(p, c) /\ KeepsWork(p) /\ StreamStill /\ looks' = looks
<1>0. pc \in [Procs -> Stages] /\ ctx \in [Procs -> Context] /\ ctx[p] \in Context
  BY Functions
<1>1. Holds(p, c) /\ StreamStill /\ looks' = looks
  BY DEF Firing, Claim, Duplicate, SubmitFilled, SubmitRefused, SubmitUnfilled,
         SubmitRaises, Lookup, CancelResting, Release, Securing, OpenRow, Protect,
         ProtectFails, EmergencyClose, Abort, RecordFire, ReleaseFire, OpenTrade,
         ResolveTrade, storeVars, StreamStill, KeepEnv
<1> DEFINE OK == pc[p] \in Middle \ {"log"} /\ pc'[p] \in Middle /\ KeepsWork(p)
<1>2. ASSUME NEW from \in Middle \ {"log"}, NEW verdict, Conclude(p, from, verdict)
      PROVE  OK
  BY <1>2, ConcludeEffect DEF Middle
<1>3. ASSUME NEW from \in Middle \ {"log"}, Fired(p, c, from)
      PROVE  OK
  BY <1>3, FiredEffect DEF Middle
<1>4. ASSUME NEW from \in Middle \ {"log"}, NEW to \in Middle, Goto(p, from, to), KeepHand
      PROVE  OK
  BY <1>0, <1>4 DEF Goto, KeepHand, KeepsWork
<1>5. ASSUME Firing(p, c)
      PROVE  OK
  <2>1. AfterLookup(entry[c]) \in Middle
    BY DEF AfterLookup, Middle
  <2> HIDE DEF OK
  <2> QED
    BY <1>2, <1>4, <1>5, <2>1
    DEF Firing, Claim, Duplicate, SubmitFilled, SubmitRefused, SubmitUnfilled,
        SubmitRaises, Lookup, CancelResting, Release, Middle
<1>6. ASSUME OpenRow(p, c)
      PROVE  OK
  <2>1. CASE Protected
    BY <1>0, <1>6, <2>1 DEF OpenRow, Goto, Note, KeepsWork, Middle, Context
  <2>2. CASE ~Protected
    BY <1>3, <1>6, <2>2 DEF OpenRow, Middle
  <2> QED BY <2>1, <2>2
<1>7. ASSUME EmergencyClose(p, c)
      PROVE  OK
  BY <1>0, <1>7 DEF EmergencyClose, Goto, Note, KeepsWork, Middle, Context
<1>8. ASSUME Protect(p, c) \/ ProtectFails(p, c) \/ Abort(p, c)
      PROVE  OK
  <2> HIDE DEF OK
  <2> QED BY <1>3, <1>4, <1>8 DEF Protect, ProtectFails, Abort, Middle
<1> QED BY <1>1, <1>5, <1>6, <1>7, <1>8 DEF Securing

\* What is queued, but for candidate c.
QueueLess(p, c) ==
    /\ ctx'[p].due = ctx[p].due \ {c}
    /\ \A d \in Cands \ {c} : ctx'[p].left[d] = ctx[p].left[d]
    /\ ctx'[p].next = ctx[p].next /\ ctx'[p].last = ctx[p].last

LEMMA ReadQueuesEffect ==
    ASSUME TypeInv, NEW p \in Procs, ReadQueues(p)
    PROVE  /\ pc[p] = "queues" /\ pc'[p] = "next" /\ cand'[p] = cand[p]
           /\ ctx'[p].fresh = ctx[p].fresh /\ ctx'[p].attempts = ctx[p].attempts
           /\ ctx'[p].due = DueFor(breaker)
           /\ \A c \in DueFor(breaker) : c \in Cands /\ ctx'[p].left[c] = parked[c]
           /\ ctx'[p].next = hwm + 1 /\ ctx'[p].last = BatchEnd(p)
           /\ StreamStill /\ looks' = looks
<1>0. /\ pc \in [Procs -> Stages] /\ ctx \in [Procs -> Context] /\ ctx[p] \in Context
  BY Functions
<1>1. DueFor(breaker) \subseteq Cands
  BY DEF TypeInv, StoreTypeOK, DueFor, DueDeferred
<1>2. /\ pc[p] = "queues" /\ pc'[p] = "next" /\ cand'[p] = cand[p]
      /\ StreamStill /\ looks' = looks
  BY <1>0 DEF ReadQueues, Goto, storeVars, StreamStill, KeepEnv
<1> DEFINE left == [c \in Cands |-> IF c \in DueFor(breaker) THEN parked[c] ELSE NotParked]
<1>3. \A c \in DueFor(breaker) : left[c] = parked[c]
  BY <1>1
<1>4. ctx'[p] = [ctx[p] EXCEPT !.tripped = breaker, !.loss = lossHit,
                    !.due = DueFor(breaker), !.left = left,
                    !.next = hwm + 1, !.last = BatchEnd(p)]
  BY <1>0 DEF ReadQueues, Note
<1> HIDE DEF left
<1>5. /\ ctx'[p].fresh = ctx[p].fresh /\ ctx'[p].attempts = ctx[p].attempts
      /\ ctx'[p].due = DueFor(breaker) /\ ctx'[p].left = left
      /\ ctx'[p].next = hwm + 1 /\ ctx'[p].last = BatchEnd(p)
  BY <1>0, <1>4 DEF Context
<1> QED BY <1>1, <1>2, <1>3, <1>5

LEMMA SkipFiredEffect ==
    ASSUME TypeInv, NEW p \in Procs, NEW c \in Cands, SkipFired(p, c)
    PROVE  /\ pc[p] = "next" /\ pc'[p] = "next" /\ cand'[p] = cand[p]
           /\ c \in ctx[p].due /\ c \in keys /\ QueueLess(p, c)
           /\ ctx'[p].fresh = ctx[p].fresh /\ ctx'[p].attempts = ctx[p].attempts
           /\ parked' = [parked EXCEPT ![c] = NotParked]
           /\ UNCHANGED <<stream, hwm, status, outcome, faults, looks, keys>>
<1>0. /\ pc \in [Procs -> Stages] /\ ctx \in [Procs -> Context] /\ ctx[p] \in Context
  BY Functions
<1> QED BY <1>0 DEF SkipFired, At, Note, DropDeferred, KeepEnv, QueueLess, Context

LEMMA TakeDueEffect ==
    ASSUME TypeInv, NEW p \in Procs, NEW c \in Cands, TakeDue(p, c)
    PROVE  /\ pc[p] = "next" /\ pc'[p] = "decide" /\ cand'[p] = c
           /\ c \in ctx[p].due /\ QueueLess(p, c)
           /\ ctx'[p].fresh = ctx[p].fresh
           /\ ctx'[p].attempts = ctx[p].left[c] - 1
           /\ StreamStill /\ looks' = looks
<1>0. /\ pc \in [Procs -> Stages] /\ ctx \in [Procs -> Context] /\ ctx[p] \in Context
      /\ cand \in [Procs -> Cands \cup {NoCand}]
  BY Functions
<1>1. /\ pc[p] = "next" /\ pc'[p] = "decide" /\ cand'[p] = c /\ c \in ctx[p].due
      /\ StreamStill /\ looks' = looks
  BY <1>0 DEF TakeDue, Goto, storeVars, StreamStill, KeepEnv
<1>2. ctx'[p] = [ctx[p] EXCEPT !.due = @ \ {c}, !.left = [@ EXCEPT ![c] = NotParked],
                               !.attempts = AttemptsAfterLook(ctx[p].left[c])]
  BY <1>0 DEF TakeDue, Note
<1> QED BY <1>0, <1>1, <1>2 DEF QueueLess, AttemptsAfterLook, Context

LEMMA TakeNewEffect ==
    ASSUME TypeInv, NEW p \in Procs, TakeNew(p)
    PROVE  /\ pc[p] = "next" /\ pc'[p] = "decide" /\ cand'[p] = stream[ctx[p].next]
           /\ ctx[p].due = {} /\ ctx'[p].due = {} /\ ctx[p].next <= ctx[p].last
           /\ ctx'[p].fresh /\ ctx'[p].attempts = FollowupMax
           /\ ctx'[p].next = ctx[p].next /\ ctx'[p].last = ctx[p].last
           /\ StreamStill /\ looks' = looks
<1>0. /\ pc \in [Procs -> Stages] /\ ctx \in [Procs -> Context] /\ ctx[p] \in Context
      /\ cand \in [Procs -> Cands \cup {NoCand}]
  BY Functions
<1> QED BY <1>0 DEF TakeNew, Goto, Note, storeVars, StreamStill, KeepEnv, Context

LEMMA LeaveEffect ==
    ASSUME TypeInv, NEW p \in Procs, Leave(p)
    PROVE  pc'[p] = "idle" /\ cand'[p] = NoCand /\ Blank(ctx'[p])
<1>0. /\ pc \in [Procs -> Stages] /\ ctx \in [Procs -> Context]
      /\ cand \in [Procs -> Cands \cup {NoCand}]
  BY Functions
<1> QED BY <1>0 DEF Leave, Note, Blank, NoContext

LEMMA FailingEffect ==
    ASSUME TypeInv, NEW p \in Procs, Failing(p)
    PROVE  /\ Leave(p) /\ faults' = faults + 1
           /\ UNCHANGED <<storeVars, bookVars>>
           /\ \/ looks' = looks
              \/ \E c \in Cands : /\ pc[p] = "decide" /\ Holds(p, c)
                                  /\ looks' = [looks EXCEPT ![c] = @ + 1]
BY DEF Failing, Crash, Fault, DecideRaises, Asked, At

LEMMA LogEffect ==
    ASSUME TypeInv, NEW p \in Procs, NEW c \in Cands, Log(p, c)
    PROVE  /\ pc[p] = "log" /\ pc'[p] = "file" /\ Holds(p, c) /\ KeepsWork(p)
           /\ ctx'[p].verdict = ctx[p].verdict
           /\ outcome' = [outcome EXCEPT ![c] = ctx[p].verdict]
           /\ UNCHANGED <<stream, hwm, status, parked, faults, looks, keys>>
<1>0. pc \in [Procs -> Stages]
  BY Functions
<1> QED BY <1>0 DEF Log, Goto, KeepHand, KeepsWork, LogDecision, KeepEnv

\* A batch candidate goes on to its intake row; a deferral is done with.
FiledHand(p) ==
    IF ctx[p].fresh
    THEN pc'[p] = "status" /\ KeepsWork(p) /\ ctx'[p].verdict = ctx[p].verdict
    ELSE /\ pc'[p] = "next" /\ cand'[p] = NoCand /\ ~ctx'[p].fresh
         /\ ctx'[p].due = ctx[p].due /\ ctx'[p].left = ctx[p].left
         /\ ctx'[p].next = ctx[p].next /\ ctx'[p].last = ctx[p].last

LEMMA FiledEffect ==
    ASSUME TypeInv, NEW p \in Procs, Filed(p)
    PROVE  pc[p] = "file" /\ FiledHand(p)
<1>0. /\ pc \in [Procs -> Stages] /\ ctx \in [Procs -> Context] /\ ctx[p] \in Context
      /\ cand \in [Procs -> Cands \cup {NoCand}]
  BY Functions
<1>1. CASE ctx[p].fresh
  BY <1>0, <1>1 DEF Filed, FiledHand, Goto, KeepHand, KeepsWork
<1>2. CASE ~ctx[p].fresh
  <2>1. /\ Forget(ctx[p]).due = ctx[p].due /\ Forget(ctx[p]).left = ctx[p].left
        /\ Forget(ctx[p]).next = ctx[p].next /\ Forget(ctx[p]).last = ctx[p].last
        /\ ~Forget(ctx[p]).fresh
    BY <1>0 DEF Forget, Context
  <2>2. ctx'[p] = Forget(ctx[p])
    BY <1>0, <1>2 DEF Filed, Note
  <2> QED BY <1>0, <1>2, <2>1, <2>2 DEF Filed, FiledHand, Done, Goto
<1> QED BY <1>1, <1>2

LEMMA ParkEffect ==
    ASSUME TypeInv, NEW p \in Procs, NEW c \in Cands, Park(p, c)
    PROVE  /\ pc[p] = "file" /\ Holds(p, c) /\ FiledHand(p)
           /\ ctx[p].verdict = "deferred"
           /\ parked' = [parked EXCEPT ![c] = ctx[p].attempts]
           /\ UNCHANGED <<stream, hwm, status, outcome, faults, looks, keys>>
BY FiledEffect DEF Park, DeferCandidate, KeepEnv

LEMMA SettleEffect ==
    ASSUME TypeInv, NEW p \in Procs, NEW c \in Cands, Settle(p, c)
    PROVE  /\ pc[p] = "file" /\ Holds(p, c) /\ FiledHand(p)
           /\ ctx[p].verdict # "deferred"
           /\ parked' = IF ctx[p].fresh THEN parked ELSE [parked EXCEPT ![c] = NotParked]
           /\ UNCHANGED <<stream, hwm, status, outcome, faults, looks, keys>>
BY FiledEffect DEF Settle, DropDeferred, storeVars, KeepEnv

LEMMA MarkStatusEffect ==
    ASSUME TypeInv, NEW p \in Procs, NEW c \in Cands, MarkStatus(p, c)
    PROVE  /\ pc[p] = "status" /\ pc'[p] = "hwm" /\ Holds(p, c) /\ KeepsWork(p)
           /\ ctx'[p].verdict = ctx[p].verdict
           /\ status' = [status EXCEPT ![c] = ctx[p].verdict]
           /\ UNCHANGED <<stream, hwm, parked, outcome, faults, looks, keys>>
<1>0. pc \in [Procs -> Stages]
  BY Functions
<1> QED BY <1>0 DEF MarkStatus, Goto, KeepHand, KeepsWork, SetStatus, KeepEnv

LEMMA ReadHwmEffect ==
    ASSUME TypeInv, NEW p \in Procs, ReadHwm(p)
    PROVE  /\ pc[p] = "hwm" /\ pc'[p] = "mark" /\ KeepsWork(p)
           /\ ctx'[p].verdict = ctx[p].verdict
           /\ StreamStill /\ UNCHANGED <<looks, keys>>
<1>0. pc \in [Procs -> Stages]
  BY Functions
<1> QED BY <1>0 DEF ReadHwm, Goto, KeepHand, KeepsWork, storeVars, StreamStill, KeepEnv

\* The candidate of the batch is done with; the batch moves on by one.
NextOfBatch(p) ==
    /\ pc'[p] = "next" /\ cand'[p] = NoCand /\ ~ctx'[p].fresh
    /\ ctx'[p].due = ctx[p].due /\ ctx'[p].left = ctx[p].left
    /\ ctx'[p].next = ctx[p].next + 1 /\ ctx'[p].last = ctx[p].last

LEMMA ForgetNext ==
    ASSUME TypeInv, NEW p \in Procs, NEW from, Done(p, from, "next"),
           Note(p, [Forget(ctx[p]) EXCEPT !.next = @ + 1])
    PROVE  pc[p] = from /\ NextOfBatch(p)
<1>0. /\ pc \in [Procs -> Stages] /\ ctx \in [Procs -> Context] /\ ctx[p] \in Context
      /\ cand \in [Procs -> Cands \cup {NoCand}]
  BY Functions
<1>1. /\ Forget(ctx[p]).due = ctx[p].due /\ Forget(ctx[p]).left = ctx[p].left
      /\ Forget(ctx[p]).next = ctx[p].next /\ Forget(ctx[p]).last = ctx[p].last
      /\ ~Forget(ctx[p]).fresh /\ Forget(ctx[p]) \in Context
  BY <1>0, ForgetOK DEF TypeInv, Forget, Context
<1> DEFINE x == Forget(ctx[p])
           y == [x EXCEPT !.next = @ + 1]
<1> HIDE DEF x
<1>2. y.due = x.due /\ y.left = x.left /\ y.next = x.next + 1 /\ y.last = x.last /\ y.fresh = x.fresh
  BY <1>1 DEF Context, x
<1>3. ctx'[p] = y
  BY <1>0 DEF Note, x
<1>4. pc[p] = from /\ pc'[p] = "next" /\ cand'[p] = NoCand
  BY <1>0 DEF Done, Goto
<1> QED BY <1>1, <1>2, <1>3, <1>4 DEF NextOfBatch, x

LEMMA HwmAheadEffect ==
    ASSUME TypeInv, NEW p \in Procs, HwmAhead(p)
    PROVE  /\ pc[p] = "hwm" /\ hwm >= ctx[p].next /\ NextOfBatch(p)
           /\ StreamStill /\ UNCHANGED <<looks, keys>>
BY ForgetNext DEF HwmAhead, storeVars, StreamStill, KeepEnv

LEMMA AdvanceHwmEffect ==
    ASSUME TypeInv, NEW p \in Procs, AdvanceHwm(p)
    PROVE  /\ pc[p] = "mark" /\ hwm' = ctx[p].next /\ NextOfBatch(p)
           /\ UNCHANGED <<stream, status, parked, outcome, faults, looks, keys>>
BY ForgetNext DEF AdvanceHwm, WriteHwm, KeepEnv

(* Around the passes, only a new candidate concerns the stream. *)
LEMMA EnvironmentEffect ==
    ASSUME TypeInv, Environment
    PROVE  /\ UNCHANGED <<pc, cand, ctx, hwm, status, parked, outcome, faults, looks, keys>>
           /\ \/ stream' = stream
              \/ \E c \in Cands : c \notin ToSet(stream) /\ stream' = Append(stream, c)
BY DEF Environment, Enqueue, TimePasses, Market, Switch, EquityMoves, EnqueueRow, ComeDue,
       SetBreaker, storeVars, passVars, KeepEnv

(* Every step is one of these. *)
LEMMA StepsOfAPass ==
    ASSUME NEW p \in Procs, PassStep(p)
    PROVE  \/ Resolving(p) \/ ReadBook(p) \/ ReadQueues(p) \/ TakeNew(p) \/ EndPass(p)
           \/ ReadHwm(p) \/ HwmAhead(p) \/ AdvanceHwm(p)
           \/ \E c \in Cands : \/ SkipFired(p, c) \/ TakeDue(p, c) \/ Deciding(p, c)
                               \/ Firing(p, c) \/ Securing(p, c)
                               \/ Log(p, c) \/ Park(p, c) \/ Settle(p, c) \/ MarkStatus(p, c)
BY DEF PassStep, Queueing, Filing, Marking

-----------------------------------------------------------------------------
(* No candidate is skipped, with any number of processes.                   *)

\* What a pass knows of the batch: the candidate in hand is the one at `next`,
\* and every candidate before it has been given a verdict.
EarlyBlank(p) == pc[p] \in Early => Blank(ctx[p])
FreshInHand(p) ==
    /\ pc[p] \in Marks => ctx[p].fresh
    /\ ctx[p].fresh => InHand(p)
    /\ ctx[p].fresh => ctx[p].next <= ctx[p].last /\ Holds(p, stream[ctx[p].next])
    /\ InHand(p) => cand[p] # NoCand
PassedOn(p) ==
    InBatch(p) =>
        /\ ctx[p].next <= Len(stream) + 1
        /\ \A i \in 1..(ctx[p].next - 1) : status[stream[i]] # "pending"
StatusGiven(p) == pc[p] \in {"hwm", "mark"} => status[cand[p]] # "pending"

SkipLocal(p) == EarlyBlank(p) /\ FreshInHand(p) /\ PassedOn(p) /\ StatusGiven(p)
HwmInStream == hwm <= Len(stream)
SkipInv == HwmInStream /\ NoSkippedCandidate /\ \A p \in Procs : SkipLocal(p)

StreamGrows ==
    /\ Len(stream) \in Nat /\ Len(stream') \in Nat /\ Len(stream) <= Len(stream')
    /\ \A i \in 1..Len(stream) : stream[i] \in Cands /\ stream'[i] = stream[i]
StatusKept == \A c \in Cands : status[c] # "pending" => status'[c] # "pending"

LEMMA GrowsByOne ==
    ASSUME TypeInv,
           stream' = stream \/ \E c \in Cands : stream' = Append(stream, c)
    PROVE  StreamGrows
<1>1. stream \in Seq(Cands)
  BY Functions DEF TypeInv, StoreTypeOK
<1> QED BY <1>1 DEF StreamGrows

(* A process that does not move keeps what it knows. *)
LEMMA SkipLocalKept ==
    ASSUME TypeInv, NEW q \in Procs, SkipLocal(q),
           pc'[q] = pc[q], cand'[q] = cand[q], ctx'[q] = ctx[q],
           StreamGrows, StatusKept
    PROVE  SkipLocal(q)'
<1>0. /\ ctx[q].next \in Nat \ {0} /\ ctx[q].last \in Nat
      /\ ctx[q].next <= ctx[q].last => ctx[q].last <= Len(stream)
      /\ cand[q] \in Cands \cup {NoCand} /\ Len(stream) \in Nat
      /\ NoCand \notin Cands
  BY Locals, Functions, PassAssumption
  DEF TypeInv, Context, LocalOK, BatchInStream, PassAssumption
<1>1. EarlyBlank(q)'
  BY DEF SkipLocal, EarlyBlank
<1>2. FreshInHand(q)'
  BY <1>0 DEF SkipLocal, FreshInHand, Holds, InHand, StreamGrows
<1>3. PassedOn(q)'
  BY <1>0 DEF SkipLocal, PassedOn, InBatch, StreamGrows, StatusKept
<1>4. StatusGiven(q)'
  BY <1>0 DEF SkipLocal, StatusGiven, StatusKept, FreshInHand, InHand, Marks
<1> QED BY <1>1, <1>2, <1>3, <1>4 DEF SkipLocal

(* The locals of a process that moves, when the store's intake side stays. *)
LEMMA SkipWithinBatch ==
    ASSUME TypeInv, NEW p \in Procs, SkipLocal(p),
           InHand(p), pc'[p] \in Evaluating \cup Marks, KeepsWork(p),
           pc'[p] \in Marks => ctx[p].fresh,
           pc'[p] \in {"hwm", "mark"} => status'[cand[p]] # "pending",
           stream' = stream, StatusKept
    PROVE  SkipLocal(p)'
<1>0. /\ ctx[p].next \in Nat \ {0} /\ ctx[p].last \in Nat
      /\ Len(stream) \in Nat /\ \A i \in 1..Len(stream) : stream[i] \in Cands
      /\ pc[p] \notin Early /\ pc'[p] \notin Early
  BY Locals, Functions DEF TypeInv, Context, InHand, Evaluating, Middle, Marks, Early
<1>1. EarlyBlank(p)'
  BY <1>0 DEF EarlyBlank
<1>2. FreshInHand(p)'
  BY DEF SkipLocal, FreshInHand, Holds, InHand, KeepsWork
<1>3. PassedOn(p)'
  BY <1>0 DEF SkipLocal, PassedOn, InBatch, StatusKept, KeepsWork
<1>4. StatusGiven(p)'
  BY DEF StatusGiven, KeepsWork
<1> QED BY <1>1, <1>2, <1>3, <1>4 DEF SkipLocal

LEMMA SkipToNext ==
    ASSUME TypeInv, NEW p \in Procs, SkipLocal(p), InBatch(p),
           pc'[p] = "next", ~ctx'[p].fresh,
           \/ ctx'[p].next = ctx[p].next
           \/ /\ ctx'[p].next = ctx[p].next + 1
              /\ ctx[p].fresh /\ status[cand[p]] # "pending",
           stream' = stream, StatusKept
    PROVE  SkipLocal(p)'
<1>0. /\ ctx[p].next \in Nat \ {0} /\ ctx[p].last \in Nat
      /\ ctx[p].next <= ctx[p].last => ctx[p].last <= Len(stream)
      /\ Len(stream) \in Nat /\ \A i \in 1..Len(stream) : stream[i] \in Cands
  BY Locals, Functions DEF TypeInv, Context, LocalOK, BatchInStream
<1>1. EarlyBlank(p)' /\ FreshInHand(p)' /\ StatusGiven(p)'
  BY DEF EarlyBlank, FreshInHand, StatusGiven, InHand, Early, Evaluating, Middle, Marks
<1>2. CASE ctx'[p].next = ctx[p].next
  BY <1>0, <1>1, <1>2 DEF SkipLocal, PassedOn, InBatch, StatusKept
<1>3. CASE /\ ctx'[p].next = ctx[p].next + 1
           /\ ctx[p].fresh /\ status[cand[p]] # "pending"
  <2>1. ctx[p].next <= Len(stream) /\ status[stream[ctx[p].next]] # "pending"
    BY <1>0, <1>3 DEF SkipLocal, FreshInHand, Holds
  <2>2. \A i \in 1..ctx[p].next : status[stream[i]] # "pending"
    BY <1>0, <2>1 DEF SkipLocal, PassedOn
  <2>3. 1..(ctx'[p].next - 1) = 1..ctx[p].next /\ ctx'[p].next <= Len(stream) + 1
    BY <1>0, <1>3, <2>1
  <2>4. \A i \in 1..ctx[p].next : stream[i] \in Cands
    BY <1>0, <2>1
  <2>5. PassedOn(p)'
    BY <2>2, <2>3, <2>4 DEF PassedOn, StatusKept
  <2> QED BY <1>1, <2>5 DEF SkipLocal
<1> QED BY <1>2, <1>3

(* Back to an early stage, or still there, with nothing queued. *)
LEMMA SkipEarly ==
    ASSUME NEW p \in Procs, pc'[p] \in Early, Blank(ctx'[p])
    PROVE  SkipLocal(p)'
BY DEF SkipLocal, EarlyBlank, FreshInHand, PassedOn, StatusGiven, InHand, InBatch, Blank,
       Early, Evaluating, Middle, Marks

LEMMA StepKeepsSkipLocal ==
    ASSUME TypeInv, SkipInv, NEW p \in Procs, PassStep(p) \/ Failing(p)
    PROVE  SkipLocal(p)' /\ stream' = stream /\ StatusKept
<1>0. /\ SkipLocal(p) /\ HwmInStream /\ NoSkippedCandidate
      /\ pc \in [Procs -> Stages] /\ ctx[p] \in Context
      /\ status \in [Cands -> Verdicts \cup {"pending"}]
      /\ hwm \in Nat /\ Len(stream) \in Nat /\ \A i \in 1..Len(stream) : stream[i] \in Cands
      /\ cand[p] \in Cands \cup {NoCand} /\ "pending" \notin Verdicts /\ NoCand \notin Cands
  BY Functions, PassAssumption DEF SkipInv, Verdicts, PassAssumption
<1>1. ASSUME status' = status
      PROVE  StatusKept
  BY <1>1 DEF StatusKept
<1>2. CASE Resolving(p) \/ ReadBook(p)
  BY <1>0, <1>1, <1>2, EarlyEffect, SkipEarly DEF SkipLocal, EarlyBlank, StreamStill
<1>3. CASE ReadQueues(p)
  <2>1. /\ pc[p] = "queues" /\ pc'[p] = "next" /\ ctx'[p].fresh = ctx[p].fresh
        /\ ctx'[p].next = hwm + 1 /\ stream' = stream /\ status' = status
    BY <1>3, ReadQueuesEffect DEF StreamStill
  <2>2. ~ctx[p].fresh
    BY <1>0, <2>1 DEF SkipLocal, EarlyBlank, Early, Blank
  <2>3. EarlyBlank(p)' /\ FreshInHand(p)' /\ StatusGiven(p)'
    BY <2>1, <2>2
    DEF EarlyBlank, FreshInHand, StatusGiven, InHand, Early, Evaluating, Middle, Marks
  <2>4. PassedOn(p)'
    BY <1>0, <2>1 DEF PassedOn, HwmInStream, NoSkippedCandidate
  <2> QED BY <1>1, <2>1, <2>3, <2>4 DEF SkipLocal
<1>4. CASE TakeNew(p)
  <2>1. /\ pc[p] = "next" /\ pc'[p] = "decide" /\ cand'[p] = stream[ctx[p].next]
        /\ ctx[p].next <= ctx[p].last /\ ctx'[p].fresh
        /\ ctx'[p].next = ctx[p].next /\ ctx'[p].last = ctx[p].last
        /\ stream' = stream /\ status' = status
    BY <1>4, TakeNewEffect DEF StreamStill
  <2>2. ctx[p].next \in 1..Len(stream)
    BY <1>0, <2>1, Locals DEF TypeInv, Context, LocalOK, BatchInStream
  <2>3. EarlyBlank(p)' /\ FreshInHand(p)' /\ StatusGiven(p)'
    BY <1>0, <2>1, <2>2
    DEF EarlyBlank, FreshInHand, StatusGiven, InHand, Holds, Early, Evaluating, Middle, Marks
  <2>4. PassedOn(p)'
    BY <1>0, <2>1 DEF SkipLocal, PassedOn, InBatch, Early
  <2> QED BY <1>1, <2>1, <2>3, <2>4 DEF SkipLocal
<1>5. CASE EndPass(p) \/ Failing(p)
  <2>1. Leave(p) /\ stream' = stream /\ status' = status
    BY <1>5, FailingEffect DEF EndPass, storeVars
  <2> QED BY <1>1, <2>1, LeaveEffect, SkipEarly DEF Early
<1>6. CASE ReadHwm(p)
  <2>1. /\ pc[p] = "hwm" /\ pc'[p] = "mark" /\ KeepsWork(p)
        /\ stream' = stream /\ status' = status
    BY <1>6, ReadHwmEffect DEF StreamStill
  <2>2. InHand(p) /\ ctx[p].fresh /\ status[cand[p]] # "pending"
    BY <1>0, <2>1 DEF InHand, Marks, SkipLocal, FreshInHand, StatusGiven
  <2> QED BY <1>0, <1>1, <2>1, <2>2, SkipWithinBatch DEF Marks
<1>7. CASE HwmAhead(p) \/ AdvanceHwm(p)
  <2>1. /\ pc[p] \in {"hwm", "mark"} /\ NextOfBatch(p)
        /\ stream' = stream /\ status' = status
    BY <1>7, HwmAheadEffect, AdvanceHwmEffect DEF StreamStill
  <2>2. InBatch(p) /\ ctx[p].fresh /\ status[cand[p]] # "pending"
    BY <1>0, <2>1 DEF InBatch, Early, Marks, SkipLocal, FreshInHand, StatusGiven
  <2>3. pc'[p] = "next" /\ ~ctx'[p].fresh /\ ctx'[p].next = ctx[p].next + 1
    BY <2>1 DEF NextOfBatch
  <2> QED BY <1>0, <1>1, <2>1, <2>2, <2>3, SkipToNext
<1>8. ASSUME NEW c \in Cands, SkipFired(p, c)
      PROVE  SkipLocal(p)' /\ stream' = stream /\ StatusKept
  <2>1. /\ pc[p] = "next" /\ pc'[p] = "next" /\ ctx'[p].fresh = ctx[p].fresh
        /\ ctx'[p].next = ctx[p].next /\ stream' = stream /\ status' = status
    BY <1>8, SkipFiredEffect DEF QueueLess
  <2>2. InBatch(p) /\ ~ctx[p].fresh
    BY <1>0, <2>1
    DEF InBatch, SkipLocal, FreshInHand, InHand, Early, Evaluating, Middle, Marks
  <2> QED BY <1>0, <1>1, <2>1, <2>2, SkipToNext
<1>9. ASSUME NEW c \in Cands, TakeDue(p, c)
      PROVE  SkipLocal(p)' /\ stream' = stream /\ StatusKept
  <2>1. /\ pc[p] = "next" /\ pc'[p] = "decide" /\ cand'[p] = c
        /\ ctx'[p].fresh = ctx[p].fresh
        /\ ctx'[p].next = ctx[p].next /\ stream' = stream /\ status' = status
    BY <1>9, TakeDueEffect DEF QueueLess, StreamStill
  <2>2. ~ctx[p].fresh
    BY <1>0, <2>1 DEF SkipLocal, FreshInHand, InHand, Evaluating, Middle, Marks
  <2>3. EarlyBlank(p)' /\ FreshInHand(p)' /\ StatusGiven(p)'
    BY <1>0, <2>1, <2>2
    DEF EarlyBlank, FreshInHand, StatusGiven, InHand, Early, Evaluating, Middle, Marks
  <2>4. PassedOn(p)'
    BY <1>0, <2>1 DEF SkipLocal, PassedOn, InBatch, Early
  <2> QED BY <1>1, <2>1, <2>3, <2>4 DEF SkipLocal
<1>10. ASSUME NEW c \in Cands, Deciding(p, c) \/ Firing(p, c) \/ Securing(p, c) \/ Log(p, c)
       PROVE  SkipLocal(p)' /\ stream' = stream /\ StatusKept
  <2>1. /\ pc[p] \in Evaluating /\ pc'[p] \in Evaluating /\ KeepsWork(p)
        /\ stream' = stream /\ status' = status
    BY <1>10, DecidingEffect, MiddleEffect, LogEffect DEF Evaluating, Middle, StreamStill
  <2>2. pc'[p] \notin Marks /\ InHand(p)
    BY <2>1 DEF Evaluating, Middle, Marks, InHand
  <2> QED BY <1>0, <1>1, <2>1, <2>2, SkipWithinBatch DEF Marks
<1>11. ASSUME NEW c \in Cands, Park(p, c) \/ Settle(p, c)
       PROVE  SkipLocal(p)' /\ stream' = stream /\ StatusKept
  <2>1. pc[p] = "file" /\ FiledHand(p) /\ stream' = stream /\ status' = status
    BY <1>11, ParkEffect, SettleEffect
  <2>2. InHand(p) /\ InBatch(p)
    BY <2>1 DEF InHand, InBatch, Evaluating, Early
  <2>3. CASE ctx[p].fresh
    BY <1>0, <1>1, <2>1, <2>2, <2>3, SkipWithinBatch DEF FiledHand, Marks
  <2>4. CASE ~ctx[p].fresh
    BY <1>0, <1>1, <2>1, <2>2, <2>4, SkipToNext DEF FiledHand
  <2> QED BY <2>3, <2>4
<1>12. ASSUME NEW c \in Cands, MarkStatus(p, c)
       PROVE  SkipLocal(p)' /\ stream' = stream /\ StatusKept
  <2>1. /\ pc[p] = "status" /\ pc'[p] = "hwm" /\ cand[p] = c /\ KeepsWork(p)
        /\ status' = [status EXCEPT ![c] = ctx[p].verdict] /\ stream' = stream
    BY <1>12, MarkStatusEffect DEF Holds
  <2>2. ctx[p].verdict # "pending"
    BY <1>0 DEF Context
  <2>3. StatusKept /\ status'[cand[p]] # "pending"
    BY <1>0, <2>1, <2>2 DEF StatusKept
  <2>4. InHand(p) /\ ctx[p].fresh
    BY <1>0, <2>1 DEF InHand, Marks, SkipLocal, FreshInHand
  <2> QED BY <1>0, <2>1, <2>3, <2>4, SkipWithinBatch DEF Marks
<1> QED
  BY <1>2, <1>3, <1>4, <1>5, <1>6, <1>7, <1>8, <1>9, <1>10, <1>11, <1>12, StepsOfAPass

(* The mark moves to the candidate just marked, and no further. *)
LEMMA StepKeepsMark ==
    ASSUME TypeInv, SkipInv, NEW p \in Procs, PassStep(p) \/ Failing(p)
    PROVE  (HwmInStream /\ NoSkippedCandidate)'
<1>0. /\ SkipLocal(p) /\ HwmInStream /\ NoSkippedCandidate
      /\ hwm \in Nat /\ Len(stream) \in Nat /\ \A i \in 1..Len(stream) : stream[i] \in Cands
      /\ stream' = stream /\ StatusKept
  BY Functions, StepKeepsSkipLocal DEF SkipInv
<1>1. ASSUME hwm' = hwm
      PROVE  (HwmInStream /\ NoSkippedCandidate)'
  BY <1>0, <1>1 DEF HwmInStream, NoSkippedCandidate, StatusKept
<1>2. CASE AdvanceHwm(p)
  <2>1. pc[p] = "mark" /\ hwm' = ctx[p].next
    BY <1>2, AdvanceHwmEffect
  <2>2. /\ ctx[p].next \in Nat \ {0} /\ ctx[p].last \in Nat
        /\ ctx[p].next <= ctx[p].last => ctx[p].last <= Len(stream)
    BY Locals DEF TypeInv, Context, LocalOK, BatchInStream
  <2>3. ctx[p].next <= Len(stream) /\ status[stream[ctx[p].next]] # "pending"
    BY <1>0, <2>1, <2>2 DEF SkipLocal, FreshInHand, StatusGiven, Marks, Holds
  <2>4. \A i \in 1..ctx[p].next : status[stream[i]] # "pending"
    BY <1>0, <2>1, <2>2, <2>3 DEF SkipLocal, PassedOn, InBatch, Early
  <2>5. \A i \in 1..ctx[p].next : stream[i] \in Cands
    BY <1>0, <2>2, <2>3
  <2> QED
    BY <1>0, <2>1, <2>3, <2>4, <2>5 DEF HwmInStream, NoSkippedCandidate, StatusKept
<1>3. CASE Resolving(p) \/ ReadBook(p) \/ ReadQueues(p) \/ TakeNew(p) \/ EndPass(p)
           \/ ReadHwm(p) \/ HwmAhead(p) \/ Failing(p)
  BY <1>1, <1>3, EarlyEffect, ReadQueuesEffect, TakeNewEffect, ReadHwmEffect,
     HwmAheadEffect, FailingEffect DEF StreamStill, EndPass, storeVars
<1>4. ASSUME NEW c \in Cands,
             \/ SkipFired(p, c) \/ TakeDue(p, c) \/ Deciding(p, c)
             \/ Firing(p, c) \/ Securing(p, c)
             \/ Log(p, c) \/ Park(p, c) \/ Settle(p, c) \/ MarkStatus(p, c)
      PROVE  hwm' = hwm
  BY <1>4, SkipFiredEffect, TakeDueEffect, DecidingEffect, MiddleEffect, LogEffect,
     ParkEffect, SettleEffect, MarkStatusEffect DEF StreamStill
<1> QED BY <1>1, <1>2, <1>3, <1>4, StepsOfAPass

LEMMA SkipInvInit == Init => SkipInv
<1> SUFFICES ASSUME Init PROVE SkipInv
  OBVIOUS
<1>1. HwmInStream /\ NoSkippedCandidate
  BY DEF Init, StoreInit, HwmInStream, NoSkippedCandidate
<1>2. ASSUME NEW p \in Procs
      PROVE  SkipLocal(p)
  <2>1. pc[p] = "idle" /\ ctx[p] = NoContext
    BY DEF Init
  <2> QED
    BY <2>1
    DEF SkipLocal, EarlyBlank, FreshInHand, PassedOn, StatusGiven, InHand, InBatch, Blank,
        NoContext, Early, Evaluating, Middle, Marks
<1> QED BY <1>1, <1>2 DEF SkipInv

LEMMA SkipInvNext ==
    ASSUME TypeInv, SkipInv, [Next]_vars
    PROVE  SkipInv'
<1>0. hwm \in Nat
  BY DEF TypeInv, StoreTypeOK
<1>1. ASSUME NEW p \in Procs, PassStep(p) \/ Failing(p)
      PROVE  SkipInv'
  <2>1. SkipLocal(p)' /\ stream' = stream /\ StatusKept
    BY <1>1, StepKeepsSkipLocal
  <2>2. StreamGrows
    BY <2>1, GrowsByOne
  <2>3. ASSUME NEW q \in Procs, q # p
        PROVE  SkipLocal(q)'
    <3>1. pc'[q] = pc[q] /\ cand'[q] = cand[q] /\ ctx'[q] = ctx[q]
      BY <1>1, <2>3, StepsOfOne DEF OthersStay, TypeInv, PassOK
    <3> QED BY <2>1, <2>2, <3>1, SkipLocalKept DEF SkipInv
  <2> QED BY <1>1, <2>1, <2>3, StepKeepsMark DEF SkipInv
<1>2. ASSUME StreamGrows, UNCHANGED <<pc, cand, ctx, hwm, status>>
      PROVE  SkipInv'
  <2>1. StatusKept
    BY <1>2 DEF StatusKept
  <2>2. \A q \in Procs : SkipLocal(q)'
    BY <1>2, <2>1, SkipLocalKept DEF SkipInv
  <2>3. (HwmInStream /\ NoSkippedCandidate)'
    BY <1>0, <1>2 DEF SkipInv, HwmInStream, NoSkippedCandidate, StreamGrows
  <2> QED BY <2>2, <2>3 DEF SkipInv
<1>3. CASE Environment
  BY <1>2, <1>3, EnvironmentEffect, GrowsByOne
<1>4. CASE UNCHANGED vars
  BY <1>2, <1>4, GrowsByOne DEF vars, storeVars, passVars
<1> QED BY <1>1, <1>3, <1>4 DEF Next

LEMMA SkipInvAlways == Spec => [](TypeInv /\ SkipInv)
<1>1. Init => TypeInv /\ SkipInv
  BY TypeInvInit, SkipInvInit
<1>2. TypeInv /\ SkipInv /\ [Next]_vars => (TypeInv /\ SkipInv)'
  BY TypeInvNext, SkipInvNext
<1> QED BY <1>1, <1>2, PTL DEF Spec

(* The high-water mark passes no candidate without a verdict, for any      *)
(* number of processes that pull the stream and wherever they are cut off  *)
(* (runner.py run_once; store.py advance_hwm).                             *)
THEOREM NothingSkipped == Spec => []NoSkippedCandidate
<1>1. SkipInv => NoSkippedCandidate
  BY DEF SkipInv
<1> QED BY <1>1, SkipInvAlways, PTL

-----------------------------------------------------------------------------
(* Orphans: every position without a row costs a fault of its own.          *)

(* A set that gains at most one element. *)
LEMMA GrownByOne ==
    ASSUME NEW S, NEW T, NEW x, IsFiniteSet(S), T \subseteq S \cup {x}
    PROVE  /\ IsFiniteSet(T) /\ Cardinality(T) \in Nat
           /\ Cardinality(T) <= Cardinality(S) + 1
<1>1. /\ IsFiniteSet(S \cup {x}) /\ Cardinality(S) \in Nat
      /\ Cardinality(S \cup {x}) = IF x \in S THEN Cardinality(S) ELSE Cardinality(S) + 1
  BY FS_AddElement, FS_CardinalityType
<1>2. IsFiniteSet(T) /\ Cardinality(T) <= Cardinality(S \cup {x})
  BY <1>1, FS_Subset
<1>3. Cardinality(T) \in Nat
  BY <1>2, FS_CardinalityType
<1> QED BY <1>1, <1>2, <1>3

\* An orphan is the candidate of a pass that was cut off between fill and row.
LEMMA OrphanFromFault ==
    ASSUME TypeInv, EntryInv, NEW p \in Procs, Failing(p)
    PROVE  Orphans' \subseteq Orphans \cup {cand[p]}
<1>0. OthersStay(p) /\ Leave(p) /\ UNCHANGED <<ledger, entered>>
  BY StepsOfOne, FailingEffect DEF TypeInv, PassOK, storeVars, bookVars
<1>1. ASSUME NEW c \in Cands, c # cand[p], BeingFired(c)
      PROVE  BeingFired(c)'
  BY <1>0, <1>1 DEF BeingFired, Holds, OthersStay
<1> QED BY <1>0, <1>1 DEF Orphans

(* A pass that goes on leaves no orphan behind. *)
LEMMA NoOrphanLeft ==
    ASSUME TypeInv, EntryInv, NEW p \in Procs, PassStep(p)
    PROVE  Orphans' \subseteq Orphans
<1>0. OthersStay(p)
  BY StepsOfOne DEF TypeInv, PassOK
<1>1. SUFFICES ASSUME NEW c \in Cands, entered'[c] > 0, ledger'[c] = "none",
                      ~BeingFired(c)'
               PROVE  entered[c] > 0 /\ ledger[c] = "none" /\ ~BeingFired(c)
  BY DEF Orphans
<1>2. /\ pc \in [Procs -> Stages] /\ cand \in [Procs -> Cands \cup {NoCand}]
      /\ entered \in [Cands -> Nat] /\ ledger \in [Cands -> RowStatus]
      /\ entry \in [Cands -> {"none", "resting", "filled"}]
  BY Functions DEF TypeInv, StoreTypeOK, BookTypeOK
\* c is not in hand where a fill waits for its row.
<1>3. ASSUME entered'[c] = entered[c], ledger'[c] = "none" => ledger[c] = "none",
             ~(Holds(p, c) /\ pc[p] \in {"lookup", "open"})
      PROVE  entered[c] > 0 /\ ledger[c] = "none" /\ ~BeingFired(c)
  BY <1>0, <1>1, <1>3 DEF BeingFired, Holds, OthersStay
<1>4. CASE Resolving(p) \/ ReadBook(p)
  <2>1. pc[p] \in Early
    BY <1>4, EarlyEffect
  <2>2. entered' = entered /\ (ledger'[c] = "none" => ledger[c] = "none")
    BY <1>2, <1>4
    DEF Resolving, BeginPass, ListRows, CloseRow, ResolveRow, CancelOwn, LookForSiblings,
        SweepCoin, EndResolve, ReadBook, ResolveTrade, Flatten, Uncover, storeVars, bookVars
  <2> QED BY <1>3, <2>1, <2>2 DEF Early
<1>5. CASE ReadQueues(p) \/ TakeNew(p) \/ EndPass(p) \/ Marking(p)
  <2>1. pc[p] \notin {"lookup", "open"}
    BY <1>2, <1>5 DEF ReadQueues, TakeNew, EndPass, Marking, ReadHwm, HwmAhead, AdvanceHwm,
                      Goto, Done, At
  <2>2. UNCHANGED <<entered, ledger>>
    BY <1>5 DEF ReadQueues, TakeNew, EndPass, Marking, ReadHwm, HwmAhead, AdvanceHwm,
                WriteHwm, storeVars, bookVars
  <2> QED BY <1>3, <2>1, <2>2
<1>6. ASSUME NEW d \in Cands,
             SkipFired(p, d) \/ TakeDue(p, d) \/ Deciding(p, d) \/ Filing(p, d)
      PROVE  entered[c] > 0 /\ ledger[c] = "none" /\ ~BeingFired(c)
  <2>1. pc[p] \notin {"lookup", "open"}
    BY <1>2, <1>6
    DEF SkipFired, TakeDue, Deciding, Refuse, Wait, Approve, Conclude, Filing, Log, Park,
        Settle, MarkStatus, Filed, Goto, Done, At
  <2>2. UNCHANGED <<entered, ledger>>
    BY <1>6
    DEF SkipFired, TakeDue, Deciding, Refuse, Wait, Approve, Filing, Log, Park, Settle,
        MarkStatus, LogDecision, DeferCandidate, DropDeferred, SetStatus, storeVars, bookVars
  <2> QED BY <1>3, <2>1, <2>2
<1>7. ASSUME NEW d \in Cands, Firing(p, d)
      PROVE  entered[c] > 0 /\ ledger[c] = "none" /\ ~BeingFired(c)
  <2>1. Holds(p, d) /\ cand'[p] = cand[p] /\ ledger' = ledger
    BY <1>7, MiddleEffect
    DEF KeepsWork, Firing, Claim, Duplicate, SubmitFilled, SubmitRefused, SubmitUnfilled,
        SubmitRaises, Lookup, CancelResting, Release, RecordFire, ReleaseFire, storeVars
  <2>2. CASE SubmitFilled(p, d) \/ SubmitRaises(p, d)
    <3>1. pc[p] = "submit" /\ pc'[p] \in {"lookup", "open"}
      BY <1>2, <2>2 DEF SubmitFilled, SubmitRaises, Goto
    <3>2. c # d
      BY <1>1, <2>1, <3>1 DEF BeingFired, Holds
    <3>3. entered'[c] = entered[c]
      BY <1>2, <2>2, <3>2 DEF SubmitFilled, SubmitRaises, Fill, Rest, bookVars
    <3> QED BY <1>3, <2>1, <3>1, <3>3
  <2>3. CASE Lookup(p, d)
    <3>1. pc[p] = "lookup" /\ pc'[p] = AfterLookup(entry[d]) /\ entered' = entered
      BY <1>2, <2>3 DEF Lookup, Goto, bookVars
    <3>2. c # d
      <4>1. entry[d] = "filled" => pc'[p] = "open"
        BY <3>1 DEF AfterLookup
      <4>2. entry[d] # "filled" => ~(entered[d] > 0)
        BY DEF EntryInv, ClaimInv, FilledIsEntered
      <4> QED BY <1>1, <2>1, <3>1, <4>1, <4>2 DEF BeingFired, Holds
    <3> QED BY <1>3, <2>1, <3>1, <3>2 DEF Holds
  <2>4. CASE \/ Claim(p, d) \/ Duplicate(p, d) \/ SubmitRefused(p, d) \/ SubmitUnfilled(p, d)
             \/ CancelResting(p, d) \/ Release(p, d)
    <3>1. pc[p] \notin {"lookup", "open"} /\ entered' = entered
      BY <1>2, <2>4
      DEF Claim, Duplicate, SubmitRefused, SubmitUnfilled, CancelResting, Release, Conclude,
          CancelEntry, Goto, bookVars
    <3> QED BY <1>3, <2>1, <3>1
  <2> QED BY <1>7, <2>2, <2>3, <2>4 DEF Firing
<1>8. ASSUME NEW d \in Cands, Securing(p, d)
      PROVE  entered[c] > 0 /\ ledger[c] = "none" /\ ~BeingFired(c)
  <2>1. Holds(p, d) /\ entered' = entered
    BY <1>8
    DEF Securing, OpenRow, Protect, ProtectFails, EmergencyClose, Abort, Cover, Flatten,
        bookVars
  <2>2. CASE OpenRow(p, d)
    <3>1. ledger' = [ledger EXCEPT ![d] = "open"]
      BY <2>2 DEF OpenRow, OpenTrade
    <3>2. c # d
      BY <1>1, <1>2, <3>1
    <3> QED BY <1>2, <1>3, <2>1, <3>1, <3>2 DEF Holds
  <2>3. CASE Protect(p, d) \/ ProtectFails(p, d) \/ EmergencyClose(p, d) \/ Abort(p, d)
    <3>1. pc[p] \notin {"lookup", "open"}
      BY <1>2, <2>3 DEF Protect, ProtectFails, EmergencyClose, Abort, Fired, Goto
    <3>2. ledger'[c] = "none" => ledger[c] = "none"
      <4>1. CASE Abort(p, d)
        <5>1. pc[p] = "abort" /\ ledger' = [ledger EXCEPT ![d] = ctx[p].verdict]
          BY <4>1 DEF Abort, Goto, ResolveTrade
        <5>2. ctx[p].verdict # "none"
          BY <5>1, Locals DEF TypeInv, LocalOK, AbortHasStatus
        <5> QED BY <1>2, <5>1, <5>2
      <4> QED BY <2>3, <4>1 DEF Protect, ProtectFails, EmergencyClose, storeVars
    <3> QED BY <1>3, <2>1, <3>1, <3>2
  <2> QED BY <1>8, <2>2, <2>3 DEF Securing
<1> QED BY <1>4, <1>5, <1>6, <1>7, <1>8 DEF PassStep, Queueing

LEMMA OrphanInvNext ==
    ASSUME ~RestingMayFill, TypeInv, EntryInv, OrphanNeedsFault, [Next]_vars
    PROVE  OrphanNeedsFault'
<1>0. IsFiniteSet(Orphans) /\ IsFiniteSet(Orphans') /\ Cardinality(Orphans) \in Nat
      /\ faults \in Nat
  <2>1. IsFiniteSet(Cands)
    BY CandidatesAssumption DEF CandidatesAssumption
  <2>2. Orphans \subseteq Cands /\ Orphans' \subseteq Cands
    BY DEF Orphans
  <2> QED BY <2>1, <2>2, FS_Subset, FS_CardinalityType, Functions DEF TypeInv, EnvTypeOK
<1>1. ASSUME Orphans' \subseteq Orphans, faults' = faults
      PROVE  OrphanNeedsFault'
  <2>1. Cardinality(Orphans') <= Cardinality(Orphans) /\ Cardinality(Orphans') \in Nat
    BY <1>0, <1>1, FS_Subset, FS_CardinalityType
  <2> QED BY <1>0, <1>1, <2>1 DEF OrphanNeedsFault
<1>2. ASSUME NEW p \in Procs, Failing(p)
      PROVE  OrphanNeedsFault'
  <2>1. Orphans' \subseteq Orphans \cup {cand[p]} /\ faults' = faults + 1
    BY <1>2, OrphanFromFault, FailingEffect
  <2>2. Cardinality(Orphans') <= Cardinality(Orphans) + 1 /\ Cardinality(Orphans') \in Nat
    BY <1>0, <2>1, GrownByOne
  <2> QED BY <1>0, <2>1, <2>2 DEF OrphanNeedsFault
<1>3. ASSUME NEW p \in Procs, PassStep(p)
      PROVE  OrphanNeedsFault'
  <2>1. CASE \/ Resolving(p) \/ ReadBook(p) \/ ReadQueues(p) \/ TakeNew(p) \/ EndPass(p)
             \/ ReadHwm(p) \/ HwmAhead(p) \/ AdvanceHwm(p)
    <3>1. faults' = faults
      BY <2>1, EarlyEffect, ReadQueuesEffect, TakeNewEffect, ReadHwmEffect,
         HwmAheadEffect, AdvanceHwmEffect DEF StreamStill, EndPass, KeepEnv
    <3> QED BY <1>1, <1>3, <3>1, NoOrphanLeft
  <2>2. ASSUME NEW c \in Cands,
               \/ SkipFired(p, c) \/ TakeDue(p, c) \/ Deciding(p, c)
               \/ Firing(p, c) \/ Securing(p, c)
               \/ Log(p, c) \/ Park(p, c) \/ Settle(p, c) \/ MarkStatus(p, c)
        PROVE  OrphanNeedsFault'
    <3>1. faults' = faults
      BY <2>2, SkipFiredEffect, TakeDueEffect, DecidingEffect, MiddleEffect, LogEffect,
         ParkEffect, SettleEffect, MarkStatusEffect DEF StreamStill
    <3> QED BY <1>1, <1>3, <3>1, NoOrphanLeft
  <2> QED BY <1>3, <2>1, <2>2, StepsOfAPass
<1>4. ASSUME UNCHANGED <<pc, cand, ledger, entered, faults>>
      PROVE  OrphanNeedsFault'
  BY <1>1, <1>4 DEF Orphans, BeingFired, Holds
<1>5. CASE Environment
  BY <1>4, <1>5, EnvironmentEffect
  DEF Environment, Enqueue, TimePasses, Market, Switch, EquityMoves, EnqueueRow, ComeDue,
      SetBreaker, RestingFills, ExternalClose, storeVars, bookVars
<1>6. CASE UNCHANGED vars
  BY <1>4, <1>6 DEF vars, storeVars, bookVars, passVars
<1> QED BY <1>2, <1>3, <1>5, <1>6 DEF Next

(* Every position without a ledger row, but for the fill a running pass is *)
(* about to book, cost a crash or a raised call of its own (runner.py      *)
(* _fire_and_reconcile; execute.py _resolve_unknown), for any number of    *)
(* processes.                                                              *)
THEOREM OrphansCostFaults ==
    ASSUME ~RestingMayFill
    PROVE  Spec => []OrphanNeedsFault
<1>1. Init => OrphanNeedsFault
  <2> SUFFICES ASSUME Init PROVE OrphanNeedsFault
    OBVIOUS
  <2>1. Orphans = {}
    BY DEF Init, BookInit, Orphans
  <2>2. faults = 0
    BY DEF Init
  <2> QED BY <2>1, <2>2, FS_EmptySet DEF OrphanNeedsFault
<1>2. TypeInv /\ EntryInv /\ OrphanNeedsFault /\ [Next]_vars => OrphanNeedsFault'
  BY OrphanInvNext
<1> QED BY <1>1, <1>2, EntryInvAlways, PTL DEF Spec

-----------------------------------------------------------------------------
(* No WAIT is lost, by a single executor.                                   *)
(*                                                                          *)
(* A second process breaks the argument, and the property: both could hold  *)
(* the same deferral, and one would settle what the other still re-checks.  *)

Alone == \A p, q \in Procs : p = q

StreamDistinct == \A i, j \in 1..Len(stream) : stream[i] = stream[j] => i = j

\* The batch goes on where the mark is.
HwmIsNext(p) == InBatch(p) => hwm = ctx[p].next - 1
\* The deferrals queued are parked with the attempts read with them.
DueIsParked(p) ==
    /\ \A c \in ctx[p].due : parked[c] = ctx[p].left[c] /\ (InHand(p) => c # cand[p])
    /\ ctx[p].fresh => ctx[p].due = {}
\* A re-checked candidate stays parked until its verdict is filed.
RecheckIsParked(p) ==
    pc[p] \in Evaluating /\ ~ctx[p].fresh => parked[cand[p]] = ctx[p].attempts + 1
\* What is logged, parked and marked is the verdict of this evaluation.
VerdictKept(p) ==
    /\ pc[p] = "file" => outcome[cand[p]] = ctx[p].verdict
    /\ pc[p] \in Marks /\ ctx[p].verdict = "deferred" => IsParked(cand[p])
    /\ pc[p] \in {"hwm", "mark"} => status[cand[p]] = ctx[p].verdict

WaitLocal(p) == HwmIsNext(p) /\ DueIsParked(p) /\ RecheckIsParked(p) /\ VerdictKept(p)
WaitInv == StreamDistinct /\ NoLostWait /\ \A p \in Procs : WaitLocal(p)

(* The candidate of the batch in hand is not behind the mark yet. *)
LEMMA FreshNotBehind ==
    ASSUME TypeInv, SkipInv, WaitInv, NEW p \in Procs, InBatch(p), ctx[p].fresh
    PROVE  /\ hwm = ctx[p].next - 1 /\ ctx[p].next \in 1..Len(stream)
           /\ cand[p] = stream[ctx[p].next]
           /\ \A i \in 1..hwm : stream[i] # cand[p]
<1>1. /\ ctx[p].next \in Nat \ {0} /\ ctx[p].last \in Nat /\ Len(stream) \in Nat
      /\ ctx[p].next <= ctx[p].last => ctx[p].last <= Len(stream)
  BY Locals, Functions DEF TypeInv, Context, LocalOK, BatchInStream
<1>2. /\ hwm = ctx[p].next - 1 /\ ctx[p].next <= ctx[p].last
      /\ cand[p] = stream[ctx[p].next]
  BY DEF SkipInv, SkipLocal, FreshInHand, Holds, WaitInv, WaitLocal, HwmIsNext
<1>3. \A i \in 1..hwm : i \in 1..Len(stream) /\ i # ctx[p].next
  BY <1>1, <1>2
<1> QED BY <1>1, <1>2, <1>3 DEF WaitInv, StreamDistinct

(* A candidate under re-check is parked. *)
LEMMA RecheckParked ==
    ASSUME TypeInv, WaitInv, NEW p \in Procs, pc[p] \in Evaluating, ~ctx[p].fresh
    PROVE  IsParked(cand[p])
<1>1. ctx[p].attempts \in Nat
  BY Functions DEF Context
<1>2. parked[cand[p]] = ctx[p].attempts + 1
  BY DEF WaitInv, WaitLocal, RecheckIsParked
<1> QED BY <1>1, <1>2 DEF IsParked, NotParked

LEMMA WaitStays ==
    ASSUME NoLostWait, UNCHANGED <<stream, hwm, status, parked, outcome>>, keys \subseteq keys'
    PROVE  NoLostWait'
BY DEF NoLostWait, IsParked

(* From one stage of an evaluation to another, before the verdict is logged. *)
LEMMA WaitWithin ==
    ASSUME WaitInv, NEW p \in Procs,
           pc[p] \in Evaluating, pc'[p] \in Evaluating \ {"file"}, KeepsWork(p),
           UNCHANGED <<hwm, parked>>
    PROVE  WaitLocal(p)'
<1>1. /\ pc[p] \notin Early /\ pc'[p] \notin Early /\ InHand(p) /\ pc'[p] \notin Marks
  BY DEF Early, Evaluating, Middle, Marks, InHand
<1>2. HwmIsNext(p)' /\ DueIsParked(p)' /\ RecheckIsParked(p)' /\ VerdictKept(p)'
  BY <1>1 DEF WaitInv, WaitLocal, HwmIsNext, DueIsParked, RecheckIsParked, VerdictKept,
              InBatch, KeepsWork, Marks
<1> QED BY <1>2 DEF WaitLocal

LEMMA WaitEarly ==
    ASSUME NEW p \in Procs, pc'[p] \in Early, Blank(ctx'[p])
    PROVE  WaitLocal(p)'
BY DEF WaitLocal, HwmIsNext, DueIsParked, RecheckIsParked, VerdictKept, InBatch, Blank,
       Early, Evaluating, Middle, Marks

(* Back in the loop: only the queues matter. *)
LEMMA WaitToNext ==
    ASSUME NEW p \in Procs, pc'[p] = "next", ~ctx'[p].fresh,
           hwm' = ctx'[p].next - 1,
           \A c \in ctx'[p].due : parked'[c] = ctx'[p].left[c]
    PROVE  WaitLocal(p)'
BY DEF WaitLocal, HwmIsNext, DueIsParked, RecheckIsParked, VerdictKept, InHand,
       Evaluating, Middle, Marks

LEMMA EarlyKeepsWait ==
    ASSUME TypeInv, SkipInv, WaitInv, NEW p \in Procs,
           Resolving(p) \/ ReadBook(p) \/ EndPass(p) \/ Failing(p)
    PROVE  WaitLocal(p)' /\ NoLostWait'
<1>1. keys' = keys
  BY FailingEffect
  DEF Resolving, BeginPass, ListRows, CloseRow, ResolveRow, CancelOwn, LookForSiblings,
      SweepCoin, EndResolve, ReadBook, ResolveTrade, EndPass, storeVars
<1>2. CASE Resolving(p) \/ ReadBook(p)
  <2>1. pc'[p] \in Early /\ Blank(ctx'[p]) /\ StreamStill
    BY <1>2, EarlyEffect DEF SkipInv, SkipLocal, EarlyBlank
  <2> QED BY <1>1, <2>1, WaitEarly, WaitStays DEF WaitInv, StreamStill
<1>3. CASE EndPass(p) \/ Failing(p)
  <2>1. Leave(p) /\ UNCHANGED storeVars
    BY <1>3, FailingEffect DEF EndPass
  <2>2. pc'[p] \in Early /\ Blank(ctx'[p])
    BY <2>1, LeaveEffect DEF Early
  <2> QED BY <1>1, <2>1, <2>2, WaitEarly, WaitStays DEF WaitInv, storeVars
<1> QED BY <1>2, <1>3

LEMMA QueueingKeepsWait ==
    ASSUME TypeInv, SkipInv, WaitInv, NEW p \in Procs,
           \/ ReadQueues(p) \/ TakeNew(p)
           \/ \E c \in Cands : SkipFired(p, c) \/ TakeDue(p, c)
    PROVE  WaitLocal(p)' /\ NoLostWait'
<1>0. /\ WaitLocal(p) /\ NoLostWait /\ SkipLocal(p) /\ ctx[p] \in Context
      /\ ctx[p].due \subseteq Cands /\ parked \in [Cands -> {NotParked} \cup 1..FollowupMax]
      /\ hwm \in Nat /\ ctx[p].next \in Nat
      /\ pc[p] = "next" => InBatch(p) /\ ~ctx[p].fresh /\ ~InHand(p)
  BY Functions
  DEF WaitInv, SkipInv, SkipLocal, FreshInHand, InBatch, InHand, Early, Evaluating, Middle,
      Marks, Context
<1>1. CASE ReadQueues(p)
  <2>1. /\ pc[p] = "queues" /\ pc'[p] = "next" /\ ctx'[p].fresh = ctx[p].fresh
        /\ ctx'[p].due = DueFor(breaker)
        /\ \A c \in DueFor(breaker) : c \in Cands /\ ctx'[p].left[c] = parked[c]
        /\ ctx'[p].next = hwm + 1 /\ StreamStill
    BY <1>1, ReadQueuesEffect
  <2>2. ~ctx[p].fresh /\ keys' = keys
    BY <1>0, <1>1, <2>1 DEF SkipLocal, EarlyBlank, Early, Blank, ReadQueues, storeVars
  <2>3. hwm' = ctx'[p].next - 1 /\ \A c \in ctx'[p].due : parked'[c] = ctx'[p].left[c]
    BY <1>0, <2>1 DEF StreamStill
  <2> QED BY <1>0, <2>1, <2>2, <2>3, WaitToNext, WaitStays DEF StreamStill
<1>2. CASE TakeNew(p)
  <2>1. /\ pc[p] = "next" /\ pc'[p] = "decide" /\ ctx'[p].due = {} /\ ctx'[p].fresh
        /\ ctx'[p].next = ctx[p].next /\ StreamStill
    BY <1>2, TakeNewEffect
  <2>2. hwm = ctx[p].next - 1 /\ keys' = keys
    BY <1>0, <1>2, <2>1 DEF WaitLocal, HwmIsNext, TakeNew, storeVars
  <2>3. WaitLocal(p)'
    BY <2>1, <2>2
    DEF WaitLocal, HwmIsNext, DueIsParked, RecheckIsParked, VerdictKept, StreamStill, Marks
  <2> QED BY <1>0, <2>1, <2>2, <2>3, WaitStays DEF StreamStill
<1>3. ASSUME NEW c \in Cands, SkipFired(p, c)
      PROVE  WaitLocal(p)' /\ NoLostWait'
  <2>1. /\ pc[p] = "next" /\ pc'[p] = "next" /\ ctx'[p].fresh = ctx[p].fresh
        /\ QueueLess(p, c) /\ c \in keys
        /\ parked' = [parked EXCEPT ![c] = NotParked]
        /\ UNCHANGED <<stream, hwm, status, outcome, keys>>
    BY <1>3, SkipFiredEffect
  <2>2. \A d \in ctx'[p].due : parked'[d] = ctx'[p].left[d]
    BY <1>0, <2>1 DEF QueueLess, WaitLocal, DueIsParked
  <2>3. hwm' = ctx'[p].next - 1
    BY <1>0, <2>1 DEF QueueLess, WaitLocal, HwmIsNext
  <2>4. NoLostWait'
    BY <1>0, <2>1 DEF NoLostWait, IsParked
  <2> QED BY <1>0, <2>1, <2>2, <2>3, <2>4, WaitToNext
<1>4. ASSUME NEW c \in Cands, TakeDue(p, c)
      PROVE  WaitLocal(p)' /\ NoLostWait'
  <2>1. /\ pc[p] = "next" /\ pc'[p] = "decide" /\ cand'[p] = c /\ c \in ctx[p].due
        /\ QueueLess(p, c) /\ ctx'[p].fresh = ctx[p].fresh
        /\ ctx'[p].attempts = ctx[p].left[c] - 1
        /\ StreamStill /\ keys' = keys
    BY <1>4, TakeDueEffect DEF TakeDue, storeVars
  <2>2. parked[c] = ctx[p].left[c] /\ parked[c] \in Int
    BY <1>0, <2>1 DEF WaitLocal, DueIsParked, NotParked
  <2>3. HwmIsNext(p)' /\ RecheckIsParked(p)' /\ VerdictKept(p)'
    BY <1>0, <2>1, <2>2
    DEF WaitLocal, HwmIsNext, RecheckIsParked, VerdictKept, QueueLess, StreamStill, Marks
  <2>4. DueIsParked(p)'
    BY <1>0, <2>1 DEF WaitLocal, DueIsParked, QueueLess, StreamStill
  <2> QED BY <1>0, <2>1, <2>3, <2>4, WaitStays DEF StreamStill, WaitLocal
<1> QED BY <1>1, <1>2, <1>3, <1>4

LEMMA EvaluatingKeepsWait ==
    ASSUME TypeInv, SkipInv, WaitInv, NEW p \in Procs, NEW c \in Cands,
           Deciding(p, c) \/ Firing(p, c) \/ Securing(p, c) \/ Log(p, c)
    PROVE  WaitLocal(p)' /\ NoLostWait'
<1>0. WaitLocal(p) /\ NoLostWait
  BY DEF WaitInv
<1>1. /\ pc[p] \in Evaluating /\ KeepsWork(p) /\ cand[p] = c /\ InBatch(p) /\ InHand(p)
      /\ UNCHANGED <<stream, hwm, status, parked>>
  BY DecidingEffect, MiddleEffect, LogEffect
  DEF Evaluating, Middle, StreamStill, Holds, InBatch, InHand, Early
<1>2. IsParked(c) \/ \A i \in 1..hwm : stream[i] # c
  BY <1>1, RecheckParked, FreshNotBehind
<1>3. CASE Log(p, c)
  <2>1. /\ pc'[p] = "file" /\ ctx'[p].verdict = ctx[p].verdict
        /\ outcome' = [outcome EXCEPT ![c] = ctx[p].verdict] /\ keys' = keys
    BY <1>3, LogEffect
  <2>2. outcome \in [Cands -> Verdicts \cup {"none"}] /\ pc'[p] \in Evaluating
    BY <2>1, Functions DEF Evaluating
  <2>3. HwmIsNext(p)' /\ DueIsParked(p)' /\ RecheckIsParked(p)'
    BY <1>0, <1>1, <2>2
    DEF WaitLocal, HwmIsNext, DueIsParked, RecheckIsParked, KeepsWork
  <2>4. VerdictKept(p)'
    BY <1>1, <2>1, <2>2 DEF VerdictKept, KeepsWork, Marks
  <2>5. NoLostWait'
    BY <1>0, <1>1, <1>2, <2>1 DEF NoLostWait, IsParked
  <2> QED BY <2>3, <2>4, <2>5 DEF WaitLocal
<1>4. CASE Deciding(p, c) \/ Firing(p, c) \/ Securing(p, c)
  <2>1. pc'[p] \in Evaluating \ {"file"} /\ outcome' = outcome
    BY <1>4, DecidingEffect, MiddleEffect DEF Evaluating, Middle, StreamStill
  <2>2. keys \subseteq keys' \/ keys' = keys \ {c}
    BY <1>4
    DEF Deciding, Refuse, Wait, Approve, Firing, Claim, Duplicate, SubmitFilled,
        SubmitRefused, SubmitUnfilled, SubmitRaises, Lookup, CancelResting, Release,
        RecordFire, ReleaseFire, Securing, OpenRow, Protect, ProtectFails, EmergencyClose,
        Abort, OpenTrade, ResolveTrade, storeVars
  <2>3. CASE keys \subseteq keys'
    BY <1>0, <1>1, <2>1, <2>3, WaitWithin, WaitStays
  <2>4. CASE keys' = keys \ {c}
    <3>1. NoLostWait'
      BY <1>0, <1>1, <1>2, <2>1, <2>4 DEF NoLostWait, IsParked
    <3> QED BY <1>1, <2>1, <3>1, WaitWithin
  <2> QED BY <2>2, <2>3, <2>4
<1> QED BY <1>3, <1>4

LEMMA FilingKeepsWait ==
    ASSUME TypeInv, SkipInv, WaitInv, NEW p \in Procs, NEW c \in Cands,
           Park(p, c) \/ Settle(p, c)
    PROVE  WaitLocal(p)' /\ NoLostWait'
<1>0. /\ WaitLocal(p) /\ NoLostWait /\ ctx[p] \in Context /\ ctx[p].due \subseteq Cands
      /\ parked \in [Cands -> {NotParked} \cup 1..FollowupMax]
      /\ ctx[p].attempts \in Nat
      /\ pc[p] = "file" /\ cand[p] = c /\ FiledHand(p) /\ InBatch(p) /\ InHand(p)
      /\ UNCHANGED <<stream, hwm, status, outcome, keys>>
  BY Functions, ParkEffect, SettleEffect
  DEF WaitInv, Context, Holds, InBatch, InHand, Early, Evaluating
<1>1. \A d \in Cands \ {c} : parked'[d] = parked[d]
  BY <1>0, ParkEffect, SettleEffect
<1>2. ctx[p].verdict = "deferred" => IsParked(c)'
  <2>1. ctx[p].verdict = "deferred" => parked'[c] = ctx[p].attempts
    BY <1>0, ParkEffect, SettleEffect
  <2>2. ctx[p].verdict = "deferred" => ctx[p].attempts >= 1
    BY <1>0, Locals DEF TypeInv, LocalOK, WaitHasAttempt
  <2> QED BY <1>0, <2>1, <2>2 DEF IsParked, NotParked
<1>3. outcome[c] = ctx[p].verdict
  BY <1>0 DEF WaitLocal, VerdictKept
<1>6. \A i \in 1..hwm : stream[i] \in Cands
  BY Functions DEF SkipInv, HwmInStream
<1>4. CASE ctx[p].fresh
  <2>1. pc'[p] = "status" /\ KeepsWork(p) /\ ctx'[p].verdict = ctx[p].verdict
    BY <1>0, <1>4 DEF FiledHand
  <2>2. HwmIsNext(p)' /\ RecheckIsParked(p)'
    BY <1>0, <2>1
    DEF WaitLocal, HwmIsNext, RecheckIsParked, KeepsWork, Evaluating, Middle
  <2>3. DueIsParked(p)'
    BY <1>0, <1>4, <2>1 DEF WaitLocal, DueIsParked, KeepsWork
  <2>4. VerdictKept(p)'
    BY <1>0, <1>2, <2>1 DEF VerdictKept, KeepsWork
  <2>5. NoLostWait'
    <3>1. \A i \in 1..hwm : stream[i] # c
      BY <1>0, <1>4, FreshNotBehind
    <3> QED BY <1>0, <1>1, <1>6, <3>1 DEF NoLostWait, IsParked
  <2> QED BY <2>2, <2>3, <2>4, <2>5 DEF WaitLocal
<1>5. CASE ~ctx[p].fresh
  <2>1. /\ pc'[p] = "next" /\ ~ctx'[p].fresh /\ ctx'[p].due = ctx[p].due
        /\ ctx'[p].left = ctx[p].left /\ ctx'[p].next = ctx[p].next
    BY <1>0, <1>5 DEF FiledHand
  <2>2. \A d \in ctx'[p].due : parked'[d] = ctx'[p].left[d]
    BY <1>0, <1>1, <2>1 DEF WaitLocal, DueIsParked
  <2>3. hwm' = ctx'[p].next - 1
    BY <1>0, <2>1 DEF WaitLocal, HwmIsNext
  <2>4. NoLostWait'
    BY <1>0, <1>1, <1>2, <1>3, <1>6 DEF NoLostWait, IsParked
  <2> QED BY <2>1, <2>2, <2>3, <2>4, WaitToNext
<1> QED BY <1>4, <1>5

LEMMA MarkingKeepsWait ==
    ASSUME TypeInv, SkipInv, WaitInv, NEW p \in Procs,
           \/ ReadHwm(p) \/ HwmAhead(p) \/ AdvanceHwm(p)
           \/ \E c \in Cands : MarkStatus(p, c)
    PROVE  WaitLocal(p)' /\ NoLostWait'
<1>0. /\ WaitLocal(p) /\ NoLostWait /\ SkipLocal(p) /\ ctx[p] \in Context
      /\ ctx[p].next \in Nat /\ hwm \in Nat
      /\ status \in [Cands -> Verdicts \cup {"pending"}]
  BY Functions DEF WaitInv, SkipInv, Context
<1>1. ASSUME pc[p] \in Marks
      PROVE  /\ ctx[p].fresh /\ InBatch(p) /\ InHand(p) /\ ctx[p].due = {}
             /\ hwm = ctx[p].next - 1 /\ cand[p] = stream[ctx[p].next]
             /\ \A i \in 1..hwm : stream[i] # cand[p]
  BY <1>0, <1>1, FreshNotBehind
  DEF SkipLocal, FreshInHand, InBatch, InHand, Marks, Early, WaitLocal, DueIsParked
<1>2. CASE ReadHwm(p)
  <2>1. /\ pc[p] = "hwm" /\ pc'[p] = "mark" /\ KeepsWork(p)
        /\ ctx'[p].verdict = ctx[p].verdict /\ StreamStill /\ keys' = keys
    BY <1>2, ReadHwmEffect
  <2>2. WaitLocal(p)'
    BY <1>0, <1>1, <2>1
    DEF WaitLocal, HwmIsNext, DueIsParked, RecheckIsParked, VerdictKept, IsParked,
        KeepsWork, StreamStill, Marks, Evaluating, Middle
  <2> QED BY <1>0, <2>1, <2>2, WaitStays DEF StreamStill
<1>3. CASE HwmAhead(p)
  <2>1. pc[p] = "hwm" /\ hwm >= ctx[p].next
    BY <1>3, HwmAheadEffect
  <2> QED BY <1>0, <1>1, <2>1 DEF Marks
<1>4. CASE AdvanceHwm(p)
  <2>1. /\ pc[p] = "mark" /\ hwm' = ctx[p].next /\ NextOfBatch(p)
        /\ UNCHANGED <<stream, status, parked, outcome, keys>>
    BY <1>4, AdvanceHwmEffect
  <2>2. /\ pc[p] \in Marks /\ pc'[p] = "next" /\ ~ctx'[p].fresh /\ ctx'[p].due = ctx[p].due
        /\ ctx'[p].next = ctx[p].next + 1
    BY <2>1 DEF NextOfBatch, Marks
  <2>3. hwm' = ctx'[p].next - 1 /\ ctx'[p].due = {}
    BY <1>0, <1>1, <2>1, <2>2
  <2>4. WaitLocal(p)'
    BY <2>2, <2>3, WaitToNext
  <2>5. status[stream[ctx[p].next]] = "deferred" => IsParked(stream[ctx[p].next])
    BY <1>0, <1>1, <2>1, <2>2 DEF WaitLocal, VerdictKept
  <2>6. \A i \in 1..ctx[p].next : i \in 1..hwm \/ i = ctx[p].next
    BY <1>0, <1>1, <2>2
  <2>7. NoLostWait'
    BY <1>0, <2>1, <2>5, <2>6 DEF NoLostWait, IsParked
  <2> QED BY <2>4, <2>7
<1>5. ASSUME NEW c \in Cands, MarkStatus(p, c)
      PROVE  WaitLocal(p)' /\ NoLostWait'
  <2>1. /\ pc[p] = "status" /\ pc'[p] = "hwm" /\ cand[p] = c /\ KeepsWork(p)
        /\ ctx'[p].verdict = ctx[p].verdict
        /\ status' = [status EXCEPT ![c] = ctx[p].verdict]
        /\ UNCHANGED <<stream, hwm, parked, outcome, keys>>
    BY <1>5, MarkStatusEffect DEF Holds
  <2>2. WaitLocal(p)'
    BY <1>0, <1>1, <2>1
    DEF WaitLocal, HwmIsNext, DueIsParked, RecheckIsParked, VerdictKept, IsParked,
        KeepsWork, Marks, Evaluating, Middle
  <2>3. NoLostWait'
    BY <1>0, <1>1, <2>1 DEF NoLostWait, IsParked, Marks
  <2> QED BY <2>2, <2>3
<1> QED BY <1>2, <1>3, <1>4, <1>5

LEMMA WaitInvInit == Init => WaitInv
<1> SUFFICES ASSUME Init PROVE WaitInv
  OBVIOUS
<1>1. StreamDistinct /\ NoLostWait
  BY DEF Init, StoreInit, StreamDistinct, NoLostWait
<1>2. \A p \in Procs : pc[p] \in Early /\ ctx[p] = NoContext
  BY DEF Init, Early
<1>3. \A p \in Procs : WaitLocal(p)
  BY <1>2 DEF WaitLocal, HwmIsNext, DueIsParked, RecheckIsParked, VerdictKept, InBatch,
              NoContext, Early, Evaluating, Middle, Marks
<1> QED BY <1>1, <1>3 DEF WaitInv

LEMMA EnvironmentKeepsWait ==
    ASSUME TypeInv, SkipInv, WaitInv, Environment \/ UNCHANGED vars
    PROVE  WaitInv'
<1>0. stream \in Seq(Cands) /\ Len(stream) \in Nat /\ hwm \in Nat /\ hwm <= Len(stream)
  BY DEF TypeInv, StoreTypeOK, SkipInv, HwmInStream
<1>1. /\ UNCHANGED <<pc, cand, ctx, hwm, status, parked, outcome, keys>>
      /\ \/ stream' = stream
         \/ \E c \in Cands : c \notin ToSet(stream) /\ stream' = Append(stream, c)
  BY EnvironmentEffect DEF vars, storeVars, passVars
<1>2. \A p \in Procs : WaitLocal(p)'
  BY <1>1 DEF WaitInv, WaitLocal, HwmIsNext, DueIsParked, RecheckIsParked, VerdictKept,
              InBatch, InHand, IsParked
<1>3. CASE stream' = stream
  BY <1>1, <1>2, <1>3 DEF WaitInv, StreamDistinct, NoLostWait, IsParked
<1>4. ASSUME NEW c \in Cands, c \notin ToSet(stream), stream' = Append(stream, c)
      PROVE  WaitInv'
  <2>1. \A i \in 1..Len(stream) : stream'[i] = stream[i] /\ stream[i] # c
    BY <1>0, <1>4 DEF ToSet
  <2>2. stream'[Len(stream) + 1] = c /\ Len(stream') = Len(stream) + 1
    BY <1>0, <1>4
  <2>3. StreamDistinct'
    BY <1>0, <2>1, <2>2 DEF WaitInv, StreamDistinct
  <2>4. NoLostWait'
    BY <1>0, <1>1, <2>1 DEF WaitInv, NoLostWait, IsParked
  <2> QED BY <1>2, <2>3, <2>4 DEF WaitInv
<1> QED BY <1>1, <1>3, <1>4

LEMMA WaitInvNext ==
    ASSUME Alone, TypeInv, SkipInv, WaitInv, [Next]_vars
    PROVE  WaitInv'
<1>1. ASSUME NEW p \in Procs, PassStep(p) \/ Failing(p)
      PROVE  WaitInv'
  <2>1. WaitLocal(p)' /\ NoLostWait'
    BY <1>1, StepsOfAPass, EarlyKeepsWait, QueueingKeepsWait, EvaluatingKeepsWait,
       FilingKeepsWait, MarkingKeepsWait
  <2>2. stream' = stream
    BY <1>1, StepKeepsSkipLocal
  <2> QED BY <2>1, <2>2 DEF Alone, WaitInv, StreamDistinct
<1> QED BY <1>1, EnvironmentKeepsWait DEF Next

LEMMA WaitInvAlways ==
    ASSUME Alone
    PROVE  Spec => [](TypeInv /\ SkipInv /\ WaitInv)
<1>1. Init => TypeInv /\ SkipInv /\ WaitInv
  BY TypeInvInit, SkipInvInit, WaitInvInit
<1>2. TypeInv /\ SkipInv /\ WaitInv /\ [Next]_vars => (TypeInv /\ SkipInv /\ WaitInv)'
  BY TypeInvNext, SkipInvNext, WaitInvNext
<1> QED BY <1>1, <1>2, PTL DEF Spec

(* A candidate filed as deferred and behind the mark is still parked, or   *)
(* has had a terminal verdict or a claim since: no crash of the executor   *)
(* loses a WAIT (runner.py _wait, _process_deferred, run_once).            *)
THEOREM WaitsAreKept ==
    ASSUME Alone
    PROVE  Spec => []NoLostWait
<1>1. WaitInv => NoLostWait
  BY DEF WaitInv
<1> QED BY <1>1, WaitInvAlways, PTL

-----------------------------------------------------------------------------
(* Looks are bounded, for a single executor.                                *)
(*                                                                          *)
(* A candidate behind the mark has 1 + FollowupMax looks, and what is left  *)
(* of them is what its deferral says.  One ahead of the mark is looked at   *)
(* again only after a fault, and each fault buys two looks: the re-check of *)
(* what was parked before the cut, and the batch once more.                 *)

Behind(c) == \E i \in 1..hwm : stream[i] = c
Left(c) == IF IsParked(c) THEN parked[c] ELSE 0

\* The decision has been asked for; the attempts left are with the pass.
LookSpent(p, c) == Holds(p, c) /\ InHand(p) /\ pc[p] # "decide"
\* A re-check is still to come in this pass, or in the next.
LookAhead(p, c) ==
    \/ pc[p] \in Early /\ IsParked(c)
    \/ c \in ctx[p].due
    \/ Holds(p, c) /\ pc[p] = "decide" /\ ~ctx[p].fresh

Budget(p, c) ==
    /\ Behind(c) =>
         looks[c] + (IF LookSpent(p, c) THEN ctx[p].attempts ELSE Left(c))
            <= 1 + FollowupMax + 2 * faults
    /\ ~Behind(c) => looks[c] <= 2 * faults + 1
    /\ ~Behind(c) /\ ~(LookSpent(p, c) /\ ctx[p].fresh) => looks[c] <= 2 * faults
    /\ ~Behind(c) /\ LookAhead(p, c) => looks[c] <= 2 * faults - 1

\* Only a process that pulls the stream has a batch.
Reach(p) == ctx[p].next <= ctx[p].last => p \in IntakeProcs /\ BatchLimit > 0
\* What is parked ahead of the mark is the next candidate, and this pass will
\* come to it.
Ahead(p) ==
    \A c \in Cands : IsParked(c) /\ ~Behind(c) =>
        /\ hwm < Len(stream) /\ c = stream[hwm + 1]
        /\ p \in IntakeProcs /\ BatchLimit > 0
        /\ InBatch(p) => ctx[p].next <= ctx[p].last

LookLocal(p) == Reach(p) /\ Ahead(p) /\ \A c \in Cands : Budget(p, c)
LookInv == \A p \in Procs : LookLocal(p)

(* What the steps below start from. *)
LEMMA LookFacts ==
    ASSUME TypeInv, SkipInv, WaitInv, LookInv, NEW p \in Procs
    PROVE  /\ LookLocal(p) /\ WaitLocal(p) /\ SkipLocal(p)
           /\ ctx[p].next \in Nat \ {0} /\ ctx[p].last \in Nat /\ ctx[p].attempts \in Nat
           /\ ctx[p].attempts <= FollowupMax /\ ctx[p].due \subseteq Cands
           /\ ctx[p].next <= ctx[p].last => ctx[p].last <= Len(stream)
           /\ hwm \in Nat /\ Len(stream) \in Nat /\ hwm <= Len(stream)
           /\ \A i \in 1..Len(stream) : stream[i] \in Cands
           /\ faults \in Nat /\ FollowupMax \in Nat /\ looks \in [Cands -> Nat]
           /\ parked \in [Cands -> {NotParked} \cup 1..FollowupMax]
           /\ \A c \in Cands : Left(c) \in 0..FollowupMax
<1>1. parked \in [Cands -> {NotParked} \cup 1..FollowupMax] /\ FollowupMax \in Nat
  BY Functions
<1>2. \A c \in Cands : Left(c) \in 0..FollowupMax
  BY <1>1 DEF Left, IsParked
<1>3. /\ ctx[p] \in Context /\ LocalOK(pc[p], ctx[p])
  BY Locals DEF TypeInv
<1>4. /\ ctx[p].next \in Nat \ {0} /\ ctx[p].last \in Nat /\ ctx[p].attempts \in Nat
      /\ ctx[p].attempts <= FollowupMax /\ ctx[p].due \subseteq Cands
      /\ ctx[p].next <= ctx[p].last => ctx[p].last <= Len(stream)
  BY <1>1, <1>3 DEF Context, LocalOK, BatchInStream
<1> QED BY <1>1, <1>2, <1>4, Functions DEF SkipInv, WaitInv, LookInv, HwmInStream

\* Only the candidate in hand, fresh from the batch, is newly parked.
ParksAtMostTheHand(p) ==
    \A c \in Cands :
        /\ c # cand[p] => parked'[c] = parked[c]
        /\ IsParked(c)' => IsParked(c) \/ (ctx[p].fresh /\ c = cand[p])

\* From one stage of an evaluation to another, after the look.
StaysInHand(p) ==
    /\ InHand(p) /\ pc[p] # "decide"
    /\ pc'[p] \in Evaluating \cup Marks /\ pc'[p] # "decide"
    /\ KeepsWork(p) /\ UNCHANGED <<stream, hwm, looks, faults>>
    /\ ParksAtMostTheHand(p)

LEMMA LookWithin ==
    ASSUME TypeInv, SkipInv, WaitInv, LookInv, NEW p \in Procs, StaysInHand(p)
    PROVE  LookLocal(p)'
<1>0. /\ LookLocal(p) /\ pc[p] \notin Early /\ pc'[p] \notin Early /\ InBatch(p)
      /\ InHand(p) /\ InHand(p)' /\ InBatch(p)' /\ pc[p] # "decide" /\ pc'[p] # "decide"
      /\ KeepsWork(p) /\ UNCHANGED <<stream, hwm, looks, faults>>
      /\ \A c \in Cands : c # cand[p] => parked'[c] = parked[c]
      /\ \A c \in Cands : IsParked(c)' => IsParked(c) \/ (ctx[p].fresh /\ c = cand[p])
  BY LookFacts
  DEF StaysInHand, ParksAtMostTheHand, InHand, InBatch, Early, Evaluating, Middle, Marks
<1>1. Reach(p)'
  BY <1>0 DEF LookLocal, Reach, KeepsWork
<1>2. Ahead(p)'
  <2>1. SUFFICES ASSUME NEW c \in Cands, IsParked(c)', ~Behind(c)
                 PROVE  /\ hwm < Len(stream) /\ c = stream[hwm + 1]
                        /\ p \in IntakeProcs /\ BatchLimit > 0
                        /\ ctx[p].next <= ctx[p].last
    BY <1>0 DEF Ahead, Behind, KeepsWork
  <2>2. CASE IsParked(c)
    BY <1>0, <2>1, <2>2 DEF LookLocal, Ahead
  <2>3. CASE ctx[p].fresh /\ c = cand[p]
    <3>1. hwm = ctx[p].next - 1 /\ ctx[p].next \in 1..Len(stream) /\ c = stream[ctx[p].next]
      BY <1>0, <2>3, FreshNotBehind
    <3>2. ctx[p].next <= ctx[p].last
      BY <2>3, LookFacts DEF SkipLocal, FreshInHand
    <3> QED BY <1>0, <3>1, <3>2, LookFacts DEF LookLocal, Reach
  <2> QED BY <1>0, <2>1, <2>2, <2>3
<1>3. ASSUME NEW c \in Cands
      PROVE  Budget(p, c)'
  <2>1. Budget(p, c) /\ (Behind(c)' <=> Behind(c)) /\ (LookSpent(p, c)' <=> LookSpent(p, c))
    BY <1>0 DEF LookLocal, Behind, LookSpent, Holds, KeepsWork
  <2>2. LookAhead(p, c)' => LookAhead(p, c)
    BY <1>0 DEF LookAhead, KeepsWork
  <2>3. ~LookSpent(p, c) => Left(c)' = Left(c)
    BY <1>0 DEF LookSpent, Holds, Left, IsParked
  <2> QED BY <1>0, <2>1, <2>2, <2>3 DEF Budget, KeepsWork
<1> QED BY <1>1, <1>2, <1>3 DEF LookLocal

LEMMA EarlyKeepsLook ==
    ASSUME TypeInv, SkipInv, WaitInv, LookInv, NEW p \in Procs, Resolving(p) \/ ReadBook(p)
    PROVE  LookLocal(p)'
<1>0. /\ LookLocal(p) /\ pc[p] \in Early /\ pc'[p] \in Early /\ Blank(ctx[p]) /\ Blank(ctx'[p])
      /\ StreamStill /\ looks' = looks
  BY EarlyEffect, LookFacts DEF SkipLocal, EarlyBlank
<1>1. Reach(p)' /\ Ahead(p)'
  BY <1>0 DEF LookLocal, Reach, Ahead, Blank, Behind, IsParked, InBatch, StreamStill
<1>2. ~InHand(p) /\ ~InHand(p)' /\ pc[p] # "decide" /\ pc'[p] # "decide"
  BY <1>0 DEF InHand, Early, Evaluating, Middle, Marks
<1>3. ASSUME NEW c \in Cands
      PROVE  Budget(p, c)'
  BY <1>0, <1>2
  DEF LookLocal, Budget, Behind, LookSpent, LookAhead, Left, IsParked, Blank, StreamStill
<1> QED BY <1>1, <1>3 DEF LookLocal

LEMMA LeaveKeepsLook ==
    ASSUME TypeInv, SkipInv, WaitInv, LookInv, NEW p \in Procs, EndPass(p) \/ Failing(p)
    PROVE  LookLocal(p)'
<1>0. /\ LookLocal(p) /\ pc'[p] \in Early /\ Blank(ctx'[p])
      /\ UNCHANGED <<stream, hwm, parked>> /\ pc'[p] = "idle"
  BY LookFacts, LeaveEffect, FailingEffect DEF EndPass, storeVars, Early
<1>1. Reach(p)' /\ Ahead(p)'
  BY <1>0 DEF LookLocal, Reach, Ahead, Blank, Behind, IsParked, InBatch
<1>2. ~InHand(p)' /\ pc'[p] # "decide"
  BY <1>0 DEF InHand, Evaluating, Middle, Marks
<1>3. ASSUME NEW c \in Cands
      PROVE  Budget(p, c)'
  <2>0. /\ Budget(p, c) /\ (Behind(c)' <=> Behind(c)) /\ ~LookSpent(p, c)'
        /\ Left(c)' = Left(c) /\ (LookAhead(p, c)' <=> IsParked(c))
        /\ looks[c] \in Nat /\ faults \in Nat /\ FollowupMax \in Nat
        /\ Left(c) \in 0..FollowupMax /\ ctx[p].attempts \in Nat
    BY <1>0, <1>2, LookFacts
    DEF LookLocal, Behind, LookSpent, LookAhead, Left, IsParked, Blank
  <2>1. CASE EndPass(p)
    <3>1. /\ pc[p] = "next" /\ ctx[p].next > ctx[p].last /\ looks' = looks /\ faults' = faults
      BY <2>1 DEF EndPass, At, KeepEnv
    <3>2. ~LookSpent(p, c) /\ InBatch(p)
      BY <3>1 DEF LookSpent, InHand, InBatch, Early, Evaluating, Middle, Marks
    <3>3. Behind(c) \/ ~IsParked(c)
      BY <1>0, <3>1, <3>2, LookFacts DEF LookLocal, Ahead
    <3> QED BY <2>0, <3>1, <3>2, <3>3 DEF Budget
  <2>2. CASE Failing(p)
    <3>1. /\ faults' = faults + 1 /\ looks'[c] \in Nat
          /\ \/ looks'[c] = looks[c]
             \/ pc[p] = "decide" /\ looks'[c] = looks[c] + 1
      BY <2>2, FailingEffect, LookFacts DEF Holds
    \* What a re-check has spent comes back with the deferral, once.
    <3>2. Behind(c) /\ LookSpent(p, c) => Left(c) <= ctx[p].attempts + 1
      <4>1. SUFFICES ASSUME Behind(c), LookSpent(p, c)
                     PROVE  Left(c) <= ctx[p].attempts + 1
        OBVIOUS
      <4>2. InBatch(p) /\ cand[p] = c /\ pc[p] \in Evaluating \cup Marks
        BY <4>1 DEF LookSpent, InHand, InBatch, Holds, Early, Evaluating, Middle, Marks
      <4>3. ~ctx[p].fresh
        BY <4>1, <4>2, FreshNotBehind DEF Behind
      <4>4. parked[c] = ctx[p].attempts + 1
        BY <4>2, <4>3, LookFacts DEF SkipLocal, FreshInHand, WaitLocal, RecheckIsParked
      <4> QED BY <2>0, <4>4 DEF Left
    <3>3. pc[p] = "decide" => ~LookSpent(p, c)
      BY DEF LookSpent
    <3>4. Behind(c) => looks'[c] + Left(c) <= 1 + FollowupMax + 2 * (faults + 1)
      BY <2>0, <3>1, <3>2, <3>3 DEF Budget
    <3>5. ~Behind(c) => looks'[c] <= 2 * (faults + 1) - 1
      BY <2>0, <3>1, <3>3 DEF Budget
    <3> QED BY <2>0, <3>1, <3>4, <3>5 DEF Budget
  <2> QED BY <2>1, <2>2
<1> QED BY <1>1, <1>3 DEF LookLocal

LEMMA ReadQueuesKeepsLook ==
    ASSUME TypeInv, SkipInv, WaitInv, LookInv, NEW p \in Procs, ReadQueues(p)
    PROVE  LookLocal(p)'
<1>0. /\ LookLocal(p) /\ pc[p] = "queues" /\ pc'[p] = "next" /\ Blank(ctx[p])
      /\ ctx'[p].fresh = ctx[p].fresh /\ ctx'[p].due = DueFor(breaker)
      /\ ctx'[p].next = hwm + 1 /\ ctx'[p].last = BatchEnd(p)
      /\ StreamStill /\ looks' = looks /\ pc[p] \in Early
  BY LookFacts, ReadQueuesEffect DEF SkipLocal, EarlyBlank, Early
<1>1. BatchLimit \in Nat
  BY PassAssumption DEF PassAssumption
<1>2. Reach(p)'
  BY <1>0, <1>1, LookFacts DEF Reach, BatchEnd
<1>3. Ahead(p)'
  <2>1. p \in IntakeProcs /\ BatchLimit > 0 /\ hwm < Len(stream) => hwm + 1 <= BatchEnd(p)
    BY <1>1, LookFacts DEF BatchEnd
  <2> QED BY <1>0, <2>1 DEF LookLocal, Ahead, Behind, IsParked, StreamStill
<1>4. ASSUME NEW c \in Cands
      PROVE  Budget(p, c)'
  <2>1. /\ Budget(p, c) /\ (Behind(c)' <=> Behind(c)) /\ Left(c)' = Left(c)
        /\ ~LookSpent(p, c) /\ ~LookSpent(p, c)'
    BY <1>0
    DEF LookLocal, Behind, Left, IsParked, LookSpent, InHand, StreamStill, Evaluating,
        Middle, Marks
  <2>2. LookAhead(p, c)' => LookAhead(p, c)
    BY <1>0 DEF LookAhead, DueFor, DueDeferred, Early
  <2> QED BY <1>0, <2>1, <2>2 DEF Budget, StreamStill
<1> QED BY <1>2, <1>3, <1>4 DEF LookLocal

LEMMA TakeNewKeepsLook ==
    ASSUME TypeInv, SkipInv, WaitInv, LookInv, NEW p \in Procs, TakeNew(p)
    PROVE  LookLocal(p)'
<1>0. /\ LookLocal(p) /\ pc[p] = "next" /\ pc'[p] = "decide" /\ ctx'[p].due = {}
      /\ ctx'[p].fresh /\ ctx'[p].next = ctx[p].next /\ ctx'[p].last = ctx[p].last
      /\ StreamStill /\ looks' = looks
  BY LookFacts, TakeNewEffect
<1>1. Reach(p)' /\ Ahead(p)'
  BY <1>0 DEF LookLocal, Reach, Ahead, Behind, IsParked, InBatch, StreamStill, Early
<1>2. ASSUME NEW c \in Cands
      PROVE  Budget(p, c)'
  <2>1. /\ Budget(p, c) /\ (Behind(c)' <=> Behind(c)) /\ Left(c)' = Left(c)
        /\ ~LookSpent(p, c) /\ ~LookSpent(p, c)' /\ ~LookAhead(p, c)'
    BY <1>0
    DEF LookLocal, Behind, Left, IsParked, LookSpent, LookAhead, InHand, StreamStill,
        Early, Evaluating, Middle, Marks
  <2> QED BY <1>0, <2>1 DEF Budget, StreamStill
<1> QED BY <1>1, <1>2 DEF LookLocal

LEMMA SkipFiredKeepsLook ==
    ASSUME TypeInv, SkipInv, WaitInv, LookInv, NEW p \in Procs, NEW d \in Cands,
           SkipFired(p, d)
    PROVE  LookLocal(p)'
<1>0. /\ LookLocal(p) /\ pc[p] = "next" /\ pc'[p] = "next" /\ QueueLess(p, d)
      /\ ctx'[p].fresh = ctx[p].fresh
      /\ parked' = [parked EXCEPT ![d] = NotParked]
      /\ UNCHANGED <<stream, hwm, faults, looks>>
      /\ parked \in [Cands -> {NotParked} \cup 1..FollowupMax]
  BY LookFacts, SkipFiredEffect
<1>1. \A c \in Cands : IsParked(c)' => IsParked(c) /\ parked'[c] = parked[c]
  BY <1>0 DEF IsParked
<1>2. Reach(p)' /\ Ahead(p)'
  BY <1>0, <1>1 DEF LookLocal, Reach, Ahead, Behind, InBatch, QueueLess
<1>3. ASSUME NEW c \in Cands
      PROVE  Budget(p, c)'
  <2>1. /\ Budget(p, c) /\ (Behind(c)' <=> Behind(c))
        /\ ~LookSpent(p, c) /\ ~LookSpent(p, c)'
        /\ LookAhead(p, c)' => LookAhead(p, c)
    BY <1>0, <1>1
    DEF LookLocal, Behind, LookSpent, LookAhead, InHand, QueueLess,
        Early, Evaluating, Middle, Marks
  <2>2. /\ Left(c)' <= Left(c) /\ Left(c) \in Nat /\ Left(c)' \in Int
        /\ looks[c] \in Nat /\ faults \in Nat /\ FollowupMax \in Nat
    BY <1>0, <1>1, LookFacts DEF Left
  <2> QED BY <1>0, <2>1, <2>2 DEF Budget
<1> QED BY <1>2, <1>3 DEF LookLocal

LEMMA TakeDueKeepsLook ==
    ASSUME TypeInv, SkipInv, WaitInv, LookInv, NEW p \in Procs, NEW d \in Cands,
           TakeDue(p, d)
    PROVE  LookLocal(p)'
<1>0. /\ LookLocal(p) /\ pc[p] = "next" /\ pc'[p] = "decide" /\ cand'[p] = d
      /\ d \in ctx[p].due /\ QueueLess(p, d) /\ ctx'[p].fresh = ctx[p].fresh
      /\ StreamStill /\ looks' = looks
  BY LookFacts, TakeDueEffect
<1>1. Reach(p)' /\ Ahead(p)'
  BY <1>0 DEF LookLocal, Reach, Ahead, Behind, IsParked, InBatch, QueueLess, StreamStill, Early
<1>2. ASSUME NEW c \in Cands
      PROVE  Budget(p, c)'
  <2>1. /\ Budget(p, c) /\ (Behind(c)' <=> Behind(c)) /\ Left(c)' = Left(c)
        /\ ~LookSpent(p, c) /\ ~LookSpent(p, c)'
        /\ LookAhead(p, c)' => LookAhead(p, c)
    BY <1>0
    DEF LookLocal, Behind, Left, IsParked, LookSpent, LookAhead, Holds, InHand, QueueLess,
        StreamStill, Early, Evaluating, Middle, Marks
  <2> QED BY <1>0, <2>1 DEF Budget, StreamStill
<1> QED BY <1>1, <1>2 DEF LookLocal

(* The look itself. *)
LEMMA DecidingKeepsLook ==
    ASSUME TypeInv, SkipInv, WaitInv, LookInv, NEW p \in Procs, NEW d \in Cands,
           Deciding(p, d)
    PROVE  LookLocal(p)'
<1>0. /\ LookLocal(p) /\ WaitLocal(p) /\ pc[p] = "decide" /\ pc'[p] \in {"log", "claim"}
      /\ cand[p] = d /\ KeepsWork(p) /\ StreamStill
      /\ looks' = [looks EXCEPT ![d] = @ + 1] /\ looks \in [Cands -> Nat]
      /\ InHand(p) /\ InHand(p)' /\ InBatch(p) /\ pc'[p] \notin Early
  BY LookFacts, DecidingEffect
  DEF Holds, InHand, InBatch, Early, Evaluating, Middle, Marks
<1>1. Reach(p)' /\ Ahead(p)'
  BY <1>0 DEF LookLocal, Reach, Ahead, Behind, IsParked, InBatch, KeepsWork, StreamStill
<1>2. ASSUME NEW c \in Cands, c # d
      PROVE  Budget(p, c)'
  <2>1. /\ Budget(p, c) /\ (Behind(c)' <=> Behind(c)) /\ Left(c)' = Left(c)
        /\ ~LookSpent(p, c) /\ ~LookSpent(p, c)'
        /\ LookAhead(p, c)' => LookAhead(p, c)
        /\ looks'[c] = looks[c]
    BY <1>0, <1>2
    DEF LookLocal, Behind, Left, IsParked, LookSpent, LookAhead, Holds, KeepsWork, StreamStill
  <2> QED BY <1>0, <2>1 DEF Budget, StreamStill
<1>3. Budget(p, d)'
  <2>1. /\ Budget(p, d) /\ (Behind(d)' <=> Behind(d))
        /\ ~LookSpent(p, d) /\ LookSpent(p, d)' /\ ~LookAhead(p, d)'
        /\ looks'[d] = looks[d] + 1 /\ looks[d] \in Nat /\ faults' = faults /\ faults \in Nat
        /\ ctx'[p].attempts = ctx[p].attempts /\ ctx'[p].fresh = ctx[p].fresh
        /\ FollowupMax \in Nat /\ ctx[p].attempts \in Nat
    BY <1>0, LookFacts
    DEF LookLocal, Behind, LookSpent, LookAhead, Holds, KeepsWork, StreamStill,
        WaitLocal, DueIsParked
  <2>2. CASE ctx[p].fresh
    <3>1. ~Behind(d)
      BY <1>0, <2>2, FreshNotBehind DEF Behind
    <3> QED BY <2>1, <2>2, <3>1 DEF Budget
  <2>3. CASE ~ctx[p].fresh
    <3>1. Left(d) = ctx[p].attempts + 1 /\ LookAhead(p, d)
      BY <1>0, <2>1, <2>3
      DEF WaitLocal, RecheckIsParked, Left, IsParked, NotParked, LookAhead, Holds, Evaluating
    <3> QED BY <2>1, <2>3, <3>1 DEF Budget
  <2> QED BY <2>2, <2>3
<1> QED BY <1>1, <1>2, <1>3 DEF LookLocal

LEMMA EvaluatingKeepsLook ==
    ASSUME TypeInv, SkipInv, WaitInv, LookInv, NEW p \in Procs,
           \/ ReadHwm(p)
           \/ \E d \in Cands : Firing(p, d) \/ Securing(p, d) \/ Log(p, d) \/ MarkStatus(p, d)
    PROVE  LookLocal(p)'
<1>1. ASSUME pc[p] \in Evaluating \cup Marks, pc[p] # "decide",
             pc'[p] \in Evaluating \cup Marks, pc'[p] # "decide",
             KeepsWork(p), UNCHANGED <<stream, hwm, looks, faults, parked>>
      PROVE  LookLocal(p)'
  <2>1. InHand(p) /\ ParksAtMostTheHand(p)
    BY <1>1 DEF InHand, IsParked, ParksAtMostTheHand
  <2>2. StaysInHand(p)
    BY <1>1, <2>1 DEF StaysInHand
  <2> QED BY <2>2, LookWithin
<1>2. CASE ReadHwm(p)
  BY <1>1, <1>2, ReadHwmEffect DEF Marks, StreamStill
<1>3. ASSUME NEW d \in Cands, Firing(p, d) \/ Securing(p, d)
      PROVE  LookLocal(p)'
  BY <1>1, <1>3, MiddleEffect DEF Evaluating, Middle, StreamStill
<1>4. ASSUME NEW d \in Cands, Log(p, d)
      PROVE  LookLocal(p)'
  BY <1>1, <1>4, LogEffect DEF Evaluating, Middle
<1>5. ASSUME NEW d \in Cands, MarkStatus(p, d)
      PROVE  LookLocal(p)'
  BY <1>1, <1>5, MarkStatusEffect DEF Marks
<1> QED BY <1>2, <1>3, <1>4, <1>5

LEMMA FilingKeepsLook ==
    ASSUME TypeInv, SkipInv, WaitInv, LookInv, NEW p \in Procs, NEW d \in Cands,
           Park(p, d) \/ Settle(p, d)
    PROVE  LookLocal(p)'
<1>0. /\ LookLocal(p) /\ WaitLocal(p) /\ pc[p] = "file" /\ cand[p] = d /\ FiledHand(p)
      /\ UNCHANGED <<stream, hwm, looks, faults>>
      /\ InHand(p) /\ InBatch(p) /\ pc[p] # "decide"
      /\ parked \in [Cands -> {NotParked} \cup 1..FollowupMax]
      /\ ctx[p].attempts \in Nat /\ ctx[p].due \subseteq Cands
  BY LookFacts, ParkEffect, SettleEffect
  DEF Holds, InHand, InBatch, Early, Evaluating
<1>1. \A c \in Cands \ {d} : parked'[c] = parked[c]
  BY <1>0, ParkEffect, SettleEffect
<1>2. ~ctx[p].fresh => IsParked(d)
  BY <1>0, RecheckParked DEF Evaluating
<1>3. CASE ctx[p].fresh
  <2>1. pc'[p] = "status" /\ KeepsWork(p)
    BY <1>0, <1>3 DEF FiledHand
  <2>2. \A c \in Cands : c # cand[p] => parked'[c] = parked[c]
    BY <1>0, <1>1
  <2>3. \A c \in Cands : IsParked(c)' => IsParked(c) \/ (ctx[p].fresh /\ c = cand[p])
    BY <1>0, <1>1, <1>3 DEF IsParked
  <2>4. StaysInHand(p)
    BY <1>0, <2>1, <2>2, <2>3 DEF StaysInHand, ParksAtMostTheHand, Marks
  <2> QED BY <2>4, LookWithin
<1>4. CASE ~ctx[p].fresh
  <2>1. /\ pc'[p] = "next" /\ ~ctx'[p].fresh /\ ctx'[p].due = ctx[p].due
        /\ ctx'[p].next = ctx[p].next /\ ctx'[p].last = ctx[p].last
    BY <1>0, <1>4 DEF FiledHand
  <2>2. \A c \in Cands : IsParked(c)' => IsParked(c)
    BY <1>1, <1>2, <1>4 DEF IsParked
  <2>3. Reach(p)' /\ Ahead(p)'
    BY <1>0, <2>1, <2>2 DEF LookLocal, Reach, Ahead, Behind, InBatch
  <2>4. ~InHand(p)' /\ pc'[p] \notin Early /\ pc'[p] # "decide"
    BY <2>1 DEF InHand, Early, Evaluating, Middle, Marks
  <2>5. ASSUME NEW c \in Cands
        PROVE  Budget(p, c)'
    <3>1. /\ Budget(p, c) /\ (Behind(c)' <=> Behind(c)) /\ ~LookSpent(p, c)'
          /\ LookAhead(p, c)' => LookAhead(p, c)
      BY <1>0, <2>1, <2>4 DEF LookLocal, Behind, LookSpent, LookAhead
    <3>2. CASE c # d
      <4>1. ~LookSpent(p, c) /\ Left(c)' = Left(c)
        BY <1>0, <1>1, <3>2 DEF LookSpent, Holds, Left, IsParked
      <4>2. looks'[c] = looks[c] /\ faults' = faults
        BY <1>0
      <4> QED BY <3>1, <4>1, <4>2 DEF Budget
    <3>3. CASE c = d
      <4>1. LookSpent(p, d) /\ ~(LookSpent(p, d) /\ ctx[p].fresh)
        BY <1>0, <1>4 DEF LookSpent, Holds
      <4>2. parked'[d] \in {ctx[p].attempts, NotParked}
        BY <1>0, <1>4, ParkEffect, SettleEffect
      <4>3. Left(d)' <= ctx[p].attempts /\ Left(d)' \in Int
        BY <1>0, <4>2 DEF Left, IsParked, NotParked
      <4>4. looks[d] \in Nat /\ faults \in Nat /\ FollowupMax \in Nat
        BY LookFacts
      <4> QED BY <1>0, <3>1, <3>3, <4>1, <4>3, <4>4 DEF Budget
    <3> QED BY <3>2, <3>3
  <2> QED BY <2>3, <2>5 DEF LookLocal
<1> QED BY <1>3, <1>4

(* The candidate joins those behind the mark, with a whole deferral left.   *)
LEMMA MarkingKeepsLook ==
    ASSUME TypeInv, SkipInv, WaitInv, LookInv, NEW p \in Procs, HwmAhead(p) \/ AdvanceHwm(p)
    PROVE  LookLocal(p)'
<1>0. /\ LookLocal(p) /\ pc[p] \in {"hwm", "mark"} /\ NextOfBatch(p)
      /\ UNCHANGED <<stream, parked, looks, faults>>
      /\ InBatch(p) /\ InHand(p) /\ ctx[p].fresh /\ pc[p] # "decide"
  BY LookFacts, HwmAheadEffect, AdvanceHwmEffect
  DEF InHand, InBatch, Early, Marks, SkipLocal, FreshInHand, StreamStill
<1>1. /\ hwm = ctx[p].next - 1 /\ ctx[p].next \in 1..Len(stream)
      /\ cand[p] = stream[ctx[p].next] /\ \A i \in 1..hwm : stream[i] # cand[p]
  BY <1>0, FreshNotBehind
<1>2. hwm' = hwm + 1 /\ hwm \in Nat /\ ctx[p].next = hwm + 1
  BY <1>1, HwmAheadEffect, AdvanceHwmEffect, LookFacts DEF StreamStill
<1>3. /\ pc'[p] = "next" /\ ~ctx'[p].fresh /\ ctx'[p].due = {}
      /\ ctx'[p].next = ctx[p].next + 1 /\ ctx'[p].last = ctx[p].last
  BY <1>0, LookFacts DEF NextOfBatch, WaitLocal, DueIsParked
<1>4. \A c \in Cands : Behind(c)' <=> Behind(c) \/ c = cand[p]
  <2>1. \A i \in 1..hwm' : i \in 1..hwm \/ i = ctx[p].next
    BY <1>2
  <2>2. \A i \in 1..hwm : i \in 1..hwm'
    BY <1>2
  <2>3. ctx[p].next \in 1..hwm'
    BY <1>2
  <2> QED BY <1>0, <1>1, <2>1, <2>2, <2>3 DEF Behind
<1>5. Reach(p)'
  BY <1>0, <1>3, LookFacts DEF LookLocal, Reach
<1>6. Ahead(p)'
  BY <1>0, <1>1, <1>2, <1>4 DEF LookLocal, Ahead, IsParked
<1>7. ~InHand(p)' /\ pc'[p] \notin Early /\ pc'[p] # "decide"
  BY <1>3 DEF InHand, Early, Evaluating, Middle, Marks
<1>8. ASSUME NEW c \in Cands
      PROVE  Budget(p, c)'
  <2>1. /\ Budget(p, c) /\ ~LookSpent(p, c)' /\ ~LookAhead(p, c)' /\ Left(c)' = Left(c)
        /\ Left(c) \in 0..FollowupMax
        /\ looks[c] \in Nat /\ faults \in Nat /\ FollowupMax \in Nat
    BY <1>0, <1>3, <1>7, LookFacts DEF LookLocal, LookSpent, LookAhead, Left, IsParked
  <2>2. CASE c = cand[p]
    <3>1. ~Behind(c) /\ Behind(c)'
      BY <1>1, <1>4, <2>2 DEF Behind
    <3>2. looks[c] <= 2 * faults + 1
      BY <2>1, <3>1 DEF Budget
    <3>3. looks'[c] = looks[c] /\ faults' = faults
      BY <1>0
    <3>4. looks[c] + Left(c) <= 1 + FollowupMax + 2 * faults
      BY <2>1, <3>2
    <3> QED BY <2>1, <3>1, <3>3, <3>4 DEF Budget
  <2>3. CASE c # cand[p]
    <3>1. ~LookSpent(p, c) /\ (Behind(c)' <=> Behind(c))
      BY <1>4, <2>3 DEF LookSpent, Holds
    <3> QED BY <1>0, <2>1, <3>1 DEF Budget
  <2> QED BY <2>2, <2>3
<1> QED BY <1>5, <1>6, <1>8 DEF LookLocal

LEMMA EnvironmentKeepsLook ==
    ASSUME TypeInv, SkipInv, WaitInv, LookInv, NEW p \in Procs, Environment \/ UNCHANGED vars
    PROVE  LookLocal(p)'
<1>0. /\ UNCHANGED <<pc, cand, ctx, hwm, parked, faults, looks>>
      /\ stream' = stream \/ \E c \in Cands : stream' = Append(stream, c)
  BY EnvironmentEffect DEF vars, storeVars, passVars
<1>1. LookLocal(p) /\ hwm \in Nat /\ hwm <= Len(stream)
  BY LookFacts
<1>2. StreamGrows
  BY <1>0, GrowsByOne
<1>3. \A c \in Cands : Behind(c)' <=> Behind(c)
  BY <1>0, <1>1, <1>2 DEF Behind, StreamGrows
<1>4. Ahead(p)'
  BY <1>0, <1>1, <1>2, <1>3 DEF LookLocal, Ahead, IsParked, InBatch, StreamGrows
<1>5. Reach(p)'
  BY <1>0, <1>1 DEF LookLocal, Reach
<1>6. \A c \in Cands : Budget(p, c)'
  BY <1>0, <1>1, <1>3
  DEF LookLocal, Budget, LookSpent, LookAhead, Left, IsParked, Holds, InHand
<1> QED BY <1>4, <1>5, <1>6 DEF LookLocal

LEMMA LookInvNext ==
    ASSUME Alone, TypeInv, SkipInv, WaitInv, LookInv, [Next]_vars
    PROVE  LookInv'
<1>1. ASSUME NEW p \in Procs, PassStep(p) \/ Failing(p)
      PROVE  LookInv'
  <2>1. LookLocal(p)'
    BY <1>1, StepsOfAPass, EarlyKeepsLook, LeaveKeepsLook, ReadQueuesKeepsLook,
       TakeNewKeepsLook, SkipFiredKeepsLook, TakeDueKeepsLook, DecidingKeepsLook,
       EvaluatingKeepsLook, FilingKeepsLook, MarkingKeepsLook
  <2> QED BY <2>1 DEF Alone, LookInv
<1> QED BY <1>1, EnvironmentKeepsLook DEF Next, LookInv

LEMMA LookInvInit == Init => LookInv
<1> SUFFICES ASSUME Init, NEW p \in Procs PROVE LookLocal(p)
  BY DEF LookInv
<1>0. /\ pc[p] = "idle" /\ cand[p] = NoCand /\ ctx[p] = NoContext /\ hwm = 0 /\ faults = 0
      /\ \A c \in Cands : ~IsParked(c) /\ looks[c] = 0
  BY DEF Init, StoreInit, IsParked
<1>1. FollowupMax \in Nat
  BY FollowupAssumption DEF FollowupAssumption
<1>2. Reach(p) /\ Ahead(p)
  BY <1>0 DEF Reach, Ahead, NoContext
<1>3. \A c \in Cands : ~LookSpent(p, c) /\ ~LookAhead(p, c) /\ Left(c) = 0
  BY <1>0 DEF LookSpent, LookAhead, Left, InHand, NoContext, Evaluating, Middle, Marks
<1>4. \A c \in Cands : Budget(p, c)
  BY <1>0, <1>1, <1>3 DEF Budget
<1> QED BY <1>2, <1>4 DEF LookLocal

(* A candidate is looked at once and re-checked FollowupMax times, and only *)
(* a fault makes a look be spent again: two at most for each (runner.py     *)
(* _wait, _process_deferred; store.py defer_candidate).                     *)
THEOREM LooksAreBounded ==
    ASSUME Alone, Procs # {}
    PROVE  Spec => []LooksBounded
<1>1. TypeInv /\ LookInv => LooksBounded
  <2>1. SUFFICES ASSUME TypeInv, LookInv, NEW c \in Cands
                 PROVE  looks[c] <= 1 + FollowupMax + 2 * faults
    BY DEF LooksBounded
  <2>2. PICK p \in Procs : TRUE
    OBVIOUS
  <2>3. /\ looks[c] \in Nat /\ faults \in Nat /\ FollowupMax \in Nat
        /\ parked \in [Cands -> {NotParked} \cup 1..FollowupMax]
        /\ ctx[p].attempts \in Nat
    BY <2>1, Functions DEF Context
  <2>4. Left(c) \in Nat
    BY <2>3 DEF Left, IsParked
  <2>5. Budget(p, c)
    BY <2>1 DEF LookInv, LookLocal
  <2> QED BY <2>3, <2>4, <2>5 DEF Budget
<1>2. Init => LookInv
  BY LookInvInit
<1>3. TypeInv /\ SkipInv /\ WaitInv /\ LookInv /\ [Next]_vars => LookInv'
  BY LookInvNext
<1> QED BY <1>1, <1>2, <1>3, WaitInvAlways, PTL DEF Spec

-----------------------------------------------------------------------------
(* The ceilings of the gate, for a single executor.                         *)
(*                                                                          *)
(* The gate judges against snapshots.  They stay true enough because what   *)
(* is live only grows by the entry in hand, and because the coin of that    *)
(* entry joins the snapshot before the next candidate is taken: unless the  *)
(* pass has given the position up, which is what the ceilings except.       *)

ClosingOut == {"own", "last", "sweep"}
Resolver == {"rows", "resolve", "book"} \cup ClosingOut
\* The entry may be on the book, and its coin is not in the snapshot yet.
SecuringStages == {"protect", "flatten", "abort"}
Unseen == {"lookup", "open"} \cup SecuringStages

RowsOpen(p) ==
    /\ pc[p] \in {"resolve", "book"} \cup ClosingOut => ctx[p].rows \subseteq OpenRows
    /\ pc[p] = "book" => cand[p] \notin ctx[p].rows
Traded == {CoinOf[c] : c \in Cands}
\* Nothing enters while the resolver runs.
CoinsRead(p) ==
    /\ ctx[p].coins \subseteq Traded
    /\ pc[p] \in Resolver => \A c \in Live : CoinOf[c] \in ctx[p].coins
\* The row of the candidate in hand.
RowInHand(p) ==
    /\ pc[p] \in {"lookup", "open"} => ledger[cand[p]] = "none"
    /\ pc[p] \in {"book"} \cup SecuringStages => ledger[cand[p]] = "open"
    /\ pc[p] \in ClosingOut => ledger[cand[p]] = "closed"
    /\ pc[p] = "sweep" => OpenRows \cap SameCoin(cand[p]) = {}
\* From the snapshot on, a live position is given up, seen, or in hand.
HeldSeen(p) ==
    pc[p] = "queues" \/ InBatch(p) =>
        \A c \in Live :
            \/ GivenUp(c)
            \/ CoinOf[c] \in ctx[p].coins
            \/ Holds(p, c) /\ pc[p] \in Unseen
RoomLeft(p) ==
    pc[p] \in {"claim", "submit"} =>
        Cardinality(ctx[p].coins) < MaxOpen /\ CoinOf[cand[p]] \notin ctx[p].coins
TradesSeen(p) ==
    pc[p] = "queues" \/ InBatch(p) => Cardinality(TradesToday) <= ctx[p].trades
BudgetLeft(p) ==
    MaxTrades > 0 /\ pc[p] \in {"claim", "submit", "lookup", "open"} =>
        ctx[p].trades < MaxTrades

BookLocal(p) ==
    /\ RowsOpen(p) /\ CoinsRead(p) /\ RowInHand(p) /\ HeldSeen(p)
    /\ RoomLeft(p) /\ TradesSeen(p) /\ BudgetLeft(p)

SliceEntered == \A c \in Live : entered[c] > 0
Ceilings == SliceEntered /\ OpenCapHolds /\ OnePerCoinHolds /\ DailyBudgetHolds
BookInv == Ceilings /\ TrackedIsCovered /\ \A p \in Procs : BookLocal(p)

\* No position appears, and a row only goes from open to how it ended.
NothingOpens ==
    /\ \A c \in Cands : slice'[c] # "flat" => slice[c] # "flat"
    /\ \A c \in Cands :
         ledger'[c] # ledger[c] => ledger[c] = "open" /\ ledger'[c] \notin {"none", "open"}
    /\ entered' = entered

LEMMA BookTypes ==
    ASSUME TypeInv, NEW p \in Procs
    PROVE  /\ slice \in [Cands -> {"flat", "naked", "covered"}]
           /\ ledger \in [Cands -> RowStatus] /\ entered \in [Cands -> Nat]
           /\ ctx[p].coins \subseteq Coins /\ ctx[p].trades \in Nat
           /\ ctx[p].rows \subseteq Cands /\ MaxOpen \in Nat /\ MaxTrades \in Nat
           /\ CoinOf \in [Cands -> Coins]
<1>1. ctx[p] \in Context
  BY Functions
<1>2. MaxOpen \in Nat /\ MaxTrades \in Nat
  BY PassAssumption DEF PassAssumption
<1> QED
  BY <1>1, <1>2, CandidatesAssumption
  DEF TypeInv, StoreTypeOK, BookTypeOK, Context, CandidatesAssumption

LEMMA FiniteSides ==
    /\ IsFiniteSet(TradesToday) /\ Cardinality(TradesToday) \in Nat
    /\ IsFiniteSet(HeldCoins) /\ Cardinality(HeldCoins) \in Nat
    /\ IsFiniteSet(Traded)
    /\ IsFiniteSet(NakedRows) /\ Cardinality(NakedRows) \in Nat
<1>1. IsFiniteSet(Cands)
  BY CandidatesAssumption DEF CandidatesAssumption
<1>2. IsFiniteSet(TradesToday) /\ IsFiniteSet(NakedRows)
  BY <1>1, FS_Subset DEF TradesToday, NakedRows
<1>3. IsFiniteSet({d \in Live : ~GivenUp(d)})
  BY <1>1, FS_Subset DEF Live
<1>4. IsFiniteSet(HeldCoins)
  <2> DEFINE S == {d \in Live : ~GivenUp(d)}
             f == [d \in S |-> CoinOf[d]]
  <2>1. f \in Surjection(S, HeldCoins)
    BY DEF Surjection, HeldCoins
  <2> QED BY <1>3, <2>1, FS_Surjection
<1>5. IsFiniteSet(Traded)
  <2> DEFINE f == [c \in Cands |-> CoinOf[c]]
  <2>1. f \in Surjection(Cands, Traded)
    BY DEF Surjection, Traded
  <2> QED BY <1>1, <2>1, FS_Surjection
<1> QED BY <1>2, <1>4, <1>5, FS_CardinalityType

LEMMA CeilingsKept ==
    ASSUME TypeInv, Ceilings, NothingOpens
    PROVE  Ceilings'
<1>1. \A c \in Cands : /\ c \in Live' => c \in Live
                       /\ GivenUp(c) => GivenUp(c)'
  BY DEF NothingOpens, Live, GivenUp
<1>2. SliceEntered'
  BY <1>1 DEF Ceilings, SliceEntered, NothingOpens, Live
<1>3. OnePerCoinHolds'
  BY <1>1 DEF Ceilings, OnePerCoinHolds, Live
<1>4. OpenCapHolds'
  <2>1. HeldCoins' \subseteq HeldCoins
    BY <1>1 DEF HeldCoins, Live
  <2>2. Cardinality(HeldCoins') \in Nat /\ Cardinality(HeldCoins') <= Cardinality(HeldCoins)
    BY <2>1, FiniteSides, FS_Subset, FS_CardinalityType
  <2>3. MaxOpen \in Nat
    BY PassAssumption DEF PassAssumption
  <2> QED BY <2>2, <2>3, FiniteSides DEF Ceilings, OpenCapHolds
<1>5. DailyBudgetHolds'
  <2>1. TradesToday' = TradesToday
    BY DEF NothingOpens, TradesToday
  <2> QED BY <2>1 DEF Ceilings, DailyBudgetHolds
<1> QED BY <1>2, <1>3, <1>4, <1>5 DEF Ceilings

LEMMA CoverKept ==
    ASSUME TypeInv, TrackedIsCovered, NakedRows' \subseteq NakedRows, faults' = faults
    PROVE  TrackedIsCovered'
<1>1. Cardinality(NakedRows') \in Nat /\ Cardinality(NakedRows') <= Cardinality(NakedRows)
  BY FiniteSides, FS_Subset, FS_CardinalityType
<1>2. faults \in Nat
  BY PassAssumption DEF PassAssumption, TypeInv, EnvTypeOK
<1> QED BY <1>1, <1>2, FiniteSides DEF TrackedIsCovered

-----------------------------------------------------------------------------
(* The resolver. *)

LEMMA ResolvingKeepsBook ==
    ASSUME Alone, TypeInv, BookInv, NEW p \in Procs, Resolving(p)
    PROVE  BookInv'
<1>0. /\ BookLocal(p) /\ Ceilings /\ TrackedIsCovered /\ BookTypeOK
      /\ pc \in [Procs -> Stages] /\ cand \in [Procs -> Cands \cup {NoCand}]
      /\ ctx \in [Procs -> Context] /\ ctx[p] \in Context
      /\ faults' = faults
  BY Functions, EarlyEffect DEF BookInv, TypeInv, StreamStill
<1>1. /\ slice \in [Cands -> {"flat", "naked", "covered"}] /\ ledger \in [Cands -> RowStatus]
      /\ ctx[p].rows \subseteq Cands
  BY BookTypes
<1> DEFINE Kept == NothingOpens /\ NakedRows' \subseteq NakedRows /\ BookLocal(p)'
<1> HIDE DEF Kept
<1>2. ASSUME UNCHANGED <<slice, ledger, entered>>, BookLocal(p)'
      PROVE  Kept
  <2>1. NothingOpens
    BY <1>2 DEF NothingOpens
  <2>2. pc[p] \notin SecuringStages
    BY EarlyEffect DEF Early, SecuringStages
  <2>3. NakedRows' \subseteq NakedRows
    BY <1>2, <2>2 DEF NakedRows, BeingSecured, Alone, SecuringStages
  <2> QED BY <1>2, <2>1, <2>3 DEF Kept
<1>3. ASSUME BeginPass(p)
      PROVE  Kept
  <2>1. /\ pc'[p] = "rows" /\ ctx'[p] = [NoContext EXCEPT !.coins = LiveCoins]
        /\ UNCHANGED <<slice, ledger, entered>>
    BY <1>0, <1>3 DEF BeginPass, Goto, Note, storeVars, bookVars
  <2>2. ctx'[p].coins = LiveCoins /\ LiveCoins \subseteq Traded
    BY <2>1 DEF NoContext, LiveCoins, Live, Traded
  <2>3. BookLocal(p)'
    BY <1>0, <2>1, <2>2
    DEF BookLocal, RowsOpen, CoinsRead, Traded, RowInHand, HeldSeen, RoomLeft, TradesSeen,
        BudgetLeft, Live, LiveCoins, InBatch, Resolver, ClosingOut, SecuringStages, Early
  <2> QED BY <1>2, <2>1, <2>3
<1>4. ASSUME ListRows(p)
      PROVE  Kept
  <2>1. /\ pc[p] = "rows" /\ pc'[p] = "resolve" /\ ctx'[p] = [ctx[p] EXCEPT !.rows = OpenRows]
        /\ UNCHANGED <<slice, ledger, entered>>
    BY <1>0, <1>4 DEF ListRows, Goto, Note, storeVars, bookVars
  <2>2. ctx'[p].rows = OpenRows /\ ctx'[p].coins = ctx[p].coins
    BY <1>0, <2>1 DEF Context
  <2>3. BookLocal(p)'
    BY <1>0, <2>1, <2>2
    DEF BookLocal, RowsOpen, CoinsRead, Traded, RowInHand, HeldSeen, RoomLeft, TradesSeen,
        BudgetLeft, Live, OpenRows, InBatch, Resolver, ClosingOut, SecuringStages, Early
  <2> QED BY <1>2, <2>1, <2>3
<1>5. ASSUME NEW c \in Cands, CloseRow(p, c)
      PROVE  Kept
  <2>1. /\ pc[p] = "resolve" /\ pc'[p] = "book" /\ cand'[p] = c /\ c \in ctx[p].rows
        /\ ctx'[p] = [ctx[p] EXCEPT !.rows = @ \ {c}]
        /\ UNCHANGED <<ledger, entered>>
    BY <1>0, <1>5 DEF CloseRow, Goto, Note, Flatten, storeVars, bookVars
  <2>2. \A d \in Cands : slice'[d] = slice[d] \/ slice'[d] = "flat"
    BY <1>1, <1>5 DEF CloseRow, Flatten, bookVars
  <2>3. ctx'[p].rows = ctx[p].rows \ {c} /\ ctx'[p].coins = ctx[p].coins
    BY <1>0, <2>1 DEF Context
  <2>4. \A d \in Cands : d \in Live' => d \in Live
    BY <2>2 DEF Live
  <2>5. BookLocal(p)'
    <3>1. RowsOpen(p)' /\ RowInHand(p)'
      BY <1>0, <2>1, <2>3
      DEF BookLocal, RowsOpen, RowInHand, OpenRows, ClosingOut, SecuringStages
    <3>2. CoinsRead(p)'
      BY <1>0, <2>1, <2>3, <2>4 DEF BookLocal, CoinsRead, Traded, Resolver, Live
    <3>3. HeldSeen(p)' /\ RoomLeft(p)' /\ TradesSeen(p)' /\ BudgetLeft(p)'
      BY <2>1 DEF HeldSeen, RoomLeft, TradesSeen, BudgetLeft, InBatch, Early
    <3> QED BY <3>1, <3>2, <3>3 DEF BookLocal
  <2>6. NothingOpens
    BY <2>1, <2>2 DEF NothingOpens
  <2>7. NakedRows' \subseteq NakedRows
    BY <2>1, <2>2 DEF NakedRows, BeingSecured, Alone
  <2> QED BY <2>5, <2>6, <2>7 DEF Kept
<1>6. ASSUME NEW c \in Cands, ResolveRow(p, c)
      PROVE  Kept
  <2>1. /\ pc[p] = "book" /\ cand[p] = c /\ ctx' = ctx
        /\ \/ pc'[p] = "own" /\ cand'[p] = c
           \/ pc'[p] = "resolve"
        /\ ledger' = [ledger EXCEPT ![c] = "closed"] /\ UNCHANGED <<slice, entered>>
    BY <1>0, <1>6 DEF ResolveRow, ResolveTrade, Holds, Goto, Done, bookVars
  <2>2. ledger[c] = "open" /\ ledger'[c] = "closed" /\ c \notin ctx[p].rows
        /\ \A d \in Cands : d # c => ledger'[d] = ledger[d]
    BY <1>0, <1>1, <2>1 DEF BookLocal, RowsOpen, RowInHand
  <2>3. BookLocal(p)'
    <3>1. RowsOpen(p)' /\ RowInHand(p)'
      BY <1>0, <1>1, <2>1, <2>2
      DEF BookLocal, RowsOpen, RowInHand, OpenRows, ClosingOut, SecuringStages
    <3>2. CoinsRead(p)'
      BY <1>0, <2>1 DEF BookLocal, CoinsRead, Traded, Resolver, ClosingOut, Live
    <3>3. HeldSeen(p)' /\ RoomLeft(p)' /\ TradesSeen(p)' /\ BudgetLeft(p)'
      BY <2>1 DEF HeldSeen, RoomLeft, TradesSeen, BudgetLeft, InBatch, Early
    <3> QED BY <3>1, <3>2, <3>3 DEF BookLocal
  <2>4. NothingOpens
    BY <2>1, <2>2 DEF NothingOpens
  <2>5. NakedRows' \subseteq NakedRows
    BY <2>1, <2>2 DEF NakedRows, BeingSecured, Alone
  <2> QED BY <2>3, <2>4, <2>5 DEF Kept
<1>7. ASSUME NEW c \in Cands, CancelOwn(p, c) \/ SweepCoin(p, c)
      PROVE  Kept
  <2>1. /\ cand[p] = c /\ ctx' = ctx /\ UNCHANGED <<ledger, entered>>
        /\ \/ pc[p] = "own" /\ pc'[p] = "last" /\ cand'[p] = c
           \/ pc[p] = "sweep" /\ pc'[p] = "resolve"
    BY <1>0, <1>7
    DEF CancelOwn, SweepCoin, Uncover, Holds, Goto, Done, KeepHand, storeVars
  <2>2. \A d \in Cands : (slice'[d] # "flat") <=> (slice[d] # "flat")
    BY <1>1, <1>7 DEF CancelOwn, SweepCoin, Uncover
  <2>3. \A d \in OpenRows : slice'[d] = slice[d]
    <3>1. CASE CancelOwn(p, c)
      <4>1. \A d \in OpenRows : d # c
        BY <1>0, <2>1, <3>1 DEF BookLocal, RowInHand, OpenRows, ClosingOut, CancelOwn, Goto
      <4> QED BY <1>1, <3>1, <4>1 DEF CancelOwn, Uncover, OpenRows
    <3>2. CASE SweepCoin(p, c)
      <4>1. \A d \in OpenRows : d \notin SameCoin(c)
        BY <1>0, <2>1, <3>2 DEF BookLocal, RowInHand, SweepCoin, Done, Goto
      <4> QED BY <1>1, <3>2, <4>1 DEF SweepCoin, Uncover, OpenRows
    <3> QED BY <1>7, <3>1, <3>2
  <2>4. Live' = Live
    BY <2>2 DEF Live
  <2>5. BookLocal(p)'
    <3>1. RowsOpen(p)' /\ RowInHand(p)'
      BY <1>0, <2>1 DEF BookLocal, RowsOpen, RowInHand, OpenRows, ClosingOut, SecuringStages
    <3>2. CoinsRead(p)'
      BY <1>0, <2>1, <2>4 DEF BookLocal, CoinsRead, Traded, Resolver, ClosingOut
    <3>3. HeldSeen(p)' /\ RoomLeft(p)' /\ TradesSeen(p)' /\ BudgetLeft(p)'
      BY <2>1 DEF HeldSeen, RoomLeft, TradesSeen, BudgetLeft, InBatch, Early
    <3> QED BY <3>1, <3>2, <3>3 DEF BookLocal
  <2>6. NothingOpens
    BY <2>1, <2>2 DEF NothingOpens
  <2>7. NakedRows' \subseteq NakedRows
    BY <2>1, <2>3 DEF NakedRows, BeingSecured, Alone, OpenRows
  <2> QED BY <2>5, <2>6, <2>7 DEF Kept
<1>8. ASSUME NEW c \in Cands, LookForSiblings(p, c)
      PROVE  Kept
  <2>1. /\ pc[p] = "last" /\ cand[p] = c /\ ctx' = ctx /\ UNCHANGED <<slice, ledger, entered>>
        /\ \/ pc'[p] = "sweep" /\ cand'[p] = c /\ OpenRows \cap SameCoin(c) = {}
           \/ pc'[p] = "resolve"
    BY <1>0, <1>8
    DEF LookForSiblings, LastOfCoin, Holds, Goto, Done, storeVars, bookVars
  <2>2. BookLocal(p)'
    <3>1. RowsOpen(p)' /\ RowInHand(p)'
      BY <1>0, <2>1 DEF BookLocal, RowsOpen, RowInHand, OpenRows, ClosingOut, SecuringStages
    <3>2. CoinsRead(p)'
      BY <1>0, <2>1 DEF BookLocal, CoinsRead, Traded, Resolver, ClosingOut, Live
    <3>3. HeldSeen(p)' /\ RoomLeft(p)' /\ TradesSeen(p)' /\ BudgetLeft(p)'
      BY <2>1 DEF HeldSeen, RoomLeft, TradesSeen, BudgetLeft, InBatch, Early
    <3> QED BY <3>1, <3>2, <3>3 DEF BookLocal
  <2> QED BY <1>2, <2>1, <2>2
<1>9. ASSUME EndResolve(p)
      PROVE  Kept
  <2>1. pc'[p] = "read" /\ UNCHANGED <<slice, ledger, entered>> /\ ctx'[p].coins = ctx[p].coins
    BY <1>0, <1>9 DEF EndResolve, Goto, Note, storeVars, bookVars, Context
  <2>2. BookLocal(p)'
    BY <1>0, <2>1
    DEF BookLocal, RowsOpen, CoinsRead, Traded, RowInHand, HeldSeen, RoomLeft, TradesSeen,
        BudgetLeft, InBatch, Resolver, ClosingOut, SecuringStages, Early
  <2> QED BY <1>2, <2>1, <2>2
<1>10. Kept
  BY <1>3, <1>4, <1>5, <1>6, <1>7, <1>8, <1>9 DEF Resolving
<1> QED BY <1>0, <1>10, CeilingsKept, CoverKept DEF Kept, BookInv, Alone

-----------------------------------------------------------------------------
(* Steps between the snapshot and the end of the pass that leave both the   *)
(* book and the snapshot of it alone.                                       *)

SnapshotKept(p) == ctx'[p].coins = ctx[p].coins /\ ctx'[p].trades = ctx[p].trades
BookKept(p) == UNCHANGED <<slice, ledger, entered>> /\ SnapshotKept(p)

LEMMA ConcludeKeepsSnapshot ==
    ASSUME TypeInv, NEW p \in Procs, NEW from, NEW verdict, Conclude(p, from, verdict)
    PROVE  SnapshotKept(p)
<1>0. ctx \in [Procs -> Context] /\ ctx[p] \in Context
  BY Functions
<1> QED BY <1>0 DEF Conclude, Note, SnapshotKept, Context

LEMMA ForgetKeepsSnapshot ==
    ASSUME TypeInv, NEW p \in Procs,
           Note(p, Forget(ctx[p])) \/ Note(p, [Forget(ctx[p]) EXCEPT !.next = @ + 1])
    PROVE  SnapshotKept(p)
<1>0. ctx \in [Procs -> Context] /\ ctx[p] \in Context
  BY Functions
<1>1. /\ Forget(ctx[p]).coins = ctx[p].coins /\ Forget(ctx[p]).trades = ctx[p].trades
      /\ Forget(ctx[p]) \in Context
  BY <1>0, ForgetOK DEF TypeInv, Forget, Context
<1> DEFINE x == Forget(ctx[p])
           y == [x EXCEPT !.next = @ + 1]
<1> HIDE DEF x
<1>2. y.coins = x.coins /\ y.trades = x.trades
  BY <1>1 DEF Context, x
<1>3. ctx'[p] = x \/ ctx'[p] = y
  BY <1>0 DEF Note, x
<1> QED BY <1>1, <1>2, <1>3 DEF SnapshotKept, x

\* What such a step may move a process to.
QuietMove(p) ==
    /\ pc[p] = "queues" \/ InBatch(p)
    /\ pc[p] \notin Unseen /\ pc'[p] \notin Early \cup Unseen
    /\ pc'[p] \in {"claim", "submit"} =>
         /\ cand'[p] = cand[p]
         /\ \/ pc[p] = "claim"
            \/ GateAllows(ctx[p], CoinOf[cand[p]])

LEMMA QueueingIsQuiet ==
    ASSUME TypeInv, NEW p \in Procs,
           ReadQueues(p) \/ TakeNew(p) \/ \E c \in Cands : SkipFired(p, c) \/ TakeDue(p, c)
    PROVE  BookKept(p) /\ QuietMove(p)
<1>0. ctx \in [Procs -> Context] /\ ctx[p] \in Context
  BY Functions
<1>1. UNCHANGED <<slice, ledger, entered>>
  BY DEF ReadQueues, TakeNew, SkipFired, TakeDue, DropDeferred, storeVars, bookVars
<1>2. SnapshotKept(p)
  <2>1. CASE ReadQueues(p)
    BY <1>0, <2>1 DEF ReadQueues, Note, SnapshotKept, Context
  <2>2. CASE TakeNew(p)
    BY <1>0, <2>2 DEF TakeNew, Note, SnapshotKept, Context
  <2>3. ASSUME NEW c \in Cands, SkipFired(p, c)
        PROVE  SnapshotKept(p)
    BY <1>0, <2>3 DEF SkipFired, Note, SnapshotKept, Context
  <2>4. ASSUME NEW c \in Cands, TakeDue(p, c)
        PROVE  SnapshotKept(p)
    BY <1>0, <2>4 DEF TakeDue, Note, SnapshotKept, Context
  <2> QED BY <2>1, <2>2, <2>3, <2>4
<1>3. pc[p] \in {"queues", "next"} /\ pc'[p] \in {"next", "decide"}
  BY ReadQueuesEffect, TakeNewEffect, SkipFiredEffect, TakeDueEffect
<1>4. QuietMove(p)
  BY <1>3 DEF QuietMove, InBatch, Early, Unseen, SecuringStages
<1> QED BY <1>1, <1>2, <1>4 DEF BookKept

LEMMA DecidingIsQuiet ==
    ASSUME TypeInv, NEW p \in Procs, NEW c \in Cands, Deciding(p, c)
    PROVE  BookKept(p) /\ QuietMove(p)
<1>0. /\ pc \in [Procs -> Stages] /\ pc[p] = "decide" /\ pc'[p] \in {"log", "claim"}
      /\ cand[p] = c /\ cand'[p] = cand[p]
  BY Functions, DecidingEffect DEF Holds, KeepsWork
<1>1. UNCHANGED <<slice, ledger, entered>>
  BY DEF Deciding, Refuse, Wait, Approve, storeVars, bookVars
<1>2. SnapshotKept(p)
  BY ConcludeKeepsSnapshot DEF Deciding, Refuse, Wait, Approve, KeepHand, SnapshotKept
<1>3. pc'[p] = "claim" => GateAllows(ctx[p], CoinOf[c])
  BY <1>0 DEF Deciding, Refuse, Wait, Approve, Conclude, Goto
<1>4. QuietMove(p)
  BY <1>0, <1>3 DEF QuietMove, InBatch, Early, Unseen, SecuringStages
<1> QED BY <1>1, <1>2, <1>4 DEF BookKept

\* The steps of fire that meet neither the book nor the ledger.
QuietFiring(p, c) ==
    \/ Claim(p, c) \/ Duplicate(p, c) \/ SubmitRefused(p, c) \/ SubmitUnfilled(p, c)
    \/ CancelResting(p, c) \/ Release(p, c)

LEMMA FiringIsQuiet ==
    ASSUME TypeInv, NEW p \in Procs, NEW c \in Cands, QuietFiring(p, c)
    PROVE  BookKept(p) /\ QuietMove(p)
<1>0. pc \in [Procs -> Stages]
  BY Functions
<1>1. UNCHANGED <<slice, ledger, entered>>
  BY DEF QuietFiring, Claim, Duplicate, SubmitRefused, SubmitUnfilled, CancelResting,
         Release, RecordFire, ReleaseFire, CancelEntry, storeVars, bookVars
<1>2. SnapshotKept(p)
  BY ConcludeKeepsSnapshot
  DEF QuietFiring, Claim, Duplicate, SubmitRefused, SubmitUnfilled, CancelResting,
      Release, KeepHand, SnapshotKept
<1>3. /\ pc[p] \in {"claim", "submit", "cancel", "release"}
      /\ \/ pc[p] = "claim" /\ pc'[p] = "submit" /\ cand' = cand
         \/ pc'[p] \in {"log", "release"}
  BY <1>0
  DEF QuietFiring, Claim, Duplicate, SubmitRefused, SubmitUnfilled, CancelResting,
      Release, Conclude, Goto, KeepHand
<1>4. QuietMove(p)
  BY <1>3 DEF QuietMove, InBatch, Early, Unseen, SecuringStages
<1> QED BY <1>1, <1>2, <1>4 DEF BookKept

LEMMA FilingIsQuiet ==
    ASSUME TypeInv, NEW p \in Procs,
           \/ Marking(p)
           \/ \E c \in Cands : Filing(p, c)
    PROVE  BookKept(p) /\ QuietMove(p)
<1>0. pc \in [Procs -> Stages]
  BY Functions
<1>1. UNCHANGED <<slice, ledger, entered>>
  BY DEF Marking, ReadHwm, HwmAhead, AdvanceHwm, WriteHwm, Filing, Log, Park, Settle,
         MarkStatus, LogDecision, DeferCandidate, DropDeferred, SetStatus,
         storeVars, bookVars
<1>2. ctx' = ctx => SnapshotKept(p)
  BY DEF SnapshotKept
<1>3. SnapshotKept(p)
  BY <1>2, ForgetKeepsSnapshot
  DEF Marking, ReadHwm, HwmAhead, AdvanceHwm, Filing, Log, Park, Settle, MarkStatus,
      Filed, KeepHand
<1>4. /\ pc[p] \in {"log", "file", "status", "hwm", "mark"}
      /\ pc'[p] \in {"file", "status", "hwm", "mark", "next"}
  BY <1>0
  DEF Marking, ReadHwm, HwmAhead, AdvanceHwm, Filing, Log, Park, Settle, MarkStatus,
      Filed, Done, Goto
<1>5. QuietMove(p)
  BY <1>4 DEF QuietMove, InBatch, Early, Unseen, SecuringStages
<1> QED BY <1>1, <1>3, <1>5 DEF BookKept

LEMMA QuietKeepsBook ==
    ASSUME Alone, TypeInv, BookInv, NEW p \in Procs, BookKept(p), QuietMove(p),
           faults' = faults
    PROVE  BookInv'
<1>0. BookLocal(p) /\ Ceilings /\ TrackedIsCovered /\ UNCHANGED <<slice, ledger, entered>>
  BY DEF BookInv, BookKept
<1>1. NothingOpens /\ Live' = Live /\ TradesToday' = TradesToday /\ \A c : GivenUp(c)' <=> GivenUp(c)
  BY <1>0 DEF NothingOpens, Live, TradesToday, GivenUp
<1>2. NakedRows' \subseteq NakedRows
  BY <1>0 DEF NakedRows, BeingSecured, Alone, QuietMove, Unseen, SecuringStages
<1>3. RowsOpen(p)' /\ CoinsRead(p)' /\ RowInHand(p)'
  BY <1>0
  DEF BookLocal, RowsOpen, CoinsRead, RowInHand, BookKept, SnapshotKept, QuietMove,
      Resolver, ClosingOut, Early, Unseen, SecuringStages, Traded
<1>4. HeldSeen(p)' /\ TradesSeen(p)'
  BY <1>0, <1>1
  DEF BookLocal, HeldSeen, TradesSeen, BookKept, SnapshotKept, QuietMove
<1>5. RoomLeft(p)' /\ BudgetLeft(p)'
  BY <1>0
  DEF BookLocal, RoomLeft, BudgetLeft, BookKept, SnapshotKept, QuietMove, GateAllows, Unseen
<1>6. BookLocal(p)'
  BY <1>3, <1>4, <1>5 DEF BookLocal
<1> QED BY <1>0, <1>1, <1>2, <1>6, CeilingsKept, CoverKept DEF BookInv, Alone

-----------------------------------------------------------------------------
(* The entry fills. *)

LEMMA FillKeepsBook ==
    ASSUME Alone, TypeInv, EntryInv, BookInv, NEW p \in Procs, NEW c \in Cands,
           pc[p] = "submit", Holds(p, c), Fill(c), pc'[p] \in {"open", "lookup"},
           UNCHANGED <<storeVars, cand, ctx, faults>>
    PROVE  BookInv'
<1>0. /\ BookLocal(p) /\ Ceilings /\ TrackedIsCovered /\ ledger' = ledger
      /\ cand[p] = c /\ cand'[p] = c /\ ctx' = ctx /\ InBatch(p)
      /\ slice \in [Cands -> {"flat", "naked", "covered"}] /\ entered \in [Cands -> Nat]
  BY BookTypes DEF BookInv, Holds, storeVars, InBatch, Early
<1>1. ledger[c] = "none" /\ entered[c] = 0
  BY <1>0 DEF EntryInv, HandOK, Unsent, ClaimInv, LedgerMatchesBook
<1>2. /\ slice'[c] = "naked" /\ entered'[c] = 1
      /\ \A d \in Cands : d # c => slice'[d] = slice[d] /\ entered'[d] = entered[d]
  BY <1>0, <1>1 DEF Fill
<1>3. /\ \A d \in Live' : d = c \/ d \in Live
      /\ \A d \in Cands : GivenUp(d)' <=> GivenUp(d)
      /\ TradesToday' = TradesToday
  BY <1>0, <1>2 DEF Live, GivenUp, TradesToday
<1>4. \A d \in Live : GivenUp(d) \/ CoinOf[d] \in ctx[p].coins
  BY <1>0 DEF BookLocal, HeldSeen, Unseen, SecuringStages
<1>5. /\ Cardinality(ctx[p].coins) < MaxOpen /\ CoinOf[c] \notin ctx[p].coins
  BY <1>0 DEF BookLocal, RoomLeft
<1>6. SliceEntered'
  BY <1>0, <1>2, <1>3 DEF Ceilings, SliceEntered, Live
<1>7. OnePerCoinHolds'
  BY <1>0, <1>3, <1>4, <1>5 DEF Ceilings, OnePerCoinHolds, Live
<1>8. OpenCapHolds'
  <2>1. HeldCoins' \subseteq ctx[p].coins \cup {CoinOf[c]}
    BY <1>3, <1>4 DEF HeldCoins, Live
  <2>2. IsFiniteSet(ctx[p].coins)
    BY <1>0, FiniteSides, FS_Subset DEF BookLocal, CoinsRead
  <2>3. Cardinality(HeldCoins') \in Nat /\ Cardinality(HeldCoins') <= Cardinality(ctx[p].coins) + 1
    BY <2>1, <2>2, GrownByOne
  <2>4. MaxOpen \in Nat /\ Cardinality(ctx[p].coins) \in Nat
    BY <2>2, BookTypes, FS_CardinalityType
  <2> QED BY <1>5, <2>3, <2>4 DEF OpenCapHolds
<1>9. DailyBudgetHolds'
  BY <1>0, <1>3 DEF Ceilings, DailyBudgetHolds
<1>10. NakedRows' \subseteq NakedRows
  BY <1>0, <1>1, <1>2 DEF NakedRows, BeingSecured, Alone
<1>11. BookLocal(p)'
  <2>1. RowsOpen(p)' /\ CoinsRead(p)' /\ RowInHand(p)'
    BY <1>0, <1>1
    DEF BookLocal, RowsOpen, CoinsRead, RowInHand, Resolver, ClosingOut, SecuringStages, Traded
  <2>2. HeldSeen(p)'
    BY <1>0, <1>3, <1>4 DEF HeldSeen, Holds, Unseen, Live
  <2>3. RoomLeft(p)' /\ BudgetLeft(p)'
    BY <1>0 DEF BookLocal, RoomLeft, BudgetLeft
  <2>4. TradesSeen(p)'
    <3>1. Cardinality(TradesToday) <= ctx[p].trades
      BY <1>0 DEF BookLocal, TradesSeen
    <3> QED BY <1>0, <1>3, <3>1 DEF TradesSeen
  <2> QED BY <2>1, <2>2, <2>3, <2>4 DEF BookLocal
<1>12. TrackedIsCovered'
  BY <1>0, <1>10, CoverKept
<1> QED BY <1>6, <1>7, <1>8, <1>9, <1>11, <1>12 DEF BookInv, Ceilings, Alone

\* Whatever the lookup says, what has not filled is not held.
LEMMA LookupKeepsBook ==
    ASSUME Alone, TypeInv, EntryInv, BookInv, NEW p \in Procs, NEW c \in Cands, Lookup(p, c)
    PROVE  BookInv'
<1>0. /\ BookLocal(p) /\ Ceilings /\ TrackedIsCovered
      /\ pc \in [Procs -> Stages] /\ faults' = faults
      /\ UNCHANGED <<slice, ledger, entered, cand, ctx>>
      /\ pc[p] = "lookup" /\ cand[p] = c /\ pc'[p] = AfterLookup(entry[c])
  BY Functions
  DEF BookInv, Lookup, Holds, Goto, KeepHand, KeepEnv, storeVars, bookVars
<1>1. NothingOpens /\ Live' = Live /\ TradesToday' = TradesToday /\ \A d : GivenUp(d)' <=> GivenUp(d)
  BY <1>0 DEF NothingOpens, Live, TradesToday, GivenUp
<1>2. NakedRows' \subseteq NakedRows
  BY <1>0 DEF NakedRows, BeingSecured, Alone
<1>3. pc'[p] = "open" \/ (pc'[p] \in {"cancel", "release"} /\ c \notin Live)
  <2>1. CASE entry[c] = "filled"
    BY <1>0, <2>1 DEF AfterLookup
  <2>2. CASE entry[c] # "filled"
    <3>1. ~(entered[c] > 0)
      BY <2>2 DEF EntryInv, ClaimInv, FilledIsEntered
    <3>2. c \notin Live
      BY <1>0, <3>1 DEF Ceilings, SliceEntered
    <3> QED BY <1>0, <2>2, <3>2 DEF AfterLookup
  <2> QED BY <2>1, <2>2
<1>4. RowsOpen(p)' /\ CoinsRead(p)' /\ RowInHand(p)'
  BY <1>0, <1>3
  DEF BookLocal, RowsOpen, CoinsRead, RowInHand, Resolver, ClosingOut, SecuringStages, Traded
<1>5. HeldSeen(p)'
  BY <1>0, <1>1, <1>3 DEF BookLocal, HeldSeen, Holds, Unseen, InBatch, Early
<1>6. RoomLeft(p)' /\ BudgetLeft(p)'
  BY <1>0, <1>3 DEF BookLocal, RoomLeft, BudgetLeft
<1>7. TradesSeen(p)'
  <2>1. Cardinality(TradesToday) <= ctx[p].trades
    BY <1>0 DEF BookLocal, TradesSeen, InBatch, Early
  <2> QED BY <1>0, <1>1, <2>1 DEF TradesSeen
<1>8. BookLocal(p)'
  BY <1>4, <1>5, <1>6, <1>7 DEF BookLocal
<1> QED BY <1>0, <1>1, <1>2, <1>8, CeilingsKept, CoverKept DEF BookInv, Alone

LEMMA FiringKeepsBook ==
    ASSUME Alone, TypeInv, EntryInv, BookInv, NEW p \in Procs, NEW c \in Cands, Firing(p, c)
    PROVE  BookInv'
<1>0. pc \in [Procs -> Stages] /\ faults' = faults
  BY Functions, MiddleEffect DEF StreamStill
<1>1. CASE QuietFiring(p, c)
  BY <1>0, <1>1, FiringIsQuiet, QuietKeepsBook
<1>2. ASSUME pc[p] = "submit", Holds(p, c), Fill(c), pc'[p] \in {"open", "lookup"},
             UNCHANGED <<storeVars, cand, ctx>>
      PROVE  BookInv'
  BY <1>0, <1>2, FillKeepsBook
<1>3. CASE SubmitFilled(p, c)
  BY <1>0, <1>2, <1>3 DEF SubmitFilled, Goto, KeepHand
<1>4. CASE SubmitRaises(p, c) /\ ~Fill(c)
  <2>1. /\ pc[p] = "submit" /\ pc'[p] = "lookup" /\ cand[p] = c
        /\ UNCHANGED <<slice, ledger, entered, keys, cand, ctx>>
    BY <1>0, <1>4 DEF SubmitRaises, Rest, Holds, Goto, KeepHand, storeVars, bookVars
  <2>2. /\ BookLocal(p) /\ Ceilings /\ TrackedIsCovered /\ ledger[c] = "none"
    BY <2>1 DEF BookInv, Holds, EntryInv, HandOK, Unsent, ClaimInv, LedgerMatchesBook
  <2>3. NothingOpens /\ Live' = Live /\ TradesToday' = TradesToday /\ \A d : GivenUp(d)' <=> GivenUp(d)
    BY <2>1 DEF NothingOpens, Live, TradesToday, GivenUp
  <2>4. NakedRows' \subseteq NakedRows
    BY <2>1 DEF NakedRows, BeingSecured, Alone
  <2>5. RowsOpen(p)' /\ CoinsRead(p)' /\ RowInHand(p)' /\ RoomLeft(p)' /\ BudgetLeft(p)'
    BY <2>1, <2>2
    DEF BookLocal, RowsOpen, CoinsRead, RowInHand, RoomLeft, BudgetLeft, Resolver,
        ClosingOut, SecuringStages, Traded
  <2>6. HeldSeen(p)'
    BY <2>1, <2>2, <2>3 DEF BookLocal, HeldSeen, Unseen, SecuringStages, InBatch, Early
  <2>7. TradesSeen(p)'
    <3>1. Cardinality(TradesToday) <= ctx[p].trades
      BY <2>1, <2>2 DEF BookLocal, TradesSeen, InBatch, Early
    <3> QED BY <2>1, <2>3, <3>1 DEF TradesSeen
  <2>8. BookLocal(p)'
    BY <2>5, <2>6, <2>7 DEF BookLocal
  <2> QED BY <1>0, <2>2, <2>3, <2>4, <2>8, CeilingsKept, CoverKept DEF BookInv, Alone
<1>5. CASE SubmitRaises(p, c) /\ Fill(c)
  BY <1>0, <1>2, <1>5 DEF SubmitRaises, Goto, KeepHand
<1> QED BY <1>1, <1>3, <1>4, <1>5, LookupKeepsBook DEF Firing, QuietFiring

-----------------------------------------------------------------------------
(* The row is written, and the position secured or given up. *)

LEMMA OpenRowKeepsBook ==
    ASSUME Alone, TypeInv, EntryInv, BookInv, NEW p \in Procs, NEW c \in Cands, OpenRow(p, c)
    PROVE  BookInv'
<1>0. /\ BookLocal(p) /\ Ceilings /\ TrackedIsCovered
      /\ pc \in [Procs -> Stages] /\ faults' = faults /\ ledger \in [Cands -> RowStatus]
      /\ ctx \in [Procs -> Context] /\ ctx[p] \in Context /\ cand \in [Procs -> Cands \cup {NoCand}]
      /\ UNCHANGED <<slice, entered>> /\ ledger' = [ledger EXCEPT ![c] = "open"]
      /\ pc[p] = "open" /\ cand[p] = c /\ cand'[p] = c
  BY Functions, BookTypes
  DEF BookInv, OpenRow, OpenTrade, Fired, Holds, Goto, KeepEnv, bookVars
<1>1. /\ ctx'[p].trades = ctx[p].trades + 1
      /\ \/ Protected /\ pc'[p] = "protect" /\ ctx'[p].coins = ctx[p].coins
         \/ ~Protected /\ pc'[p] = "log" /\ ctx'[p].coins = ctx[p].coins \cup {CoinOf[c]}
  <2>1. CASE Protected
    BY <1>0, <2>1 DEF OpenRow, Goto, Note, Context
  <2>2. CASE ~Protected
    <3>1. /\ pc'[p] = "log"
          /\ ctx'[p] = [ctx[p] EXCEPT !.verdict = "fired", !.coins = @ \cup {CoinOf[c]},
                                      !.trades = @ + 1]
      BY <1>0, <2>2 DEF OpenRow, Fired, Goto, Note
    <3> QED BY <1>0, <2>2, <3>1 DEF Context
  <2> QED BY <2>1, <2>2
<1>2. /\ ledger[c] = "none" /\ ledger'[c] = "open"
      /\ \A d \in Cands : d # c => ledger'[d] = ledger[d]
  BY <1>0 DEF BookLocal, RowInHand
<1>3. Live' = Live /\ \A d \in Cands : GivenUp(d)' <=> GivenUp(d)
  BY <1>0, <1>2 DEF Live, GivenUp
<1>4. SliceEntered' /\ OnePerCoinHolds'
  BY <1>0, <1>3 DEF Ceilings, SliceEntered, OnePerCoinHolds, Live
<1>5. OpenCapHolds'
  <2>1. HeldCoins' = HeldCoins
    BY <1>3 DEF HeldCoins, Live
  <2> QED BY <1>0, <2>1 DEF Ceilings, OpenCapHolds
<1>6. /\ Cardinality(TradesToday') \in Nat
      /\ Cardinality(TradesToday') <= ctx[p].trades + 1 /\ ctx[p].trades \in Nat
  <2>1. TradesToday' \subseteq TradesToday \cup {c}
    BY <1>2 DEF TradesToday
  <2>2. /\ Cardinality(TradesToday') \in Nat
        /\ Cardinality(TradesToday') <= Cardinality(TradesToday) + 1
    BY <2>1, FiniteSides, GrownByOne
  <2>3. Cardinality(TradesToday) <= ctx[p].trades
    BY <1>0 DEF BookLocal, TradesSeen, InBatch, Early
  <2> QED BY <2>2, <2>3, FiniteSides, BookTypes
<1>7. DailyBudgetHolds'
  <2>1. MaxTrades > 0 => ctx[p].trades < MaxTrades
    BY <1>0 DEF BookLocal, BudgetLeft
  <2> QED BY <1>6, <2>1, BookTypes DEF DailyBudgetHolds
<1>8. RowsOpen(p)' /\ CoinsRead(p)' /\ RowInHand(p)' /\ RoomLeft(p)' /\ BudgetLeft(p)'
  BY <1>0, <1>1, <1>2
  DEF BookLocal, RowsOpen, CoinsRead, RowInHand, RoomLeft, BudgetLeft, Resolver,
      ClosingOut, SecuringStages, Traded
<1>9. HeldSeen(p)'
  <2>1. \A d \in Live : GivenUp(d) \/ CoinOf[d] \in ctx[p].coins \/ d = c
    BY <1>0 DEF BookLocal, HeldSeen, InBatch, Early, Holds
  <2> QED BY <1>0, <1>1, <1>3, <2>1 DEF HeldSeen, Live, Holds, Unseen, SecuringStages
<1>10. TradesSeen(p)'
  BY <1>1, <1>6 DEF TradesSeen
<1>11. TrackedIsCovered'
  <2>1. CASE Protected
    <3>1. NakedRows' \subseteq NakedRows
      BY <1>0, <1>1, <1>2, <2>1 DEF NakedRows, BeingSecured, Alone, Holds
    <3> QED BY <1>0, <3>1, CoverKept
  <2>2. CASE ~Protected
    BY <2>2 DEF TrackedIsCovered
  <2> QED BY <2>1, <2>2
<1> QED
  BY <1>4, <1>5, <1>7, <1>8, <1>9, <1>10, <1>11 DEF BookInv, BookLocal, Ceilings, Alone

\* What the steps of _secure share: nothing opens, what is held stays in hand or
\* in view, and the row stays open until the position is given up.
Secures(p, c) ==
    /\ pc[p] \in SecuringStages /\ pc'[p] \in {"flatten", "abort", "log"}
    /\ cand[p] = c /\ cand'[p] = c
    /\ entered' = entered /\ ctx'[p].trades = ctx[p].trades
    /\ ctx'[p].coins \subseteq Traded /\ ctx[p].coins \subseteq ctx'[p].coins
    /\ \A d \in Cands : \/ slice'[d] = "flat" \/ slice'[d] = slice[d]
                        \/ d = c /\ slice'[d] = "covered" /\ slice[d] # "flat"
    /\ \/ ledger' = ledger
       \/ GivenUp(c)' /\ \A d \in Cands : d # c => ledger'[d] = ledger[d]
    /\ pc'[p] # "log" => ledger' = ledger
    /\ pc'[p] = "log" => \/ GivenUp(c)'
                         \/ CoinOf[c] \in ctx'[p].coins /\ slice'[c] # "naked"

LEMMA SecuresKeepsBook ==
    ASSUME Alone, TypeInv, BookInv, NEW p \in Procs, NEW c \in Cands, Secures(p, c),
           faults' = faults
    PROVE  BookInv'
<1>0. /\ BookLocal(p) /\ Ceilings /\ TrackedIsCovered
      /\ slice \in [Cands -> {"flat", "naked", "covered"}]
      /\ cand[p] = c /\ cand'[p] = c /\ pc[p] \in SecuringStages /\ InBatch(p)
      /\ pc'[p] \in {"flatten", "abort", "log"}
  BY BookTypes DEF BookInv, Secures, SecuringStages, InBatch, Early
<1>1. /\ ledger[c] = "open" /\ \A d \in Cands : d # c => ledger'[d] = ledger[d]
      /\ ledger'[c] = ledger[c] \/ GivenUp(c)'
  BY <1>0 DEF BookLocal, RowInHand, Secures
<1>2. NothingOpens
  BY <1>1 DEF NothingOpens, Secures, GivenUp
<1>3. \A d \in Cands : /\ d \in Live' => d \in Live
                       /\ GivenUp(d) => GivenUp(d)'
  BY <1>1, <1>2 DEF NothingOpens, Live, GivenUp
<1>4. HeldSeen(p)'
  <2>1. \A d \in Live : GivenUp(d) \/ CoinOf[d] \in ctx[p].coins \/ d = c
    BY <1>0 DEF BookLocal, HeldSeen, Holds
  <2>2. pc'[p] \in Unseen \/ GivenUp(c)' \/ CoinOf[c] \in ctx'[p].coins
    BY <1>0 DEF Secures, Unseen, SecuringStages
  <2>3. ctx[p].coins \subseteq ctx'[p].coins
    BY DEF Secures
  <2> QED BY <1>0, <1>3, <2>1, <2>2, <2>3 DEF HeldSeen, Live, Holds
<1>5. TradesSeen(p)'
  <2>1. TradesToday' = TradesToday
    BY <1>2 DEF NothingOpens, TradesToday
  <2>2. Cardinality(TradesToday) <= ctx[p].trades
    BY <1>0 DEF BookLocal, TradesSeen
  <2> QED BY <2>1, <2>2 DEF TradesSeen, Secures
<1>6. RowsOpen(p)' /\ CoinsRead(p)' /\ RowInHand(p)' /\ RoomLeft(p)' /\ BudgetLeft(p)'
  BY <1>0, <1>1
  DEF RowsOpen, CoinsRead, RowInHand, RoomLeft, BudgetLeft, Resolver, ClosingOut,
      SecuringStages, Traded, Secures
<1>7. NakedRows' \subseteq NakedRows
  <2>1. SUFFICES ASSUME NEW d \in NakedRows'
                 PROVE  d \in NakedRows
    OBVIOUS
  <2>2. d \in Cands /\ ledger'[d] = "open" /\ slice'[d] = "naked" /\ ~BeingSecured(d)'
    BY <2>1 DEF NakedRows
  <2>3. d # c
    BY <1>0, <2>2 DEF Secures, BeingSecured, Holds, GivenUp
  <2>4. ~BeingSecured(d)
    BY <1>0, <2>3 DEF BeingSecured, Alone, Holds
  <2> QED BY <1>1, <2>2, <2>3, <2>4 DEF NakedRows, Secures
<1> QED
  BY <1>0, <1>2, <1>4, <1>5, <1>6, <1>7, CeilingsKept, CoverKept DEF BookInv, BookLocal, Alone

LEMMA SecuringKeepsBook ==
    ASSUME Alone, TypeInv, EntryInv, BookInv, NEW p \in Procs, NEW c \in Cands, Securing(p, c)
    PROVE  BookInv'
<1>0. /\ pc \in [Procs -> Stages] /\ faults' = faults /\ ledger \in [Cands -> RowStatus]
      /\ slice \in [Cands -> {"flat", "naked", "covered"}]
      /\ ctx \in [Procs -> Context] /\ ctx[p] \in Context
      /\ cand[p] = c /\ cand'[p] = c /\ ctx[p].coins \subseteq Traded /\ CoinOf[c] \in Traded
  BY Functions, BookTypes, MiddleEffect
  DEF BookInv, BookLocal, CoinsRead, Traded, StreamStill, Holds, KeepsWork
<1>1. CASE Protect(p, c)
  <2>1. /\ pc[p] = "protect" /\ pc'[p] = "log" /\ UNCHANGED <<ledger, entered>>
        /\ ctx'[p] = [ctx[p] EXCEPT !.verdict = "fired", !.coins = @ \cup {CoinOf[c]}]
    <3>1. ctx'[p] = [ctx[p] EXCEPT !.verdict = "fired", !.coins = @ \cup {CoinOf[c]},
                                   !.trades = IF "protect" = "open" THEN @ + 1 ELSE @]
      BY <1>0, <1>1 DEF Protect, Fired, Note
    <3>2. [ctx[p] EXCEPT !.verdict = "fired", !.coins = @ \cup {CoinOf[c]},
                         !.trades = IF "protect" = "open" THEN @ + 1 ELSE @]
            = [ctx[p] EXCEPT !.verdict = "fired", !.coins = @ \cup {CoinOf[c]}]
      BY <1>0 DEF Context
    <3> QED BY <1>0, <1>1, <3>1, <3>2 DEF Protect, Fired, Goto, Cover, storeVars
  <2>2. ctx'[p].coins = ctx[p].coins \cup {CoinOf[c]} /\ ctx'[p].trades = ctx[p].trades
    BY <1>0, <2>1 DEF Context
  <2>3. /\ slice'[c] = IF slice[c] = "naked" THEN "covered" ELSE slice[c]
        /\ \A d \in Cands : d # c => slice'[d] = slice[d]
    BY <1>0, <1>1 DEF Protect, Cover
  <2>4. Secures(p, c)
    BY <1>0, <2>1, <2>2, <2>3 DEF Secures, SecuringStages
  <2> QED BY <1>0, <2>4, SecuresKeepsBook
<1>2. CASE ProtectFails(p, c)
  <2>1. Secures(p, c)
    BY <1>0, <1>2
    DEF ProtectFails, Goto, KeepHand, storeVars, bookVars, Secures, SecuringStages
  <2> QED BY <1>0, <2>1, SecuresKeepsBook
<1>3. CASE EmergencyClose(p, c)
  <2>1. /\ pc[p] = "flatten" /\ pc'[p] = "abort" /\ UNCHANGED <<ledger, entered>>
        /\ ctx'[p].coins = ctx[p].coins /\ ctx'[p].trades = ctx[p].trades
    BY <1>0, <1>3 DEF EmergencyClose, Goto, Note, Flatten, storeVars, bookVars, Context
  <2>2. \A d \in Cands : slice'[d] = slice[d] \/ slice'[d] = "flat"
    BY <1>0, <1>3 DEF EmergencyClose, Flatten, bookVars
  <2>3. Secures(p, c)
    BY <1>0, <2>1, <2>2 DEF Secures, SecuringStages
  <2> QED BY <1>0, <2>3, SecuresKeepsBook
<1>4. CASE Abort(p, c)
  <2>1. /\ pc[p] = "abort" /\ pc'[p] = "log" /\ ctx' = ctx /\ UNCHANGED <<slice, entered>>
        /\ ledger' = [ledger EXCEPT ![c] = ctx[p].verdict]
    BY <1>0, <1>4 DEF Abort, Goto, KeepHand, ResolveTrade, bookVars
  <2>2. ctx[p].verdict \in {"aborted", "abort_failed"}
    BY <2>1, Locals DEF TypeInv, LocalOK, AbortHasStatus
  <2>3. GivenUp(c)' /\ \A d \in Cands : d # c => ledger'[d] = ledger[d]
    BY <1>0, <2>1, <2>2 DEF GivenUp
  <2>4. Secures(p, c)
    BY <1>0, <2>1, <2>3 DEF Secures, SecuringStages
  <2> QED BY <1>0, <2>4, SecuresKeepsBook
<1> QED BY <1>1, <1>2, <1>3, <1>4, OpenRowKeepsBook DEF Securing

-----------------------------------------------------------------------------
(* The snapshot, the end of a pass, and the world around it. *)

LEMMA ReadBookKeepsBook ==
    ASSUME Alone, TypeInv, BookInv, NEW p \in Procs, ReadBook(p)
    PROVE  BookInv'
<1>0. /\ BookLocal(p) /\ Ceilings /\ TrackedIsCovered
      /\ pc[p] = "read" /\ pc'[p] = "queues" /\ UNCHANGED <<slice, ledger, entered, faults>>
      /\ ctx'[p].coins = LiveCoins /\ ctx'[p].trades = Cardinality(TradesToday)
  BY Functions DEF BookInv, ReadBook, Goto, Note, KeepEnv, storeVars, bookVars, Context
<1>1. NothingOpens /\ Live' = Live /\ TradesToday' = TradesToday
  BY <1>0 DEF NothingOpens, Live, TradesToday
<1>2. NakedRows' \subseteq NakedRows
  BY <1>0 DEF NakedRows, BeingSecured, Alone
<1>3. \A c \in Live : CoinOf[c] \in LiveCoins
  BY DEF LiveCoins
<1>4. LiveCoins \subseteq Traded
  BY DEF LiveCoins, Live, Traded
<1>5. TradesSeen(p)'
  BY <1>0, <1>1, FiniteSides DEF TradesSeen
<1>6. BookLocal(p)'
  BY <1>0, <1>1, <1>3, <1>4, <1>5
  DEF BookLocal, RowsOpen, CoinsRead, RowInHand, HeldSeen, RoomLeft, BudgetLeft, Resolver,
      ClosingOut, SecuringStages, Traded
<1> QED BY <1>0, <1>1, <1>2, <1>6, CeilingsKept, CoverKept DEF BookInv, Alone

\* What a process that has no pass running knows of the book: nothing.
LEMMA IdleKnowsNothing ==
    ASSUME NEW p \in Procs, pc[p] = "idle", ctx[p] = NoContext
    PROVE  BookLocal(p)
BY DEF BookLocal, RowsOpen, CoinsRead, RowInHand, HeldSeen, RoomLeft, TradesSeen,
       BudgetLeft, InBatch, Resolver, ClosingOut, SecuringStages, Early, NoContext

LEMMA LeaveKeepsBook ==
    ASSUME Alone, TypeInv, BookInv, NEW p \in Procs, EndPass(p) \/ Failing(p)
    PROVE  BookInv'
<1>0. /\ Ceilings /\ TrackedIsCovered /\ UNCHANGED <<slice, ledger, entered>>
      /\ pc'[p] = "idle" /\ ctx'[p] = NoContext /\ faults \in Nat
  BY Functions, LeaveEffect, FailingEffect
  DEF BookInv, EndPass, Leave, Note, storeVars, bookVars
<1>1. NothingOpens
  BY <1>0 DEF NothingOpens
<1>2. BookLocal(p)'
  BY <1>0
  DEF BookLocal, RowsOpen, CoinsRead, RowInHand, HeldSeen, RoomLeft, TradesSeen,
      BudgetLeft, InBatch, Resolver, ClosingOut, SecuringStages, Early, NoContext
<1>3. TrackedIsCovered'
  <2>1. CASE EndPass(p)
    <3>1. faults' = faults /\ pc[p] = "next"
      BY <2>1 DEF EndPass, At, KeepEnv
    <3>2. NakedRows' \subseteq NakedRows
      BY <1>0, <3>1 DEF NakedRows, BeingSecured, Alone
    <3> QED BY <1>0, <3>1, <3>2, CoverKept
  <2>2. CASE Failing(p)
    <3>1. faults' = faults + 1
      BY <2>2, FailingEffect
    <3>2. NakedRows' \subseteq NakedRows \cup {cand[p]}
      BY <1>0 DEF NakedRows, BeingSecured, Alone, Holds
    <3>3. Cardinality(NakedRows') <= Cardinality(NakedRows) + 1 /\ Cardinality(NakedRows') \in Nat
      BY <3>2, FiniteSides, GrownByOne
    <3> QED BY <1>0, <3>1, <3>3, FiniteSides DEF TrackedIsCovered
  <2> QED BY <2>1, <2>2
<1> QED BY <1>0, <1>1, <1>2, <1>3, CeilingsKept DEF BookInv, Alone

LEMMA EnvironmentKeepsBook ==
    ASSUME ~RestingMayFill, TypeInv, BookInv, Environment \/ UNCHANGED vars
    PROVE  BookInv'
<1>0. /\ Ceilings /\ TrackedIsCovered /\ UNCHANGED <<pc, cand, ctx, faults, ledger, entered>>
      /\ slice \in [Cands -> {"flat", "naked", "covered"}]
  BY EnvironmentEffect
  DEF BookInv, TypeInv, BookTypeOK, vars, storeVars, bookVars, passVars, Environment,
      Enqueue, TimePasses, Market, RestingFills, ExternalClose, Switch, EquityMoves,
      EnqueueRow, ComeDue, SetBreaker
<1>1. \A c \in Cands : slice'[c] = slice[c] \/ slice'[c] = "flat"
  BY <1>0
  DEF vars, bookVars, Environment, Enqueue, TimePasses, Market, RestingFills,
      ExternalClose, Switch, EquityMoves
<1>2. NothingOpens /\ Live' \subseteq Live /\ TradesToday' = TradesToday
  BY <1>0, <1>1 DEF NothingOpens, Live, TradesToday
<1>3. NakedRows' \subseteq NakedRows
  BY <1>0, <1>1 DEF NakedRows, BeingSecured, Holds
<1>4. ASSUME NEW p \in Procs
      PROVE  BookLocal(p)'
  <2>1. BookLocal(p)
    BY DEF BookInv
  <2>2. RowsOpen(p)' /\ CoinsRead(p)' /\ RowInHand(p)'
    BY <1>0, <1>2, <2>1 DEF BookLocal, RowsOpen, CoinsRead, RowInHand, OpenRows, Traded
  <2>3. HeldSeen(p)'
    BY <1>0, <1>2, <2>1 DEF BookLocal, HeldSeen, GivenUp, InBatch, Holds
  <2>4. RoomLeft(p)' /\ BudgetLeft(p)'
    BY <1>0, <2>1 DEF BookLocal, RoomLeft, BudgetLeft
  <2>5. TradesSeen(p)'
    BY <1>0, <1>2, <2>1 DEF BookLocal, TradesSeen, InBatch
  <2> QED BY <2>2, <2>3, <2>4, <2>5 DEF BookLocal
<1> QED BY <1>0, <1>2, <1>3, <1>4, CeilingsKept, CoverKept DEF BookInv

-----------------------------------------------------------------------------
LEMMA BookInvInit == Init => BookInv
<1> SUFFICES ASSUME Init PROVE BookInv
  OBVIOUS
<1>1. Live = {} /\ TradesToday = {} /\ NakedRows = {} /\ HeldCoins = {}
  BY DEF Init, BookInit, StoreInit, Live, TradesToday, NakedRows, HeldCoins
<1>2. MaxOpen \in Nat /\ MaxTrades \in Nat /\ faults \in Nat
  BY PassAssumption DEF PassAssumption, Init
<1>3. Ceilings /\ TrackedIsCovered
  BY <1>1, <1>2, FS_EmptySet
  DEF Ceilings, SliceEntered, OpenCapHolds, OnePerCoinHolds, DailyBudgetHolds,
      TrackedIsCovered
<1>4. \A p \in Procs : pc[p] = "idle" /\ ctx[p] = NoContext
  BY DEF Init
<1> QED BY <1>3, <1>4, IdleKnowsNothing DEF BookInv

LEMMA BookInvNext ==
    ASSUME Alone, ~RestingMayFill, TypeInv, EntryInv, BookInv, [Next]_vars
    PROVE  BookInv'
<1>1. ASSUME NEW p \in Procs, PassStep(p)
      PROVE  BookInv'
  <2>1. CASE ReadQueues(p) \/ TakeNew(p) \/ \E c \in Cands : SkipFired(p, c) \/ TakeDue(p, c)
    <3>1. faults' = faults
      BY <2>1, ReadQueuesEffect, TakeNewEffect, SkipFiredEffect, TakeDueEffect DEF StreamStill
    <3> QED BY <2>1, <3>1, QueueingIsQuiet, QuietKeepsBook
  <2>2. ASSUME NEW c \in Cands, Deciding(p, c)
        PROVE  BookInv'
    BY <2>2, DecidingIsQuiet, DecidingEffect, QuietKeepsBook DEF StreamStill
  <2>3. CASE Marking(p) \/ \E c \in Cands : Filing(p, c)
    <3>1. faults' = faults
      BY <2>3, ReadHwmEffect, HwmAheadEffect, AdvanceHwmEffect, LogEffect, ParkEffect,
         SettleEffect, MarkStatusEffect DEF StreamStill, Marking, Filing
    <3> QED BY <2>3, <3>1, FilingIsQuiet, QuietKeepsBook
  <2>4. CASE Resolving(p) \/ ReadBook(p) \/ EndPass(p)
    BY <2>4, ResolvingKeepsBook, ReadBookKeepsBook, LeaveKeepsBook
  <2>5. ASSUME NEW c \in Cands, Firing(p, c) \/ Securing(p, c)
        PROVE  BookInv'
    BY <2>5, FiringKeepsBook, SecuringKeepsBook
  <2> QED BY <1>1, <2>1, <2>2, <2>3, <2>4, <2>5 DEF PassStep, Queueing
<1>2. ASSUME NEW p \in Procs, Failing(p)
      PROVE  BookInv'
  BY <1>2, LeaveKeepsBook
<1> QED BY <1>1, <1>2, EnvironmentKeepsBook DEF Next

LEMMA BookInvAlways ==
    ASSUME Alone, ~RestingMayFill
    PROVE  Spec => []BookInv
<1>1. Init => BookInv
  BY BookInvInit
<1>2. TypeInv /\ EntryInv /\ BookInv /\ [Next]_vars => BookInv'
  BY BookInvNext
<1> QED BY <1>1, <1>2, EntryInvAlways, PTL DEF Spec

(* A row is booked as vanished only if its position really is gone: what    *)
(* resolve_open_trades read of the book is still all there is to find when  *)
(* it comes to the row, whatever closed in between (resolve.py).            *)
THEOREM VanishedRowsAreFlat ==
    ASSUME Alone, ~RestingMayFill
    PROVE  Spec => []VanishedIsFlat
<1>1. BookInv => VanishedIsFlat
  BY DEF BookInv, BookLocal, CoinsRead, VanishedIsFlat, At, Resolver
<1> QED BY <1>1, BookInvAlways, PTL

(* At most MaxOpen coins are held, through any crashes and restarts: an     *)
(* orphan of a crash is in the next snapshot, and counts (gate.py, the      *)
(* concurrent-positions check; runner.py open_coins).                       *)
THEOREM OpenCapIsKept ==
    ASSUME Alone, ~RestingMayFill
    PROVE  Spec => []OpenCapHolds
<1>1. BookInv => OpenCapHolds
  BY DEF BookInv, Ceilings
<1> QED BY <1>1, BookInvAlways, PTL

(* One position per coin, for entries the executor has not given up on      *)
(* (gate.py, the one-per-coin check).                                       *)
THEOREM OnePositionPerCoin ==
    ASSUME Alone, ~RestingMayFill
    PROVE  Spec => []OnePerCoinHolds
<1>1. BookInv => OnePerCoinHolds
  BY DEF BookInv, Ceilings
<1> QED BY <1>1, BookInvAlways, PTL

(* The day's rows never pass the day's budget, though the pass counts them  *)
(* once and then keeps its own count (gate.py max_trades_per_day;           *)
(* runner.py trades_today).                                                 *)
THEOREM DailyBudgetIsKept ==
    ASSUME Alone, ~RestingMayFill
    PROVE  Spec => []DailyBudgetHolds
<1>1. BookInv => DailyBudgetHolds
  BY DEF BookInv, Ceilings
<1> QED BY <1>1, BookInvAlways, PTL

(* Every naked tracked position costs a fault of its own: no sequence of    *)
(* closes, sweeps and aborts strips a position under an open row of its     *)
(* triggers (protect.py, resolve.py _cancel_after_close).                   *)
THEOREM TrackedStaysCovered ==
    ASSUME Alone, ~RestingMayFill
    PROVE  Spec => []TrackedIsCovered
<1>1. BookInv => TrackedIsCovered
  BY DEF BookInv
<1> QED BY <1>1, BookInvAlways, PTL
=============================================================================
