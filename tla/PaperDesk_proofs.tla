-------------------------- MODULE PaperDesk_proofs --------------------------
(***************************************************************************)
(* What desk_one checks of the paper desk, proved for any candidates,      *)
(* marks and rules, any number of passes and faults, and, where it holds   *)
(* there, any number of processes.                                         *)
(***************************************************************************)
EXTENDS PaperDesk, FiniteSetTheorems, WellFoundedInduction, TLAPS

Phases == {"judge", "rule", "resolve", "enter"}
Ordering == {"place", "fill"}
Steps == {"next", "stop", "claim", "target", "log"} \cup Ordering
Orderable == {"scale", "close", "resolve"} \cup Entries
Kinds == {"stop", "extend"} \cup Orderable
Outcomes == Statuses \ {"open"}

-----------------------------------------------------------------------------
(* Types. *)

Rows == [id : Nat, coin : Coins, side : Sides, entry : Int, sl : Int, initial_sl : Int,
         tp : Int, size : Nat, status : Statuses, realized : Int, scaled_out : BOOLEAN,
         parent : Nat, logged : BOOLEAN]
Jobs == [kind : Kinds, row : Rows \cup [id : Cands], size : Nat, price : Int,
         status : Outcomes \cup {""}, stop : Int, key : Kinds \X Nat \X Nat]
Books == UNION {[S -> Rows \cup Cands] : S \in SUBSET Nat}
Passes == [phase : Phases, step : Steps, marks : [Coins -> Quotes], book : Books,
           todo : SUBSET Nat, job : Jobs \cup {NoJob}, moved : SUBSET Nat,
           held : SUBSET Coins]
Orders == [coin : Coins, side : Sides, size : Nat, price : Int, reduce_only : BOOLEAN]

LedgerOK ==
    /\ trades \in Seq(Rows)
    /\ \A i \in DOMAIN trades :
           trades[i].id = i /\ (trades[i].status = "open" => trades[i].realized = 0)
RunOK == run \in [Procs -> Passes \cup {Idle}]
\* An average over a fill of nothing is no number, nor is what is realized against it.
Position(held) == held \in [side : Sides, size : Nat, entry : {held.entry}]
Fill(f) ==
    f = NoFill \/ (/\ f \in [step : {"read", "add", "write", "filled"}, order : Orders,
                             held : {f.held}, sum : {f.sum}]
                   /\ Position(f.held))
BookOK ==
    /\ position = [c \in Coins |-> position[c]] /\ \A c \in Coins : Position(position[c])
    /\ fill = [p \in Procs |-> fill[p]] /\ \A p \in Procs : Fill(fill[p])
CountsOK == passes \in 0..MaxPasses /\ faults \in 0..MaxFaults

TypeInv == LedgerOK /\ RunOK /\ BookOK /\ CountsOK

LEMMA Constants ==
    /\ Cands \subseteq Nat
    /\ Setup \in [Cands -> [coin : Coins, side : Sides, sl : Nat, tp : Nat, size : Nat \ {0}]]
    /\ StopLevels \subseteq Nat /\ TargetLevels \subseteq Nat /\ AddSizes \subseteq Nat
    /\ Marks \subseteq Nat \ {0} /\ NoMark \notin Marks
    /\ MaxPasses \in Nat /\ MaxFaults \in Nat
<1>1. Marks \subseteq Nat \ {0}
  BY RulesAssumption DEF RulesAssumption
<1> QED BY <1>1, DeskAssumption DEF DeskAssumption

LEMMA Zero == 0 \in Nat /\ 0 \in Int
OBVIOUS

-----------------------------------------------------------------------------
(* The moves of a process, field by field. *)

OthersKept(p) == \A q \in Procs \ {p} : run'[q] = run[q]
BookKept(p) ==
    /\ run'[p].phase = run[p].phase /\ run'[p].marks = run[p].marks
    /\ run'[p].book = run[p].book

LEMMA Working ==
    ASSUME RunOK, NEW p \in Procs, run[p].phase # "idle"
    PROVE  run[p] \in Passes
BY DEF RunOK, Idle

LEMMA Enters ==
    ASSUME RunOK, NEW p \in Procs, NEW phase \in Phases, NEW marks \in [Coins -> Quotes],
           NEW book \in Books, NEW moved \in SUBSET Nat, EnterPhase(p, phase, marks, book, moved)
    PROVE  /\ RunOK' /\ OthersKept(p)
           /\ run'[p] \in Passes /\ run'[p].phase = phase /\ run'[p].step = "next"
           /\ run'[p].marks = marks /\ run'[p].book = book /\ run'[p].todo = DOMAIN book
           /\ run'[p].job = NoJob /\ run'[p].moved = moved
<1> DEFINE x == [phase |-> phase, step |-> "next", marks |-> marks, book |-> book,
                 todo |-> DOMAIN book, job |-> NoJob, moved |-> moved, held |-> Held]
<1>1. DOMAIN book \subseteq Nat
  BY DEF Books
<1>2. x \in Passes
  BY <1>1 DEF Passes, Steps, Held
<1>3. run' = [run EXCEPT ![p] = x]
  BY DEF EnterPhase
<1> HIDE DEF x
<1>4. run'[p] = x /\ OthersKept(p) /\ RunOK'
  BY <1>2, <1>3 DEF RunOK, OthersKept
<1> QED BY <1>2, <1>4 DEF x

LEMMA Starts ==
    ASSUME RunOK, NEW p \in Procs, run[p].phase # "idle",
           NEW step \in Steps, NEW job \in Jobs, Start(p, step, job)
    PROVE  /\ RunOK' /\ OthersKept(p) /\ BookKept(p)
           /\ run'[p] \in Passes /\ run'[p].step = step /\ run'[p].job = job
           /\ run'[p].todo = run[p].todo \ {Turn(p)} /\ run'[p].moved = run[p].moved
<1>1. run[p] \in Passes
  BY Working
<1> DEFINE x == [run[p] EXCEPT !.step = step, !.todo = @ \ {Turn(p)}, !.job = job]
<1>2. x \in Passes /\ run' = [run EXCEPT ![p] = x]
  BY <1>1 DEF Passes, Start
<1>3. /\ x.step = step /\ x.job = job /\ x.todo = run[p].todo \ {Turn(p)}
      /\ x.moved = run[p].moved /\ x.phase = run[p].phase /\ x.marks = run[p].marks
      /\ x.book = run[p].book
  BY <1>1 DEF Passes
<1> HIDE DEF x
<1>4. run'[p] = x /\ OthersKept(p) /\ RunOK'
  BY <1>2 DEF RunOK, OthersKept
<1> QED BY <1>2, <1>3, <1>4 DEF BookKept

LEMMA Goes ==
    ASSUME RunOK, NEW p \in Procs, run[p].phase # "idle", NEW step \in Steps, Goto(p, step)
    PROVE  /\ RunOK' /\ OthersKept(p) /\ BookKept(p)
           /\ run'[p] \in Passes /\ run'[p].step = step /\ run'[p].job = run[p].job
           /\ run'[p].todo = run[p].todo /\ run'[p].moved = run[p].moved
<1>1. run[p] \in Passes
  BY Working
<1> DEFINE x == [run[p] EXCEPT !.step = step]
<1>2. x \in Passes /\ run' = [run EXCEPT ![p] = x]
  BY <1>1 DEF Passes, Goto
<1>3. /\ x.step = step /\ x.job = run[p].job /\ x.todo = run[p].todo
      /\ x.moved = run[p].moved /\ x.phase = run[p].phase /\ x.marks = run[p].marks
      /\ x.book = run[p].book
  BY <1>1 DEF Passes
<1> HIDE DEF x
<1>4. run'[p] = x /\ OthersKept(p) /\ RunOK'
  BY <1>2 DEF RunOK, OthersKept
<1> QED BY <1>2, <1>3, <1>4 DEF BookKept

\* Onward, with what a step may write of the rows it moved or the coins it entered.
LEMMA GoesOn ==
    ASSUME RunOK, NEW p \in Procs, run[p].phase # "idle",
           \/ run' = Onward(p)
           \/ \E S \in SUBSET Nat : run' = [Onward(p) EXCEPT ![p].moved = @ \cup S]
           \/ \E S \in SUBSET Coins : run' = [Onward(p) EXCEPT ![p].held = @ \cup S]
    PROVE  /\ RunOK' /\ OthersKept(p) /\ BookKept(p)
           /\ run'[p] \in Passes /\ run'[p].step = "next" /\ run'[p].job = NoJob
           /\ run'[p].todo = run[p].todo
<1>1. run[p] \in Passes
  BY Working
<1> DEFINE x == [run[p] EXCEPT !.step = "next", !.job = NoJob]
<1>2. x \in Passes /\ Onward(p) = [run EXCEPT ![p] = x]
  BY <1>1 DEF Passes, Onward, Steps
<1>3. /\ x.step = "next" /\ x.job = NoJob /\ x.todo = run[p].todo
      /\ x.phase = run[p].phase /\ x.marks = run[p].marks /\ x.book = run[p].book
  BY <1>1 DEF Passes
<1> HIDE DEF x
<1> DEFINE Leaves(y) == /\ run' = [run EXCEPT ![p] = y]
                        /\ y \in Passes
                        /\ y.step = x.step /\ y.job = x.job /\ y.todo = x.todo
                        /\ y.phase = x.phase /\ y.marks = x.marks /\ y.book = x.book
<1>4. PICK y : Leaves(y)
  <2>1. CASE run' = Onward(p)
    BY <1>2, <2>1
  <2>2. ASSUME NEW S \in SUBSET Nat, run' = [Onward(p) EXCEPT ![p].moved = @ \cup S]
        PROVE  \E y : Leaves(y)
    <3> DEFINE y == [x EXCEPT !.moved = @ \cup S]
    <3>1. run' = [run EXCEPT ![p] = y]
      BY <1>2, <2>2 DEF RunOK
    <3>2. /\ y \in Passes /\ y.step = x.step /\ y.job = x.job /\ y.todo = x.todo
          /\ y.phase = x.phase /\ y.marks = x.marks /\ y.book = x.book
      BY <1>2 DEF Passes
    <3> QED BY <3>1, <3>2
  <2>3. ASSUME NEW S \in SUBSET Coins, run' = [Onward(p) EXCEPT ![p].held = @ \cup S]
        PROVE  \E y : Leaves(y)
    <3> DEFINE y == [x EXCEPT !.held = @ \cup S]
    <3>1. run' = [run EXCEPT ![p] = y]
      BY <1>2, <2>3 DEF RunOK
    <3>2. /\ y \in Passes /\ y.step = x.step /\ y.job = x.job /\ y.todo = x.todo
          /\ y.phase = x.phase /\ y.marks = x.marks /\ y.book = x.book
      BY <1>2 DEF Passes
    <3> QED BY <3>1, <3>2
  <2> QED BY <2>1, <2>2, <2>3
<1>5. run'[p] = y /\ OthersKept(p) /\ RunOK'
  BY <1>4 DEF RunOK, OthersKept
<1> QED BY <1>3, <1>4, <1>5 DEF BookKept

\* After a partial the stop planned with it may still be to move.
LEMMA GoesAfter ==
    ASSUME RunOK, NEW p \in Procs, run[p].phase # "idle", run[p].job \in Jobs, run' = AfterJob(p)
    PROVE  /\ RunOK' /\ OthersKept(p) /\ BookKept(p) /\ run'[p] \in Passes
           /\ run'[p].todo = run[p].todo
           /\ \/ run'[p].step = "next" /\ run'[p].job = NoJob
              \/ /\ run'[p].step = "stop" /\ run'[p].job = [run[p].job EXCEPT !.kind = "stop"]
                 /\ run[p].job.kind = "scale" /\ run[p].job.stop # NoStop
                 /\ run'[p].moved = run[p].moved
<1>1. run[p] \in Passes
  BY Working
<1>2. CASE run' = Onward(p)
  BY <1>2, GoesOn
<1>3. CASE run[p].job.kind = "scale" /\ run[p].job.stop # NoStop
  <2> DEFINE x == [run[p] EXCEPT !.step = "stop", !.job = [@ EXCEPT !.kind = "stop"]]
  <2>1. [run[p].job EXCEPT !.kind = "stop"] \in Jobs
    BY DEF Jobs, Kinds
  <2>2. run' = [run EXCEPT ![p] = x]
    BY <1>1, <1>3 DEF AfterJob, Passes
  <2>3. x \in Passes
    BY <1>1, <2>1 DEF Passes, Steps
  <2>4. /\ x.step = "stop" /\ x.job = [run[p].job EXCEPT !.kind = "stop"]
        /\ x.todo = run[p].todo /\ x.moved = run[p].moved /\ x.phase = run[p].phase
        /\ x.marks = run[p].marks /\ x.book = run[p].book
    BY <1>1 DEF Passes
  <2> HIDE DEF x
  <2>5. run'[p] = x /\ OthersKept(p) /\ RunOK'
    BY <2>2, <2>3 DEF RunOK, OthersKept
  <2> QED BY <1>3, <2>3, <2>4, <2>5 DEF BookKept
<1> QED BY <1>2, <1>3 DEF AfterJob

-----------------------------------------------------------------------------
(* The ledger: rows are added, and a row keeps its coin, its side and its entry. *)

Grows ==
    /\ DOMAIN trades \subseteq DOMAIN trades'
    /\ \A i \in DOMAIN trades :
           /\ trades'[i].side = trades[i].side /\ trades'[i].coin = trades[i].coin
           /\ trades'[i].entry = trades[i].entry

LEMMA RowFacts ==
    ASSUME LedgerOK
    PROVE  /\ DOMAIN trades = 1..Len(trades) /\ Len(trades) \in Nat
           /\ \A i \in DOMAIN trades : i \in Nat /\ trades[i] \in Rows /\ trades[i].id = i
BY DEF LedgerOK

LEMMA Keeps ==
    ASSUME LedgerOK, trades' = trades
    PROVE  LedgerOK' /\ Grows
BY DEF LedgerOK, Grows

LEMMA Adds ==
    ASSUME LedgerOK, NEW row \in Rows, row.id = Len(trades) + 1, row.realized = 0,
           trades' = Append(trades, row)
    PROVE  /\ LedgerOK' /\ Grows
           /\ DOMAIN trades' = DOMAIN trades \cup {Len(trades) + 1}
           /\ Len(trades) + 1 \notin DOMAIN trades
           /\ trades'[Len(trades) + 1] = row
           /\ \A i \in DOMAIN trades : trades'[i] = trades[i]
<1>1. trades \in Seq(Rows)
  BY DEF LedgerOK
<1>2. /\ trades' \in Seq(Rows) /\ DOMAIN trades = 1..Len(trades) /\ Len(trades) \in Nat
      /\ DOMAIN trades' = 1..(Len(trades) + 1)
      /\ trades'[Len(trades) + 1] = row
      /\ \A i \in 1..Len(trades) : trades'[i] = trades[i]
  BY <1>1
<1>3. \A i \in DOMAIN trades' : i \in DOMAIN trades \/ i = Len(trades) + 1
  BY <1>2
<1>4. LedgerOK'
  BY <1>2, <1>3 DEF LedgerOK
<1> QED BY <1>2, <1>3, <1>4 DEF Grows

LEMMA Writes ==
    ASSUME LedgerOK, NEW i \in DOMAIN trades, NEW row \in Rows, row.id = i,
           row.status = "open" => row.realized = 0,
           row.side = trades[i].side, row.coin = trades[i].coin, row.entry = trades[i].entry,
           trades' = [trades EXCEPT ![i] = row]
    PROVE  /\ LedgerOK' /\ Grows /\ DOMAIN trades' = DOMAIN trades
           /\ trades'[i] = row
           /\ \A j \in DOMAIN trades : j # i => trades'[j] = trades[j]
<1>1. trades \in Seq(Rows)
  BY DEF LedgerOK
<1>2. /\ trades' \in Seq(Rows) /\ DOMAIN trades' = DOMAIN trades
      /\ trades'[i] = row
      /\ \A j \in DOMAIN trades : j # i => trades'[j] = trades[j]
  BY <1>1
<1>3. LedgerOK'
  BY <1>2 DEF LedgerOK
<1> QED BY <1>2, <1>3 DEF Grows

-----------------------------------------------------------------------------
(* What a process has in memory, against the ledger t. *)

Known(row, t) ==
    /\ row \in Rows /\ row.id \in DOMAIN t
    /\ row.side = t[row.id].side /\ row.coin = t[row.id].coin

ReadOK(x, t) ==
    \A i \in x.todo :
        IF x.phase = "enter" THEN i \in Cands /\ x.book[i] = i
        ELSE Known(x.book[i], t) /\ x.book[i].id = i

\* The purposes a step may have.
Purposes(step) ==
    CASE step = "claim" -> Orderable \ {"resolve"}
      [] step \in Ordering -> Orderable
      [] step = "stop" -> {"stop", "add"}
      [] step = "target" -> {"extend"}
      [] step = "log" -> {"add"}
      [] OTHER -> {}

NoProfit(job) == job.status = "lost" => Pnl(job.row, job.size, job.price) <= 0

JobOK(job, step, t) ==
    /\ job \in Jobs /\ job.kind \in Purposes(step)
    /\ IF job.kind = "enter" THEN job.row \in [id : Cands] ELSE Known(job.row, t)
    /\ job.kind = "scale" => job.key = <<"scale", job.row.id, 0>>
    /\ step \in {"claim", "place"} /\ job.kind \in Entries => job.key[1] \in Entries
    /\ job.kind \in {"close", "resolve"} => job.status \in Outcomes /\ NoProfit(job)

Local(x, t) ==
    x = Idle \/ (/\ x \in Passes /\ ReadOK(x, t)
                 /\ IF x.step = "next" THEN x.job = NoJob ELSE JobOK(x.job, x.step, t))

RunInv == \A p \in Procs : Local(run[p], trades)

LEMMA KnownStays ==
    ASSUME Grows, NEW row, Known(row, trades)
    PROVE  Known(row, trades')
BY DEF Grows, Known

LEMMA LocalStays ==
    ASSUME Grows, NEW x, Local(x, trades)
    PROVE  Local(x, trades')
<1>1. CASE x = Idle
  BY <1>1 DEF Local
<1>2. CASE x # Idle
  <2>1. /\ x \in Passes /\ ReadOK(x, trades)
        /\ IF x.step = "next" THEN x.job = NoJob ELSE JobOK(x.job, x.step, trades)
    BY <1>2 DEF Local
  <2>2. ReadOK(x, trades')
    BY <2>1, KnownStays DEF ReadOK
  <2>3. JobOK(x.job, x.step, trades) => JobOK(x.job, x.step, trades')
    <3>1. Known(x.job.row, trades) => Known(x.job.row, trades')
      BY KnownStays
    <3> QED BY <3>1 DEF JobOK
  <2> QED BY <1>2, <2>1, <2>2, <2>3 DEF Local
<1> QED BY <1>1, <1>2

\* One process moves: only its own memory needs a look.
LEMMA OneMoves ==
    ASSUME RunInv, Grows, NEW p \in Procs, OthersKept(p), Local(run'[p], trades')
    PROVE  RunInv'
<1>1. ASSUME NEW q \in Procs, q # p
      PROVE  Local(run'[q], trades')
  <2>1. Local(run[q], trades) /\ run'[q] = run[q]
    BY <1>1 DEF RunInv, OthersKept
  <2>2. Local(run[q], trades')
    BY <2>1, LocalStays
  <2> QED BY <2>1, <2>2
<1> QED BY <1>1 DEF RunInv

-----------------------------------------------------------------------------
(* The row or candidate whose turn it is. *)

LEMMA TurnIsOpen ==
    ASSUME RunOK, NEW p \in Procs, run[p].phase # "idle", ~AtEnd(p)
    PROVE  Turn(p) \in run[p].todo
<1>1. run[p].todo \subseteq Nat /\ run[p].todo # {}
  BY Working DEF AtEnd, Passes
<1>2. PICK i \in run[p].todo : \A j \in run[p].todo : <<j, i>> \notin OpToRel(<, Nat)
  BY <1>1, NatLessThanWellFounded, WFMin
<1>3. ASSUME NEW j \in run[p].todo PROVE i <= j
  <2>1. i \in Nat /\ j \in Nat /\ <<j, i>> \in Nat \X Nat
    BY <1>1
  <2>2. j < i => <<j, i>> \in OpToRel(<, Nat)
    BY <2>1 DEF OpToRel
  <2>3. ~ (j < i)
    BY <1>2, <2>2, Zenon
  <2> QED BY <2>1, <2>3
<1> QED BY <1>3 DEF Turn

LEMMA CurrentRow ==
    ASSUME RunOK, RunInv, NEW p \in Procs, NEW phase \in Phases \ {"enter"}, In(p, phase), ~AtEnd(p)
    PROVE  /\ run[p].phase # "idle" /\ run[p] \in Passes
           /\ Known(Current(p), trades) /\ Current(p).id = Turn(p) /\ Turn(p) \in run[p].todo
           /\ Current(p).coin \in Coins /\ MarkOf(p, Current(p).coin) \in Quotes
<1>1. run[p].phase # "idle"
  BY DEF In, Phases
<1>2. run[p] \in Passes /\ Turn(p) \in run[p].todo
  BY <1>1, TurnIsOpen, Working
<1>3. ReadOK(run[p], trades)
  BY <1>1 DEF RunInv, Local, Idle
<1>4. Known(Current(p), trades) /\ Current(p).id = Turn(p)
  BY <1>2, <1>3 DEF ReadOK, In, Current
<1>5. Current(p).coin \in Coins
  BY <1>4 DEF Known, Rows
<1> QED BY <1>1, <1>2, <1>4, <1>5 DEF MarkOf, Passes

-----------------------------------------------------------------------------
(* The rules, on any row and mark. *)

LEMMA SideCases == Sides = {1, -1}
BY DEF Sides, Long, Short

LEMMA RiskIsNat ==
    ASSUME NEW row \in Rows
    PROVE  InitialRisk(row) \in Nat
<1>1. row.entry \in Int /\ row.initial_sl \in Int
  BY DEF Rows
<1> QED BY <1>1 DEF InitialRisk, Magnitude

LEMMA PnlIsInt ==
    ASSUME NEW row \in Rows, NEW size \in Nat, NEW exit \in Int
    PROVE  Pnl(row, size, exit) \in Int
<1>1. row.entry \in Int /\ row.side \in {1, -1}
  BY SideCases DEF Rows
<1>2. row.side * (exit - row.entry) \in Int
  BY <1>1
<1> QED BY <1>2 DEF Pnl

LEMMA Part ==
    ASSUME NEW n \in Nat, NEW k \in Nat \ {0}
    PROVE  n \div k \in Nat /\ n \div k <= n
OBVIOUS

\* A partial is no more than the row, at a level that is a price.
LEMMA ScaleOutFits ==
    ASSUME NEW row \in Rows, NEW mark \in Marks, NEW part \in ScaleOut(row, mark)
    PROVE  part.size \in Nat /\ part.size <= row.size /\ part.level \in Int
<1>1. row.size \in Nat /\ row.entry \in Int /\ row.side \in {1, -1} /\ ScaleOutParts \in Nat \ {0}
      /\ ScaleOutR \in Nat
  BY SideCases, RulesAssumption DEF Rows, RulesAssumption
<1>2. /\ part.size = row.size \div ScaleOutParts
      /\ part.level = row.entry + row.side * ((ScaleOutR * InitialRisk(row)) \div 100)
  BY DEF ScaleOut
<1>3. ScaleOutR * InitialRisk(row) \in Nat
  BY <1>1, RiskIsNat
<1>4. (ScaleOutR * InitialRisk(row)) \div 100 \in Nat
  BY <1>3, Part
<1>5. part.level \in Int
  BY <1>1, <1>2, <1>4
<1> QED BY <1>1, <1>2, <1>5, Part

\* The stop the rules move to is past the row's own and short of the mark.
LEMMA MoveStopRatchets ==
    ASSUME NEW row \in Rows, NEW mark \in Marks, NEW stop \in MoveStop(row, mark)
    PROVE  /\ stop \in Int
           /\ row.side * (stop - row.sl) > 0 /\ row.side * (mark - stop) > 0
<1>1. row.entry \in Int /\ row.side \in {1, -1} /\ mark \in Int /\ BreakevenBufferR \in Nat
  BY SideCases, RulesAssumption DEF Rows, RulesAssumption
<1>2. stop \in StopProposals(row, mark) /\ Ratchets(row, mark, stop)
  BY DEF MoveStop
<1>3. Breakeven(row) \in Int
  <2>1. BreakevenBufferR * InitialRisk(row) \in Nat
    BY <1>1, RiskIsNat
  <2>2. (BreakevenBufferR * InitialRisk(row)) \div 100 \in Nat
    BY <2>1, Part
  <2> QED BY <1>1, <2>2 DEF Breakeven
<1>4. TrailDistance[mark] # NoTrail => Trail(row, mark) \in Int
  <2>1. TrailDistance[mark] # NoTrail => TrailDistance[mark] \in Nat
    BY RulesAssumption DEF RulesAssumption
  <2> QED BY <1>1, <2>1 DEF Trail
<1>5. stop \in Int
  BY <1>2, <1>3, <1>4 DEF StopProposals
<1> QED BY <1>2, <1>5 DEF Ratchets

\* What closes a row: a price, an outcome, and no profit where it is booked lost.
LEMMA DueIsFair ==
    ASSUME NEW row \in Rows, NEW mark \in Marks, NEW aged \in BOOLEAN,
           NEW due \in Classify(row, mark, aged)
    PROVE  /\ due.status \in Outcomes /\ due.level \in Int
           /\ due.status = "lost" => Pnl(row, row.size, due.level) <= 0
<1>1. /\ row.entry \in Int /\ row.sl \in Int /\ row.tp \in Int /\ row.size \in Nat
      /\ row.side \in {1, -1} /\ mark \in Int
  BY SideCases, RulesAssumption DEF Rows, RulesAssumption
<1>2. CASE due = [status |-> StopStatus(row), level |-> row.sl]
  <2>1. due.status \in Outcomes /\ due.level = row.sl
    BY <1>2 DEF StopStatus, Outcomes, Statuses
  <2>2. due.status = "lost" => ~(row.side * (row.sl - row.entry) > 0)
    BY <1>2 DEF StopStatus
  <2>3. row.side * (row.sl - row.entry) \in Int
    BY <1>1
  <2>4. ASSUME due.status = "lost" PROVE row.side * (row.sl - row.entry) * row.size <= 0
    <3> DEFINE gain == row.side * (row.sl - row.entry)
    <3>1. gain \in Int /\ gain <= 0
      BY <2>2, <2>3, <2>4
    <3> HIDE DEF gain
    <3>2. gain * row.size <= 0
      BY <1>1, <3>1
    <3> QED BY <3>2 DEF gain
  <2> QED BY <1>1, <2>1, <2>4 DEF Pnl
<1>3. CASE due.status \in {"won", "expired"} /\ due.level \in {row.tp, mark}
  BY <1>1, <1>3 DEF Outcomes, Statuses
<1> QED BY <1>2, <1>3 DEF Classify

LEMMA CloseIsFair ==
    ASSUME NEW pnl \in Int
    PROVE  CloseStatus(pnl) \in Outcomes /\ (CloseStatus(pnl) = "lost" => pnl <= 0)
BY DEF CloseStatus, Outcomes, Statuses

-----------------------------------------------------------------------------
(* What a process sets out to do. *)

\* The job has a stop to move to.
Moving(job) == job.kind \in {"stop", "add"} \/ (job.kind = "scale" /\ job.stop # NoStop)
Better(row, stop) == row.side * (stop - row.sl) > 0
ShortOf(row, mark, stop) == row.side * (mark - stop) > 0

Plan(p, step, job) ==
    /\ Start(p, step, job) /\ run[p].phase # "idle" /\ run[p].step = "next" /\ ~AtEnd(p)
    /\ step \in {"stop", "claim", "target", "place"} /\ JobOK(job, step, trades)
    /\ IF run[p].phase = "enter" THEN job.kind = "enter"
       ELSE job.kind # "enter" /\ job.row = Current(p) /\ MarkOf(p, job.row.coin) \in Marks
    /\ run[p].phase = "rule" => job.kind \in {"stop", "scale"}
    /\ run[p].phase = "resolve" <=> job.kind = "resolve"
    /\ step = "place" <=> job.kind = "resolve"
    /\ job.kind = "scale" => step = "claim" /\ job.size <= job.row.size
    /\ Moving(job) => Better(job.row, job.stop)
    /\ Moving(job) /\ run[p].phase = "rule" =>
           ShortOf(job.row, MarkOf(p, job.row.coin), job.stop)

Judge(p) == JudgeTighten(p) \/ JudgeReduce(p) \/ JudgeClose(p) \/ JudgeExtend(p) \/ JudgeAdd(p)

LEMMA PurposesAre ==
    /\ Purposes("claim") = {"scale", "close", "enter", "add"}
    /\ Purposes("place") = {"scale", "close", "resolve", "enter", "add"}
    /\ Purposes("fill") = Purposes("place")
    /\ Purposes("stop") = {"stop", "add"} /\ Purposes("target") = {"extend"}
    /\ Purposes("log") = {"add"} /\ Purposes("next") = {}
    /\ Kinds = {"stop", "extend", "scale", "close", "resolve", "enter", "add"}
BY DEF Purposes, Kinds, Orderable, Ordering, Entries

LEMMA Numbers ==
    /\ 0 \in Nat /\ 0 \in Int /\ NoStop \in Int /\ "" \in Outcomes \cup {""}
    /\ StopLevels \subseteq Int /\ TargetLevels \subseteq Int /\ Marks \subseteq Int
BY Constants DEF NoStop

LEMMA RowJob ==
    ASSUME NEW kind \in Kinds \ {"enter"}, NEW row, Known(row, trades), LedgerOK,
           NEW size \in Nat, NEW price \in Int, NEW status \in Outcomes \cup {""},
           NEW stop \in Int, NEW step, kind \in Purposes(step),
           kind \in {"close", "resolve"} =>
               status \in Outcomes /\ (status = "lost" => Pnl(row, size, price) <= 0)
    PROVE  JobOK(Job(kind, row, size, price, status, stop), step, trades)
<1>1. row \in Rows /\ row.id \in Nat
  BY DEF Known, Rows
<1>2. Job(kind, row, size, price, status, stop) \in Jobs
  BY <1>1 DEF Job, Jobs
<1> QED BY <1>2 DEF JobOK, Job, NoProfit, Entries

LEMMA JudgePlans ==
    ASSUME LedgerOK, RunOK, RunInv, NEW p \in Procs, Judge(p)
    PROVE  \E step \in Steps, job \in Jobs : Plan(p, step, job)
<1> DEFINE row == Current(p)
           mark == MarkOf(p, row.coin)
<1>1. Judging(p)
  BY DEF Judge, JudgeTighten, JudgeReduce, JudgeClose, JudgeExtend, JudgeAdd
<1>2. In(p, "judge") /\ ~AtEnd(p) /\ mark # NoMark
  BY <1>1 DEF Judging
<1>3. /\ run[p].phase = "judge" /\ run[p].step = "next"
      /\ Known(row, trades) /\ row \in Rows /\ mark \in Marks /\ mark \in Int
      /\ row.size \in Nat /\ 0 \in Nat /\ row.coin \in Coins
  <2>1. run[p].phase = "judge" /\ run[p].step = "next" /\ "judge" \in Phases \ {"enter"}
    BY <1>2 DEF In, Phases
  <2>2. Known(row, trades) /\ row.coin \in Coins /\ mark \in Quotes
    BY <1>2, <2>1, CurrentRow
  <2>3. row \in Rows /\ row.size \in Nat
    BY <2>2 DEF Known, Rows
  <2>4. mark \in Marks /\ mark \in Int
    <3>1. mark \in Marks
      BY <1>2, <2>2 DEF Quotes
    <3> QED BY <3>1, Numbers
  <2> QED BY <2>1, <2>2, <2>3, <2>4
<1> HIDE DEF row, mark
<1>4. ASSUME NEW step \in Steps, NEW job \in Jobs, Start(p, step, job), JobOK(job, step, trades),
             step \in {"stop", "claim", "target"}, job.row = row,
             job.kind \in {"stop", "scale", "close", "extend", "add"},
             job.kind = "scale" => step = "claim" /\ job.size <= row.size,
             Moving(job) => Better(row, job.stop)
      PROVE  Plan(p, step, job)
  BY <1>2, <1>3, <1>4 DEF Plan, row, mark
<1>5. CASE JudgeTighten(p)
  <2>1. PICK stop \in StopLevels :
            /\ MayTighten(row, mark, stop)
            /\ Start(p, "stop", Job("stop", row, 0, 0, "", stop))
    BY <1>5 DEF JudgeTighten, row, mark
  <2> DEFINE job == Job("stop", row, 0, 0, "", stop)
  <2>2. JobOK(job, "stop", trades)
    BY <1>3, RowJob, PurposesAre, Numbers, Constants
  <2>3. job \in Jobs /\ job.row = row /\ job.kind = "stop" /\ job.stop = stop
    BY <2>2 DEF JobOK, Job
  <2>4. Better(row, stop)
    BY <2>1 DEF MayTighten, Ratchets, Better
  <2> QED BY <1>4, <2>1, <2>2, <2>3, <2>4 DEF Steps
<1>6. CASE JudgeReduce(p)
  <2> DEFINE job == Job("scale", row, row.size \div 2, mark, "", NoStop)
  <2>1. Start(p, "claim", job)
    BY <1>6 DEF JudgeReduce, row, mark
  <2>2. row.size \div 2 \in Nat /\ row.size \div 2 <= row.size
    BY <1>3, Part
  <2>3. JobOK(job, "claim", trades)
    BY <1>3, <2>2, RowJob, PurposesAre, Numbers
  <2>4. /\ job \in Jobs /\ job.row = row /\ job.kind = "scale" /\ job.stop = NoStop
        /\ job.size = row.size \div 2
    BY <2>3 DEF JobOK, Job
  <2> QED BY <1>4, <2>1, <2>2, <2>3, <2>4 DEF Steps, Moving
<1>7. CASE JudgeClose(p)
  <2> DEFINE status == CloseStatus(Pnl(row, row.size, mark))
             job == Job("close", row, row.size, mark, status, NoStop)
  <2>1. Start(p, "claim", job)
    BY <1>7 DEF JudgeClose, row, mark
  <2>2. status \in Outcomes /\ (status = "lost" => Pnl(row, row.size, mark) <= 0)
    BY <1>3, PnlIsInt, CloseIsFair
  <2> HIDE DEF status
  <2>3. JobOK(job, "claim", trades)
    BY <1>3, <2>2, RowJob, PurposesAre, Numbers
  <2>4. job \in Jobs /\ job.row = row /\ job.kind = "close"
    BY <2>3 DEF JobOK, Job
  <2> QED BY <1>4, <2>1, <2>3, <2>4 DEF Steps, Moving
<1>8. CASE JudgeExtend(p)
  <2>1. PICK tp \in TargetLevels : Start(p, "target", Job("extend", row, 0, tp, "", NoStop))
    BY <1>8 DEF JudgeExtend, row
  <2> DEFINE job == Job("extend", row, 0, tp, "", NoStop)
  <2>2. JobOK(job, "target", trades)
    BY <1>3, RowJob, PurposesAre, Numbers
  <2>3. job \in Jobs /\ job.row = row /\ job.kind = "extend"
    BY <2>2 DEF JobOK, Job
  <2> QED BY <1>4, <2>1, <2>2, <2>3 DEF Steps, Moving
<1>9. CASE JudgeAdd(p)
  <2>1. PICK stop \in StopLevels, size \in AddSizes :
            /\ MayAdd(row, mark, stop, size, CoinSize(run[p].book, row.coin))
            /\ Start(p, "stop", Job("add", row, size, 0, "", stop))
    BY <1>9 DEF JudgeAdd, row, mark
  <2> DEFINE job == Job("add", row, size, 0, "", stop)
  <2>2. JobOK(job, "stop", trades)
    BY <1>3, RowJob, PurposesAre, Numbers, Constants
  <2>3. job \in Jobs /\ job.row = row /\ job.kind = "add" /\ job.stop = stop
    BY <2>2 DEF JobOK, Job
  <2>4. Better(row, stop)
    BY <2>1 DEF MayAdd, Better
  <2> QED BY <1>4, <2>1, <2>2, <2>3, <2>4 DEF Steps
<1> QED BY <1>5, <1>6, <1>7, <1>8, <1>9 DEF Judge

LEMMA RulePlans ==
    ASSUME LedgerOK, RunOK, RunInv, NEW p \in Procs, RuleDue(p)
    PROVE  \E step \in Steps, job \in Jobs : Plan(p, step, job)
<1> DEFINE row == Current(p)
           mark == MarkOf(p, row.coin)
<1>2. In(p, "rule") /\ ~AtEnd(p) /\ mark # NoMark
  BY DEF RuleDue
<1>3. /\ run[p].phase = "rule" /\ run[p].step = "next"
      /\ Known(row, trades) /\ row \in Rows /\ mark \in Marks /\ 0 \in Nat
  BY <1>2, CurrentRow DEF In, Phases, Quotes, Known
<1>4. \/ \E part \in ScaleOut(row, mark) :
             LET stop == IF MoveStop(row, mark) = {} THEN NoStop
                         ELSE CHOOSE s \in MoveStop(row, mark) : TRUE
             IN  Start(p, "claim", Job("scale", row, part.size, part.level, "", stop))
      \/ \E stop \in MoveStop(row, mark) : Start(p, "stop", Job("stop", row, 0, 0, "", stop))
  BY DEF RuleDue
<1> HIDE DEF row, mark
<1>5. ASSUME NEW step \in {"stop", "claim"}, NEW job \in Jobs, Start(p, step, job),
             JobOK(job, step, trades), job.row = row, job.kind \in {"stop", "scale"},
             job.kind = "scale" => step = "claim" /\ job.size <= row.size,
             Moving(job) => job.stop \in MoveStop(row, mark)
      PROVE  Plan(p, step, job)
  <2>1. Moving(job) => Better(row, job.stop) /\ ShortOf(row, mark, job.stop)
    BY <1>3, <1>5, MoveStopRatchets DEF Better, ShortOf
  <2> QED BY <1>2, <1>3, <1>5, <2>1 DEF Plan, row, mark
<1>6. ASSUME NEW part \in ScaleOut(row, mark), NEW stop,
             stop = IF MoveStop(row, mark) = {} THEN NoStop
                    ELSE CHOOSE s \in MoveStop(row, mark) : TRUE,
             Start(p, "claim", Job("scale", row, part.size, part.level, "", stop))
      PROVE  \E step \in Steps, job \in Jobs : Plan(p, step, job)
  <2> DEFINE job == Job("scale", row, part.size, part.level, "", stop)
  <2>1. stop = NoStop \/ stop \in MoveStop(row, mark)
    BY <1>6
  <2>2. stop \in Int
    BY <1>3, <2>1, MoveStopRatchets DEF NoStop
  <2>3. part.size \in Nat /\ part.size <= row.size /\ part.level \in Int
    BY <1>3, <1>6, ScaleOutFits
  <2>4. JobOK(job, "claim", trades)
    BY <1>3, <2>2, <2>3, RowJob, PurposesAre, Numbers
  <2>5. /\ job \in Jobs /\ job.row = row /\ job.kind = "scale" /\ job.stop = stop
        /\ job.size = part.size
    BY <2>4 DEF JobOK, Job
  <2> HIDE DEF job
  <2>6. Plan(p, "claim", job)
    BY <1>5, <1>6, <2>1, <2>3, <2>4, <2>5 DEF Moving, job
  <2> QED BY <2>5, <2>6 DEF Steps
<1>7. ASSUME NEW stop \in MoveStop(row, mark), Start(p, "stop", Job("stop", row, 0, 0, "", stop))
      PROVE  \E step \in Steps, job \in Jobs : Plan(p, step, job)
  <2> DEFINE job == Job("stop", row, 0, 0, "", stop)
  <2>1. stop \in Int
    BY <1>3, <1>7, MoveStopRatchets
  <2>2. JobOK(job, "stop", trades)
    BY <1>3, <2>1, RowJob, PurposesAre, Numbers
  <2>3. job \in Jobs /\ job.row = row /\ job.kind = "stop" /\ job.stop = stop
    BY <2>2 DEF JobOK, Job
  <2> QED BY <1>5, <1>7, <2>2, <2>3 DEF Steps
<1> QED BY <1>4, <1>6, <1>7

LEMMA ResolvePlans ==
    ASSUME LedgerOK, RunOK, RunInv, NEW p \in Procs, ResolveDue(p)
    PROVE  \E step \in Steps, job \in Jobs : Plan(p, step, job)
<1> DEFINE row == Current(p)
           mark == MarkOf(p, row.coin)
<1>1. In(p, "resolve") /\ ~AtEnd(p) /\ mark # NoMark
  BY DEF ResolveDue
<1>2. /\ run[p].phase = "resolve" /\ run[p].step = "next"
      /\ Known(row, trades) /\ row \in Rows /\ mark \in Marks /\ row.size \in Nat
  BY <1>1, CurrentRow DEF In, Phases, Quotes, Known, Rows
<1>3. PICK aged \in BOOLEAN : \E due \in Classify(row, mark, aged) :
          Start(p, "place", Job("resolve", row, row.size, due.level, due.status, NoStop))
  BY DEF ResolveDue
<1>4. PICK due \in Classify(row, mark, aged) :
          Start(p, "place", Job("resolve", row, row.size, due.level, due.status, NoStop))
  BY <1>3
<1> DEFINE job == Job("resolve", row, row.size, due.level, due.status, NoStop)
<1> HIDE DEF row, mark
<1>5. /\ due.status \in Outcomes /\ due.level \in Int
      /\ due.status = "lost" => Pnl(row, row.size, due.level) <= 0
  BY <1>2, DueIsFair
<1>6. JobOK(job, "place", trades)
  BY <1>2, <1>5, RowJob, PurposesAre, Numbers
<1>7. job \in Jobs /\ job.row = row /\ job.kind = "resolve"
  BY <1>6 DEF JobOK, Job
<1> HIDE DEF job
<1>8. Plan(p, "place", job)
  BY <1>1, <1>2, <1>4, <1>6, <1>7 DEF Plan, Moving, row, mark, job
<1> QED BY <1>7, <1>8 DEF Steps, Ordering

LEMMA EntryPlans ==
    ASSUME LedgerOK, RunOK, RunInv, NEW p \in Procs, GateEntry(p)
    PROVE  \E step \in Steps, job \in Jobs : Plan(p, step, job)
<1> DEFINE c == Current(p)
           job == Job("enter", [id |-> c], Setup[c].size, 0, "", NoStop)
<1>1. /\ In(p, "enter") /\ ~AtEnd(p) /\ Start(p, "claim", job)
  BY DEF GateEntry
<1>2. run[p].phase = "enter" /\ run[p].step = "next" 
  BY <1>1 DEF In
<1>3. ReadOK(run[p], trades)
  BY <1>2 DEF RunInv, Local, Idle
<1>4. Turn(p) \in run[p].todo
  BY <1>1, <1>2, TurnIsOpen
<1>5. c \in Cands
  BY <1>2, <1>3, <1>4 DEF ReadOK, Current
<1> HIDE DEF c
<1>6. c \in Nat /\ Setup[c].size \in Nat
  BY <1>5, Constants
<1>7. job \in Jobs
  BY <1>5, <1>6 DEF Job, Jobs, Kinds, Orderable, Entries, NoStop
<1>8. JobOK(job, "claim", trades)
  BY <1>5, <1>7 DEF JobOK, Job, Purposes, Orderable, Entries
<1>9. job.kind = "enter"
  BY DEF Job
<1> HIDE DEF job
<1>10. Plan(p, "claim", job)
  BY <1>1, <1>2, <1>8, <1>9 DEF Plan, Moving
<1> QED BY <1>7, <1>10 DEF Steps

-----------------------------------------------------------------------------
(* What each step of a process does to its memory and to the ledger. *)

Reading(p) == StartPass(p) \/ StartRules(p) \/ StartResolve(p) \/ StartEntries(p)
Memory(p) == RunOK' /\ OthersKept(p) /\ LedgerOK' /\ Grows /\ Local(run'[p], trades')

LEMMA AtWork ==
    ASSUME RunOK, RunInv, NEW p \in Procs, run[p].phase # "idle"
    PROVE  /\ run[p] \in Passes /\ ReadOK(run[p], trades)
           /\ IF run[p].step = "next" THEN run[p].job = NoJob
              ELSE JobOK(run[p].job, run[p].step, trades)
BY Working DEF RunInv, Local, Idle

\* The rows of a coin that is no candidate are as they stand in the ledger.
ReadsAnew(p) ==
    /\ run'[p].phase \in Phases /\ run'[p].step = "next" /\ run'[p].job = NoJob
    /\ run'[p].phase # "enter" =>
           /\ run'[p].todo = OpenIds
           /\ \A i \in OpenIds : run'[p].book[i] = trades[i]
    /\ \/ run'[p].moved = {}
       \/ /\ run'[p].phase = "resolve" /\ run[p].phase = "rule"
          /\ run'[p].moved = run[p].moved /\ run'[p].marks = run[p].marks

LEMMA ReadingReads ==
    ASSUME LedgerOK, RunOK, NEW p \in Procs, Reading(p)
    PROVE  Memory(p) /\ ReadsAnew(p) /\ run'[p] \in Passes
<1>1. OpenTrades \in Books /\ DOMAIN OpenTrades = OpenIds
  <2>1. OpenIds \subseteq Nat /\ \A i \in OpenIds : trades[i] \in Rows
    BY RowFacts DEF OpenIds
  <2> QED BY <2>1 DEF OpenTrades, Books
<1>2. [c \in Cands |-> c] \in Books
  BY Constants DEF Books
<1>3. \A i \in OpenIds : OpenTrades[i] = trades[i]
  BY DEF OpenTrades
<1> DEFINE Read(phase, book, moved) ==
        \E marks \in [Coins -> Quotes] :
            /\ EnterPhase(p, phase, marks, book, moved)
            /\ moved # {} =>
                   run[p].phase = "rule" /\ moved = run[p].moved /\ marks = run[p].marks
<1>4. /\ {} \in SUBSET Nat /\ trades' = trades
      /\ \/ Read("judge", OpenTrades, {}) \/ Read("rule", OpenTrades, {})
         \/ Read("resolve", OpenTrades, run[p].moved) /\ run[p].moved \in SUBSET Nat
         \/ Read("enter", [c \in Cands |-> c], {})
  <2>1. CASE StartPass(p)
    BY <2>1 DEF StartPass, deskVars
  <2>2. CASE StartRules(p)
    BY <2>2 DEF StartRules, Still, deskVars
  <2>3. CASE StartResolve(p)
    <3>1. run[p].phase = "rule"
      BY <2>3 DEF StartResolve, In
    <3>2. run[p].moved \in SUBSET Nat /\ run[p].marks \in [Coins -> Quotes]
      BY <3>1, Working DEF Passes
    <3> QED BY <2>3, <3>1, <3>2 DEF StartResolve, Still, deskVars
  <2>4. CASE StartEntries(p)
    <3>1. run[p].phase = "resolve"
      BY <2>4 DEF StartEntries, In
    <3>2. run[p].marks \in [Coins -> Quotes]
      BY <3>1, Working DEF Passes
    <3> QED BY <2>4, <3>2 DEF StartEntries, Still, deskVars
  <2> QED BY <2>1, <2>2, <2>3, <2>4 DEF Reading
<1>5. ASSUME NEW phase \in Phases, NEW book \in Books, NEW moved \in SUBSET Nat,
             Read(phase, book, moved),
             IF phase = "enter" THEN book = [c \in Cands |-> c] ELSE book = OpenTrades,
             moved # {} => phase = "resolve"
      PROVE  Memory(p) /\ ReadsAnew(p) /\ run'[p] \in Passes
  <2>1. PICK marks \in [Coins -> Quotes] :
            /\ EnterPhase(p, phase, marks, book, moved)
            /\ moved # {} =>
                   run[p].phase = "rule" /\ moved = run[p].moved /\ marks = run[p].marks
    BY <1>5
  <2>2. /\ RunOK' /\ OthersKept(p)
        /\ run'[p] \in Passes /\ run'[p].phase = phase /\ run'[p].step = "next"
        /\ run'[p].marks = marks /\ run'[p].book = book /\ run'[p].todo = DOMAIN book
        /\ run'[p].job = NoJob /\ run'[p].moved = moved
    BY <1>5, <2>1, Enters
  <2>3. ReadOK(run'[p], trades')
    <3>1. CASE phase = "enter"
      BY <1>5, <2>2, <3>1 DEF ReadOK
    <3>2. CASE phase # "enter"
      <4>1. run'[p].todo = OpenIds /\ \A i \in OpenIds : run'[p].book[i] = trades[i]
        BY <1>1, <1>3, <1>5, <2>2, <3>2
      <4>2. \A i \in OpenIds : Known(trades[i], trades) /\ trades[i].id = i
        BY RowFacts DEF OpenIds, Known
      <4> QED BY <1>4, <2>2, <3>2, <4>1, <4>2 DEF ReadOK
    <3> QED BY <3>1, <3>2
  <2>4. Local(run'[p], trades')
    BY <2>2, <2>3 DEF Local
  <2>5. ReadsAnew(p)
    BY <1>1, <1>3, <1>5, <2>1, <2>2 DEF ReadsAnew
  <2>6. LedgerOK' /\ Grows
    BY <1>4, Keeps
  <2> QED BY <2>2, <2>4, <2>5, <2>6 DEF Memory
<1> HIDE DEF Read
<1>6. /\ "judge" \in Phases /\ "rule" \in Phases /\ "resolve" \in Phases /\ "enter" \in Phases
  BY DEF Phases
<1> QED BY <1>1, <1>2, <1>4, <1>5, <1>6

LEMMA Idles ==
    ASSUME LedgerOK, RunOK, NEW p \in Procs, trades' = trades, run' = [run EXCEPT ![p] = Idle]
    PROVE  Memory(p) /\ run'[p] = Idle
<1>1. RunOK' /\ OthersKept(p) /\ run'[p] = Idle
  BY DEF RunOK, OthersKept
<1>2. LedgerOK' /\ Grows
  BY Keeps
<1> QED BY <1>1, <1>2 DEF Memory, Local

\* The rest of the rows stand as they were read.
LEMMA ReadStays ==
    ASSUME Grows, NEW x, NEW y, ReadOK(x, trades), y.phase = x.phase, y.book = x.book,
           y.todo \subseteq x.todo
    PROVE  ReadOK(y, trades')
BY KnownStays DEF ReadOK

LEMMA PlanMoves ==
    ASSUME LedgerOK, RunOK, RunInv, NEW p \in Procs, trades' = trades,
           NEW step \in Steps, NEW job \in Jobs, Plan(p, step, job)
    PROVE  /\ Memory(p) /\ BookKept(p) /\ run'[p].step = step /\ run'[p].job = job
           /\ run'[p].todo = run[p].todo \ {Turn(p)} /\ run'[p].moved = run[p].moved
           /\ run'[p] \in Passes
<1>1. /\ RunOK' /\ OthersKept(p) /\ BookKept(p)
      /\ run'[p] \in Passes /\ run'[p].step = step /\ run'[p].job = job
      /\ run'[p].todo = run[p].todo \ {Turn(p)} /\ run'[p].moved = run[p].moved
  BY Starts DEF Plan
<1>2. LedgerOK' /\ Grows
  BY Keeps
<1>3. ReadOK(run'[p], trades')
  <2>1. ReadOK(run[p], trades)
    BY AtWork DEF Plan
  <2> QED BY <1>1, <1>2, <2>1, ReadStays DEF BookKept
<1>4. step # "next" /\ JobOK(job, step, trades')
  BY DEF Plan
<1>5. Local(run'[p], trades')
  BY <1>1, <1>3, <1>4 DEF Local
<1> QED BY <1>1, <1>2, <1>5 DEF Memory

LEMMA PassingOver ==
    ASSUME LedgerOK, RunOK, RunInv, NEW p \in Procs, PassOver(p)
    PROVE  /\ Memory(p) /\ BookKept(p) /\ run'[p].step = "next" /\ run'[p].job = run[p].job
           /\ run'[p].todo \subseteq run[p].todo /\ run'[p].moved = run[p].moved
<1>1. run[p].phase # "idle" /\ run[p].step = "next" /\ trades' = trades
  BY DEF PassOver, Still, deskVars
<1>2. run[p] \in Passes /\ ReadOK(run[p], trades) /\ run[p].job = NoJob
  BY <1>1, AtWork
<1> DEFINE x == [run[p] EXCEPT !.todo = @ \ {Turn(p)}]
<1>3. x \in Passes /\ run' = [run EXCEPT ![p] = x]
  BY <1>2 DEF Passes, PassOver
<1>4. /\ x.step = "next" /\ x.job = run[p].job /\ x.todo \subseteq run[p].todo
      /\ x.moved = run[p].moved /\ x.phase = run[p].phase /\ x.marks = run[p].marks
      /\ x.book = run[p].book
  BY <1>1, <1>2 DEF Passes
<1> HIDE DEF x
<1>5. run'[p] = x /\ OthersKept(p) /\ RunOK'
  BY <1>3 DEF RunOK, OthersKept
<1>6. LedgerOK' /\ Grows
  BY <1>1, Keeps
<1>7. ReadOK(x, trades')
  BY <1>2, <1>4, <1>6, ReadStays
<1>8. Local(x, trades')
  BY <1>2, <1>3, <1>4, <1>7 DEF Local
<1> QED BY <1>4, <1>5, <1>6, <1>8 DEF Memory, BookKept

LEMMA OtherStep ==
    ASSUME NEW job, NEW step, NEW next, JobOK(job, step, trades), Grows,
           job.kind \in Purposes(next), step \in {"claim", "place"} \/ next \notin {"claim", "place"}
    PROVE  JobOK(job, next, trades')
BY KnownStays DEF JobOK

LEMMA GoingTo ==
    ASSUME LedgerOK', RunOK, RunInv, Grows, NEW p \in Procs, NEW step \in Steps \ {"next"},
           Doing(p, step), NEW next \in Steps \ {"next"}, Goto(p, next),
           run[p].job.kind \in Purposes(next),
           step \in {"claim", "place"} \/ next \notin {"claim", "place"}
    PROVE  /\ Memory(p) /\ BookKept(p) /\ run'[p].step = next /\ run'[p].job = run[p].job
           /\ run'[p].todo = run[p].todo /\ run'[p].moved = run[p].moved
<1>1. run[p].phase # "idle" /\ run[p].step = step
  BY DEF Doing
<1>2. ReadOK(run[p], trades) /\ JobOK(run[p].job, step, trades)
  BY <1>1, AtWork
<1>3. /\ RunOK' /\ OthersKept(p) /\ BookKept(p)
      /\ run'[p] \in Passes /\ run'[p].step = next /\ run'[p].job = run[p].job
      /\ run'[p].todo = run[p].todo /\ run'[p].moved = run[p].moved
  BY <1>1, Goes
<1>4. ReadOK(run'[p], trades')
  BY <1>2, <1>3, ReadStays DEF BookKept
<1>5. JobOK(run'[p].job, next, trades')
  BY <1>2, <1>3, OtherStep
<1> QED BY <1>3, <1>4, <1>5 DEF Memory, Local

LEMMA GoingOn ==
    ASSUME LedgerOK', RunOK, RunInv, Grows, NEW p \in Procs, run[p].phase # "idle",
           \/ run' = Onward(p)
           \/ \E S \in SUBSET Nat : run' = [Onward(p) EXCEPT ![p].moved = @ \cup S]
           \/ \E S \in SUBSET Coins : run' = [Onward(p) EXCEPT ![p].held = @ \cup S]
    PROVE  /\ Memory(p) /\ BookKept(p) /\ run'[p].step = "next" /\ run'[p].job = NoJob
           /\ run'[p].todo = run[p].todo
<1>1. ReadOK(run[p], trades)
  BY AtWork
<1>2. /\ RunOK' /\ OthersKept(p) /\ BookKept(p)
      /\ run'[p] \in Passes /\ run'[p].step = "next" /\ run'[p].job = NoJob
      /\ run'[p].todo = run[p].todo
  BY GoesOn
<1>3. ReadOK(run'[p], trades')
  BY <1>1, <1>2, ReadStays DEF BookKept
<1> QED BY <1>2, <1>3 DEF Memory, Local

\* What is left of a partial is at most the move of its stop.
StopLeft(p) ==
    /\ run[p].job.kind = "scale" /\ run[p].job.stop # NoStop
    /\ run'[p].step = "stop" /\ run'[p].job = [run[p].job EXCEPT !.kind = "stop"]
    /\ run'[p].moved = run[p].moved

LEMMA GoingAfter ==
    ASSUME LedgerOK', RunOK, RunInv, Grows, NEW p \in Procs, NEW step \in Steps \ {"next"},
           Doing(p, step), run' = AfterJob(p)
    PROVE  /\ Memory(p) /\ BookKept(p) /\ run'[p].todo = run[p].todo
           /\ (run'[p].step = "next" /\ run'[p].job = NoJob) \/ StopLeft(p)
<1>1. run[p].phase # "idle" /\ run[p].step = step
  BY DEF Doing
<1>2. ReadOK(run[p], trades) /\ JobOK(run[p].job, step, trades)
  BY <1>1, AtWork
<1>3. /\ RunOK' /\ OthersKept(p) /\ BookKept(p) /\ run'[p] \in Passes
      /\ run'[p].todo = run[p].todo
      /\ (run'[p].step = "next" /\ run'[p].job = NoJob) \/ StopLeft(p)
  BY <1>1, <1>2, GoesAfter DEF JobOK, StopLeft
<1>4. ReadOK(run'[p], trades')
  BY <1>2, <1>3, ReadStays DEF BookKept
<1>5. ASSUME StopLeft(p)
      PROVE  JobOK(run'[p].job, "stop", trades')
  <2> DEFINE job == run[p].job
             left == [job EXCEPT !.kind = "stop"]
  <2>1. job \in Jobs /\ job.kind = "scale" /\ Known(job.row, trades)
    BY <1>2, <1>5 DEF JobOK, StopLeft
  <2>2. /\ left \in Jobs /\ left.kind = "stop" /\ left.row = job.row
    BY <2>1, PurposesAre DEF Jobs
  <2>3. Known(left.row, trades')
    BY <2>1, <2>2, KnownStays
  <2> HIDE DEF left
  <2>4. JobOK(left, "stop", trades')
    BY <2>2, <2>3, PurposesAre DEF JobOK, Entries
  <2> QED BY <1>5, <2>4 DEF StopLeft, left
<1> QED BY <1>3, <1>4, <1>5 DEF Memory, Local, StopLeft

-----------------------------------------------------------------------------
(* The rows the steps write. *)

LEMMA FillFacts ==
    ASSUME BookOK, NEW p \in Procs, fill[p].step # "none"
    PROVE  fill[p].order \in Orders /\ Position(fill[p].held)
BY DEF BookOK, Fill, NoFill

\* Every row there was is as it was.
OnlyAdds ==
    /\ DOMAIN trades' = DOMAIN trades \cup {Len(trades) + 1}
    /\ Len(trades) + 1 \notin DOMAIN trades
    /\ \A i \in DOMAIN trades : trades'[i] = trades[i]

LEMMA Opening ==
    ASSUME LedgerOK, NEW coin \in Coins, NEW side \in Sides, NEW entry \in Int, NEW sl \in Int,
           NEW tp \in Int, NEW size \in Nat, NEW parent \in Nat,
           OpenTrade(coin, side, entry, sl, tp, size, parent)
    PROVE  /\ LedgerOK' /\ Grows /\ OnlyAdds
           /\ trades'[Len(trades) + 1].coin = coin /\ trades'[Len(trades) + 1].side = side
           /\ trades'[Len(trades) + 1].size = size /\ trades'[Len(trades) + 1].entry = entry
           /\ trades'[Len(trades) + 1].status = "open" /\ trades'[Len(trades) + 1].realized = 0
<1> DEFINE id == Len(trades) + 1
           row == NewRow(id, coin, side, entry, sl, tp, size, parent)
<1>1. id \in Nat
  BY RowFacts
<1>2. trades' = Append(trades, row)
  BY DEF OpenTrade
<1> HIDE DEF id
<1>3. /\ row \in Rows /\ row.id = id /\ row.coin = coin /\ row.side = side
      /\ row.size = size /\ row.entry = entry
      /\ row.realized = 0 /\ row.status = "open"
  BY <1>1, Zero DEF NewRow, Rows, Statuses
<1> USE DEF id
<1> HIDE DEF row
<1>4. /\ LedgerOK' /\ Grows
      /\ DOMAIN trades' = DOMAIN trades \cup {Len(trades) + 1}
      /\ Len(trades) + 1 \notin DOMAIN trades
      /\ trades'[Len(trades) + 1] = row
      /\ \A i \in DOMAIN trades : trades'[i] = trades[i]
  BY <1>2, <1>3, Adds
<1> QED BY <1>3, <1>4 DEF OnlyAdds

\* Rewriting a column of a row leaves the others.
OnlyRewrites(id) ==
    /\ DOMAIN trades' = DOMAIN trades
    /\ \A j \in DOMAIN trades : j # id => trades'[j] = trades[j]

LEMMA Resolving ==
    ASSUME LedgerOK, NEW id \in DOMAIN trades, NEW status \in Outcomes, NEW pnl \in Int,
           ResolveTrade(id, status, pnl)
    PROVE  /\ LedgerOK' /\ Grows /\ OnlyRewrites(id)
           /\ trades'[id].size = trades[id].size /\ trades'[id].sl = trades[id].sl
           /\ trades'[id].status = status /\ trades'[id].realized = pnl
<1> DEFINE row == [trades[id] EXCEPT !.status = status, !.realized = pnl]
<1>1. trades[id] \in Rows /\ trades[id].id = id /\ trades \in Seq(Rows)
  BY RowFacts DEF LedgerOK
<1>2. /\ row \in Rows /\ row.id = id /\ row.side = trades[id].side /\ row.coin = trades[id].coin
      /\ row.entry = trades[id].entry
      /\ row.status = status /\ row.realized = pnl /\ row.size = trades[id].size
      /\ row.sl = trades[id].sl
  BY <1>1 DEF Rows, Outcomes
<1>3. trades' = [trades EXCEPT ![id] = row]
  BY <1>1 DEF ResolveTrade, Rows
<1>4. row.status = "open" => row.realized = 0
  BY <1>2 DEF Outcomes
<1> HIDE DEF row
<1> QED BY <1>2, <1>3, <1>4, Writes DEF OnlyRewrites

LEMMA MovingStop ==
    ASSUME LedgerOK, NEW id \in DOMAIN trades, NEW stop \in Int,
           trades' = [trades EXCEPT ![id].sl = stop]
    PROVE  /\ LedgerOK' /\ Grows /\ OnlyRewrites(id)
           /\ trades'[id].size = trades[id].size /\ trades'[id].sl = stop
           /\ trades'[id].status = trades[id].status /\ trades'[id].realized = trades[id].realized
<1> DEFINE row == [trades[id] EXCEPT !.sl = stop]
<1>1. trades[id] \in Rows /\ trades[id].id = id /\ trades \in Seq(Rows)
  BY RowFacts DEF LedgerOK
<1>2. /\ row \in Rows /\ row.id = id /\ row.side = trades[id].side /\ row.coin = trades[id].coin
      /\ row.entry = trades[id].entry
      /\ row.status = trades[id].status /\ row.realized = trades[id].realized
      /\ row.size = trades[id].size /\ row.sl = stop
  BY <1>1 DEF Rows
<1>3. trades' = [trades EXCEPT ![id] = row]
  BY <1>1
<1>4. row.status = "open" => row.realized = 0
  BY <1>2 DEF LedgerOK
<1> HIDE DEF row
<1> QED BY <1>2, <1>3, <1>4, Writes DEF OnlyRewrites

LEMMA MovingTarget ==
    ASSUME LedgerOK, NEW id \in DOMAIN trades, NEW tp \in Int,
           trades' = [trades EXCEPT ![id].tp = tp]
    PROVE  /\ LedgerOK' /\ Grows /\ OnlyRewrites(id)
           /\ trades'[id].size = trades[id].size /\ trades'[id].sl = trades[id].sl
           /\ trades'[id].status = trades[id].status /\ trades'[id].realized = trades[id].realized
<1> DEFINE row == [trades[id] EXCEPT !.tp = tp]
<1>1. trades[id] \in Rows /\ trades[id].id = id /\ trades \in Seq(Rows)
  BY RowFacts DEF LedgerOK
<1>2. /\ row \in Rows /\ row.id = id /\ row.side = trades[id].side /\ row.coin = trades[id].coin
      /\ row.entry = trades[id].entry
      /\ row.status = trades[id].status /\ row.realized = trades[id].realized
      /\ row.size = trades[id].size /\ row.sl = trades[id].sl
  BY <1>1 DEF Rows
<1>3. trades' = [trades EXCEPT ![id] = row]
  BY <1>1
<1>4. row.status = "open" => row.realized = 0
  BY <1>2 DEF LedgerOK
<1> HIDE DEF row
<1> QED BY <1>2, <1>3, <1>4, Writes DEF OnlyRewrites

LEMMA Logging ==
    ASSUME LedgerOK, NEW id \in DOMAIN trades, trades' = [trades EXCEPT ![id].logged = TRUE]
    PROVE  /\ LedgerOK' /\ Grows /\ OnlyRewrites(id)
           /\ trades'[id].size = trades[id].size /\ trades'[id].sl = trades[id].sl
           /\ trades'[id].status = trades[id].status /\ trades'[id].realized = trades[id].realized
<1> DEFINE row == [trades[id] EXCEPT !.logged = TRUE]
<1>1. trades[id] \in Rows /\ trades[id].id = id /\ trades \in Seq(Rows)
  BY RowFacts DEF LedgerOK
<1>2. /\ row \in Rows /\ row.id = id /\ row.side = trades[id].side /\ row.coin = trades[id].coin
      /\ row.entry = trades[id].entry
      /\ row.status = trades[id].status /\ row.realized = trades[id].realized
      /\ row.size = trades[id].size /\ row.sl = trades[id].sl
  BY <1>1 DEF Rows
<1>3. trades' = [trades EXCEPT ![id] = row]
  BY <1>1
<1>4. row.status = "open" => row.realized = 0
  BY <1>2 DEF LedgerOK
<1> HIDE DEF row
<1> QED BY <1>2, <1>3, <1>4, Writes DEF OnlyRewrites

LEMMA Splitting ==
    ASSUME LedgerOK, NEW id \in DOMAIN trades, NEW size \in Nat, NEW pnl \in Int,
           size <= trades[id].size, SplitTrade(id, size, pnl)
    PROVE  /\ LedgerOK' /\ Grows
           /\ DOMAIN trades' = DOMAIN trades \cup {Len(trades) + 1}
           /\ Len(trades) + 1 \notin DOMAIN trades
           /\ \A j \in DOMAIN trades : j # id => trades'[j] = trades[j]
           /\ trades'[id].sl = trades[id].sl /\ trades'[id].status = trades[id].status
           /\ trades'[id].realized = trades[id].realized
           /\ trades'[id].size = trades[id].size - size
           /\ trades'[Len(trades) + 1].status = "scaled" /\ trades'[Len(trades) + 1].realized = pnl
<1> DEFINE kept == [trades[id] EXCEPT !.size = @ - size, !.scaled_out = TRUE]
           banked == [trades[id] EXCEPT !.id = Len(trades) + 1, !.size = size,
                          !.status = "scaled", !.realized = pnl, !.scaled_out = TRUE,
                          !.parent = 0, !.logged = FALSE]
           mid == [trades EXCEPT ![id] = kept]
<1>1. /\ trades[id] \in Rows /\ trades[id].id = id /\ trades \in Seq(Rows)
      /\ DOMAIN trades = 1..Len(trades) /\ Len(trades) \in Nat
      /\ trades[id].status = "open" => trades[id].realized = 0
  BY RowFacts DEF LedgerOK
<1>2. trades[id].size - size \in Nat
  <2>1. trades[id].size \in Nat
    BY <1>1 DEF Rows
  <2> QED BY <2>1
<1>3. /\ kept \in Rows /\ kept.id = id /\ kept.side = trades[id].side
      /\ kept.coin = trades[id].coin /\ kept.status = trades[id].status
      /\ kept.entry = trades[id].entry
      /\ kept.realized = trades[id].realized /\ kept.sl = trades[id].sl
      /\ kept.size = trades[id].size - size
  BY <1>1, <1>2 DEF Rows
<1>4. /\ banked \in Rows /\ banked.id = Len(trades) + 1 /\ banked.status = "scaled"
      /\ banked.realized = pnl
  <2>1. Len(trades) + 1 \in Nat /\ 0 \in Nat /\ "scaled" \in Statuses
    BY <1>1 DEF Statuses
  <2> HIDE DEF mid, kept
  <2> QED BY <1>1, <2>1 DEF Rows
<1>5. trades' = Append(mid, banked)
  <2>1. [trades EXCEPT ![id].size = @ - size, ![id].scaled_out = TRUE] = mid
    BY <1>1 DEF Rows
  <2> QED BY <2>1 DEF SplitTrade
<1> HIDE DEF kept, banked
<1>6. /\ mid \in Seq(Rows) /\ Len(mid) = Len(trades) /\ mid[id] = kept
      /\ \A j \in 1..Len(trades) : j # id => mid[j] = trades[j]
  BY <1>1, <1>3
<1> HIDE DEF mid
<1>7. /\ trades' \in Seq(Rows) /\ DOMAIN trades' = 1..(Len(trades) + 1)
      /\ trades'[Len(trades) + 1] = banked
      /\ \A j \in 1..Len(trades) : trades'[j] = mid[j]
  BY <1>1, <1>4, <1>5, <1>6
<1>8. /\ DOMAIN trades' = DOMAIN trades \cup {Len(trades) + 1}
      /\ Len(trades) + 1 \notin DOMAIN trades
      /\ trades'[id] = kept /\ \A j \in DOMAIN trades : j # id => trades'[j] = trades[j]
  BY <1>1, <1>6, <1>7
<1>9. ASSUME NEW j \in DOMAIN trades'
      PROVE  trades'[j].id = j /\ (trades'[j].status = "open" => trades'[j].realized = 0)
  <2>1. CASE j = Len(trades) + 1
    BY <1>4, <1>7, <2>1
  <2>2. CASE j = id
    BY <1>1, <1>3, <1>8, <2>2
  <2>3. CASE j \in DOMAIN trades /\ j # id
    BY <1>8, <2>3 DEF LedgerOK
  <2> QED BY <1>8, <2>1, <2>2, <2>3
<1>10. LedgerOK'
  BY <1>7, <1>9 DEF LedgerOK
<1>11. Grows
  BY <1>3, <1>8 DEF Grows
<1> QED BY <1>3, <1>4, <1>7, <1>8, <1>10, <1>11

-----------------------------------------------------------------------------
(* Partials and sizes. *)

ScaleKey(i) == <<"scale", i, 0>>
Scaling(p) == run[p].phase # "idle" /\ run[p].step \in Ordering /\ run[p].job.kind = "scale"

\* A partial goes to the book under its row's key, which nobody gives back, so a row has
\* one at most, and one process at most is at it.
BankInv ==
    /\ partials \in Seq(Nat)
    /\ \A n \in DOMAIN partials : ScaleKey(partials[n]) \in keys
    /\ BankedOnce
    /\ \A p \in Procs : Scaling(p) =>
           /\ ScaleKey(run[p].job.row.id) \in keys
           /\ run[p].step = "place" => \A n \in DOMAIN partials : partials[n] # run[p].job.row.id
           /\ \A q \in Procs : Scaling(q) /\ q # p => run[q].job.row.id # run[p].job.row.id

\* Until its key is taken a row has the size it was read with; the holder of the key
\* splits off no more than there is.
SizeOK(x, t, k) ==
    x.phase # "idle" =>
        /\ x.phase # "enter" =>
               \A i \in x.todo : ScaleKey(i) \notin k => x.book[i].size = t[i].size
        /\ x.step = "claim" /\ x.job.kind = "scale" =>
               /\ x.job.size <= x.job.row.size
               /\ ScaleKey(x.job.row.id) \notin k => x.job.row.size = t[x.job.row.id].size
        /\ x.step \in Ordering /\ x.job.kind = "scale" => x.job.size <= t[x.job.row.id].size
SizeInv == \A p \in Procs : SizeOK(run[p], trades, keys)

Base == LedgerOK /\ RunOK /\ BookOK /\ RunInv /\ BankInv /\ SizeInv

LEMMA Doings ==
    ASSUME RunOK, RunInv, NEW p \in Procs, NEW step \in Steps \ {"next"}, Doing(p, step)
    PROVE  /\ run[p].phase # "idle" /\ run[p].step = step /\ run[p] \in Passes
           /\ JobOK(run[p].job, step, trades) /\ run[p].job \in Jobs
           /\ run[p].job.kind # "enter" =>
                  /\ Known(run[p].job.row, trades) /\ run[p].job.row \in Rows
                  /\ run[p].job.row.id \in DOMAIN trades
<1>1. run[p].phase # "idle" /\ run[p].step = step
  BY DEF Doing
<1>2. run[p] \in Passes /\ JobOK(run[p].job, step, trades)
  BY <1>1, AtWork
<1> QED BY <1>1, <1>2 DEF JobOK, Known

\* The rest of the pass is as it was.
Holds(p) == Memory(p) /\ BookKept(p) /\ run'[p].todo = run[p].todo
Next1(p) == run'[p].step = "next" /\ run'[p].job = NoJob
Same(p) == run'[p].job = run[p].job /\ run'[p].moved = run[p].moved

LEMMA StepNames ==
    /\ Steps \ {"next"} = {"stop", "claim", "target", "log", "place", "fill"}
    /\ Ordering = {"place", "fill"} /\ Entries = {"enter", "add"}
BY DEF Steps, Ordering, Entries

LEMMA Claims ==
    ASSUME Base, NEW p \in Procs, Claim(p)
    PROVE  /\ Holds(p) /\ trades' = trades /\ partials' = partials
           /\ Doing(p, "claim")
           /\ \/ /\ run[p].job.key \notin keys /\ keys' = keys \cup {run[p].job.key}
                 /\ run'[p].step = "place" /\ Same(p)
              \/ keys' = keys /\ (Next1(p) \/ StopLeft(p))
<1>1. Doing(p, "claim") /\ trades' = trades /\ partials' = partials
  BY DEF Claim
<1>2. LedgerOK' /\ Grows
  BY <1>1, Keeps DEF Base
<1>3. run[p].job.kind \in Purposes("place")
  BY <1>1, Doings, StepNames, PurposesAre DEF Base, JobOK
<1>4. CASE run[p].job.key \notin keys /\ keys' = keys \cup {run[p].job.key} /\ Goto(p, "place")
  BY <1>1, <1>2, <1>3, <1>4, GoingTo, StepNames DEF Base, Holds, Same
<1>5. CASE keys' = keys /\ run' = AfterJob(p)
  BY <1>1, <1>2, <1>5, GoingAfter, StepNames DEF Base, Holds, Next1
<1> QED BY <1>1, <1>4, <1>5 DEF Claim

LEMMA Places ==
    ASSUME Base, NEW p \in Procs, Place(p)
    PROVE  /\ Holds(p) /\ trades' = trades /\ keys' = keys
           /\ Doing(p, "place") /\ run'[p].step = "fill" /\ Same(p)
           /\ partials' = IF run[p].job.kind = "scale"
                          THEN Append(partials, run[p].job.row.id) ELSE partials
<1>1. Doing(p, "place") /\ trades' = trades /\ keys' = keys /\ Goto(p, "fill")
  BY DEF Place
<1>2. LedgerOK' /\ Grows
  BY <1>1, Keeps DEF Base
<1>3. run[p].job.kind \in Purposes("fill")
  BY <1>1, Doings, StepNames, PurposesAre DEF Base, JobOK
<1>4. Holds(p) /\ run'[p].step = "fill" /\ Same(p)
  BY <1>1, <1>2, <1>3, GoingTo, StepNames DEF Base, Holds, Same
<1> QED BY <1>1, <1>4 DEF Place

LEMMA Refusals ==
    ASSUME Base, NEW p \in Procs, Refused(p)
    PROVE  /\ Holds(p) /\ trades' = trades /\ partials' = partials /\ Next1(p)
           /\ \A i : ScaleKey(i) \in keys => ScaleKey(i) \in keys'
<1>1. /\ Doing(p, "place") /\ trades' = trades /\ partials' = partials /\ run' = Onward(p)
      /\ keys' = keys \ {run[p].job.key} /\ run[p].job.kind \in Entries
  BY DEF Refused
<1>2. LedgerOK' /\ Grows
  BY <1>1, Keeps DEF Base
<1>3. run[p].job.key[1] \in Entries
  BY <1>1, Doings, StepNames DEF Base, JobOK
<1>4. \A i : ScaleKey(i)[1] \notin Entries
  BY DEF ScaleKey, Entries
<1>5. Holds(p) /\ Next1(p)
  BY <1>1, <1>2, GoingOn DEF Base, Holds, Next1, Doing
<1> QED BY <1>1, <1>3, <1>4, <1>5

LEMMA Targets ==
    ASSUME Base, NEW p \in Procs, WriteTarget(p)
    PROVE  /\ Holds(p) /\ Next1(p) /\ keys' = keys /\ partials' = partials
           /\ \E id \in DOMAIN trades :
                  /\ OnlyRewrites(id)
                  /\ trades'[id].size = trades[id].size /\ trades'[id].sl = trades[id].sl
                  /\ trades'[id].status = trades[id].status
                  /\ trades'[id].realized = trades[id].realized
<1> DEFINE job == run[p].job
           id == job.row.id
<1>1. /\ Doing(p, "target") /\ keys' = keys /\ partials' = partials /\ run' = Onward(p)
      /\ trades' = [trades EXCEPT ![id].tp = job.price]
  BY DEF WriteTarget
<1>2. job \in Jobs /\ job.kind = "extend" /\ id \in DOMAIN trades /\ run[p].phase # "idle"
  BY <1>1, Doings, StepNames, PurposesAre DEF Base, JobOK
<1>3. job.price \in Int
  BY <1>2 DEF Jobs
<1> HIDE DEF job, id
<1>4. /\ LedgerOK' /\ Grows /\ OnlyRewrites(id)
      /\ trades'[id].size = trades[id].size /\ trades'[id].sl = trades[id].sl
      /\ trades'[id].status = trades[id].status /\ trades'[id].realized = trades[id].realized
  BY <1>1, <1>2, <1>3, MovingTarget DEF Base
<1>5. Holds(p) /\ Next1(p)
  BY <1>1, <1>2, <1>4, GoingOn DEF Base, Holds, Next1
<1> QED BY <1>1, <1>2, <1>4, <1>5

LEMMA Logs ==
    ASSUME Base, NEW p \in Procs, LogAdd(p)
    PROVE  /\ Holds(p) /\ Next1(p) /\ keys' = keys /\ partials' = partials
           /\ \E id \in DOMAIN trades :
                  /\ OnlyRewrites(id)
                  /\ trades'[id].size = trades[id].size /\ trades'[id].sl = trades[id].sl
                  /\ trades'[id].status = trades[id].status
                  /\ trades'[id].realized = trades[id].realized
<1> DEFINE id == run[p].job.row.id
<1>1. /\ Doing(p, "log") /\ keys' = keys /\ partials' = partials /\ run' = Onward(p)
      /\ trades' = [trades EXCEPT ![id].logged = TRUE]
  BY DEF LogAdd
<1>2. id \in DOMAIN trades /\ run[p].phase # "idle"
  BY <1>1, Doings, StepNames, PurposesAre DEF Base, JobOK
<1> HIDE DEF id
<1>3. /\ LedgerOK' /\ Grows /\ OnlyRewrites(id)
      /\ trades'[id].size = trades[id].size /\ trades'[id].sl = trades[id].sl
      /\ trades'[id].status = trades[id].status /\ trades'[id].realized = trades[id].realized
  BY <1>1, <1>2, Logging DEF Base
<1>4. Holds(p) /\ Next1(p)
  BY <1>1, <1>2, <1>3, GoingOn DEF Base, Holds, Next1
<1> QED BY <1>1, <1>2, <1>3, <1>4

LEMMA FilledFacts ==
    ASSUME Base, NEW p \in Procs, Filled(p)
    PROVE  Doing(p, "fill") /\ fill[p].order.price \in Int
<1>1. fill[p].step # "none"
  BY DEF Filled
<1> QED BY <1>1, FillFacts DEF Base, Filled, Orders

LEMMA Entered ==
    ASSUME Base, NEW p \in Procs, BookEntry(p)
    PROVE  /\ Holds(p) /\ Next1(p) /\ keys' = keys /\ partials' = partials /\ OnlyAdds
           /\ trades'[Len(trades) + 1].status = "open" /\ trades'[Len(trades) + 1].realized = 0
           /\ LET c == Setup[run[p].job.row.id]
                  row == trades'[Len(trades) + 1]
              IN  /\ row.coin = c.coin /\ row.side = c.side /\ row.size = c.size
                  /\ row.entry = fill[p].order.price
<1> DEFINE c == Setup[run[p].job.row.id]
           n == Len(trades) + 1
<1>1. /\ Filled(p) /\ run[p].job.kind = "enter" /\ keys' = keys /\ partials' = partials
      /\ OpenTrade(c.coin, c.side, fill[p].order.price, c.sl, c.tp, c.size, 0)
      /\ run' = [Onward(p) EXCEPT ![p].held = @ \cup {c.coin}]
  BY DEF BookEntry, FillDone
<1>2. run[p].job.row \in [id : Cands] /\ run[p].phase # "idle"
  BY <1>1, FilledFacts, Doings, StepNames DEF Base, JobOK
<1>3. run[p].job.row.id \in Cands
  BY <1>2
<1>4. c \in [coin : Coins, side : Sides, sl : Nat, tp : Nat, size : Nat \ {0}]
  BY <1>3, Constants
<1>5. /\ c.coin \in Coins /\ c.side \in Sides /\ c.sl \in Int /\ c.tp \in Int /\ c.size \in Nat
  BY <1>4
<1> HIDE DEF c
<1>6. /\ LedgerOK' /\ Grows /\ OnlyAdds /\ trades'[n].status = "open" /\ trades'[n].realized = 0
      /\ trades'[n].coin = c.coin /\ trades'[n].side = c.side /\ trades'[n].size = c.size
      /\ trades'[n].entry = fill[p].order.price
  BY <1>1, <1>5, FilledFacts, Opening, Zero DEF Base
<1>7. {c.coin} \in SUBSET Coins
  BY <1>5
<1>8. Holds(p) /\ Next1(p)
  BY <1>1, <1>2, <1>6, <1>7, GoingOn DEF Base, Holds, Next1
<1> QED BY <1>1, <1>6, <1>8 DEF c

LEMMA Closes ==
    ASSUME Base, NEW p \in Procs, BookClose(p)
    PROVE  /\ Holds(p) /\ Next1(p) /\ keys' = keys /\ partials' = partials
           /\ LET job == run[p].job
                  id == run[p].job.row.id
              IN  /\ id \in DOMAIN trades /\ OnlyRewrites(id)
                  /\ trades'[id].size = trades[id].size /\ trades'[id].sl = trades[id].sl
                  /\ trades'[id].status = "lost" => trades'[id].realized <= 0
                  /\ trades'[id].status # "open"
                  /\ trades'[id].realized = Pnl(job.row, job.size, job.price)
<1> DEFINE job == run[p].job
           id == job.row.id
           pnl == Pnl(job.row, job.size, job.price)
<1>1. /\ Filled(p) /\ job.kind \in {"close", "resolve"} /\ keys' = keys /\ partials' = partials
      /\ ResolveTrade(id, job.status, pnl) /\ run' = Onward(p)
  BY DEF BookClose, FillDone
<1>2. /\ run[p].phase # "idle" /\ JobOK(job, "fill", trades) /\ job \in Jobs
      /\ job.row \in Rows /\ id \in DOMAIN trades
  BY <1>1, FilledFacts, Doings, StepNames DEF Base
<1>3. job.size \in Nat /\ job.price \in Int
  BY <1>2 DEF Jobs
<1>4. pnl \in Int
  BY <1>2, <1>3, PnlIsInt
<1>5. job.status \in Outcomes /\ (job.status = "lost" => pnl <= 0)
  BY <1>1, <1>2 DEF JobOK, NoProfit
<1> HIDE DEF job, id, pnl
<1>6. /\ LedgerOK' /\ Grows /\ OnlyRewrites(id)
      /\ trades'[id].size = trades[id].size /\ trades'[id].sl = trades[id].sl
      /\ trades'[id].status = job.status /\ trades'[id].realized = pnl
  BY <1>1, <1>2, <1>4, <1>5, Resolving DEF Base
<1>7. Holds(p) /\ Next1(p)
  BY <1>1, <1>2, <1>6, GoingOn DEF Base, Holds, Next1
<1>8. trades'[id].status # "open"
  BY <1>5, <1>6 DEF Outcomes
<1> QED BY <1>1, <1>2, <1>5, <1>6, <1>7, <1>8 DEF job, id, pnl

LEMMA Banks ==
    ASSUME Base, NEW p \in Procs, BookPartial(p)
    PROVE  /\ Holds(p) /\ (Next1(p) \/ StopLeft(p)) /\ keys' = keys /\ partials' = partials
           /\ Scaling(p) /\ run[p].job.row.id \in DOMAIN trades
           /\ DOMAIN trades' = DOMAIN trades \cup {Len(trades) + 1}
           /\ Len(trades) + 1 \notin DOMAIN trades
           /\ \A j \in DOMAIN trades : j # run[p].job.row.id => trades'[j] = trades[j]
           /\ trades'[run[p].job.row.id].sl = trades[run[p].job.row.id].sl
           /\ trades'[run[p].job.row.id].status = trades[run[p].job.row.id].status
           /\ trades'[run[p].job.row.id].realized = trades[run[p].job.row.id].realized
           /\ trades'[run[p].job.row.id].size = trades[run[p].job.row.id].size - run[p].job.size
           /\ trades'[Len(trades) + 1].status = "scaled"
           /\ trades'[Len(trades) + 1].realized
                  = Pnl(run[p].job.row, run[p].job.size, run[p].job.price)
<1> DEFINE job == run[p].job
           id == job.row.id
           pnl == Pnl(job.row, job.size, job.price)
<1>1. /\ Filled(p) /\ job.kind = "scale" /\ keys' = keys /\ partials' = partials
      /\ SplitTrade(id, job.size, pnl) /\ run' = AfterJob(p)
  BY DEF BookPartial, FillDone
<1>2. /\ run[p].phase # "idle" /\ job \in Jobs /\ job.row \in Rows /\ id \in DOMAIN trades
      /\ Doing(p, "fill") /\ run[p].step = "fill"
  BY <1>1, FilledFacts, Doings, StepNames DEF Base
<1>3. job.size \in Nat /\ job.price \in Int
  BY <1>2 DEF Jobs
<1>4. pnl \in Int
  BY <1>2, <1>3, PnlIsInt
<1>5. Scaling(p)
  BY <1>1, <1>2, StepNames DEF Scaling
<1>6. job.size <= trades[id].size
  BY <1>1, <1>2, StepNames DEF Base, SizeInv, SizeOK
<1> HIDE DEF job, id, pnl
<1>7. /\ LedgerOK' /\ Grows
      /\ DOMAIN trades' = DOMAIN trades \cup {Len(trades) + 1}
      /\ Len(trades) + 1 \notin DOMAIN trades
      /\ \A j \in DOMAIN trades : j # id => trades'[j] = trades[j]
      /\ trades'[id].sl = trades[id].sl /\ trades'[id].status = trades[id].status
      /\ trades'[id].realized = trades[id].realized
      /\ trades'[id].size = trades[id].size - job.size
      /\ trades'[Len(trades) + 1].status = "scaled" /\ trades'[Len(trades) + 1].realized = pnl
  BY <1>1, <1>2, <1>3, <1>4, <1>6, Splitting DEF Base
<1>8. Holds(p) /\ (Next1(p) \/ StopLeft(p))
  BY <1>1, <1>2, <1>7, GoingAfter, StepNames DEF Base, Holds, Next1
<1> QED BY <1>1, <1>2, <1>5, <1>7, <1>8 DEF id, job, pnl

\* The slice of an add is in hand until it is logged.
LEMMA Slices ==
    ASSUME Base, NEW p \in Procs, BookAdd(p)
    PROVE  /\ Holds(p) /\ keys' = keys /\ partials' = partials /\ OnlyAdds
           /\ run'[p].step = "log" /\ run'[p].job.kind = "add" /\ run'[p].moved = run[p].moved
           /\ trades'[Len(trades) + 1].status = "open" /\ trades'[Len(trades) + 1].realized = 0
           /\ run'[p].job.row.id = Len(trades) + 1 /\ run'[p].job.size = run[p].job.size
           /\ LET job == run[p].job
                  row == trades'[Len(trades) + 1]
              IN  /\ row.coin = job.row.coin /\ row.side = job.row.side /\ row.size = job.size
                  /\ row.entry = fill[p].order.price
<1> DEFINE job == run[p].job
           id == Len(trades) + 1
           left == [job EXCEPT !.row.id = id]
           x == [run[p] EXCEPT !.step = "log", !.job = left]
<1>1. /\ Filled(p) /\ job.kind = "add" /\ keys' = keys /\ partials' = partials
      /\ OpenTrade(job.row.coin, job.row.side, fill[p].order.price, job.stop, job.row.tp,
                   job.size, job.row.id)
      /\ run' = [run EXCEPT ![p].step = "log", ![p].job.row.id = id]
  BY DEF BookAdd, FillDone
<1>2. /\ run[p].phase # "idle" /\ job \in Jobs /\ job.row \in Rows /\ run[p] \in Passes
      /\ ReadOK(run[p], trades)
  BY <1>1, FilledFacts, Doings, AtWork, StepNames DEF Base
<1>3. /\ job.size \in Nat /\ job.stop \in Int /\ job.row.coin \in Coins /\ job.row.side \in Sides
      /\ job.row.tp \in Int /\ job.row.id \in Nat
  BY <1>2 DEF Jobs, Rows
<1>4. id \in Nat
  BY RowFacts DEF Base
<1>5. [job.row EXCEPT !.id = id] \in Rows
  BY <1>2, <1>4 DEF Rows
<1>6. left = [job EXCEPT !.row = [job.row EXCEPT !.id = id]]
  BY <1>2 DEF Jobs
<1>7. /\ left \in Jobs /\ left.kind = "add" /\ left.row = [job.row EXCEPT !.id = id]
      /\ left.size = job.size /\ left.row.id = id
  <2>1. left \in Jobs /\ left.kind = "add" /\ left.row = [job.row EXCEPT !.id = id]
    BY <1>1, <1>2, <1>5, <1>6 DEF Jobs
  <2>2. left.size = job.size
    BY <1>2, <1>6 DEF Jobs
  <2>3. left.row.id = id
    BY <1>2, <2>1 DEF Rows
  <2> QED BY <2>1, <2>2, <2>3
<1>8. run' = [run EXCEPT ![p] = x]
  BY <1>1, <1>2 DEF Passes
<1>9. /\ x \in Passes /\ x.step = "log" /\ x.job = left /\ x.todo = run[p].todo
      /\ x.phase = run[p].phase /\ x.marks = run[p].marks /\ x.book = run[p].book
      /\ x.moved = run[p].moved
  BY <1>2, <1>7 DEF Passes, Steps
<1>10. /\ LedgerOK' /\ Grows /\ OnlyAdds
       /\ trades'[id].coin = job.row.coin /\ trades'[id].side = job.row.side
       /\ trades'[id].size = job.size /\ trades'[id].entry = fill[p].order.price
       /\ trades'[id].status = "open" /\ trades'[id].realized = 0
  BY <1>1, <1>3, FilledFacts, Opening DEF Base
<1> HIDE DEF x
<1>11. run'[p] = x /\ OthersKept(p) /\ RunOK'
  BY <1>8, <1>9 DEF Base, RunOK, OthersKept
<1>12. Known(left.row, trades')
  <2>1. /\ left.row \in Rows /\ left.row.id = id /\ left.row.side = job.row.side
        /\ left.row.coin = job.row.coin
    <3> HIDE DEF left
    <3>1. left.row \in Rows /\ left.row.id = id
      BY <1>5, <1>7
    <3>2. /\ [job.row EXCEPT !.id = id].side = job.row.side
          /\ [job.row EXCEPT !.id = id].coin = job.row.coin
      BY <1>2 DEF Rows
    <3> QED BY <1>7, <3>1, <3>2
  <2>2. id \in DOMAIN trades'
    BY <1>10 DEF OnlyAdds
  <2> QED BY <1>10, <2>1, <2>2 DEF Known
<1> HIDE DEF left, id
<1>13. JobOK(left, "log", trades')
  BY <1>7, <1>12, PurposesAre DEF JobOK
<1>14. ReadOK(x, trades')
  BY <1>2, <1>9, <1>10, ReadStays
<1>15. Local(x, trades')
  BY <1>9, <1>13, <1>14 DEF Local
<1> QED BY <1>1, <1>7, <1>9, <1>10, <1>11, <1>15 DEF Holds, Memory, BookKept, id, job

LEMMA StopsWritten ==
    ASSUME Base, NEW p \in Procs, WriteStop(p)
    PROVE  /\ Holds(p) /\ keys' = keys /\ partials' = partials /\ Doing(p, "stop")
           /\ run[p].job.row.id \in DOMAIN trades /\ OnlyRewrites(run[p].job.row.id)
           /\ trades'[run[p].job.row.id].size = trades[run[p].job.row.id].size
           /\ trades'[run[p].job.row.id].sl = run[p].job.stop
           /\ trades'[run[p].job.row.id].status = trades[run[p].job.row.id].status
           /\ trades'[run[p].job.row.id].realized = trades[run[p].job.row.id].realized
           /\ \/ /\ run'[p].step = "claim" /\ run'[p].job.kind = "add"
                 /\ run'[p].moved = run[p].moved /\ run[p].job.kind = "add"
                 /\ run'[p].job.row = run[p].job.row /\ run'[p].job.size = run[p].job.size
              \/ /\ Next1(p) /\ run[p].job.kind = "stop"
                 /\ run'[p].moved = run[p].moved \cup {run[p].job.row.id}
<1> DEFINE job == run[p].job
           id == job.row.id
<1>1. /\ Doing(p, "stop") /\ keys' = keys /\ partials' = partials
      /\ trades' = [trades EXCEPT ![id].sl = job.stop]
  BY DEF WriteStop
<1>2. /\ run[p].phase # "idle" /\ job \in Jobs /\ run[p] \in Passes /\ job.kind \in {"stop", "add"}
      /\ Known(job.row, trades) /\ job.row \in Rows /\ id \in DOMAIN trades
      /\ ReadOK(run[p], trades)
  BY <1>1, Doings, AtWork, StepNames, PurposesAre DEF Base, JobOK
<1>3. job.stop \in Int /\ id \in Nat
  BY <1>2 DEF Jobs, Rows
<1>4. /\ LedgerOK' /\ Grows /\ OnlyRewrites(id)
      /\ trades'[id].size = trades[id].size /\ trades'[id].sl = job.stop
      /\ trades'[id].status = trades[id].status /\ trades'[id].realized = trades[id].realized
  <2> HIDE DEF job, id
  <2> QED BY <1>1, <1>2, <1>3, MovingStop DEF Base
<1>5. CASE job.kind = "add"
  <2> DEFINE key == <<"add", id, AddsLogged(id)>>
             left == [job EXCEPT !.key = key]
             x == [run[p] EXCEPT !.step = "claim", !.job = left]
  <2>1. AddsLogged(id) \in Nat
    <3>1. DOMAIN trades = 1..Len(trades) /\ Len(trades) \in Nat
      BY RowFacts DEF Base
    <3>2. IsFiniteSet(1..Len(trades))
      BY <3>1, FS_Interval
    <3>3. IsFiniteSet({i \in DOMAIN trades : trades[i].parent = id /\ trades[i].logged})
      BY <3>1, <3>2, FS_Subset
    <3> QED BY <3>3, FS_CardinalityType DEF AddsLogged
  <2>2. key \in Kinds \X Nat \X Nat
    BY <1>3, <2>1, PurposesAre
  <2> HIDE DEF key
  <2>3. /\ left \in Jobs /\ left.kind = "add" /\ left.row = job.row /\ left.key = key
        /\ left.size = job.size
    BY <1>2, <1>5, <2>2 DEF Jobs
  <2>4. run' = [run EXCEPT ![p] = x]
    <3>1. run' = [run EXCEPT ![p].step = "claim", ![p].job.key = key]
      BY <1>5 DEF WriteStop, key
    <3> QED BY <1>2, <3>1 DEF Passes
  <2>5. /\ x \in Passes /\ x.step = "claim" /\ x.job = left /\ x.todo = run[p].todo
        /\ x.phase = run[p].phase /\ x.marks = run[p].marks /\ x.book = run[p].book
        /\ x.moved = run[p].moved
    BY <1>2, <2>3 DEF Passes, Steps
  <2> HIDE DEF x, left
  <2>6. run'[p] = x /\ OthersKept(p) /\ RunOK'
    BY <2>4, <2>5 DEF Base, RunOK, OthersKept
  <2>7. Known(left.row, trades')
    BY <1>2, <1>4, <2>3, KnownStays
  <2>8. left.key[1] \in Entries
    BY <2>3 DEF key, Entries
  <2>9. JobOK(left, "claim", trades')
    BY <2>3, <2>7, <2>8, PurposesAre DEF JobOK
  <2>10. ReadOK(x, trades')
    BY <1>2, <1>4, <2>5, ReadStays
  <2>11. Local(x, trades')
    BY <2>5, <2>9, <2>10 DEF Local
  <2> QED BY <1>1, <1>2, <1>4, <1>5, <2>3, <2>5, <2>6, <2>11 DEF Holds, Memory, BookKept
<1>6. CASE job.kind = "stop"
  <2>1. run' = [Onward(p) EXCEPT ![p].moved = @ \cup {id}]
    BY <1>6 DEF WriteStop
  <2>2. {id} \in SUBSET Nat
    BY <1>3
  <2> HIDE DEF id, job
  <2>3. Holds(p) /\ Next1(p)
    BY <1>2, <1>4, <2>1, <2>2, GoingOn DEF Base, Holds, Next1
  <2>4. run'[p].moved = run[p].moved \cup {id}
    BY <1>2, <2>1 DEF Base, RunOK, Onward, Passes
  <2> QED BY <1>1, <1>2, <1>4, <1>6, <2>3, <2>4 DEF id, job
<1> QED BY <1>2, <1>5, <1>6

-----------------------------------------------------------------------------
(* The invariants are kept, step by step. *)

KeysKept == \A i : ScaleKey(i) \in keys => ScaleKey(i) \in keys'
SizesKept == \A i \in DOMAIN trades : trades'[i].size = trades[i].size
\* The process did not come to hold an order for a partial.
Calm(p) ==
    run'[p].phase # "idle" /\ run'[p].step \in Ordering /\ run'[p].job.kind = "scale" =>
        /\ Scaling(p) /\ run'[p].job = run[p].job
        /\ run'[p].step = "place" => run[p].step = "place"

LEMMA BankStays ==
    ASSUME BankInv, partials' = partials, KeysKept, NEW p \in Procs, OthersKept(p), Calm(p)
    PROVE  BankInv'
<1>1. ASSUME NEW q \in Procs, Scaling(q)'
      PROVE  /\ Scaling(q) /\ run'[q].job = run[q].job
             /\ run'[q].step = "place" => run[q].step = "place"
  <2>1. CASE q = p
    BY <1>1, <2>1 DEF Calm, Scaling
  <2>2. CASE q # p
    BY <1>1, <2>2 DEF OthersKept, Scaling
  <2> QED BY <2>1, <2>2
<1>2. \A n \in DOMAIN partials' : ScaleKey(partials'[n]) \in keys'
  BY DEF BankInv, KeysKept
<1>3. ASSUME NEW q \in Procs, Scaling(q)'
      PROVE  /\ ScaleKey(run'[q].job.row.id) \in keys'
             /\ run'[q].step = "place" =>
                    \A n \in DOMAIN partials' : partials'[n] # run'[q].job.row.id
             /\ \A o \in Procs : Scaling(o)' /\ o # q =>
                    run'[o].job.row.id # run'[q].job.row.id
  <2>1. /\ Scaling(q) /\ run'[q].job = run[q].job
        /\ run'[q].step = "place" => run[q].step = "place"
    BY <1>1, <1>3
  <2>2. \A o \in Procs : Scaling(o)' => Scaling(o) /\ run'[o].job = run[o].job
    BY <1>1
  <2> QED BY <2>1, <2>2 DEF BankInv, KeysKept
<1>4. BankedOnce'
  BY DEF BankInv, BankedOnce
<1> QED BY <1>2, <1>3, <1>4 DEF BankInv

LEMMA SizeStays ==
    ASSUME SizesKept, KeysKept, NEW x, Local(x, trades), SizeOK(x, trades, keys)
    PROVE  SizeOK(x, trades', keys')
<1> SUFFICES ASSUME x.phase # "idle" PROVE SizeOK(x, trades', keys')
  BY DEF SizeOK
<1>1. /\ ReadOK(x, trades)
      /\ IF x.step = "next" THEN x.job = NoJob ELSE JobOK(x.job, x.step, trades)
  BY DEF Local, Idle
<1>2. x.phase # "enter" => \A i \in x.todo : i \in DOMAIN trades
  BY <1>1 DEF ReadOK, Known
<1>3. x.step # "next" /\ x.job.kind = "scale" => x.job.row.id \in DOMAIN trades
  BY <1>1 DEF JobOK, Known
<1>4. x.step \in Ordering \cup {"claim"} => x.step # "next"
  BY DEF Ordering
<1> QED BY <1>2, <1>3, <1>4 DEF SizeOK, SizesKept, KeysKept

LEMMA OneSize ==
    ASSUME Base, SizesKept, KeysKept, NEW p \in Procs, OthersKept(p),
           SizeOK(run'[p], trades', keys')
    PROVE  SizeInv'
<1>1. ASSUME NEW q \in Procs, q # p
      PROVE  SizeOK(run'[q], trades', keys')
  <2>1. run'[q] = run[q] /\ Local(run[q], trades) /\ SizeOK(run[q], trades, keys)
    BY <1>1 DEF OthersKept, Base, RunInv, SizeInv
  <2> QED BY <2>1, SizeStays
<1> QED BY <1>1 DEF SizeInv

\* Nothing is claimed or ordered anew for a partial.
LEMMA OwnSize ==
    ASSUME Base, SizesKept, KeysKept, NEW p \in Procs, run[p].phase # "idle", OthersKept(p),
           BookKept(p), run'[p].todo \subseteq run[p].todo, Calm(p),
           run'[p].step = "claim" => run'[p].job.kind # "scale"
    PROVE  SizeInv'
<1>1. Local(run[p], trades) /\ SizeOK(run[p], trades, keys)
  BY DEF Base, RunInv, SizeInv
<1>2. SizeOK(run[p], trades', keys')
  BY <1>1, SizeStays
<1>3. SizeOK(run'[p], trades', keys')
  BY <1>2 DEF SizeOK, BookKept, Calm, Scaling
<1> QED BY <1>3, OneSize

Kept == BankInv' /\ SizeInv'

LEMMA NothingTaken ==
    ASSUME keys' = keys, trades' = trades
    PROVE  KeysKept /\ SizesKept
BY DEF KeysKept, SizesKept

LEMMA ReadingKeeps ==
    ASSUME Base, NEW p \in Procs, Reading(p)
    PROVE  Kept
<1>1. trades' = trades /\ keys' = keys /\ partials' = partials
  BY DEF Reading, StartPass, StartRules, StartResolve, StartEntries, Still, deskVars
<1>2. Memory(p) /\ ReadsAnew(p)
  BY ReadingReads DEF Base
<1>3. Calm(p)
  BY <1>2 DEF ReadsAnew, Calm, Ordering
<1>4. SizeOK(run'[p], trades', keys')
  BY <1>1, <1>2 DEF ReadsAnew, SizeOK, Ordering
<1> QED BY <1>1, <1>2, <1>3, <1>4, NothingTaken, BankStays, OneSize DEF Kept, Memory, Base

LEMMA IdlingKeeps ==
    ASSUME Base, NEW p \in Procs, UNCHANGED deskVars, run' = [run EXCEPT ![p] = Idle]
    PROVE  Kept
<1>1. trades' = trades /\ keys' = keys /\ partials' = partials
  BY DEF deskVars
<1>2. OthersKept(p) /\ run'[p] = Idle
  BY <1>1, Idles DEF Base, Memory
<1>3. Calm(p) /\ SizeOK(run'[p], trades', keys')
  BY <1>2 DEF Calm, SizeOK, Idle
<1> QED BY <1>1, <1>2, <1>3, NothingTaken, BankStays, OneSize DEF Kept, Base

LEMMA PlanKeeps ==
    ASSUME Base, NEW p \in Procs, Still, NEW step \in Steps, NEW job \in Jobs, Plan(p, step, job)
    PROVE  Kept
<1>1. trades' = trades /\ keys' = keys /\ partials' = partials
  BY DEF Still, deskVars
<1>2. /\ Memory(p) /\ BookKept(p) /\ run'[p].step = step /\ run'[p].job = job
      /\ run'[p].todo = run[p].todo \ {Turn(p)} /\ run[p].phase # "idle"
  BY <1>1, PlanMoves DEF Base, Plan
<1>3. step \in Ordering => job.kind = "resolve"
  BY DEF Plan, Ordering
<1>4. Calm(p)
  BY <1>2, <1>3 DEF Calm
<1>5. SizeOK(run[p], trades, keys) /\ Turn(p) \in run[p].todo
  BY <1>2, TurnIsOpen DEF Base, SizeInv, Plan
<1>6. ASSUME job.kind = "scale"
      PROVE  /\ job.size <= job.row.size
             /\ ScaleKey(job.row.id) \notin keys => job.row.size = trades[job.row.id].size
  <2>1. /\ run[p].phase # "enter" /\ job.row = run[p].book[Turn(p)] /\ job.size <= job.row.size
    BY <1>6 DEF Plan, Current
  <2>2. job.row.id = Turn(p)
    <3>1. ReadOK(run[p], trades)
      BY <1>2, AtWork DEF Base
    <3> QED BY <1>5, <2>1, <3>1 DEF ReadOK
  <2> QED BY <1>2, <1>5, <2>1, <2>2 DEF SizeOK
<1>7. SizeOK(run'[p], trades', keys')
  BY <1>1, <1>2, <1>3, <1>5, <1>6 DEF SizeOK, BookKept
<1> QED BY <1>1, <1>2, <1>4, <1>7, NothingTaken, BankStays, OneSize DEF Kept, Memory, Base

LEMMA PassOverKeeps ==
    ASSUME Base, NEW p \in Procs, PassOver(p)
    PROVE  Kept
<1>1. trades' = trades /\ keys' = keys /\ partials' = partials /\ run[p].phase # "idle"
  BY DEF PassOver, Still, deskVars
<1>2. /\ Memory(p) /\ BookKept(p) /\ run'[p].step = "next" /\ run'[p].todo \subseteq run[p].todo
  BY PassingOver DEF Base
<1>3. Calm(p)
  BY <1>2 DEF Calm, Ordering
<1> QED BY <1>1, <1>2, <1>3, NothingTaken, BankStays, OwnSize DEF Kept, Memory, Base

\* A step that leaves the keys and the partials alone and orders nothing for a partial.
LEMMA CalmKeeps ==
    ASSUME Base, NEW p \in Procs, run[p].phase # "idle", Holds(p), KeysKept, SizesKept,
           partials' = partials, Calm(p), run'[p].step = "claim" => run'[p].job.kind # "scale"
    PROVE  Kept
BY BankStays, OwnSize DEF Kept, Base, Holds, Memory

LEMMA ClaimKeeps ==
    ASSUME Base, NEW p \in Procs, Claim(p)
    PROVE  Kept
<1> DEFINE job == run[p].job
<1>1. /\ Holds(p) /\ trades' = trades /\ partials' = partials /\ Doing(p, "claim")
      /\ \/ /\ job.key \notin keys /\ keys' = keys \cup {job.key}
            /\ run'[p].step = "place" /\ Same(p)
         \/ keys' = keys /\ (Next1(p) \/ StopLeft(p))
  BY Claims
<1>2. /\ run[p].phase # "idle" /\ run[p].step = "claim" /\ JobOK(job, "claim", trades)
  BY <1>1, Doings, StepNames DEF Base
<1>3. KeysKept /\ SizesKept
  BY <1>1 DEF KeysKept, SizesKept
<1>4. CASE keys' = keys /\ (Next1(p) \/ StopLeft(p))
  <2>1. Calm(p) /\ run'[p].step # "claim"
    BY <1>4 DEF Calm, Next1, StopLeft, Ordering
  <2> QED BY <1>1, <1>2, <1>3, <2>1, CalmKeeps
<1>5. CASE Same(p) /\ run'[p].step = "place" /\ job.kind # "scale"
  <2>1. Calm(p) /\ run'[p].step # "claim"
    BY <1>5 DEF Calm, Same
  <2> QED BY <1>1, <1>2, <1>3, <2>1, CalmKeeps
<1>6. CASE /\ job.key \notin keys /\ keys' = keys \cup {job.key}
           /\ run'[p].step = "place" /\ Same(p) /\ job.kind = "scale"
  <2> DEFINE id == job.row.id
  <2>1. job.key = ScaleKey(id) /\ id \in DOMAIN trades
    BY <1>2, <1>6 DEF JobOK, ScaleKey, Known
  <2>2. \A n \in DOMAIN partials : partials[n] # id
    BY <1>6, <2>1 DEF Base, BankInv
  <2>3. \A q \in Procs \ {p} : run'[q] = run[q]
    BY <1>1 DEF Holds, Memory, OthersKept
  <2>4. run'[p].job = job /\ run'[p].step = "place" /\ ~Scaling(p)
    BY <1>2, <1>6 DEF Same, Scaling, Ordering
  <2>5. \A q \in Procs \ {p} : Scaling(q)' => Scaling(q)
    BY <2>3 DEF Scaling
  <2>6. \A q \in Procs : Scaling(q) => run[q].job.row.id # id
    BY <1>6, <2>1 DEF Base, BankInv
  <2>7. ASSUME NEW q \in Procs, Scaling(q)'
        PROVE  /\ ScaleKey(run'[q].job.row.id) \in keys'
               /\ run'[q].step = "place" =>
                      \A n \in DOMAIN partials' : partials'[n] # run'[q].job.row.id
               /\ \A o \in Procs : Scaling(o)' /\ o # q =>
                      run'[o].job.row.id # run'[q].job.row.id
    <3>1. CASE q = p
      BY <1>1, <1>6, <2>1, <2>2, <2>3, <2>4, <2>5, <2>6, <3>1
    <3>2. CASE q # p
      <4>1. Scaling(q) /\ run'[q] = run[q]
        BY <2>3, <2>5, <2>7, <3>2
      <4>2. ASSUME NEW o \in Procs, Scaling(o)', o # q
            PROVE  run'[o].job.row.id # run'[q].job.row.id
        <5>1. CASE o = p
          BY <2>4, <2>6, <4>1, <5>1
        <5>2. CASE o # p
          BY <2>3, <2>5, <4>1, <4>2, <5>2 DEF Base, BankInv
        <5> QED BY <5>1, <5>2
      <4> QED BY <1>1, <1>3, <4>1, <4>2 DEF Base, BankInv, KeysKept
    <3> QED BY <3>1, <3>2
  <2>8. BankInv'
    BY <1>1, <1>3, <2>7 DEF Base, BankInv, BankedOnce, KeysKept
  <2>9. SizeOK(run'[p], trades', keys')
    <3>1. SizeOK(run[p], trades, keys)
      BY DEF Base, SizeInv
    <3>2. job.size <= trades[id].size
      BY <1>2, <1>6, <2>1, <3>1 DEF SizeOK
    <3> QED BY <1>1, <1>2, <1>3, <2>4, <3>1, <3>2 DEF SizeOK, Holds, BookKept, KeysKept
  <2>10. OthersKept(p)
    BY <1>1 DEF Holds, Memory
  <2> QED BY <1>3, <2>8, <2>9, <2>10, OneSize DEF Kept
<1> QED BY <1>1, <1>4, <1>5, <1>6

LEMMA PlaceKeeps ==
    ASSUME Base, NEW p \in Procs, Place(p)
    PROVE  Kept
<1> DEFINE job == run[p].job
           id == job.row.id
<1>1. /\ Holds(p) /\ trades' = trades /\ keys' = keys
      /\ Doing(p, "place") /\ run'[p].step = "fill" /\ Same(p)
      /\ partials' = IF job.kind = "scale" THEN Append(partials, id) ELSE partials
  BY Places
<1>2. run[p].phase # "idle" /\ run[p].step = "place"
  BY <1>1 DEF Doing
<1>3. KeysKept /\ SizesKept
  BY <1>1, NothingTaken
<1>4. Calm(p) /\ run'[p].step # "claim"
  BY <1>1, <1>2 DEF Calm, Same, Scaling, Ordering
<1>5. SizeInv'
  BY <1>1, <1>2, <1>3, <1>4, OwnSize DEF Holds, Memory
<1>6. CASE job.kind # "scale"
  BY <1>1, <1>2, <1>3, <1>4, <1>6, CalmKeeps
<1>7. CASE job.kind = "scale"
  <2>1. Scaling(p)
    BY <1>2, <1>7 DEF Scaling, Ordering
  <2>2. /\ ScaleKey(id) \in keys /\ \A n \in DOMAIN partials : partials[n] # id
        /\ \A q \in Procs : Scaling(q) /\ q # p => run[q].job.row.id # id
    BY <1>2, <2>1 DEF Base, BankInv
  <2>3. id \in Nat
    BY <1>1, <1>7, Doings, StepNames DEF Base, Rows
  <2>4. /\ partials \in Seq(Nat) /\ IsInjective(partials)
        /\ \A n \in DOMAIN partials : ScaleKey(partials[n]) \in keys
    BY DEF Base, BankInv, BankedOnce
  <2> HIDE DEF id
  <2>5. /\ partials' \in Seq(Nat) /\ DOMAIN partials = 1..Len(partials) /\ Len(partials) \in Nat
        /\ DOMAIN partials' = 1..(Len(partials) + 1)
        /\ partials'[Len(partials) + 1] = id
        /\ \A n \in 1..Len(partials) : partials'[n] = partials[n]
    BY <1>1, <1>7, <2>3, <2>4
  <2>6. \A n \in DOMAIN partials' : n \in DOMAIN partials \/ n = Len(partials) + 1
    BY <2>5
  <2>7. IsInjective(partials')
    BY <2>2, <2>4, <2>5, <2>6 DEF IsInjective
  <2>8. \A n \in DOMAIN partials' : ScaleKey(partials'[n]) \in keys'
    BY <1>1, <2>2, <2>4, <2>5, <2>6
  <2>9. ASSUME NEW q \in Procs, Scaling(q)'
        PROVE  /\ Scaling(q) /\ run'[q].job = run[q].job
               /\ run'[q].step = "place" => q # p /\ run[q].step = "place"
    <3>1. CASE q = p
      BY <1>1, <2>1, <3>1 DEF Same
    <3>2. CASE q # p
      BY <1>1, <2>9, <3>2 DEF Holds, Memory, OthersKept, Scaling
    <3> QED BY <3>1, <3>2
  <2>10. ASSUME NEW q \in Procs, Scaling(q)'
         PROVE  /\ ScaleKey(run'[q].job.row.id) \in keys'
                /\ run'[q].step = "place" =>
                       \A n \in DOMAIN partials' : partials'[n] # run'[q].job.row.id
                /\ \A o \in Procs : Scaling(o)' /\ o # q =>
                       run'[o].job.row.id # run'[q].job.row.id
    <3>1. /\ Scaling(q) /\ run'[q].job = run[q].job
          /\ run'[q].step = "place" => q # p /\ run[q].step = "place"
      BY <2>9, <2>10
    <3>2. ScaleKey(run'[q].job.row.id) \in keys'
      BY <1>1, <3>1 DEF Base, BankInv
    <3>3. ASSUME run'[q].step = "place", NEW n \in DOMAIN partials'
          PROVE  partials'[n] # run'[q].job.row.id
      <4>1. CASE n \in DOMAIN partials
        BY <2>5, <3>1, <3>3, <4>1 DEF Base, BankInv
      <4>2. CASE n = Len(partials) + 1
        BY <2>2, <2>5, <3>1, <3>3, <4>2
      <4> QED BY <2>6, <4>1, <4>2
    <3>4. \A o \in Procs : Scaling(o)' /\ o # q => run'[o].job.row.id # run'[q].job.row.id
      BY <2>9, <3>1 DEF Base, BankInv
    <3> QED BY <3>2, <3>3, <3>4
  <2>11. BankInv'
    BY <2>5, <2>7, <2>8, <2>10 DEF BankInv, BankedOnce
  <2> QED BY <1>5, <2>11 DEF Kept
<1> QED BY <1>6, <1>7

LEMMA BankingKeeps ==
    ASSUME Base, NEW p \in Procs, BookPartial(p)
    PROVE  Kept
<1> DEFINE id == run[p].job.row.id
<1>1. /\ Holds(p) /\ (Next1(p) \/ StopLeft(p)) /\ keys' = keys /\ partials' = partials
      /\ Scaling(p) /\ id \in DOMAIN trades
      /\ DOMAIN trades' = DOMAIN trades \cup {Len(trades) + 1}
      /\ \A j \in DOMAIN trades : j # id => trades'[j] = trades[j]
  BY Banks
<1>2. ScaleKey(id) \in keys
  BY <1>1 DEF Base, BankInv
<1>3. run'[p].step \in {"next", "stop"} /\ run[p].phase # "idle"
  BY <1>1 DEF Next1, StopLeft, Scaling
<1>4. Calm(p)
  BY <1>3 DEF Calm, Ordering
<1>5. BankInv'
  BY <1>1, <1>4, BankStays DEF KeysKept, Base, Holds, Memory
<1>6. ASSUME NEW q \in Procs
      PROVE  SizeOK(run'[q], trades', keys')
  <2>1. SizeOK(run[q], trades, keys) /\ Local(run[q], trades)
    BY DEF Base, SizeInv, RunInv
  <2>2. run[q].phase # "idle" /\ run[q].phase # "enter" =>
            \A i \in run[q].todo :
                ScaleKey(i) \notin keys' => run[q].book[i].size = trades'[i].size
    <3>1. ASSUME run[q].phase # "idle", run[q].phase # "enter", NEW i \in run[q].todo,
                 ScaleKey(i) \notin keys'
          PROVE  run[q].book[i].size = trades'[i].size
      <4>1. i \in DOMAIN trades /\ i # id
        BY <1>1, <1>2, <2>1, <3>1 DEF Local, ReadOK, Known, Idle
      <4> QED BY <1>1, <2>1, <3>1, <4>1 DEF SizeOK
    <3> QED BY <3>1
  <2>3. CASE q = p
    BY <1>1, <1>3, <2>2, <2>3 DEF SizeOK, Holds, BookKept, Ordering
  <2>4. CASE q # p
    <3>1. run'[q] = run[q]
      BY <1>1, <2>4 DEF Holds, Memory, OthersKept
    <3> SUFFICES ASSUME run[q].phase # "idle"
                 PROVE  SizeOK(run[q], trades', keys')
      BY <3>1 DEF SizeOK
    <3>2. run[q].step \in Ordering \cup {"claim"} /\ run[q].job.kind = "scale" =>
              run[q].job.row.id \in DOMAIN trades
      BY <2>1 DEF Local, JobOK, Known, Idle, Ordering
    <3>3. run[q].step \in Ordering /\ run[q].job.kind = "scale" => run[q].job.row.id # id
      BY <1>1, <2>4 DEF Base, BankInv, Scaling
    <3> QED BY <1>1, <1>2, <2>1, <2>2, <3>2, <3>3 DEF SizeOK
  <2> QED BY <2>3, <2>4
<1> QED BY <1>5, <1>6 DEF Kept, SizeInv

Booking(p) == BookEntry(p) \/ BookPartial(p) \/ BookClose(p) \/ BookAdd(p)

LEMMA OnlyAddsSizes ==
    ASSUME OnlyAdds
    PROVE  SizesKept
BY DEF OnlyAdds, SizesKept

LEMMA OnlyRewritesSizes ==
    ASSUME NEW id, OnlyRewrites(id), trades'[id].size = trades[id].size
    PROVE  SizesKept
BY DEF OnlyRewrites, SizesKept

LEMMA BookingKeeps ==
    ASSUME Base, NEW p \in Procs, Booking(p)
    PROVE  Kept /\ Memory(p)
<1>1. run[p].phase # "idle"
  BY DEF Booking, BookEntry, BookPartial, BookClose, BookAdd, Filled, Doing
<1>2. CASE BookEntry(p)
  <2>1. Holds(p) /\ Next1(p) /\ keys' = keys /\ partials' = partials /\ SizesKept
    BY <1>2, Entered, OnlyAddsSizes
  <2> QED BY <1>1, <2>1, CalmKeeps DEF KeysKept, Calm, Next1, Ordering, Holds
<1>3. CASE BookPartial(p)
  BY <1>3, BankingKeeps, Banks DEF Holds
<1>4. CASE BookClose(p)
  <2>1. Holds(p) /\ Next1(p) /\ keys' = keys /\ partials' = partials /\ SizesKept
    BY <1>4, Closes, OnlyRewritesSizes
  <2> QED BY <1>1, <2>1, CalmKeeps DEF KeysKept, Calm, Next1, Ordering, Holds
<1>5. CASE BookAdd(p)
  <2>1. Holds(p) /\ run'[p].step = "log" /\ keys' = keys /\ partials' = partials /\ SizesKept
    BY <1>5, Slices, OnlyAddsSizes
  <2> QED BY <1>1, <2>1, CalmKeeps DEF KeysKept, Calm, Ordering, Holds
<1> QED BY <1>2, <1>3, <1>4, <1>5 DEF Booking

Writing(p) == LogAdd(p) \/ WriteStop(p) \/ WriteTarget(p)

LEMMA WritingKeeps ==
    ASSUME Base, NEW p \in Procs, Writing(p)
    PROVE  Kept /\ Memory(p)
<1>1. run[p].phase # "idle"
  BY DEF Writing, LogAdd, WriteStop, WriteTarget, Doing
<1>2. CASE LogAdd(p) \/ WriteTarget(p)
  <2>1. Holds(p) /\ Next1(p) /\ keys' = keys /\ partials' = partials /\ SizesKept
    BY <1>2, Logs, Targets, OnlyRewritesSizes
  <2> QED BY <1>1, <2>1, CalmKeeps DEF KeysKept, Calm, Next1, Ordering, Holds
<1>3. CASE WriteStop(p)
  <2>1. /\ Holds(p) /\ keys' = keys /\ partials' = partials /\ SizesKept
        /\ run'[p].step \notin Ordering /\ (run'[p].step = "claim" => run'[p].job.kind # "scale")
    BY <1>3, StopsWritten, OnlyRewritesSizes DEF Next1, Ordering
  <2> QED BY <1>1, <2>1, CalmKeeps DEF KeysKept, Calm, Holds
<1> QED BY <1>2, <1>3 DEF Writing

-----------------------------------------------------------------------------
(* The book. *)

LEMMA FillStays ==
    ASSUME BookOK, NEW p \in Procs, NEW f, Fill(f), fill' = [fill EXCEPT ![p] = f]
    PROVE  /\ fill' = [q \in Procs |-> fill'[q]] /\ \A q \in Procs : Fill(fill'[q])
<1>1. fill' = [q \in Procs |-> IF q = p THEN f ELSE fill[q]]
  BY DEF BookOK
<1>2. \A q \in Procs : fill'[q] = IF q = p THEN f ELSE fill[q]
  BY <1>1
<1>3. \A q \in Procs : Fill(fill'[q])
  BY <1>2 DEF BookOK
<1>4. fill' = [q \in Procs |-> fill'[q]]
  BY <1>1, <1>2
<1> QED BY <1>3, <1>4

LEMMA BookStays ==
    ASSUME BookOK, NEW p \in Procs, NEW f, Fill(f), fill' = [fill EXCEPT ![p] = f],
           position' = position
    PROVE  BookOK'
BY FillStays DEF BookOK

LEMMA FilledPosition ==
    ASSUME NEW held, Position(held), NEW order \in Orders
    PROVE  Position(AfterFill(held, order))
<1>1. /\ held.size \in Nat /\ held.side \in Sides /\ order.size \in Nat /\ order.side \in Sides
      /\ held \in [side : Sides, size : Nat, entry : {held.entry}]
  BY DEF Position, Orders
<1>2. Position(Opened(held, order))
  BY <1>1 DEF Position, Opened
<1>3. Position(Reduced(held, order))
  <2>1. /\ held.size - ClosedSize(held, order) \in Int
        /\ order.size - ClosedSize(held, order) \in Int
    BY <1>1 DEF ClosedSize, Smaller
  <2>2. Position(Flat)
    BY SideCases, Zero DEF Flat, Position
  <2>3. order.size - ClosedSize(held, order) > 0 =>
            Position([side |-> order.side, size |-> order.size - ClosedSize(held, order),
                      entry |-> order.price])
    BY <1>1, <2>1 DEF Position
  <2>4. held.size - ClosedSize(held, order) > 0 =>
            Position([held EXCEPT !.size = held.size - ClosedSize(held, order)])
    BY <1>1, <2>1 DEF Position
  <2> QED BY <2>2, <2>3, <2>4 DEF Reduced
<1> QED BY <1>2, <1>3 DEF AfterFill

LEMMA FillingKeeps ==
    ASSUME BookOK, NEW p \in Procs, FillStep(p)
    PROVE  BookOK'
<1>1. fill[p].step # "none"
  BY DEF FillStep, ReadRealized, AddRealized, WritePosition
<1> DEFINE f == fill[p]
<1>2. /\ f \in [step : {"read", "add", "write", "filled"}, order : Orders, held : {f.held},
                sum : {f.sum}]
      /\ Position(f.held) /\ f.order \in Orders
  BY <1>1 DEF BookOK, Fill, NoFill
<1>3. CASE ReadRealized(p)
  <2> DEFINE g == [f EXCEPT !.step = "add", !.sum = realized]
  <2>1. Fill(g)
    BY <1>2 DEF Fill
  <2>2. fill' = [fill EXCEPT ![p] = g] /\ position' = position
    BY <1>3 DEF ReadRealized, BookOK
  <2> HIDE DEF g
  <2> QED BY <2>1, <2>2, BookStays
<1>4. CASE AddRealized(p)
  <2> DEFINE g == [f EXCEPT !.step = "write"]
  <2>1. Fill(g)
    BY <1>2 DEF Fill
  <2>2. fill' = [fill EXCEPT ![p] = g] /\ position' = position
    BY <1>4 DEF AddRealized, BookOK
  <2> HIDE DEF g
  <2> QED BY <2>1, <2>2, BookStays
<1>5. CASE WritePosition(p)
  <2> DEFINE g == [f EXCEPT !.step = "filled"]
             c == f.order.coin
             new == AfterFill(f.held, f.order)
  <2>1. Fill(g)
    BY <1>2 DEF Fill
  <2>2. fill' = [fill EXCEPT ![p] = g] /\ position' = [position EXCEPT ![c] = new]
    BY <1>5 DEF WritePosition, BookOK
  <2>3. Position(new) /\ c \in Coins
    BY <1>2, FilledPosition DEF Orders
  <2> HIDE DEF g, new, c
  <2>4. position' = [d \in Coins |-> IF d = c THEN new ELSE position[d]]
    BY <2>2, <2>3 DEF BookOK
  <2>5. \A d \in Coins : position'[d] = IF d = c THEN new ELSE position[d]
    BY <2>4
  <2>6. /\ position' = [d \in Coins |-> position'[d]] /\ \A d \in Coins : Position(position'[d])
    BY <2>3, <2>4, <2>5 DEF BookOK
  <2> QED BY <2>1, <2>2, <2>6, FillStays DEF BookOK
<1> QED BY <1>3, <1>4, <1>5 DEF FillStep

LEMMA PlacingKeeps ==
    ASSUME Base, NEW p \in Procs, Place(p)
    PROVE  BookOK'
<1> DEFINE job == run[p].job
<1>1. Doing(p, "place")
  BY DEF Place
<1>2. /\ job \in Jobs /\ JobOK(job, "place", trades)
      /\ job.kind # "enter" => job.row \in Rows
  BY <1>1, Doings, StepNames DEF Base
<1>3. PICK mark \in Int : PlaceOrder(p, OrderOf(job, mark))
  <2>1. job.price \in Int
    BY <1>2 DEF Jobs
  <2> QED BY <2>1, Numbers DEF Place
<1> DEFINE order == OrderOf(job, mark)
<1>4. order \in Orders
  <2>1. job.size \in Nat /\ job.price \in Int
    BY <1>2 DEF Jobs
  <2>2. CASE job.kind = "enter"
    <3>1. job.row.id \in Cands
      BY <1>2, <2>2 DEF JobOK
    <3>2. Setup[job.row.id] \in [coin : Coins, side : Sides, sl : Nat, tp : Nat, size : Nat \ {0}]
      BY <3>1, Constants
    <3> QED BY <2>1, <2>2, <3>2 DEF OrderOf, Orders
  <2>3. CASE job.kind # "enter"
    <3>1. job.row.coin \in Coins /\ job.row.side \in Sides
      BY <1>2, <2>3 DEF Rows
    <3>2. Opposite(job.row.side) \in Sides
      BY <3>1, SideCases DEF Opposite
    <3> QED BY <2>1, <2>3, <3>1, <3>2 DEF OrderOf, Orders
  <2> QED BY <2>2, <2>3
<1> HIDE DEF order
<1> DEFINE f == [step  |-> IF Opens(position[order.coin], order) THEN "write" ELSE "read",
                 order |-> order, held |-> position[order.coin], sum |-> 0]
<1>5. Position(position[order.coin])
  BY <1>4 DEF Base, BookOK, Orders
<1>6. Fill(f)
  BY <1>4, <1>5 DEF Fill
<1>7. fill' = [fill EXCEPT ![p] = f] /\ position' = position
  BY <1>3 DEF PlaceOrder, order
<1> HIDE DEF f
<1> QED BY <1>6, <1>7, BookStays DEF Base

LEMMA EmptyingKeeps ==
    ASSUME BookOK, NEW p \in Procs, fill' = [fill EXCEPT ![p] = NoFill], position' = position
    PROVE  BookOK'
BY BookStays DEF Fill

-----------------------------------------------------------------------------
(* A step of a process, whichever it is. *)

Quiet(p) == Reading(p) \/ EndPass(p) \/ Die(p) \/ PassOver(p)
Planning(p) == Judge(p) \/ RuleDue(p) \/ ResolveDue(p) \/ GateEntry(p)
Trading(p) == Claim(p) \/ Place(p) \/ Refused(p)

LEMMA StepIsOneOf ==
    ASSUME NEW p \in Procs, Step(p)
    PROVE  Quiet(p) \/ Planning(p) \/ Trading(p) \/ Filling(p) \/ Booking(p) \/ Writing(p)
BY DEF Step, Quiet, Reading, Planning, Judge, Trading, Booking, Writing

LEMMA Plans ==
    ASSUME Base, NEW p \in Procs, Planning(p)
    PROVE  Still /\ \E step \in Steps, job \in Jobs : Plan(p, step, job)
<1>1. Still
  BY DEF Planning, Judge, JudgeTighten, JudgeReduce, JudgeClose, JudgeExtend, JudgeAdd,
         RuleDue, ResolveDue, GateEntry
<1> QED BY <1>1, JudgePlans, RulePlans, ResolvePlans, EntryPlans DEF Base, Planning

\* The memory of the processes and the partials.
LEMMA StepKeepsMemory ==
    ASSUME Base, NEW p \in Procs, Step(p)
    PROVE  LedgerOK' /\ RunOK' /\ RunInv' /\ Kept
<1>1. ASSUME Memory(p) PROVE LedgerOK' /\ RunOK' /\ RunInv'
  BY <1>1, OneMoves DEF Memory, Base
<1>2. CASE Reading(p)
  BY <1>1, <1>2, ReadingReads, ReadingKeeps DEF Base
<1>3. CASE EndPass(p) \/ Die(p)
  <2>1. UNCHANGED deskVars /\ trades' = trades /\ run' = [run EXCEPT ![p] = Idle]
    BY <1>3 DEF EndPass, Die, Still, deskVars
  <2> QED BY <1>1, <2>1, Idles, IdlingKeeps DEF Base
<1>4. CASE PassOver(p)
  BY <1>1, <1>4, PassingOver, PassOverKeeps DEF Base
<1>5. CASE Planning(p)
  <2>1. PICK step \in Steps, job \in Jobs : Still /\ Plan(p, step, job)
    BY <1>5, Plans
  <2>2. trades' = trades
    BY <2>1 DEF Still, deskVars
  <2> QED BY <1>1, <2>1, <2>2, PlanMoves, PlanKeeps DEF Base
<1>6. CASE Claim(p)
  BY <1>1, <1>6, Claims, ClaimKeeps DEF Holds
<1>7. CASE Place(p)
  BY <1>1, <1>7, Places, PlaceKeeps DEF Holds
<1>8. CASE Refused(p)
  <2>1. /\ Holds(p) /\ trades' = trades /\ partials' = partials /\ Next1(p) /\ KeysKept
    BY <1>8, Refusals DEF KeysKept
  <2>2. Calm(p) /\ SizesKept /\ run'[p].step # "claim" /\ run[p].phase # "idle"
    BY <1>8, <2>1 DEF Calm, Next1, Ordering, SizesKept, Refused, Doing
  <2> QED BY <1>1, <2>1, <2>2, CalmKeeps DEF Holds
<1>9. CASE Filling(p)
  <2>1. UNCHANGED <<trades, run, keys, partials>>
    BY <1>9 DEF Filling, deskVars
  <2>2. LedgerOK' /\ RunOK' /\ RunInv'
    BY <2>1 DEF Base, LedgerOK, RunOK, RunInv
  <2>3. BankInv'
    BY <2>1 DEF Base, BankInv, Scaling, BankedOnce
  <2>4. SizeInv'
    BY <2>1 DEF Base, SizeInv
  <2> QED BY <2>2, <2>3, <2>4 DEF Kept
<1>10. CASE Booking(p)
  BY <1>1, <1>10, BookingKeeps
<1>11. CASE Writing(p)
  BY <1>1, <1>11, WritingKeeps
<1> QED BY <1>2, <1>3, <1>4, <1>5, <1>6, <1>7, <1>8, <1>9, <1>10, <1>11, StepIsOneOf
        DEF Quiet, Trading

LEMMA StepKeepsBook ==
    ASSUME Base, NEW p \in Procs, Step(p)
    PROVE  BookOK'
<1>1. CASE UNCHANGED bookVars
  BY <1>1 DEF bookVars, Base, BookOK
<1>2. CASE Place(p)
  BY <1>2, PlacingKeeps
<1>3. CASE Filling(p)
  BY <1>3, FillingKeeps DEF Filling, Base
<1>4. CASE Booking(p)
  BY <1>4, EmptyingKeeps
     DEF Booking, BookEntry, BookPartial, BookClose, BookAdd, FillDone, Base
<1>5. CASE Die(p)
  BY <1>5, EmptyingKeeps DEF Die, Base
<1>6. Quiet(p) \/ Claim(p) \/ Refused(p) \/ Writing(p) => UNCHANGED bookVars \/ Die(p)
  BY DEF Quiet, Reading, StartPass, StartRules, StartResolve, StartEntries, EndPass, PassOver,
         Still, Claim, Refused, Writing, LogAdd, WriteStop, WriteTarget
<1>7. Planning(p) => UNCHANGED bookVars
  BY Plans DEF Still
<1> QED BY <1>1, <1>2, <1>3, <1>4, <1>5, <1>6, <1>7, StepIsOneOf DEF Trading

-----------------------------------------------------------------------------
(* What a step does to a row. *)

\* The rows there were keep their stop and their outcome, and the new one is not lost.
RowsKept ==
    /\ DOMAIN trades \subseteq DOMAIN trades'
    /\ \A i \in DOMAIN trades : trades'[i].sl = trades[i].sl /\ trades'[i].status = trades[i].status
           /\ trades'[i].realized = trades[i].realized
    /\ \A i \in DOMAIN trades' \ DOMAIN trades : trades'[i].status # "lost"
StopMoved(p) ==
    LET id == run[p].job.row.id
    IN  /\ Doing(p, "stop") /\ id \in DOMAIN trades /\ OnlyRewrites(id)
        /\ trades'[id].sl = run[p].job.stop /\ trades'[id].status = trades[id].status
        /\ trades'[id].realized = trades[id].realized
RowClosed ==
    \E id \in DOMAIN trades :
        /\ OnlyRewrites(id) /\ trades'[id].sl = trades[id].sl
        /\ trades'[id].status = "lost" => trades'[id].realized <= 0

LEMMA RowsOnlyAdded ==
    ASSUME OnlyAdds, trades'[Len(trades) + 1].status = "open"
    PROVE  RowsKept
BY DEF OnlyAdds, RowsKept

LEMMA StepOnRows ==
    ASSUME Base, NEW p \in Procs, Step(p)
    PROVE  RowsKept \/ StopMoved(p) \/ RowClosed
<1>1. CASE trades' = trades
  BY <1>1 DEF RowsKept
<1>2. CASE BookEntry(p)
  BY <1>2, Entered, RowsOnlyAdded
<1>3. CASE BookAdd(p)
  BY <1>3, Slices, RowsOnlyAdded
<1>4. CASE BookPartial(p)
  BY <1>4, Banks DEF RowsKept
<1>5. CASE BookClose(p)
  BY <1>5, Closes DEF RowClosed
<1>6. CASE LogAdd(p) \/ WriteTarget(p)
  BY <1>6, Logs, Targets DEF RowsKept, OnlyRewrites
<1>7. CASE WriteStop(p)
  BY <1>7, StopsWritten DEF StopMoved
<1>8. Quiet(p) \/ Trading(p) \/ Filling(p) => trades' = trades
  BY DEF Quiet, Reading, StartPass, StartRules, StartResolve, StartEntries, EndPass, Die,
         PassOver, Still, Trading, Claim, Place, Refused, Filling, deskVars
<1>9. Planning(p) => trades' = trades
  BY Plans DEF Still, deskVars
<1> QED BY <1>1, <1>2, <1>3, <1>4, <1>5, <1>6, <1>7, <1>8, <1>9, StepIsOneOf
        DEF Booking, Writing

LEMMA StepKeepsLosses ==
    ASSUME Base, LostNeverProfits, NEW p \in Procs, Step(p)
    PROVE  LostNeverProfits'
<1>1. CASE RowsKept
  BY <1>1 DEF RowsKept, LostNeverProfits
<1>2. CASE StopMoved(p)
  BY <1>2 DEF StopMoved, OnlyRewrites, LostNeverProfits
<1>3. CASE RowClosed
  BY <1>3 DEF RowClosed, OnlyRewrites, LostNeverProfits
<1> QED BY <1>1, <1>2, <1>3, StepOnRows

-----------------------------------------------------------------------------
(* The theorems for any number of processes. *)

DeskInv == Base /\ CountsOK /\ LostNeverProfits

LEMMA InitDesk == Init => DeskInv
<1> SUFFICES ASSUME Init PROVE DeskInv
  OBVIOUS
<1>1. LedgerOK /\ LostNeverProfits
  BY DEF Init, LedgerOK, LostNeverProfits
<1>2. RunOK /\ RunInv /\ SizeInv
  BY DEF Init, RunOK, RunInv, Local, SizeInv, SizeOK, Idle
<1>3. BankInv
  <2>1. /\ partials \in Seq(Nat) /\ DOMAIN partials = {}
    BY DEF Init
  <2>2. \A p \in Procs : ~Scaling(p)
    BY DEF Init, Scaling, Idle
  <2> QED BY <2>1, <2>2 DEF BankInv, BankedOnce, IsInjective
<1>4. BookOK
  <2>1. Position(Flat)
    BY SideCases, Zero DEF Flat, Position
  <2> QED BY <2>1 DEF Init, BookInit, BookOK, Fill
<1>5. CountsOK
  BY Constants DEF Init, CountsOK
<1> QED BY <1>1, <1>2, <1>3, <1>4, <1>5 DEF DeskInv, Base

LEMMA StepKeepsCounts ==
    ASSUME CountsOK, NEW p \in Procs, Step(p)
    PROVE  CountsOK'
<1>1. \/ passes' = passes
      \/ passes < MaxPasses /\ passes' = passes + 1
  BY DEF Step, StartPass, StartRules, StartResolve, StartEntries, EndPass, JudgeTighten,
         JudgeReduce, JudgeClose, JudgeExtend, JudgeAdd, RuleDue, ResolveDue, GateEntry,
         PassOver, Still, Claim, Place, Refused, Filling, BookEntry, BookPartial, BookClose,
         BookAdd, FillDone, LogAdd, WriteStop, WriteTarget, Die
<1>2. \/ faults' = faults
      \/ faults < MaxFaults /\ faults' = faults + 1
  BY DEF Step, StartPass, StartRules, StartResolve, StartEntries, EndPass, JudgeTighten,
         JudgeReduce, JudgeClose, JudgeExtend, JudgeAdd, RuleDue, ResolveDue, GateEntry,
         PassOver, Still, Claim, Place, Refused, Filling, BookEntry, BookPartial, BookClose,
         BookAdd, FillDone, LogAdd, WriteStop, WriteTarget, Die
<1> QED BY <1>1, <1>2, Constants DEF CountsOK

LEMMA DeskStays == DeskInv /\ [Next]_vars => DeskInv'
<1> SUFFICES ASSUME DeskInv, [Next]_vars PROVE DeskInv'
  OBVIOUS
<1>1. CASE UNCHANGED vars
  <2>1. UNCHANGED <<trades, run, keys, partials, position, fill, passes, faults>>
    BY <1>1 DEF vars
  <2>2. LedgerOK' /\ RunOK' /\ RunInv' /\ BookOK' /\ CountsOK' /\ LostNeverProfits'
    BY <2>1 DEF DeskInv, Base, LedgerOK, RunOK, RunInv, BookOK, CountsOK, LostNeverProfits
  <2>3. BankInv'
    BY <2>1 DEF DeskInv, Base, BankInv, Scaling, BankedOnce
  <2>4. SizeInv'
    BY <2>1 DEF DeskInv, Base, SizeInv
  <2> QED BY <2>2, <2>3, <2>4 DEF DeskInv, Base
<1>2. ASSUME NEW p \in Procs, Step(p)
      PROVE  DeskInv'
  BY <1>2, StepKeepsMemory, StepKeepsBook, StepKeepsLosses, StepKeepsCounts
     DEF DeskInv, Base, Kept
<1> QED BY <1>1, <1>2 DEF Next, Finished

LEMMA DeskAlways == Spec => []DeskInv
BY InitDesk, DeskStays, PTL DEF Spec

\* The columns of the ledger and of the book keep to their kinds, and a split never takes
\* more than the row has (store.split_trade).
THEOREM TypeCorrect == Spec => []TypeOK
<1>1. DeskInv => TypeOK
  <2> SUFFICES ASSUME DeskInv PROVE TypeOK
    OBVIOUS
  <2>1. \A c \in Coins : position[c].side \in Sides /\ position[c].size \in Nat
    BY DEF DeskInv, Base, BookOK, Position
  <2>2. \A p \in Procs : fill[p].step \in {"none", "read", "add", "write", "filled"}
    BY DEF DeskInv, Base, BookOK, Fill, NoFill
  <2>3. \A i \in DOMAIN trades :
            /\ trades[i].id = i
            /\ trades[i].status \in Statuses
            /\ trades[i].size \in Nat
            /\ trades[i].status = "open" => trades[i].realized = 0
    BY RowFacts DEF DeskInv, Base, LedgerOK, Rows
  <2> QED BY <2>1, <2>2, <2>3 DEF TypeOK, DeskInv, CountsOK
<1> QED BY <1>1, DeskAlways, PTL

\* One partial a row: however many processes judge and ratchet it and wherever they die
\* (sentry/apply.py, apply_scale_out).
THEOREM PartialsAreBankedOnce == Spec => []BankedOnce
<1>1. DeskInv => BankedOnce
  BY DEF DeskInv, Base, BankInv
<1> QED BY <1>1, DeskAlways, PTL

\* No row is booked lost with a profit (executor/resolve.py, sentry/apply.py), however
\* stale the row it was judged by.
THEOREM LossesAreLosses == Spec => []LostNeverProfits
<1>1. DeskInv => LostNeverProfits
  BY DEF DeskInv
<1> QED BY <1>1, DeskAlways, PTL

-----------------------------------------------------------------------------
(* Stops, where one process runs the desk: two that work on rows each read for  *)
(* itself may undo what the other moved.                                        *)

OneProcess == \E p : Procs = {p}

\* The job in hand moves a stop, now or after its partial.
Stopping(x) ==
    \/ x.job.kind = "stop"
    \/ x.job.kind = "scale" /\ x.job.stop # NoStop
    \/ x.job.kind = "add" /\ x.step = "stop"
\* The mark is known and the stop is not hit at it.
Clear(row, mark, stop) == mark \in Marks /\ ShortOf(row, mark, stop)

\* Rows to come have the stop they were read with, the stop to be written is better than the
\* row's, and what the rules moved is clear of the mark the resolver will judge it by.
ReadStops(x, t) == x.phase # "enter" => \A i \in x.todo : x.book[i].sl = t[i].sl
JobStops(x, t) ==
    x.step # "next" =>
        /\ Stopping(x) =>
               /\ x.job.row.id \notin x.todo
               /\ Better(t[x.job.row.id], x.job.stop)
        /\ x.phase = "rule" =>
               /\ x.job.kind \in {"stop", "scale"}
               /\ Stopping(x) => Clear(x.job.row, x.marks[x.job.row.coin], x.job.stop)
        /\ x.phase = "resolve" =>
               /\ x.job.kind = "resolve"
               /\ x.job.row.id \in x.moved =>
                      Clear(x.job.row, x.marks[x.job.row.coin], x.job.row.sl)
MovedStops(x, t) ==
    x.phase \in {"rule", "resolve"} =>
        \A i \in x.moved : i \in DOMAIN t /\ Clear(t[i], x.marks[t[i].coin], t[i].sl)
StopsOK(x, t) == x.phase # "idle" => ReadStops(x, t) /\ JobStops(x, t) /\ MovedStops(x, t)

StopInv == \A p \in Procs : StopsOK(run[p], trades)

\* The rows keep their stops.
StopsKept ==
    Grows /\ \A i \in DOMAIN trades : trades'[i].sl = trades[i].sl

LEMMA SameClear ==
    ASSUME NEW r, NEW s, r.side = s.side, NEW mark, NEW stop, Clear(r, mark, stop)
    PROVE  Clear(s, mark, stop)
BY DEF Clear, ShortOf

\* What the job in hand becomes.
Follows(x, y) ==
    \/ y.step = "next"
    \/ /\ x.step # "next" /\ y.step # "next"
       /\ \/ y.job = x.job /\ (y.step = "stop" => x.step = "stop")
          \/ /\ y.job = [x.job EXCEPT !.kind = "stop"] /\ x.job \in Jobs
             /\ x.job.kind = "scale" /\ x.job.stop # NoStop
          \/ x.job.kind = "add" /\ y.job.kind = "add" /\ y.step # "stop"

LEMMA StopsStay ==
    ASSUME StopsKept, NEW x, Local(x, trades), x.phase # "idle", StopsOK(x, trades),
           NEW y, y.phase = x.phase, y.marks = x.marks, y.book = x.book,
           y.todo \subseteq x.todo, y.moved = x.moved, Follows(x, y)
    PROVE  StopsOK(y, trades')
<1>1. /\ ReadOK(x, trades)
      /\ IF x.step = "next" THEN x.job = NoJob ELSE JobOK(x.job, x.step, trades)
  BY DEF Local, Idle
<1>2. ReadStops(y, trades')
  BY <1>1 DEF StopsOK, ReadStops, ReadOK, Known, StopsKept
<1>3. MovedStops(y, trades')
  <2> SUFFICES ASSUME y.phase \in {"rule", "resolve"}, NEW i \in y.moved
               PROVE  i \in DOMAIN trades' /\ Clear(trades'[i], y.marks[trades'[i].coin], trades'[i].sl)
    BY DEF MovedStops
  <2>1. i \in DOMAIN trades /\ Clear(trades[i], x.marks[trades[i].coin], trades[i].sl)
    BY DEF StopsOK, MovedStops
  <2>2. /\ i \in DOMAIN trades' /\ trades'[i].side = trades[i].side
        /\ trades'[i].coin = trades[i].coin /\ trades'[i].sl = trades[i].sl
    BY <2>1 DEF StopsKept, Grows
  <2>3. Clear(trades'[i], x.marks[trades[i].coin], trades[i].sl)
    BY <2>1, <2>2, SameClear
  <2> QED BY <2>2, <2>3
<1>4. JobStops(y, trades')
  <2> SUFFICES ASSUME y.step # "next" PROVE JobStops(y, trades')
    BY DEF JobStops
  <2>1. x.step # "next" /\ JobStops(x, trades) /\ JobOK(x.job, x.step, trades) /\ x.job \in Jobs
    BY <1>1 DEF Follows, StopsOK, JobOK
  <2>2. ASSUME Stopping(x)
        PROVE  Better(trades'[x.job.row.id], x.job.stop)
    <3>1. x.job.row.id \in DOMAIN trades
      BY <2>1, <2>2 DEF JobOK, Known, Stopping
    <3>2. /\ trades'[x.job.row.id].side = trades[x.job.row.id].side
          /\ trades'[x.job.row.id].sl = trades[x.job.row.id].sl
      BY <3>1 DEF StopsKept, Grows
    <3> QED BY <2>1, <2>2, <3>2 DEF JobStops, Better
  <2>3. CASE y.job = x.job /\ (y.step = "stop" => x.step = "stop")
    <3>1. Stopping(y) => Stopping(x)
      BY <2>3 DEF Stopping
    <3> QED BY <2>1, <2>2, <2>3, <3>1 DEF JobStops
  <2>4. CASE /\ y.job = [x.job EXCEPT !.kind = "stop"]
             /\ x.job.kind = "scale" /\ x.job.stop # NoStop
    <3>1. Stopping(x) /\ y.job.kind = "stop" /\ y.job.row = x.job.row /\ y.job.stop = x.job.stop
      BY <2>1, <2>4 DEF Stopping, Jobs
    <3>2. x.phase # "resolve"
      BY <2>1, <2>4 DEF JobStops
    <3> QED BY <2>1, <2>2, <3>1, <3>2 DEF JobStops
  <2>5. CASE x.job.kind = "add" /\ y.job.kind = "add" /\ y.step # "stop"
    BY <2>1, <2>5 DEF JobStops, Stopping
  <2> QED BY <2>3, <2>4, <2>5 DEF Follows
<1> QED BY <1>2, <1>3, <1>4 DEF StopsOK

LEMMA RowsKeptStops ==
    ASSUME Grows, RowsKept \/ RowClosed
    PROVE  StopsKept
BY DEF RowsKept, RowClosed, OnlyRewrites, StopsKept

LEMMA MovedKept ==
    ASSUME RunOK, NEW p \in Procs, run[p].phase # "idle",
           \/ run' = Onward(p) \/ run' = AfterJob(p)
           \/ \E S \in SUBSET Coins : run' = [Onward(p) EXCEPT ![p].held = @ \cup S]
    PROVE  run'[p].moved = run[p].moved
<1>1. run[p] \in Passes
  BY Working
<1>2. CASE run' = Onward(p)
  BY <1>1, <1>2 DEF RunOK, Onward, Passes
<1>3. CASE run' = [run EXCEPT ![p].step = "stop", ![p].job.kind = "stop"]
  BY <1>1, <1>3 DEF RunOK, Passes
<1>4. ASSUME NEW S \in SUBSET Coins, run' = [Onward(p) EXCEPT ![p].held = @ \cup S]
      PROVE  run'[p].moved = run[p].moved
  <2> DEFINE x == [run[p] EXCEPT !.step = "next", !.job = NoJob]
             y == [x EXCEPT !.held = @ \cup S]
  <2>1. x.moved = run[p].moved /\ Onward(p) = [run EXCEPT ![p] = x]
    BY <1>1 DEF Onward, Passes
  <2>2. y.moved = x.moved
    BY <1>1 DEF Passes
  <2>3. run' = [run EXCEPT ![p] = y]
    BY <1>4, <2>1 DEF RunOK
  <2> HIDE DEF x, y
  <2> QED BY <2>1, <2>2, <2>3 DEF RunOK
<1> QED BY <1>2, <1>3, <1>4 DEF AfterJob

\* Of all the steps that act, only the write of a stop adds to the rows moved.
LEMMA ActsFollow ==
    ASSUME Base, NEW p \in Procs,
           Trading(p) \/ Booking(p) \/ LogAdd(p) \/ WriteTarget(p)
    PROVE  /\ run[p].phase # "idle" /\ Holds(p) /\ run'[p].moved = run[p].moved
           /\ Follows(run[p], run'[p])
<1>1. /\ run[p].phase # "idle" /\ run[p].step # "next"
  BY DEF Trading, Claim, Place, Refused, Booking, BookEntry, BookPartial, BookClose, BookAdd,
         Filled, LogAdd, WriteTarget, Doing
<1>2. run[p].job \in Jobs
  <2>1. run[p].step \in Steps \ {"next"}
    BY <1>1, Working DEF Base, Passes
  <2> QED BY <1>1, <2>1, Doings DEF Base, Doing
<1>3. CASE Refused(p) \/ BookEntry(p) \/ BookClose(p) \/ LogAdd(p) \/ WriteTarget(p)
  <2>1. Holds(p) /\ Next1(p)
    BY <1>3, Refusals, Entered, Closes, Logs, Targets
  <2>2. run' = Onward(p) \/ \E S \in SUBSET Coins : run' = [Onward(p) EXCEPT ![p].held = @ \cup S]
    <3>1. CASE BookEntry(p)
      <4> DEFINE c == Setup[run[p].job.row.id]
      <4>1. run[p].job.kind = "enter" /\ Filled(p)
        BY <3>1 DEF BookEntry
      <4>2. run[p].job.row \in [id : Cands]
        BY <4>1, FilledFacts, Doings, StepNames DEF Base, JobOK
      <4>3. run[p].job.row.id \in Cands
        BY <4>2
      <4>4. c \in [coin : Coins, side : Sides, sl : Nat, tp : Nat, size : Nat \ {0}]
        BY <4>3, Constants
      <4>5. {c.coin} \in SUBSET Coins
        BY <4>4
      <4>6. run' = [Onward(p) EXCEPT ![p].held = @ \cup {c.coin}]
        BY <3>1 DEF BookEntry
      <4> QED BY <4>5, <4>6
    <3> QED BY <1>3, <3>1 DEF Refused, BookClose, LogAdd, WriteTarget
  <2> QED BY <1>1, <2>1, <2>2, MovedKept DEF Next1, Follows, Base
<1>4. CASE Claim(p) \/ BookPartial(p)
  <2>1. Holds(p)
    BY <1>4, Claims, Banks
  <2>2. CASE run'[p].step = "place" /\ Same(p)
    BY <1>1, <2>1, <2>2 DEF Same, Follows
  <2>3. CASE Next1(p)
    <3>1. run' = AfterJob(p)
      <4>1. Goto(p, "place") => run'[p].step = "place"
        BY <1>1, Goes, StepNames DEF Base
      <4> QED BY <1>4, <2>3, <4>1 DEF Claim, BookPartial, Next1
    <3> QED BY <1>1, <2>1, <2>3, <3>1, MovedKept DEF Next1, Follows, Base
  <2>4. CASE StopLeft(p)
    BY <1>1, <1>2, <2>1, <2>4 DEF StopLeft, Follows
  <2> QED BY <1>4, <2>2, <2>3, <2>4, Claims, Banks
<1>5. CASE Place(p)
  BY <1>1, <1>5, Places DEF Same, Follows
<1>6. CASE BookAdd(p)
  <2>1. run[p].job.kind = "add"
    BY <1>6 DEF BookAdd
  <2> QED BY <1>1, <1>6, <2>1, Slices DEF Follows
<1> QED BY <1>3, <1>4, <1>5, <1>6 DEF Trading, Booking

\* What holds of the row a process is at, as it was read.
LEMMA CurrentStops ==
    ASSUME Base, StopInv, NEW p \in Procs, NEW step \in Steps, NEW job \in Jobs,
           Plan(p, step, job), run[p].phase # "enter"
    PROVE  LET t == trades[job.row.id]
           IN  /\ job.row.id = Turn(p) /\ job.row.id \in DOMAIN trades
               /\ t.side = job.row.side /\ t.coin = job.row.coin /\ t.sl = job.row.sl
<1>1. run[p].phase # "idle" /\ ~AtEnd(p) /\ job.row = run[p].book[Turn(p)]
  BY DEF Plan, Current
<1>2. Turn(p) \in run[p].todo
  BY <1>1, TurnIsOpen DEF Base
<1>3. ReadOK(run[p], trades)
  BY <1>1, AtWork DEF Base
<1>4. ReadStops(run[p], trades)
  BY <1>1 DEF StopInv, StopsOK
<1> QED BY <1>1, <1>2, <1>3, <1>4 DEF ReadOK, Known, ReadStops

LEMMA PlanStops ==
    ASSUME Base, StopInv, NEW p \in Procs, trades' = trades,
           NEW step \in Steps, NEW job \in Jobs, Plan(p, step, job)
    PROVE  StopsOK(run'[p], trades')
<1> DEFINE x == run[p]
           y == run'[p]
<1>1. /\ y.phase = x.phase /\ y.marks = x.marks /\ y.book = x.book /\ y.step = step
      /\ y.job = job /\ y.todo = x.todo \ {Turn(p)} /\ y.moved = x.moved
      /\ x.phase # "idle"
  BY PlanMoves DEF Base, BookKept, Plan
<1>2. StopsOK(x, trades)
  BY DEF StopInv
<1> HIDE DEF x, y
<1>3. ReadStops(y, trades') /\ MovedStops(y, trades')
  BY <1>1, <1>2 DEF StopsOK, ReadStops, MovedStops
<1>4. CASE x.phase = "enter"
  <2>1. job.kind = "enter"
    BY <1>4 DEF Plan, x
  <2> QED BY <1>1, <1>3, <1>4, <2>1 DEF StopsOK, JobStops, Stopping, y
<1>5. CASE x.phase # "enter"
  <2> DEFINE row == job.row
             t == trades[row.id]
  <2>1. /\ row.id = Turn(p) /\ row.id \in DOMAIN trades
        /\ t.side = row.side /\ t.coin = row.coin /\ t.sl = row.sl
    BY <1>5, CurrentStops DEF x
  <2>2. /\ x.marks[row.coin] \in Marks
        /\ x.phase = "rule" => job.kind \in {"stop", "scale"}
        /\ x.phase = "resolve" => job.kind = "resolve"
        /\ Moving(job) => Better(row, job.stop)
        /\ Moving(job) /\ x.phase = "rule" => ShortOf(row, x.marks[row.coin], job.stop)
    BY <1>5 DEF Plan, MarkOf, x
  <2>3. Stopping(y) => Moving(job)
    BY <1>1 DEF Stopping, Moving
  <2>4. Moving(job) => Better(t, job.stop)
    BY <2>1, <2>2 DEF Better
  <2>5. ASSUME x.phase = "resolve", row.id \in x.moved
        PROVE  Clear(row, x.marks[row.coin], row.sl)
    <3>1. Clear(t, x.marks[t.coin], t.sl)
      BY <1>2, <2>5 DEF StopsOK, MovedStops
    <3>2. Clear(t, x.marks[row.coin], row.sl)
      BY <2>1, <3>1
    <3> HIDE DEF t, row
    <3> QED BY <2>1, <3>2, SameClear
  <2>6. Stopping(y) => /\ row.id \notin y.todo
                       /\ Better(t, job.stop)
                       /\ x.phase = "rule" => Clear(row, x.marks[row.coin], job.stop)
    BY <1>1, <2>1, <2>2, <2>3, <2>4 DEF Clear
  <2>7. JobStops(y, trades')
    BY <1>1, <2>2, <2>5, <2>6 DEF JobStops
  <2> QED BY <1>3, <2>7 DEF StopsOK, y
<1> QED BY <1>4, <1>5 DEF y

LEMMA ReadingStops ==
    ASSUME Base, StopInv, NEW p \in Procs, Reading(p)
    PROVE  StopsOK(run'[p], trades')
<1>1. ReadsAnew(p) /\ trades' = trades
  BY ReadingReads DEF Base, Reading, StartPass, StartRules, StartResolve, StartEntries, Still,
     deskVars
<1>2. ReadStops(run'[p], trades') /\ JobStops(run'[p], trades')
  BY <1>1 DEF ReadsAnew, ReadStops, JobStops
<1>3. MovedStops(run'[p], trades')
  <2>1. CASE run'[p].moved = {}
    BY <2>1 DEF MovedStops
  <2>2. CASE /\ run'[p].phase = "resolve" /\ run[p].phase = "rule"
             /\ run'[p].moved = run[p].moved /\ run'[p].marks = run[p].marks
    <3>1. MovedStops(run[p], trades)
      BY <2>2 DEF StopInv, StopsOK
    <3> QED BY <1>1, <2>2, <3>1 DEF MovedStops
  <2> QED BY <1>1, <2>1, <2>2 DEF ReadsAnew
<1> QED BY <1>2, <1>3 DEF StopsOK

LEMMA WriteStops ==
    ASSUME Base, StopInv, NEW p \in Procs, WriteStop(p)
    PROVE  StopsOK(run'[p], trades')
<1> DEFINE x == run[p]
           y == run'[p]
           job == run[p].job
           id == run[p].job.row.id
<1>1. /\ Holds(p) /\ Doing(p, "stop") /\ id \in DOMAIN trades /\ OnlyRewrites(id)
      /\ trades'[id].sl = job.stop
      /\ \/ y.step = "claim" /\ y.job.kind = "add" /\ y.moved = x.moved
         \/ Next1(p) /\ y.moved = x.moved \cup {id}
  BY StopsWritten
<1>2. /\ x.phase # "idle" /\ x.step = "stop" /\ JobOK(job, "stop", trades)
      /\ job.kind \in {"stop", "add"} /\ Known(job.row, trades)
  <2>1. x.phase # "idle" /\ x.step = "stop" /\ JobOK(job, "stop", trades)
    BY <1>1, Doings, StepNames DEF Base
  <2>2. job.kind \in {"stop", "add"}
    BY <2>1, PurposesAre DEF JobOK
  <2> QED BY <2>1, <2>2 DEF JobOK
<1>3. /\ ReadStops(x, trades) /\ JobStops(x, trades) /\ MovedStops(x, trades)
      /\ ReadOK(x, trades)
  BY <1>2, AtWork DEF StopInv, StopsOK, Base
<1>4. Stopping(x)
  BY <1>2 DEF Stopping
<1>5. /\ y.phase = x.phase /\ y.marks = x.marks /\ y.book = x.book /\ y.todo = x.todo
      /\ Grows
  BY <1>1 DEF Holds, BookKept, Memory
<1>6. id \notin x.todo
      /\ (x.phase = "rule" => job.kind = "stop" /\ Clear(job.row, x.marks[job.row.coin], job.stop))
      /\ x.phase # "resolve"
  BY <1>2, <1>3, <1>4 DEF JobStops
<1>7. y.step = "next" \/ (y.step = "claim" /\ y.job.kind = "add" /\ job.kind = "add")
  <2>1. CASE job.kind = "add"
    BY <1>1, <2>1 DEF Next1
  <2>2. CASE job.kind # "add"
    <3>1. run' = [Onward(p) EXCEPT ![p].moved = @ \cup {id}]
      BY <2>2 DEF WriteStop
    <3>2. {id} \in SUBSET Nat
      BY <1>1, RowFacts DEF Base
    <3>3. y.step = "next"
      BY <1>2, <3>1, <3>2, GoesOn DEF Base
    <3> QED BY <3>3
  <2> QED BY <2>1, <2>2
<1> HIDE DEF x, y, job, id
<1>8. ReadStops(y, trades')
  <2> SUFFICES ASSUME y.phase # "enter", NEW i \in y.todo PROVE y.book[i].sl = trades'[i].sl
    BY DEF ReadStops
  <2>1. x.book[i].sl = trades[i].sl /\ i \in DOMAIN trades /\ i # id
    BY <1>3, <1>5, <1>6 DEF ReadStops, ReadOK, Known
  <2> QED BY <1>1, <1>5, <2>1 DEF OnlyRewrites
<1>9. JobStops(y, trades')
  BY <1>5, <1>6, <1>7 DEF JobStops, Stopping
<1>10. MovedStops(y, trades')
  <2> SUFFICES ASSUME y.phase \in {"rule", "resolve"}, NEW i \in y.moved
               PROVE  i \in DOMAIN trades' /\ Clear(trades'[i], y.marks[trades'[i].coin], trades'[i].sl)
    BY DEF MovedStops
  <2>1. x.phase = "rule" /\ Clear(job.row, x.marks[job.row.coin], job.stop)
    BY <1>5, <1>6
  <2>2. CASE i = id
    <3>1. /\ trades'[id].side = job.row.side /\ trades'[id].coin = job.row.coin
          /\ id \in DOMAIN trades' /\ trades'[id].sl = job.stop
      BY <1>1, <1>2, <1>5 DEF Known, Grows, id, job
    <3>2. Clear(trades'[id], x.marks[job.row.coin], job.stop)
      BY <2>1, <3>1, SameClear
    <3> QED BY <1>5, <2>2, <3>1, <3>2
  <2>3. CASE i # id
    <3>1. i \in x.moved
      BY <1>1, <2>3
    <3>2. i \in DOMAIN trades /\ Clear(trades[i], x.marks[trades[i].coin], trades[i].sl)
      BY <1>3, <2>1, <3>1 DEF MovedStops
    <3>3. trades'[i] = trades[i] /\ i \in DOMAIN trades'
      BY <1>1, <2>3, <3>2 DEF OnlyRewrites
    <3> QED BY <1>5, <3>2, <3>3
  <2> QED BY <2>2, <2>3
<1> QED BY <1>8, <1>9, <1>10 DEF StopsOK, y

LEMMA ActStops ==
    ASSUME Base, StopInv, NEW p \in Procs,
           Trading(p) \/ Booking(p) \/ LogAdd(p) \/ WriteTarget(p)
    PROVE  StopsOK(run'[p], trades')
<1>1. /\ run[p].phase # "idle" /\ Holds(p) /\ run'[p].moved = run[p].moved
      /\ Follows(run[p], run'[p])
  BY ActsFollow
<1>2. Grows /\ BookKept(p) /\ run'[p].todo = run[p].todo
  BY <1>1 DEF Holds, Memory
<1>3. Step(p) /\ ~StopMoved(p)
  <2>1. Step(p)
    BY DEF Trading, Booking, Step
  <2>2. ASSUME StopMoved(p) PROVE FALSE
    <3>1. Doing(p, "stop")
      BY <2>2 DEF StopMoved
    <3> QED BY <3>1 DEF Doing, Trading, Claim, Place, Refused, Booking, BookEntry, BookPartial,
            BookClose, BookAdd, Filled, LogAdd, WriteTarget
  <2> QED BY <2>1, <2>2
<1>4. StopsKept
  BY <1>2, <1>3, StepOnRows, RowsKeptStops
<1>5. Local(run[p], trades) /\ StopsOK(run[p], trades)
  BY DEF Base, RunInv, StopInv
<1> QED BY <1>1, <1>2, <1>4, <1>5, StopsStay DEF BookKept

LEMMA StepKeepsStops ==
    ASSUME OneProcess, Base, StopInv, NEW p \in Procs, Step(p)
    PROVE  StopInv'
<1> SUFFICES StopsOK(run'[p], trades')
  BY DEF OneProcess, StopInv
<1>1. CASE Reading(p)
  BY <1>1, ReadingStops
<1>2. CASE EndPass(p) \/ Die(p)
  <2>1. run'[p] = Idle
    BY <1>2, Idles DEF EndPass, Die, Still, deskVars, Base
  <2> QED BY <2>1 DEF StopsOK, Idle
<1>3. CASE PassOver(p)
  <2>1. /\ run[p].phase # "idle" /\ BookKept(p) /\ run'[p].step = "next"
        /\ run'[p].todo \subseteq run[p].todo /\ run'[p].moved = run[p].moved
    BY <1>3, PassingOver DEF Base, PassOver
  <2>2. trades' = trades
    BY <1>3 DEF PassOver, Still, deskVars
  <2>3. StopsOK(run[p], trades)
    BY DEF StopInv
  <2>4. StopsKept /\ Local(run[p], trades) /\ Follows(run[p], run'[p])
    BY <2>1, <2>2, Keeps DEF Base, RunInv, StopsKept, Follows
  <2> QED BY <2>1, <2>3, <2>4, StopsStay DEF BookKept
<1>4. CASE Planning(p)
  <2>1. PICK step \in Steps, job \in Jobs : Plan(p, step, job)
    BY <1>4, Plans DEF Base
  <2>2. trades' = trades
    BY <1>4, Plans DEF Base, Still, deskVars
  <2> QED BY <2>1, <2>2, PlanStops
<1>5. CASE Filling(p)
  <2>1. run' = run /\ trades' = trades
    BY <1>5 DEF Filling, deskVars
  <2> QED BY <2>1 DEF StopInv
<1>6. CASE Trading(p) \/ Booking(p) \/ LogAdd(p) \/ WriteTarget(p)
  BY <1>6, ActStops
<1>7. CASE WriteStop(p)
  BY <1>7, WriteStops
<1> QED BY <1>1, <1>2, <1>3, <1>4, <1>5, <1>6, <1>7, StepIsOneOf DEF Quiet, Writing

-----------------------------------------------------------------------------
(* The theorems for one process. *)

LEMMA InitStops == Init => StopInv
BY DEF Init, StopInv, StopsOK, Idle

LEMMA StopsAlways ==
    ASSUME OneProcess
    PROVE  Spec => [](DeskInv /\ StopInv)
<1>1. DeskInv /\ StopInv /\ [Next]_vars => DeskInv' /\ StopInv'
  <2> SUFFICES ASSUME DeskInv, StopInv, [Next]_vars PROVE StopInv'
    BY DeskStays
  <2>1. CASE UNCHANGED vars
    BY <2>1 DEF vars, StopInv
  <2>2. CASE \E p \in Procs : Step(p)
    BY <2>2, StepKeepsStops DEF DeskInv
  <2> QED BY <2>1, <2>2 DEF Next, Finished
<1> QED BY <1>1, InitDesk, InitStops, PTL DEF Spec

\* Where one process runs the desk, a stop the rules moved does not close its own row in
\* the same pass (executor/runner.py, run_once: the rules go before the resolver).
THEOREM MovedStopsHold ==
    ASSUME OneProcess
    PROVE  Spec => []MovedStopHolds
<1>1. DeskInv /\ StopInv => MovedStopHolds
  <2> SUFFICES ASSUME DeskInv, StopInv, NEW p \in Procs, run[p].phase = "resolve",
                      run[p].step \in {"place", "fill"}, run[p].job.row.id \in run[p].moved
               PROVE  ~StopHit(run[p].job.row, MarkOf(p, run[p].job.row.coin))
    BY DEF MovedStopHolds
  <2> DEFINE row == run[p].job.row
             mark == MarkOf(p, row.coin)
  <2>1. JobStops(run[p], trades) /\ run[p].step # "next" /\ Doing(p, run[p].step)
    BY DEF StopInv, StopsOK, Doing
  <2>2. Clear(row, mark, row.sl) /\ run[p].job.kind = "resolve"
    BY <2>1 DEF JobStops, MarkOf
  <2>3. row \in Rows
    BY <2>1, <2>2, Doings, StepNames DEF DeskInv, Base
  <2>4. row.side \in {1, -1} /\ row.sl \in Int /\ mark \in Int /\ row.side * (mark - row.sl) > 0
    BY <2>2, <2>3, SideCases, Numbers DEF Clear, ShortOf, Rows
  <2> HIDE DEF mark
  <2>5. ~(row.side * (mark - row.sl) <= 0)
    BY <2>4
  <2> QED BY <2>5 DEF StopHit, mark
<1> QED BY <1>1, StopsAlways, PTL

\* The ratchet, where one process runs the desk: the stop of an open row only ever moves
\* toward profit, whether the model tightens it, adds to it or the rules move it
\* (sentry/engine.py, sentry/gate.py).
THEOREM StopsRatchet ==
    ASSUME OneProcess
    PROVE  Spec => StopNeverLoosens
<1> DEFINE Ratchet == \A i \in DOMAIN trades :
               trades[i].status = "open" =>
                   trades[i].side * (trades'[i].sl - trades[i].sl) >= 0
<1>1. DeskInv /\ StopInv /\ [Next]_vars => [Ratchet]_vars
  <2> SUFFICES ASSUME DeskInv, StopInv, NEW p \in Procs, Step(p), NEW i \in DOMAIN trades
               PROVE  trades[i].side * (trades'[i].sl - trades[i].sl) >= 0
    BY DEF Next, Finished
  <2>1. trades[i].side \in {1, -1} /\ trades[i].sl \in Int
    BY RowFacts, SideCases DEF DeskInv, Base, Rows
  <2>2. CASE trades'[i].sl = trades[i].sl
    BY <2>1, <2>2
  <2>3. CASE StopMoved(p) /\ i = run[p].job.row.id
    <3>1. Doing(p, "stop") /\ trades'[i].sl = run[p].job.stop
      BY <2>3 DEF StopMoved
    <3>2. run[p].phase # "idle" /\ run[p].step = "stop" /\ run[p].job \in Jobs
          /\ run[p].job.kind \in {"stop", "add"}
      BY <3>1, Doings, StepNames, PurposesAre DEF DeskInv, Base, JobOK
    <3>3. Better(trades[i], run[p].job.stop)
      BY <2>3, <3>2 DEF StopInv, StopsOK, JobStops, Stopping
    <3>4. run[p].job.stop \in Int
      BY <3>2 DEF Jobs
    <3> QED BY <2>1, <3>1, <3>3, <3>4 DEF Better
  <2>4. StopMoved(p) /\ i # run[p].job.row.id => trades'[i].sl = trades[i].sl
    BY DEF StopMoved, OnlyRewrites
  <2>5. RowsKept => trades'[i].sl = trades[i].sl
    BY DEF RowsKept
  <2>6. RowClosed => trades'[i].sl = trades[i].sl
    BY DEF RowClosed, OnlyRewrites
  <2> QED BY <2>2, <2>3, <2>4, <2>5, <2>6, StepOnRows DEF DeskInv
<1> QED BY <1>1, StopsAlways, PTL DEF Spec, StopNeverLoosens
=============================================================================
