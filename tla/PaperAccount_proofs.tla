------------------------ MODULE PaperAccount_proofs ------------------------
(***************************************************************************)
(* The account of the paper desk: the book and the ledger tell of the same *)
(* shares and of the same money, for any candidates, marks and rules and   *)
(* any number of passes, with one process on the desk.                     *)
(***************************************************************************)
EXTENDS PaperDesk_proofs, Sums_proofs

-----------------------------------------------------------------------------
(* The sizes of open rows, and of the rows a process goes through: as it read *)
(* them, for one process.                                                      *)

Closing == {"scale", "close", "resolve"}

\* The rows to come are open and as large as they were read; so is the row in hand, of
\* which a partial takes less than all and a close all.
ReadRows(x, t) ==
    x.phase # "enter" => \A i \in x.todo :
        IsOpen(t[i]) /\ x.book[i].size = t[i].size /\ x.book[i].entry = t[i].entry
RowInHand(x, t) ==
    LET row == x.job.row
    IN  /\ row.id \notin x.todo
        /\ row.size = t[row.id].size /\ row.entry = t[row.id].entry
        /\ IF x.job.kind = "scale" THEN x.job.size < row.size ELSE x.job.size = row.size
JobRows(x, t) ==
    x.step # "next" =>
        /\ x.phase = "enter" <=> x.job.kind = "enter"
        /\ x.job.kind = "enter" => x.job.size = Setup[x.job.row.id].size
        /\ x.job.kind = "add" => x.job.size > 0
        /\ x.job.kind \in Closing \cup {"add"} => IsOpen(t[x.job.row.id])
        /\ x.job.kind \in Closing => RowInHand(x, t)
RowsOK(x, t) == x.phase # "idle" => ReadRows(x, t) /\ JobRows(x, t)

RowsInv ==
    /\ \A i \in OpenIds : trades[i].size > 0
    /\ \A p \in Procs : RowsOK(run[p], trades)

LEMMA StartedJob ==
    ASSUME RunOK, NEW p \in Procs, run[p].phase # "idle", NEW step, NEW job, Start(p, step, job)
    PROVE  run'[p].job = job
<1>1. run[p] \in Passes
  BY Working
<1> QED BY <1>1 DEF Start, Passes, RunOK

LEMMA ScaleOutSize ==
    ASSUME NEW row, NEW mark, NEW part \in ScaleOut(row, mark)
    PROVE  part.size = row.size \div ScaleOutParts
BY DEF ScaleOut

\* How much of its row, or of its candidate, a job is for.
LEMMA PlanSizes ==
    ASSUME Base, NEW p \in Procs, Planning(p)
    PROVE  LET job == run'[p].job
           IN  /\ job.kind = "enter" => job.size = Setup[job.row.id].size
               /\ job.kind = "add" => job.size \in AddSizes
               /\ job.kind = "scale" =>
                      \E k \in Nat \ {0, 1} : job.size = job.row.size \div k
               /\ job.kind \in {"close", "resolve"} => job.size = job.row.size
<1>1. run[p].phase # "idle"
  BY DEF Planning, Judge, JudgeTighten, JudgeReduce, JudgeClose, JudgeExtend, JudgeAdd, Judging,
         RuleDue, ResolveDue, GateEntry, In
<1> DEFINE row == Current(p)
           Is(kind, size) == \E step, r, price, status, stop :
               /\ Start(p, step, Job(kind, r, size, price, status, stop))
               /\ IF kind = "enter" THEN r = [id |-> row] ELSE r = row
           Has(kind, size) ==
               /\ run'[p].job.kind = kind /\ run'[p].job.size = size
               /\ kind = "enter" => run'[p].job.row.id = row
               /\ kind # "enter" => run'[p].job.row = row
<1>2. ASSUME NEW kind, NEW size, Is(kind, size)
      PROVE  Has(kind, size)
  <2>1. PICK step, r, price, status, stop :
            /\ Start(p, step, Job(kind, r, size, price, status, stop))
            /\ IF kind = "enter" THEN r = [id |-> row] ELSE r = row
    BY <1>2
  <2>2. run'[p].job = Job(kind, r, size, price, status, stop)
    BY <1>1, <2>1, StartedJob DEF Base
  <2> QED BY <2>1, <2>2 DEF Job
<1>3. \/ JudgeReduce(p) \/ JudgeClose(p) \/ JudgeAdd(p) \/ RuleDue(p) \/ ResolveDue(p)
      \/ GateEntry(p) \/ JudgeTighten(p) \/ JudgeExtend(p)
  BY DEF Planning, Judge
<1>4. JudgeTighten(p) => Is("stop", 0)
  BY DEF JudgeTighten
<1>5. JudgeExtend(p) => Is("extend", 0)
  BY DEF JudgeExtend
<1>6. JudgeReduce(p) => Is("scale", row.size \div 2)
  BY DEF JudgeReduce
<1>7. JudgeClose(p) => Is("close", row.size)
  BY DEF JudgeClose
<1>8. JudgeAdd(p) => \E size \in AddSizes : Is("add", size)
  BY DEF JudgeAdd
<1>9. RuleDue(p) => Is("stop", 0) \/ Is("scale", row.size \div ScaleOutParts)
  <2>1. ASSUME NEW mark, NEW part \in ScaleOut(row, mark), NEW stop,
               Start(p, "claim", Job("scale", row, part.size, part.level, "", stop))
        PROVE  Is("scale", row.size \div ScaleOutParts)
    <3>1. part.size = row.size \div ScaleOutParts
      BY <2>1, ScaleOutSize
    <3> QED BY <2>1, <3>1
  <2>2. ASSUME NEW stop, Start(p, "stop", Job("stop", row, 0, 0, "", stop))
        PROVE  Is("stop", 0)
    BY <2>2
  <2> HIDE DEF Is
  <2> QED BY <2>1, <2>2 DEF RuleDue
<1>10. ResolveDue(p) => Is("resolve", row.size)
  BY DEF ResolveDue
<1>11. GateEntry(p) => Is("enter", Setup[row].size)
  BY DEF GateEntry
<1> HIDE DEF Is
<1>12. ScaleOutParts \in Nat \ {0, 1} /\ 2 \in Nat \ {0, 1}
  BY RulesAssumption DEF RulesAssumption
<1> HIDE DEF row
<1> QED BY <1>2, <1>3, <1>4, <1>5, <1>6, <1>7, <1>8, <1>9, <1>10, <1>11, <1>12

LEMMA PartIsLess ==
    ASSUME NEW n \in Nat, n > 0, NEW k \in Nat \ {0, 1}
    PROVE  n \div k < n
OBVIOUS

\* A row the process is not at, or is through with, is out of the way of what it goes on to.
LEMMA RowsStay ==
    ASSUME NEW x, x.phase # "idle", RowsOK(x, trades),
           NEW y, y.phase = x.phase, y.book = x.book, y.todo \subseteq x.todo,
           x.phase # "enter" => \A i \in x.todo :
               trades'[i].status = trades[i].status /\ trades'[i].size = trades[i].size
                   /\ trades'[i].entry = trades[i].entry,
           y.step # "next" =>
               /\ x.step # "next"
               /\ \/ y.job.kind = "stop" /\ x.job.kind \in {"stop", "scale"}
                  \/ /\ y.job = x.job
                     /\ x.job.kind \in Closing \cup {"add"} =>
                            LET id == x.job.row.id
                            IN  /\ trades'[id].status = trades[id].status
                                /\ trades'[id].size = trades[id].size
                                /\ trades'[id].entry = trades[id].entry
                  \/ /\ y.job.kind = "add" /\ x.job.kind = "add" /\ y.job.size = x.job.size
                     /\ IsOpen(trades'[y.job.row.id])
    PROVE  RowsOK(y, trades')
<1>1. ReadRows(y, trades')
  BY DEF RowsOK, ReadRows, IsOpen
<1>2. JobRows(y, trades')
  <2> SUFFICES ASSUME y.step # "next" PROVE JobRows(y, trades')
    BY DEF JobRows
  <2>1. JobRows(x, trades) /\ x.step # "next"
    BY DEF RowsOK
  <2>2. CASE y.job.kind = "stop" /\ x.job.kind \in {"stop", "scale"}
    BY <2>1, <2>2 DEF JobRows, Closing
  <2>3. CASE y.job = x.job /\ x.job.kind \notin Closing \cup {"add"}
    BY <2>1, <2>3 DEF JobRows
  <2>4. CASE /\ y.job = x.job /\ x.job.kind \in Closing \cup {"add"}
             /\ trades'[x.job.row.id].status = trades[x.job.row.id].status
             /\ trades'[x.job.row.id].size = trades[x.job.row.id].size
             /\ trades'[x.job.row.id].entry = trades[x.job.row.id].entry
    BY <2>1, <2>4 DEF JobRows, RowInHand, IsOpen
  <2>5. CASE /\ y.job.kind = "add" /\ x.job.kind = "add" /\ y.job.size = x.job.size
             /\ IsOpen(trades'[y.job.row.id])
    BY <2>1, <2>5 DEF JobRows, Closing
  <2> QED BY <2>2, <2>3, <2>4, <2>5
<1> QED BY <1>1, <1>2 DEF RowsOK

\* Status, size and profit of every row are as they were, and there is no other.
SameRows ==
    /\ DOMAIN trades' = DOMAIN trades
    /\ \A i \in DOMAIN trades :
           /\ trades'[i].status = trades[i].status /\ trades'[i].size = trades[i].size
           /\ trades'[i].realized = trades[i].realized
           /\ trades'[i].entry = trades[i].entry /\ trades'[i].coin = trades[i].coin
           /\ trades'[i].side = trades[i].side

LEMMA StepKeepsRows ==
    ASSUME Base, NEW p \in Procs, Step(p), ~Booking(p)
    PROVE  SameRows
<1>1. CASE trades' = trades
  BY <1>1 DEF SameRows
<1>2. CASE Writing(p)
  <2>1. Holds(p) /\ \E id \in DOMAIN trades :
            /\ OnlyRewrites(id)
            /\ trades'[id].size = trades[id].size /\ trades'[id].status = trades[id].status
            /\ trades'[id].realized = trades[id].realized
    BY <1>2, Logs, Targets, StopsWritten DEF Writing
  <2> QED BY <2>1 DEF Holds, Memory, Grows, OnlyRewrites, SameRows
<1>3. Quiet(p) \/ Trading(p) \/ Filling(p) => trades' = trades
  BY DEF Quiet, Reading, StartPass, StartRules, StartResolve, StartEntries, EndPass, Die,
         PassOver, Still, Trading, Claim, Place, Refused, Filling, deskVars
<1>4. Planning(p) => trades' = trades
  BY Plans DEF Still, deskVars
<1> QED BY <1>1, <1>2, <1>3, <1>4, StepIsOneOf

LEMMA PlanRows ==
    ASSUME Base, RowsInv, NEW p \in Procs, Planning(p)
    PROVE  RowsOK(run'[p], trades')
<1>1. PICK step \in Steps, job \in Jobs : Still /\ Plan(p, step, job)
  BY Plans
<1> DEFINE x == run[p]
           y == run'[p]
<1>2. trades' = trades
  BY <1>1 DEF Still, deskVars
<1>3. /\ y.phase = x.phase /\ y.book = x.book /\ y.step = step /\ y.job = job
      /\ y.todo = x.todo \ {Turn(p)} /\ x.phase # "idle"
  BY <1>1, <1>2, PlanMoves DEF Base, BookKept, Plan
<1>4. ReadRows(x, trades)
  BY <1>3 DEF RowsInv, RowsOK
<1>5. ReadRows(y, trades')
  BY <1>2, <1>3, <1>4 DEF ReadRows
<1>6. /\ x.phase = "enter" <=> job.kind = "enter"
      /\ x.phase # "enter" => job.row = x.book[Turn(p)]
  BY <1>1 DEF Plan, Current
<1>7. /\ job.kind = "enter" => job.size = Setup[job.row.id].size
      /\ job.kind = "add" => job.size > 0
      /\ job.kind = "scale" => \E k \in Nat \ {0, 1} : job.size = job.row.size \div k
      /\ job.kind \in {"close", "resolve"} => job.size = job.row.size
  <2> DEFINE j == run'[p].job
  <2>1. /\ j.kind = "enter" => j.size = Setup[j.row.id].size
        /\ j.kind = "add" => j.size \in AddSizes
        /\ j.kind = "scale" => \E k \in Nat \ {0, 1} : j.size = j.row.size \div k
        /\ j.kind \in {"close", "resolve"} => j.size = j.row.size
    BY PlanSizes, Zenon
  <2>2. j = job
    BY <1>3
  <2>3. \A n \in AddSizes : n > 0
    BY DeskAssumption DEF DeskAssumption
  <2> HIDE DEF j
  <2> QED BY <2>1, <2>2, <2>3
<1>8. ASSUME x.phase # "enter"
      PROVE  /\ job.row.id = Turn(p) /\ Turn(p) \in x.todo /\ Turn(p) \in OpenIds
             /\ job.row.size = trades[Turn(p)].size /\ job.row.entry = trades[Turn(p)].entry
             /\ trades[Turn(p)].size \in Nat /\ trades[Turn(p)].size > 0
  <2>1. Turn(p) \in x.todo
    BY <1>1, TurnIsOpen DEF Base, Plan
  <2>2. job.row.id = Turn(p) /\ Turn(p) \in DOMAIN trades
    <3>1. ReadOK(x, trades)
      BY <1>3, AtWork DEF Base
    <3> QED BY <1>6, <1>8, <2>1, <3>1 DEF ReadOK, Known
  <2>3. /\ IsOpen(trades[Turn(p)]) /\ job.row.size = trades[Turn(p)].size
        /\ job.row.entry = trades[Turn(p)].entry
    BY <1>4, <1>6, <1>8, <2>1 DEF ReadRows
  <2>4. Turn(p) \in OpenIds
    BY <2>2, <2>3 DEF OpenIds, IsOpen
  <2>5. trades[Turn(p)].size \in Nat /\ trades[Turn(p)].size > 0
    BY <2>2, <2>4, RowFacts DEF RowsInv, Base, Rows
  <2> QED BY <2>1, <2>2, <2>3, <2>4, <2>5
<1>9. JobRows(y, trades')
  <2>1. job.kind # "enter" => IsOpen(trades[job.row.id])
    BY <1>6, <1>8 DEF OpenIds, IsOpen
  <2>2. ASSUME job.kind \in Closing PROVE RowInHand(y, trades')
    <3>1. x.phase # "enter"
      BY <1>6, <2>2 DEF Closing
    <3>2. job.kind = "scale" => job.size < job.row.size
      BY <1>7, <1>8, <3>1, PartIsLess
    <3> QED BY <1>2, <1>3, <1>7, <1>8, <2>2, <3>1, <3>2 DEF RowInHand, Closing
  <2> QED BY <1>2, <1>3, <1>6, <1>7, <2>1, <2>2 DEF JobRows, Closing
<1> QED BY <1>5, <1>9 DEF RowsOK, y

LEMMA FillingJob ==
    ASSUME Base, RowsInv, NEW p \in Procs, Booking(p)
    PROVE  LET job == run[p].job
           IN  /\ run[p].phase # "idle" /\ run[p].step = "fill" /\ JobRows(run[p], trades)
               /\ ReadOK(run[p], trades) /\ JobOK(job, "fill", trades)
               /\ job.kind \in Closing \cup {"enter", "add"}
               /\ job.kind # "enter" => /\ job.row.id \in DOMAIN trades
                                        /\ job.row.side = trades[job.row.id].side
                                        /\ job.row.coin = trades[job.row.id].coin
                                        /\ job.row.id \in OpenIds
<1>1. Filled(p)
  BY DEF Booking, BookEntry, BookPartial, BookClose, BookAdd
<1>2. /\ run[p].phase # "idle" /\ run[p].step = "fill" /\ JobOK(run[p].job, "fill", trades)
      /\ run[p].job.kind # "enter" => Known(run[p].job.row, trades)
  BY <1>1, FilledFacts, Doings, StepNames DEF Base
<1>3. ReadOK(run[p], trades) /\ JobRows(run[p], trades)
  BY <1>2, AtWork DEF RowsInv, RowsOK, Base
<1>4. run[p].job.kind \in Closing \cup {"enter", "add"}
  BY <1>2, PurposesAre DEF JobOK, Closing
<1>5. run[p].job.kind # "enter" => run[p].job.row.id \in OpenIds
  BY <1>2, <1>3, <1>4 DEF JobRows, Known, OpenIds, IsOpen
<1> QED BY <1>2, <1>3, <1>4, <1>5 DEF Known

LEMMA BookingRows ==
    ASSUME Base, RowsInv, NEW p \in Procs, Booking(p)
    PROVE  /\ RowsOK(run'[p], trades')
           /\ \A i \in OpenIds' : trades'[i].size > 0
<1> DEFINE x == run[p]
           y == run'[p]
           id == x.job.row.id
           n == Len(trades) + 1
<1>1. /\ x.phase # "idle" /\ x.step = "fill" /\ JobRows(x, trades) /\ ReadOK(x, trades)
      /\ x.job.kind # "enter" => id \in OpenIds
      /\ RowsOK(x, trades)
  BY FillingJob DEF RowsInv
<1>2. x.phase # "enter" => \A i \in x.todo : i \in DOMAIN trades
  BY <1>1 DEF ReadOK, Known
<1>3. Holds(p)
  BY Entered, Closes, Banks, Slices DEF Booking
<1>4. y.phase = x.phase /\ y.book = x.book /\ y.todo = x.todo
  BY <1>3 DEF Holds, BookKept
<1>5. \A i \in OpenIds : i \in DOMAIN trades /\ trades[i].size \in Nat /\ trades[i].size > 0
  BY RowFacts DEF OpenIds, RowsInv, Base, Rows
<1>6. CASE BookEntry(p)
  <2>1. /\ OnlyAdds /\ y.step = "next" /\ trades'[n].size = Setup[id].size
        /\ x.job.kind = "enter"
    BY <1>6, Entered DEF Next1, BookEntry
  <2>2. Setup[id].size > 0
    <3>1. id \in Cands
      BY <1>6, <2>1, FillingJob DEF JobOK, Booking
    <3>2. Setup[id].size \in Nat \ {0}
      BY <3>1, DeskAssumption DEF DeskAssumption
    <3> QED BY <3>2
  <2>3. x.phase = "enter"
    BY <1>1, <2>1 DEF JobRows
  <2>4. RowsOK(y, trades')
    BY <1>1, <1>4, <2>1, <2>3, RowsStay
  <2>5. \A i \in OpenIds' : i = n \/ (i \in OpenIds /\ trades'[i] = trades[i])
    BY <2>1 DEF OnlyAdds, OpenIds
  <2> QED BY <1>5, <2>1, <2>2, <2>4, <2>5
<1>7. CASE BookAdd(p)
  <2>1. /\ OnlyAdds /\ y.step = "log" /\ y.job.kind = "add" /\ trades'[n].size = x.job.size
        /\ y.job.row.id = n /\ y.job.size = x.job.size /\ trades'[n].status = "open"
        /\ x.job.kind = "add"
    BY <1>7, Slices DEF BookAdd
  <2>2. x.job.size > 0
    BY <1>1, <2>1 DEF JobRows
  <2>3. x.phase # "enter" => \A i \in x.todo :
            trades'[i].status = trades[i].status /\ trades'[i].size = trades[i].size
                /\ trades'[i].entry = trades[i].entry
    BY <1>2, <2>1 DEF OnlyAdds
  <2>4. RowsOK(y, trades')
    <3> HIDE DEF x, y
    <3> QED BY <1>1, <1>4, <2>1, <2>3, RowsStay DEF IsOpen
  <2>5. \A i \in OpenIds' : i = n \/ (i \in OpenIds /\ trades'[i] = trades[i])
    BY <2>1 DEF OnlyAdds, OpenIds
  <2> QED BY <1>5, <2>1, <2>2, <2>4, <2>5
<1>8. CASE BookClose(p)
  <2>1. /\ OnlyRewrites(id) /\ y.step = "next" /\ trades'[id].status # "open"
        /\ x.job.kind \in {"close", "resolve"}
    BY <1>8, Closes DEF Next1, BookClose
  <2>2. id \notin x.todo
    BY <1>1, <2>1 DEF JobRows, RowInHand, Closing
  <2>3. x.phase # "enter" => \A i \in x.todo :
            trades'[i].status = trades[i].status /\ trades'[i].size = trades[i].size
                /\ trades'[i].entry = trades[i].entry
    BY <1>2, <2>1, <2>2 DEF OnlyRewrites
  <2>4. RowsOK(y, trades')
    <3> HIDE DEF x, y
    <3> QED BY <1>1, <1>4, <2>1, <2>3, RowsStay
  <2>5. \A i \in OpenIds' : i \in OpenIds /\ trades'[i] = trades[i]
    BY <2>1 DEF OnlyRewrites, OpenIds
  <2> QED BY <1>5, <2>4, <2>5
<1>9. CASE BookPartial(p)
  <2>1. /\ y.step = "next" \/ (y.step = "stop" /\ y.job = [x.job EXCEPT !.kind = "stop"])
        /\ x.job.kind = "scale" /\ id \in DOMAIN trades
        /\ DOMAIN trades' = DOMAIN trades \cup {n}
        /\ \A j \in DOMAIN trades : j # id => trades'[j] = trades[j]
        /\ trades'[id].size = trades[id].size - x.job.size
        /\ trades'[n].status = "scaled"
    BY <1>9, Banks DEF Next1, StopLeft, BookPartial
  <2>2. id \notin x.todo /\ x.job.size < trades[id].size
    BY <1>1, <2>1 DEF JobRows, RowInHand, Closing
  <2>3. x.phase # "enter" => \A i \in x.todo :
            trades'[i].status = trades[i].status /\ trades'[i].size = trades[i].size
                /\ trades'[i].entry = trades[i].entry
    BY <1>2, <2>1, <2>2
  <2>4. y.step = "next" \/ (y.step = "stop" /\ y.job.kind = "stop")
    <3>1. x.job \in Jobs
      BY <1>9, FillingJob DEF JobOK, Booking
    <3> QED BY <2>1, <3>1 DEF Jobs
  <2>5. RowsOK(y, trades')
    <3> HIDE DEF x, y
    <3> QED BY <1>1, <1>4, <2>1, <2>3, <2>4, RowsStay
  <2>6. x.job.size \in Nat
    BY <1>9, FillingJob DEF JobOK, Booking, Jobs
  <2>7. \A i \in OpenIds' : i = id \/ (i \in OpenIds /\ trades'[i] = trades[i])
    BY <2>1 DEF OpenIds
  <2> QED BY <1>1, <1>5, <2>1, <2>2, <2>5, <2>6, <2>7
<1> QED BY <1>6, <1>7, <1>8, <1>9 DEF Booking

LEMMA OtherRows ==
    ASSUME Base, RowsInv, NEW p \in Procs, Trading(p) \/ Writing(p) \/ PassOver(p)
    PROVE  RowsOK(run'[p], trades')
<1> DEFINE x == run[p]
           y == run'[p]
<1>1. x.phase # "idle" /\ RowsOK(x, trades)
  BY DEF RowsInv, Trading, Claim, Place, Refused, Writing, LogAdd, WriteStop, WriteTarget,
         PassOver, Doing
<1>2. SameRows
  <2>1. Step(p) /\ ~Booking(p)
    BY DEF Step, Trading, Writing, Booking, BookEntry, BookPartial, BookClose, BookAdd, Filled,
           Claim, Place, Refused, LogAdd, WriteStop, WriteTarget, PassOver, Doing
  <2> QED BY <2>1, StepKeepsRows
<1>3. ReadOK(x, trades) /\ (x.step # "next" => JobOK(x.job, x.step, trades))
  BY <1>1, AtWork DEF Base
<1>4. x.phase # "enter" => \A i \in x.todo :
          trades'[i].status = trades[i].status /\ trades'[i].size = trades[i].size
              /\ trades'[i].entry = trades[i].entry
  BY <1>2, <1>3 DEF ReadOK, Known, SameRows
<1>5. y.phase = x.phase /\ y.book = x.book /\ y.todo \subseteq x.todo
  BY Claims, Places, Refusals, Logs, Targets, StopsWritten, PassingOver
     DEF Trading, Writing, Holds, BookKept, Base
<1>6. ASSUME x.step # "next"
      PROVE  x.job.kind \in Closing \cup {"add"} =>
                 LET id == x.job.row.id
                 IN  /\ trades'[id].status = trades[id].status
                     /\ trades'[id].size = trades[id].size /\ trades'[id].entry = trades[id].entry
  <2>1. x.job.kind \in Closing \cup {"add"} => x.job.row.id \in DOMAIN trades
    BY <1>3, <1>6 DEF JobOK, Known, Closing
  <2> QED BY <1>2, <2>1 DEF SameRows
<1>7. CASE Claim(p)
  <2>1. x.step = "claim" /\ x.job \in Jobs
    BY <1>3, <1>7 DEF Claim, Doing, JobOK
  <2>2. \/ y.step = "place" /\ y.job = x.job
        \/ y.step = "next"
        \/ y.step = "stop" /\ x.job.kind = "scale" /\ y.job.kind = "stop"
    BY <1>7, <2>1, Claims DEF Same, Next1, StopLeft, Jobs
  <2> HIDE DEF x, y
  <2> QED BY <1>1, <1>4, <1>5, <1>6, <2>1, <2>2, RowsStay DEF y
<1>8. CASE Place(p)
  <2>1. x.step = "place" /\ y.step = "fill" /\ y.job = x.job
    BY <1>8, Places DEF Same, Place, Doing
  <2> HIDE DEF x, y
  <2> QED BY <1>1, <1>4, <1>5, <1>6, <2>1, RowsStay DEF y
<1>9. CASE Refused(p) \/ LogAdd(p) \/ WriteTarget(p) \/ PassOver(p)
  <2>1. y.step = "next"
    BY <1>9, Refusals, Logs, Targets, PassingOver DEF Next1, Base
  <2> HIDE DEF x, y
  <2> QED BY <1>1, <1>4, <1>5, <2>1, RowsStay DEF y
<1>10. CASE WriteStop(p)
  <2>1. \/ y.step = "next"
        \/ /\ y.step = "claim" /\ y.job.kind = "add" /\ x.job.kind = "add"
           /\ y.job.row = x.job.row /\ y.job.size = x.job.size
    BY <1>10, StopsWritten DEF Next1
  <2>2. x.step = "stop"
    BY <1>10 DEF WriteStop, Doing
  <2>3. x.job.kind = "add" => IsOpen(trades'[x.job.row.id])
    BY <1>1, <1>6, <2>2 DEF RowsOK, JobRows, IsOpen
  <2> HIDE DEF x, y
  <2> QED BY <1>1, <1>4, <1>5, <2>1, <2>2, <2>3, RowsStay DEF y
<1> QED BY <1>7, <1>8, <1>9, <1>10 DEF Trading, Writing

LEMMA StepKeepsRowsInv ==
    ASSUME OneProcess, Base, RowsInv, NEW p \in Procs, Step(p)
    PROVE  RowsInv'
<1>1. CASE Booking(p)
  BY <1>1, BookingRows DEF OneProcess, RowsInv
<1>2. CASE ~Booking(p)
  <2>1. SameRows
    BY <1>2, StepKeepsRows
  <2>2. \A i \in OpenIds' : trades'[i].size > 0
    BY <2>1 DEF SameRows, OpenIds, RowsInv
  <2>3. RowsOK(run'[p], trades')
    <3>1. CASE Reading(p)
      <4>1. ReadsAnew(p) /\ trades' = trades
        BY <3>1, ReadingReads DEF Base, Reading, StartPass, StartRules, StartResolve,
           StartEntries, Still, deskVars
      <4> QED BY <4>1 DEF ReadsAnew, RowsOK, ReadRows, JobRows, OpenIds, IsOpen
    <3>2. CASE EndPass(p) \/ Die(p)
      <4>1. run'[p] = Idle
        BY <3>2, Idles DEF EndPass, Die, Still, deskVars, Base
      <4> QED BY <4>1 DEF RowsOK, Idle
    <3>3. CASE Planning(p)
      BY <3>3, PlanRows
    <3>4. CASE Filling(p)
      <4>1. run' = run /\ trades' = trades
        BY <3>4 DEF Filling, deskVars
      <4> QED BY <4>1 DEF RowsInv
    <3>5. CASE Trading(p) \/ Writing(p) \/ PassOver(p)
      BY <3>5, OtherRows
    <3> QED BY <1>2, <3>1, <3>2, <3>3, <3>4, <3>5, StepIsOneOf DEF Quiet
  <2> QED BY <2>2, <2>3 DEF OneProcess, RowsInv
<1> QED BY <1>1, <1>2

-----------------------------------------------------------------------------
(* What the account rests on besides. *)

\* A coin is held on one side.
OneSide ==
    \A i, j \in OpenIds : trades[i].coin = trades[j].coin => trades[i].side = trades[j].side

\* A pass that enters knows of every coin held.
EntryOK(x) ==
    x.phase = "enter" =>
        /\ \A i \in OpenIds : trades[i].coin \in x.held
        /\ x.step # "next" => Setup[x.job.row.id].coin \notin x.held

\* An order that closes finds what it is to close.
Finds(held, order) == held.size > 0 /\ held.side = -order.side /\ order.size <= held.size

FillOK(x, f) ==
    IF x.phase = "idle" \/ x.step # "fill" THEN f = NoFill
    ELSE /\ f.step # "none"
         /\ f.order = OrderOf(x.job, f.order.price)
         /\ x.job.kind \notin Entries =>
                /\ f.order.price = x.job.price
                /\ f.step # "filled" => Finds(f.held, f.order)
         /\ f.step # "filled" => f.held = position[f.order.coin]
         /\ f.step \in {"read", "add"} => ~Opens(f.held, f.order)

\* What is filled and not yet booked, in the coin and in the account.
Pending(f, c) ==
    IF f.step = "filled" /\ f.order.coin = c THEN f.order.side * f.order.size ELSE 0
Proceeds(f) ==
    CASE f.step = "filled" -> -(f.order.side * f.order.size * f.order.price)
      [] f.step = "write" /\ ~Opens(f.held, f.order) -> RealizedBy(f.held, f.order)
      [] OTHER -> 0

-----------------------------------------------------------------------------
(* The sums over the ledger. *)

HeldBy(t, c) == IF IsOpen(t) /\ t.coin = c THEN Signed(t) ELSE 0
WorthOf(t) == t.realized - (IF IsOpen(t) THEN Cost(t) ELSE 0)
Share(c) == SumFunctionOnSet(Holding(c), DOMAIN trades)
Value == SumFunctionOnSet(Worth, DOMAIN trades)

LEMMA SumsAre ==
    /\ \A c : SumFunction(Holding(c)) = Share(c)
    /\ SumFunction(Worth) = Value
    /\ \A c : \A i \in DOMAIN trades : Holding(c)[i] = HeldBy(trades[i], c)
    /\ \A i \in DOMAIN trades : Worth[i] = WorthOf(trades[i])
BY DEF SumFunction, Share, Value, Holding, Worth, HeldBy, WorthOf

LEMMA SignedIsInt ==
    ASSUME NEW row \in Rows
    PROVE  /\ Signed(row) \in Int /\ Cost(row) \in Int /\ WorthOf(row) \in Int
           /\ \A c : HeldBy(row, c) \in Int
<1>1. /\ row.side \in {1, -1} /\ row.size \in Nat /\ row.entry \in Int /\ row.realized \in Int
  BY SideCases DEF Rows
<1>2. Signed(row) \in Int
  BY <1>1 DEF Signed
<1>3. row.side * row.size \in Int
  BY <1>1
<1>4. Cost(row) \in Int
  BY <1>1, <1>3 DEF Cost
<1>5. WorthOf(row) \in Int
  BY <1>1, <1>4 DEF WorthOf
<1>6. \A c : HeldBy(row, c) \in Int
  BY <1>2 DEF HeldBy
<1> QED BY <1>2, <1>4, <1>5, <1>6

LEMMA LedgerSums ==
    ASSUME LedgerOK
    PROVE  /\ IsFiniteSet(DOMAIN trades)
           /\ \A c : IntsOn(Holding(c), DOMAIN trades)
           /\ IntsOn(Worth, DOMAIN trades)
           /\ \A c : Share(c) \in Int
           /\ Value \in Int
<1>1. IsFiniteSet(DOMAIN trades)
  <2>1. DOMAIN trades = 1..Len(trades) /\ 1 \in Int /\ Len(trades) \in Int
    BY RowFacts
  <2> QED BY <2>1, FS_Interval
<1>2. \A i \in DOMAIN trades :
          WorthOf(trades[i]) \in Int /\ \A c : HeldBy(trades[i], c) \in Int
  BY RowFacts, SignedIsInt
<1>3. /\ \A c : IntsOn(Holding(c), DOMAIN trades)
      /\ IntsOn(Worth, DOMAIN trades)
  BY <1>2, SumsAre DEF IntsOn
<1> QED BY <1>1, <1>3, SumIsInt DEF Share, Value

LEMMA SameSums ==
    ASSUME LedgerOK, SameRows
    PROVE  /\ OpenIds' = OpenIds
           /\ \A c : Share(c)' = Share(c)
           /\ Value' = Value
<1>1. OpenIds' = OpenIds
  BY DEF OpenIds, SameRows
<1>2. \A c : Holding(c)' = Holding(c)
  BY DEF Holding, SameRows, IsOpen, Signed
<1>3. Worth' = Worth
  BY DEF Worth, SameRows, IsOpen, Cost
<1> QED BY <1>1, <1>2, <1>3 DEF Share, Value, SameRows

\* The sums as the ledger changes: a row is added, one is rewritten, or both.
LEMMA RowAdded ==
    ASSUME LedgerOK, LedgerOK', OnlyAdds
    PROVE  LET row == trades'[Len(trades) + 1]
           IN  /\ \A c : Share(c)' = Share(c) + HeldBy(row, c)
               /\ Value' = Value + WorthOf(row)
<1> DEFINE n == Len(trades) + 1
<1>1. DOMAIN trades' = DOMAIN trades \cup {n} /\ n \notin DOMAIN trades
  BY DEF OnlyAdds
<1>2. /\ \A c : \A i \in DOMAIN trades' : Holding(c)'[i] = HeldBy(trades'[i], c)
      /\ \A i \in DOMAIN trades' : Worth'[i] = WorthOf(trades'[i])
  BY DEF Holding, Worth, HeldBy, WorthOf
<1>3. /\ \A c : HeldBy(trades'[n], c) \in Int
      /\ WorthOf(trades'[n]) \in Int
  <2>1. trades'[n] \in Rows
    BY <1>1 DEF LedgerOK
  <2> QED BY <2>1, SignedIsInt
<1>4. /\ \A c : \A i \in DOMAIN trades : Holding(c)'[i] = Holding(c)[i]
      /\ \A i \in DOMAIN trades : Worth'[i] = Worth[i]
  BY <1>1, <1>2, SumsAre DEF OnlyAdds
<1> HIDE DEF n
<1>5. ASSUME NEW c PROVE Share(c)' = Share(c) + HeldBy(trades'[n], c)
  <2> DEFINE S == DOMAIN trades
             w == Holding(c)
             v == Holding(c)'
  <2>1. /\ IsFiniteSet(S) /\ IntsOn(w, S) /\ n \notin S /\ v[n] = HeldBy(trades'[n], c)
        /\ v[n] \in Int /\ \A i \in S : v[i] = w[i]
    BY <1>1, <1>2, <1>3, <1>4, LedgerSums
  <2>2. /\ Share(c) = SumFunctionOnSet(w, S)
        /\ Share(c)' = SumFunctionOnSet(v, S \cup {n})
    BY <1>1 DEF Share
  <2> HIDE DEF S, w, v
  <2>3. SumFunctionOnSet(v, S \cup {n}) = SumFunctionOnSet(w, S) + v[n]
    BY <2>1, SumGrown
  <2> QED BY <2>1, <2>2, <2>3
<1>6. Value' = Value + WorthOf(trades'[n])
  <2>1. SumFunctionOnSet(Worth', DOMAIN trades \cup {n})
            = SumFunctionOnSet(Worth, DOMAIN trades) + Worth'[n]
    BY <1>1, <1>2, <1>3, <1>4, LedgerSums, SumGrown
  <2> QED BY <1>1, <1>2, <2>1 DEF Value
<1> QED BY <1>5, <1>6 DEF n

LEMMA RowRewritten ==
    ASSUME LedgerOK, LedgerOK', NEW id \in DOMAIN trades, OnlyRewrites(id)
    PROVE  /\ \A c : Share(c)' = Share(c) - HeldBy(trades[id], c) + HeldBy(trades'[id], c)
           /\ Value' = Value - WorthOf(trades[id]) + WorthOf(trades'[id])
<1>1. DOMAIN trades' = DOMAIN trades
  BY DEF OnlyRewrites
<1>2. /\ \A c : \A i \in DOMAIN trades : Holding(c)'[i] = HeldBy(trades'[i], c)
      /\ \A i \in DOMAIN trades : Worth'[i] = WorthOf(trades'[i])
  BY <1>1 DEF Holding, Worth, HeldBy, WorthOf
<1>3. /\ \A c : IntsOn(Holding(c)', DOMAIN trades)
      /\ IntsOn(Worth', DOMAIN trades)
  <2>1. \A i \in DOMAIN trades : trades'[i] \in Rows
    BY <1>1 DEF LedgerOK
  <2> QED BY <1>2, <2>1, SignedIsInt DEF IntsOn
<1>4. /\ \A c : \A i \in DOMAIN trades : i # id => Holding(c)'[i] = Holding(c)[i]
      /\ \A i \in DOMAIN trades : i # id => Worth'[i] = Worth[i]
  BY <1>2, SumsAre DEF OnlyRewrites
<1>5. ASSUME NEW c
      PROVE  Share(c)' = Share(c) - HeldBy(trades[id], c) + HeldBy(trades'[id], c)
  <2>1. SumFunctionOnSet(Holding(c)', DOMAIN trades)
            = SumFunctionOnSet(Holding(c), DOMAIN trades) - Holding(c)[id] + Holding(c)'[id]
    BY <1>3, <1>4, LedgerSums, SumChanged
  <2> QED BY <1>1, <1>2, <2>1, SumsAre DEF Share
<1>6. Value' = Value - WorthOf(trades[id]) + WorthOf(trades'[id])
  <2>1. SumFunctionOnSet(Worth', DOMAIN trades)
            = SumFunctionOnSet(Worth, DOMAIN trades) - Worth[id] + Worth'[id]
    BY <1>3, <1>4, LedgerSums, SumChanged
  <2> QED BY <1>1, <1>2, <2>1, SumsAre DEF Value
<1> QED BY <1>5, <1>6

LEMMA RowSplit ==
    ASSUME LedgerOK, LedgerOK', NEW id \in DOMAIN trades, NEW n, n \notin DOMAIN trades,
           DOMAIN trades' = DOMAIN trades \cup {n},
           \A j \in DOMAIN trades : j # id => trades'[j] = trades[j]
    PROVE  /\ \A c : Share(c)' = Share(c) - HeldBy(trades[id], c) + HeldBy(trades'[id], c)
                                          + HeldBy(trades'[n], c)
           /\ Value' = Value - WorthOf(trades[id]) + WorthOf(trades'[id]) + WorthOf(trades'[n])
<1>1. n \in DOMAIN trades' /\ id \in DOMAIN trades'
  OBVIOUS
<1>2. /\ \A c : \A i \in DOMAIN trades' : Holding(c)'[i] = HeldBy(trades'[i], c)
      /\ \A i \in DOMAIN trades' : Worth'[i] = WorthOf(trades'[i])
  BY DEF Holding, Worth, HeldBy, WorthOf
<1>3. /\ \A c : IntsOn(Holding(c)', DOMAIN trades \cup {n})
      /\ IntsOn(Worth', DOMAIN trades \cup {n})
  <2>1. \A i \in DOMAIN trades' : trades'[i] \in Rows
    BY DEF LedgerOK
  <2> QED BY <1>2, <2>1, SignedIsInt DEF IntsOn
<1>4. /\ \A c : \A i \in DOMAIN trades : i # id => Holding(c)'[i] = Holding(c)[i]
      /\ \A i \in DOMAIN trades : i # id => Worth'[i] = Worth[i]
  BY <1>2, SumsAre
<1>5. ASSUME NEW c
      PROVE  Share(c)' = Share(c) - HeldBy(trades[id], c) + HeldBy(trades'[id], c)
                                  + HeldBy(trades'[n], c)
  <2> DEFINE S == DOMAIN trades
             w == Holding(c)
             v == Holding(c)'
  <2>1. /\ IsFiniteSet(S) /\ IntsOn(w, S) /\ IntsOn(v, S \cup {n}) /\ id \in S /\ n \notin S
        /\ w[id] = HeldBy(trades[id], c) /\ v[id] = HeldBy(trades'[id], c)
        /\ v[n] = HeldBy(trades'[n], c) /\ \A j \in S : j # id => v[j] = w[j]
    BY <1>1, <1>2, <1>3, <1>4, LedgerSums, SumsAre
  <2>2. /\ Share(c) = SumFunctionOnSet(w, S)
        /\ Share(c)' = SumFunctionOnSet(v, S \cup {n})
    BY DEF Share
  <2> HIDE DEF S, w, v
  <2>3. IntsOn(v, S)
    BY <2>1 DEF IntsOn
  <2>4. SumFunctionOnSet(v, S) = SumFunctionOnSet(w, S) - w[id] + v[id]
    BY <2>1, <2>3, SumChanged
  <2>5. SumFunctionOnSet(v, S \cup {n}) = v[n] + SumFunctionOnSet(v, S)
    BY <2>1, SumWith
  <2>6. /\ SumFunctionOnSet(v, S) \in Int /\ SumFunctionOnSet(w, S) \in Int
        /\ v[n] \in Int /\ v[id] \in Int /\ w[id] \in Int
    BY <2>1, <2>3, SumIsInt DEF IntsOn
  <2> QED BY <2>1, <2>2, <2>4, <2>5, <2>6
<1>6. Value' = Value - WorthOf(trades[id]) + WorthOf(trades'[id]) + WorthOf(trades'[n])
  <2> DEFINE S == DOMAIN trades
             w == Worth
             v == Worth'
  <2>1. /\ IsFiniteSet(S) /\ IntsOn(w, S) /\ IntsOn(v, S \cup {n}) /\ id \in S /\ n \notin S
        /\ w[id] = WorthOf(trades[id]) /\ v[id] = WorthOf(trades'[id])
        /\ v[n] = WorthOf(trades'[n]) /\ \A j \in S : j # id => v[j] = w[j]
    BY <1>1, <1>2, <1>3, <1>4, LedgerSums, SumsAre
  <2>2. /\ Value = SumFunctionOnSet(w, S)
        /\ Value' = SumFunctionOnSet(v, S \cup {n})
    BY DEF Value
  <2> HIDE DEF S, w, v
  <2>3. IntsOn(v, S)
    BY <2>1 DEF IntsOn
  <2>4. SumFunctionOnSet(v, S) = SumFunctionOnSet(w, S) - w[id] + v[id]
    BY <2>1, <2>3, SumChanged
  <2>5. SumFunctionOnSet(v, S \cup {n}) = v[n] + SumFunctionOnSet(v, S)
    BY <2>1, SumWith
  <2>6. /\ SumFunctionOnSet(v, S) \in Int /\ SumFunctionOnSet(w, S) \in Int
        /\ v[n] \in Int /\ v[id] \in Int /\ w[id] \in Int
    BY <2>1, <2>3, SumIsInt DEF IntsOn
  <2> QED BY <2>1, <2>2, <2>4, <2>5, <2>6
<1> QED BY <1>5, <1>6

-----------------------------------------------------------------------------
(* What an order changes in the book, the booking of it changes in the ledger. *)

LEMMA PnlIs ==
    ASSUME NEW side \in {1, -1}, NEW size \in Int, NEW entry \in Int, NEW price \in Int
    PROVE  side * (price - entry) * size = side * size * price - side * size * entry
<1>1. CASE side = 1
  <2>1. (price - entry) * size = size * price - size * entry
    OBVIOUS
  <2> QED BY <1>1, <2>1
<1>2. CASE side = -1
  <2>1. (price - entry) * size = size * price - size * entry
    OBVIOUS
  <2>2. /\ side * (price - entry) * size = -((price - entry) * size)
        /\ side * size * price = -(size * price) /\ side * size * entry = -(size * entry)
    BY <1>2
  <2> QED BY <2>1, <2>2
<1> QED BY <1>1, <1>2

LEMMA OrderIs ==
    ASSUME Base, RowsInv, NEW p \in Procs, Booking(p), FillOK(run[p], fill[p])
    PROVE  LET job == run[p].job
               order == fill[p].order
           IN  /\ fill[p].step = "filled" /\ order.size = job.size
               /\ order.coin \in Coins /\ order.side \in {1, -1} /\ order.size \in Nat
               /\ order.price \in Int
               /\ job.kind = "enter" =>
                      order.coin = Setup[job.row.id].coin /\ order.side = Setup[job.row.id].side
               /\ job.kind = "add" => order.coin = job.row.coin /\ order.side = job.row.side
               /\ job.kind \in Closing =>
                      /\ order.coin = job.row.coin /\ order.side = -job.row.side
                      /\ order.price = job.price
<1>1. Filled(p)
  BY DEF Booking, BookEntry, BookPartial, BookClose, BookAdd
<1>2. fill[p].order \in Orders
  BY <1>1, FillFacts DEF Filled, Base
<1>3. /\ fill[p].order = OrderOf(run[p].job, fill[p].order.price)
      /\ run[p].job.kind \notin Entries => fill[p].order.price = run[p].job.price
  BY FillingJob DEF FillOK
<1>4. LET job == run[p].job
          order == fill[p].order
      IN  /\ order.size = job.size
          /\ job.kind = "enter" =>
                 order.coin = Setup[job.row.id].coin /\ order.side = Setup[job.row.id].side
          /\ job.kind = "add" => order.coin = job.row.coin /\ order.side = job.row.side
          /\ job.kind \in Closing =>
                 order.coin = job.row.coin /\ order.side = -job.row.side
  BY <1>3 DEF OrderOf, Opposite, Closing
<1> QED BY <1>1, <1>2, <1>3, <1>4, SideCases DEF Filled, Orders, Closing, Entries

LEMMA BookedEntry ==
    ASSUME Base, RowsInv, NEW p \in Procs, BookEntry(p) \/ BookAdd(p),
           FillOK(run[p], fill[p])
    PROVE  /\ \A c : Share(c)' = Share(c) + Pending(fill[p], c)
           /\ Value' = Value + Proceeds(fill[p])
<1> DEFINE job == run[p].job
           order == fill[p].order
           row == trades'[Len(trades) + 1]
<1>1. Booking(p)
  BY DEF Booking
<1>2. OnlyAdds /\ LedgerOK' /\ IsOpen(row) /\ row.realized = 0 /\ row.entry = order.price
  BY Entered, Slices DEF Holds, Memory, IsOpen
<1>3. row.coin = order.coin /\ row.side = order.side /\ row.size = order.size
  <2>1. CASE BookEntry(p)
    <3>1. job.kind = "enter" /\ job.size = Setup[job.row.id].size
      BY <1>1, <2>1, FillingJob DEF BookEntry, JobRows
    <3> QED BY <1>1, <2>1, <3>1, Entered, OrderIs
  <2>2. CASE BookAdd(p)
    <3>1. job.kind = "add"
      BY <2>2 DEF BookAdd
    <3> QED BY <1>1, <2>2, <3>1, Slices, OrderIs
  <2> QED BY <2>1, <2>2
<1>4. /\ \A c : Share(c)' = Share(c) + HeldBy(row, c)
      /\ Value' = Value + WorthOf(row)
  BY <1>2, RowAdded DEF Base
<1>5. /\ fill[p].step = "filled" /\ order.size \in Nat /\ order.side \in {1, -1}
      /\ order.price \in Int
  BY <1>1, OrderIs
<1> HIDE DEF row, order
<1>6. \A c : HeldBy(row, c) = Pending(fill[p], c)
  BY <1>2, <1>3, <1>5 DEF HeldBy, Pending, Signed, order
<1>7. WorthOf(row) = Proceeds(fill[p])
  <2>1. WorthOf(row) = 0 - order.side * order.size * order.price
    BY <1>2, <1>3 DEF WorthOf, Cost
  <2>2. Proceeds(fill[p]) = -(order.side * order.size * order.price)
    BY <1>5 DEF Proceeds, order
  <2>3. order.side * order.size \in Int
    BY <1>5
  <2>4. order.side * order.size * order.price \in Int
    BY <1>5, <2>3
  <2> QED BY <2>1, <2>2, <2>4
<1> QED BY <1>4, <1>6, <1>7

\* A row closed: what it held is gone, and what it made is booked.
LEMMA BookedClose ==
    ASSUME Base, RowsInv, NEW p \in Procs, BookClose(p), FillOK(run[p], fill[p])
    PROVE  /\ \A c : Share(c)' = Share(c) + Pending(fill[p], c)
           /\ Value' = Value + Proceeds(fill[p])
<1> DEFINE job == run[p].job
           order == fill[p].order
           id == job.row.id
           row == trades[id]
           new == trades'[id]
<1>1. Booking(p)
  BY DEF Booking
<1>2. /\ id \in DOMAIN trades /\ OnlyRewrites(id) /\ LedgerOK' /\ ~IsOpen(new)
      /\ new.realized = Pnl(job.row, job.size, job.price)
  BY Closes DEF Holds, Memory, IsOpen
<1>3. /\ IsOpen(row) /\ job.size = row.size /\ job.row.entry = row.entry
      /\ job.row.side = row.side /\ job.row.coin = row.coin
      /\ job.kind \in {"close", "resolve"}
  <2>1. job.kind \in {"close", "resolve"}
    BY DEF BookClose
  <2> QED BY <1>1, <2>1, FillingJob DEF JobRows, RowInHand, Closing
<1>4. row.realized = 0 /\ row \in Rows
  BY <1>2, <1>3, RowFacts DEF IsOpen, Base, LedgerOK
<1>5. /\ fill[p].step = "filled" /\ order.size = row.size /\ order.coin = row.coin
      /\ order.side = -row.side /\ order.price = job.price /\ order.price \in Int
  BY <1>1, <1>3, OrderIs DEF Closing
<1>6. /\ \A c : Share(c)' = Share(c) - HeldBy(row, c) + HeldBy(new, c)
      /\ Value' = Value - WorthOf(row) + WorthOf(new)
  BY <1>2, RowRewritten DEF Base
<1>7. row.side \in {1, -1} /\ row.size \in Nat /\ row.entry \in Int
  BY <1>4, SideCases DEF Rows
<1> HIDE DEF row, order, new, job, id
<1>8. /\ \A c : Share(c) \in Int
      /\ Value \in Int
  BY LedgerSums DEF Base
<1>9. ASSUME NEW c PROVE Share(c)' = Share(c) + Pending(fill[p], c)
  <2>1. HeldBy(new, c) = 0
    BY <1>2 DEF HeldBy
  <2>2. CASE row.coin = c
    <3>1. HeldBy(row, c) = row.side * row.size
      BY <1>3, <2>2 DEF HeldBy, Signed
    <3>2. Pending(fill[p], c) = (-row.side) * row.size
      BY <1>5, <2>2 DEF Pending, order
    <3>3. (-row.side) * row.size = -(row.side * row.size) /\ row.side * row.size \in Int
      BY <1>7
    <3> QED BY <1>6, <1>8, <2>1, <3>1, <3>2, <3>3
  <2>3. CASE row.coin # c
    <3>1. HeldBy(row, c) = 0 /\ Pending(fill[p], c) = 0
      BY <1>5, <2>3 DEF HeldBy, Pending, order
    <3> QED BY <1>6, <1>8, <2>1, <3>1
  <2> QED BY <2>2, <2>3
<1>10. Value' = Value + Proceeds(fill[p])
  <2> DEFINE was == row.side * row.size * row.entry
             got == row.side * row.size * order.price
  <2>1. WorthOf(row) = 0 - was
    BY <1>3, <1>4 DEF WorthOf, Cost
  <2>2. WorthOf(new) = row.side * (order.price - row.entry) * row.size - 0
    BY <1>2, <1>3, <1>5 DEF WorthOf, Pnl
  <2>3. row.side * (order.price - row.entry) * row.size = got - was
    BY <1>5, <1>7, PnlIs
  <2>4. row.side * row.size \in Int
    BY <1>7
  <2>5. was \in Int /\ got \in Int
    BY <1>5, <1>7, <2>4
  <2>6. Proceeds(fill[p]) = got
    <3>1. Proceeds(fill[p]) = -((-row.side) * row.size * order.price)
      BY <1>5 DEF Proceeds, order
    <3>2. (-row.side) * row.size = -(row.side * row.size)
      BY <1>7
    <3>3. (-(row.side * row.size)) * order.price = -got
      BY <1>5, <2>4
    <3> QED BY <2>5, <3>1, <3>2, <3>3
  <2> HIDE DEF was, got
  <2> QED BY <1>6, <1>8, <2>1, <2>2, <2>3, <2>5, <2>6
<1> QED BY <1>9, <1>10

\* A part banked: the row holds that much less, and a resolved row has what it made.
LEMMA BookedPartial ==
    ASSUME Base, RowsInv, NEW p \in Procs, BookPartial(p), FillOK(run[p], fill[p])
    PROVE  /\ \A c : Share(c)' = Share(c) + Pending(fill[p], c)
           /\ Value' = Value + Proceeds(fill[p])
<1> DEFINE job == run[p].job
           order == fill[p].order
           id == job.row.id
           row == trades[id]
           new == trades'[id]
           part == trades'[Len(trades) + 1]
<1>1. Booking(p)
  BY DEF Booking
<1>2. /\ id \in DOMAIN trades /\ LedgerOK' /\ ~IsOpen(part)
      /\ Len(trades) + 1 \notin DOMAIN trades
      /\ DOMAIN trades' = DOMAIN trades \cup {Len(trades) + 1}
      /\ \A j \in DOMAIN trades : j # id => trades'[j] = trades[j]
      /\ part.realized = Pnl(job.row, job.size, job.price)
      /\ new.status = row.status /\ new.realized = row.realized
      /\ new.size = row.size - job.size
      /\ new.side = row.side /\ new.coin = row.coin /\ new.entry = row.entry
  BY Banks DEF Holds, Memory, IsOpen, Grows
<1>3. /\ IsOpen(row) /\ job.row.entry = row.entry
      /\ job.row.side = row.side /\ job.row.coin = row.coin
      /\ job.kind = "scale"
  <2>1. job.kind = "scale"
    BY DEF BookPartial
  <2> QED BY <1>1, <2>1, FillingJob DEF JobRows, RowInHand, Closing
<1>4. row \in Rows
  BY <1>2, RowFacts DEF Base
<1>5. /\ fill[p].step = "filled" /\ order.size = job.size /\ order.coin = row.coin
      /\ order.side = -row.side /\ order.price = job.price /\ order.price \in Int
      /\ order.size \in Nat
  BY <1>1, <1>3, OrderIs DEF Closing
<1>6. /\ \A c : Share(c)' = Share(c) - HeldBy(row, c) + HeldBy(new, c) + HeldBy(part, c)
      /\ Value' = Value - WorthOf(row) + WorthOf(new) + WorthOf(part)
  <2>1. Len(trades) + 1 \in Nat
    BY RowFacts DEF Base
  <2> QED BY <1>2, <2>1, RowSplit DEF Base
<1>7. row.side \in {1, -1} /\ row.size \in Nat /\ row.entry \in Int /\ row.realized \in Int
  BY <1>4, SideCases DEF Rows
<1>8. IsOpen(new) /\ row.realized = 0
  BY <1>2, <1>3, RowFacts DEF IsOpen, Base, LedgerOK
<1> DEFINE q == order.size
<1> HIDE DEF row, order, new, part, job, id, q
<1>9. /\ \A c : Share(c) \in Int
      /\ Value \in Int
  BY LedgerSums DEF Base
<1>10. /\ q \in Nat /\ new.size = row.size - q
       /\ row.side * (row.size - q) = row.side * row.size - row.side * q
       /\ row.side * row.size \in Int /\ row.side * q \in Int
       /\ (-row.side) * q = -(row.side * q)
  <2>1. q \in Nat /\ new.size = row.size - q
    BY <1>2, <1>5 DEF q
  <2>2. CASE row.side = 1
    BY <1>7, <2>1, <2>2
  <2>3. CASE row.side = -1
    BY <1>7, <2>1, <2>3
  <2> QED BY <1>7, <2>1, <2>2, <2>3
<1>11. ASSUME NEW c PROVE Share(c)' = Share(c) + Pending(fill[p], c)
  <2>1. HeldBy(part, c) = 0
    BY <1>2 DEF HeldBy
  <2>2. CASE row.coin = c
    <3>1. HeldBy(row, c) = row.side * row.size
      BY <1>3, <2>2 DEF HeldBy, Signed
    <3>2. HeldBy(new, c) = row.side * (row.size - q)
      BY <1>2, <1>8, <1>10, <2>2 DEF HeldBy, Signed
    <3>3. Pending(fill[p], c) = (-row.side) * q
      BY <1>5, <2>2 DEF Pending, order, q
    <3> QED BY <1>6, <1>9, <1>10, <2>1, <3>1, <3>2, <3>3
  <2>3. CASE row.coin # c
    <3>1. HeldBy(row, c) = 0 /\ HeldBy(new, c) = 0 /\ Pending(fill[p], c) = 0
      BY <1>2, <1>5, <2>3 DEF HeldBy, Pending, order
    <3> QED BY <1>6, <1>9, <2>1, <3>1
  <2> QED BY <2>2, <2>3
<1>12. Value' = Value + Proceeds(fill[p])
  <2> DEFINE was == row.side * row.size * row.entry
             cost == row.side * q * row.entry
             got == row.side * q * order.price
  <2>1. was \in Int /\ cost \in Int /\ got \in Int
    BY <1>5, <1>7, <1>10
  <2>2. WorthOf(row) = 0 - was
    BY <1>3, <1>8 DEF WorthOf, Cost
  <2>3. WorthOf(new) = 0 - (was - cost)
    <3>1. WorthOf(new) = 0 - row.side * (row.size - q) * row.entry
      BY <1>2, <1>8, <1>10 DEF WorthOf, Cost
    <3>2. (row.side * row.size - row.side * q) * row.entry = was - cost
      BY <1>7, <1>10
    <3> QED BY <1>10, <3>1, <3>2
  <2>4. WorthOf(part) = got - cost
    <3>1. WorthOf(part) = row.side * (order.price - row.entry) * q - 0
      BY <1>2, <1>3, <1>5 DEF WorthOf, Pnl, q
    <3>2. row.side * (order.price - row.entry) * q = got - cost
      BY <1>5, <1>7, <1>10, PnlIs
    <3> QED BY <2>1, <3>1, <3>2
  <2>5. Proceeds(fill[p]) = got
    <3>1. Proceeds(fill[p]) = -((-row.side) * q * order.price)
      BY <1>5 DEF Proceeds, order, q
    <3>2. (-(row.side * q)) * order.price = -got
      BY <1>5, <1>10
    <3> QED BY <1>10, <2>1, <3>1, <3>2
  <2> HIDE DEF was, got, cost
  <2> QED BY <1>6, <1>9, <2>1, <2>2, <2>3, <2>4, <2>5
<1> QED BY <1>11, <1>12

LEMMA BookedSums ==
    ASSUME Base, RowsInv, NEW p \in Procs, Booking(p), FillOK(run[p], fill[p])
    PROVE  /\ \A c : Share(c)' = Share(c) + Pending(fill[p], c)
           /\ Value' = Value + Proceeds(fill[p])
BY BookedEntry, BookedClose, BookedPartial DEF Booking

-----------------------------------------------------------------------------
(* The coins a pass knows are held. *)

\* Rows of a coin on one side add up: the position is on that side, and no smaller than any.
LEMMA CoinReached ==
    ASSUME Base, RowsInv, OneSide, NEW c \in Coins, Signed(position[c]) = Share(c),
           NEW i \in OpenIds, trades[i].coin = c
    PROVE  position[c].side = trades[i].side /\ position[c].size >= trades[i].size
<1> DEFINE side == trades[i].side
           size == trades[i].size
           S == DOMAIN trades
           w == Holding(c)
<1>1. /\ i \in S /\ side \in {1, -1} /\ size \in Nat /\ size > 0 /\ IsOpen(trades[i])
  BY RowFacts, SideCases DEF Base, OpenIds, RowsInv, Rows, IsOpen
<1>2. w[i] = side * size
  BY <1>1, SumsAre DEF HeldBy, Signed
<1>3. ASSUME NEW j \in S PROVE w[j] = 0 \/ (w[j] = side * trades[j].size /\ trades[j].size \in Nat)
  <2>1. CASE IsOpen(trades[j]) /\ trades[j].coin = c
    <3>1. j \in OpenIds
      BY <2>1 DEF OpenIds, IsOpen
    <3>2. trades[j].side = side
      BY <2>1, <3>1 DEF OneSide
    <3>3. trades[j].size \in Nat
      BY RowFacts DEF Base, Rows
    <3> QED BY <2>1, <3>2, <3>3, SumsAre DEF HeldBy, Signed
  <2> QED BY <2>1, SumsAre DEF HeldBy
<1>4. /\ position[c].size \in Nat /\ position[c].side \in {1, -1}
      /\ position[c].side * position[c].size = Share(c)
  BY SideCases DEF Base, BookOK, Position, Signed
<1>5. IsFiniteSet(S) /\ IntsOn(w, S) /\ Share(c) = SumFunctionOnSet(w, S) /\ Share(c) \in Int
  BY LedgerSums DEF Base, Share
<1> HIDE DEF S, w, side, size
<1>6. CASE side = 1
  <2>1. \A j \in S : w[j] >= 0
    BY <1>3, <1>6
  <2>2. Share(c) >= w[i]
    BY <1>1, <1>5, <2>1, SumReaches
  <2>3. w[i] = size
    BY <1>1, <1>2, <1>6
  <2> QED BY <1>1, <1>4, <1>5, <1>6, <2>2, <2>3 DEF side, size
<1>7. CASE side = -1
  <2>1. \A j \in S : w[j] <= 0
    BY <1>3, <1>7
  <2>2. Share(c) <= w[i]
    BY <1>1, <1>5, <2>1, SumReaches
  <2>3. w[i] = -size
    BY <1>1, <1>2, <1>7
  <2> QED BY <1>1, <1>4, <1>5, <1>7, <2>2, <2>3 DEF side, size
<1> QED BY <1>1, <1>6, <1>7

\* Only the booking of an entry adds to the coins a pass knows.
LEMMA HeldKept ==
    ASSUME RunOK, NEW p \in Procs, run[p].phase # "idle",
           \/ \E step, job : Start(p, step, job)
           \/ \E step : Goto(p, step)
           \/ run' = [run EXCEPT ![p].todo = @ \ {Turn(p)}]
           \/ run' = Onward(p)
           \/ run[p].job \in Jobs /\ run' = AfterJob(p)
    PROVE  run'[p].held = run[p].held
<1>1. run[p] \in Passes
  BY Working
<1>2. ASSUME NEW step, NEW job, Start(p, step, job) PROVE run'[p].held = run[p].held
  <2> DEFINE x == [run[p] EXCEPT !.step = step, !.todo = @ \ {Turn(p)}, !.job = job]
  <2>1. x.held = run[p].held /\ run' = [run EXCEPT ![p] = x]
    BY <1>1, <1>2 DEF Start, Passes
  <2> HIDE DEF x
  <2> QED BY <2>1 DEF RunOK
<1>3. ASSUME NEW step, Goto(p, step) PROVE run'[p].held = run[p].held
  <2> DEFINE x == [run[p] EXCEPT !.step = step]
  <2>1. x.held = run[p].held /\ run' = [run EXCEPT ![p] = x]
    BY <1>1, <1>3 DEF Goto, Passes
  <2> HIDE DEF x
  <2> QED BY <2>1 DEF RunOK
<1>4. CASE run' = [run EXCEPT ![p].todo = @ \ {Turn(p)}]
  <2> DEFINE x == [run[p] EXCEPT !.todo = @ \ {Turn(p)}]
  <2>1. x.held = run[p].held /\ run' = [run EXCEPT ![p] = x]
    BY <1>1, <1>4 DEF Passes
  <2> HIDE DEF x
  <2> QED BY <2>1 DEF RunOK
<1>5. CASE run' = Onward(p)
  <2> DEFINE x == [run[p] EXCEPT !.step = "next", !.job = NoJob]
  <2>1. x.held = run[p].held /\ run' = [run EXCEPT ![p] = x]
    BY <1>1, <1>5 DEF Onward, Passes
  <2> HIDE DEF x
  <2> QED BY <2>1 DEF RunOK
<1>6. CASE run' = [run EXCEPT ![p].step = "stop", ![p].job.kind = "stop"]
  <2> DEFINE x == [run[p] EXCEPT !.step = "stop", !.job = [run[p].job EXCEPT !.kind = "stop"]]
  <2>1. x.held = run[p].held /\ run' = [run EXCEPT ![p] = x]
    BY <1>1, <1>6 DEF Passes
  <2> HIDE DEF x
  <2> QED BY <2>1 DEF RunOK
<1> QED BY <1>2, <1>3, <1>4, <1>5, <1>6 DEF AfterJob

LEMMA EntryHeld ==
    ASSUME Base, NEW p \in Procs, BookEntry(p)
    PROVE  run'[p].held = run[p].held \cup {Setup[run[p].job.row.id].coin}
<1> DEFINE c == Setup[run[p].job.row.id].coin
           x == [run[p] EXCEPT !.step = "next", !.job = NoJob]
           y == [x EXCEPT !.held = @ \cup {c}]
<1>1. run[p] \in Passes
  <2>1. run[p].phase # "idle"
    BY DEF BookEntry, Filled, Doing
  <2> QED BY <2>1, Working DEF Base
<1>2. x.held = run[p].held /\ Onward(p) = [run EXCEPT ![p] = x]
  BY <1>1 DEF Onward, Passes
<1>3. y.held = x.held \cup {c}
  BY <1>1 DEF Passes
<1>4. run' = [run EXCEPT ![p] = y]
  BY <1>2 DEF BookEntry, Base, RunOK
<1> HIDE DEF x, y, c
<1>5. run'[p] = y
  BY <1>4 DEF Base, RunOK
<1> QED BY <1>2, <1>3, <1>5 DEF c

\* Where nothing is under way the book is what the ledger says, and a pass that sets out
\* to enter sees every coin there is a row of.
LEMMA ReadingHeld ==
    ASSUME Base, RowsInv, OneSide, \A c \in Coins : Signed(position[c]) = Share(c),
           NEW p \in Procs, StartEntries(p)
    PROVE  \A i \in OpenIds : trades[i].coin \in run'[p].held
<1>1. run'[p].held = Held
  BY DEF StartEntries, EnterPhase, Base, RunOK
<1>2. ASSUME NEW i \in OpenIds PROVE trades[i].coin \in Held
  <2>1. trades[i].coin \in Coins /\ trades[i].size \in Nat /\ trades[i].size > 0
    BY RowFacts DEF Base, OpenIds, RowsInv, Rows
  <2>2. /\ position[trades[i].coin].size >= trades[i].size
        /\ position[trades[i].coin].size \in Nat
    BY <2>1, CoinReached DEF Base, BookOK, Position
  <2> QED BY <2>1, <2>2 DEF Held
<1> QED BY <1>1, <1>2

EntryStays(p) ==
    /\ run'[p].phase = run[p].phase
    /\ run'[p].held = run[p].held
    /\ run'[p].step # "next" =>
           Setup[run'[p].job.row.id].coin \notin run[p].held

LEMMA EntriesKnow ==
    ASSUME Base, RowsInv, NEW p \in Procs, EntryOK(run[p]), run[p].phase = "enter",
           PassOver(p) \/ Planning(p) \/ Trading(p)
    PROVE  EntryStays(p)
<1>1. run[p].phase # "idle" /\ JobRows(run[p], trades)
  BY DEF RowsInv, RowsOK
<1>2. CASE PassOver(p)
  BY <1>1, <1>2, PassingOver, HeldKept DEF PassOver, EntryStays, BookKept, Base
<1>3. CASE Planning(p)
  <2>1. GateEntry(p)
    BY <1>3 DEF Planning, Judge, JudgeTighten, JudgeReduce, JudgeClose, JudgeExtend, JudgeAdd,
                Judging, RuleDue, ResolveDue, In
  <2>2. PICK job : /\ Start(p, "claim", job) /\ job.row.id = Current(p)
                   /\ Setup[Current(p)].coin \notin run[p].held
    BY <2>1 DEF GateEntry, Job
  <2>3. run'[p].job = job /\ run'[p].held = run[p].held
    BY <1>1, <2>2, StartedJob, HeldKept DEF Base
  <2>4. run'[p].phase = run[p].phase
    <3>1. PICK step \in Steps, j \in Jobs : Still /\ Plan(p, step, j)
      BY <1>3, Plans
    <3>2. trades' = trades
      BY <3>1 DEF Still, deskVars
    <3> QED BY <3>1, <3>2, PlanMoves DEF Base, BookKept
  <2> QED BY <2>2, <2>3, <2>4 DEF EntryStays
<1>4. CASE Trading(p)
  <2>1. run'[p].phase = run[p].phase
    BY <1>4, Claims, Places, Refusals DEF Trading, Holds, BookKept
  <2>2. run[p].step # "next" /\ run[p].job.kind = "enter"
    BY <1>1, <1>4 DEF Trading, Claim, Place, Refused, Doing, JobRows
  <2>3. run[p].job \in Jobs
    BY <1>1, <2>2, AtWork DEF Base, JobOK
  <2>4. run'[p].held = run[p].held
    BY <1>1, <1>4, <2>3, HeldKept DEF Trading, Claim, Place, Refused, Base
  <2>5. run'[p].step = "next" \/ run'[p].job = run[p].job
    BY <1>4, <2>2, Claims, Places, Refusals DEF Trading, Next1, Same, StopLeft
  <2> QED BY <1>4, <2>1, <2>2, <2>4, <2>5 DEF EntryStays, EntryOK
<1> QED BY <1>2, <1>3, <1>4

LEMMA StepKeepsEntry ==
    ASSUME Base, RowsInv, OneSide, NEW p \in Procs, Step(p), EntryOK(run[p]),
           StartEntries(p) => \A c \in Coins : Signed(position[c]) = Share(c)
    PROVE  EntryOK(run[p])'
<1> SUFFICES ASSUME run'[p].phase = "enter"
             PROVE  /\ \A i \in OpenIds' : trades'[i].coin \in run'[p].held
                    /\ run'[p].step # "next" => Setup[run'[p].job.row.id].coin \notin run'[p].held
  BY DEF EntryOK
<1>1. CASE Reading(p)
  <2>1. ReadsAnew(p) /\ trades' = trades
    BY <1>1, ReadingReads DEF Base, Reading, StartPass, StartRules, StartResolve,
       StartEntries, Still, deskVars
  <2>2. StartEntries(p)
    <3>1. ~(StartPass(p) \/ StartRules(p) \/ StartResolve(p))
      BY DEF StartPass, StartRules, StartResolve, EnterPhase, Base, RunOK
    <3> QED BY <1>1, <3>1 DEF Reading
  <2> QED BY <2>1, <2>2, ReadingHeld DEF ReadsAnew, OpenIds
<1>2. CASE EndPass(p) \/ Die(p)
  <2>1. run'[p] = Idle
    BY <1>2, Idles DEF EndPass, Die, Still, deskVars, Base
  <2> QED BY <2>1 DEF Idle
<1>3. CASE PassOver(p) \/ Planning(p) \/ Trading(p)
  <2>1. SameRows
    <3>1. ~Booking(p)
      BY <1>3 DEF Booking, BookEntry, BookPartial, BookClose, BookAdd, Filled, Doing, PassOver,
           Planning, Judge, JudgeTighten, JudgeReduce, JudgeClose, JudgeExtend, JudgeAdd,
           Judging, RuleDue, ResolveDue, GateEntry, In, Trading, Claim, Place, Refused
    <3> QED BY <3>1, StepKeepsRows
  <2>2. run[p].phase = "enter"
    <3>1. CASE PassOver(p)
      BY <3>1, PassingOver DEF BookKept, Base
    <3>2. CASE Planning(p)
      <4>1. PICK step \in Steps, j \in Jobs : Still /\ Plan(p, step, j)
        BY <3>2, Plans
      <4>2. trades' = trades
        BY <4>1 DEF Still, deskVars
      <4> QED BY <4>1, <4>2, PlanMoves DEF Base, BookKept
    <3>3. CASE Trading(p)
      BY <3>3, Claims, Places, Refusals DEF Trading, Holds, BookKept
    <3> QED BY <1>3, <3>1, <3>2, <3>3
  <2>3. EntryStays(p)
    BY <1>3, <2>2, EntriesKnow
  <2>4. OpenIds' = OpenIds /\ \A i \in OpenIds : trades'[i].coin = trades[i].coin
    BY <2>1, SameSums DEF SameRows, OpenIds, Base
  <2> QED BY <2>2, <2>3, <2>4 DEF EntryStays, EntryOK
<1>4. CASE Filling(p)
  <2>1. run' = run /\ trades' = trades
    BY <1>4 DEF Filling, deskVars
  <2> QED BY <2>1 DEF EntryOK, OpenIds
<1>5. CASE BookEntry(p)
  <2>1. /\ run'[p].phase = run[p].phase /\ run'[p].step = "next" /\ OnlyAdds
        /\ trades'[Len(trades) + 1].coin = Setup[run[p].job.row.id].coin
    BY <1>5, Entered DEF Holds, BookKept, Next1
  <2>2. run'[p].held = run[p].held \cup {Setup[run[p].job.row.id].coin}
    BY <1>5, EntryHeld
  <2>3. \A i \in OpenIds' : i = Len(trades) + 1 \/ (i \in OpenIds /\ trades'[i] = trades[i])
    BY <2>1 DEF OnlyAdds, OpenIds
  <2> QED BY <2>1, <2>2, <2>3 DEF EntryOK
<1>6. CASE BookPartial(p) \/ BookClose(p) \/ BookAdd(p)
  <2>1. run'[p].phase = run[p].phase
    BY <1>6, Banks, Closes, Slices DEF Holds, BookKept
  <2>2. run[p].phase = "enter" <=> run[p].job.kind = "enter"
    BY <1>6, FillingJob DEF Booking, JobRows
  <2> QED BY <1>6, <2>1, <2>2 DEF BookPartial, BookClose, BookAdd
<1>7. CASE Writing(p)
  <2>1. run'[p].phase = run[p].phase
    BY <1>7, Logs, Targets, StopsWritten DEF Writing, Holds, BookKept
  <2>2. /\ run[p].phase # "idle" /\ run[p].step \in {"log", "stop", "target"}
    BY <1>7 DEF Writing, LogAdd, WriteStop, WriteTarget, Doing
  <2>3. run[p].job.kind # "enter"
    BY <2>2, AtWork, PurposesAre DEF Base, JobOK
  <2>4. run[p].phase # "enter"
    BY <2>2, <2>3 DEF RowsInv, RowsOK, JobRows
  <2> QED BY <2>1, <2>4
<1> QED BY <1>1, <1>2, <1>3, <1>4, <1>5, <1>6, <1>7, StepIsOneOf DEF Quiet, Booking

LEMMA StepKeepsOneSide ==
    ASSUME Base, RowsInv, OneSide, NEW p \in Procs, Step(p), EntryOK(run[p])
    PROVE  OneSide'
<1> DEFINE n == Len(trades) + 1
           job == run[p].job
<1>1. CASE ~Booking(p)
  <2>1. SameRows
    BY <1>1, StepKeepsRows
  <2> QED BY <2>1 DEF SameRows, OneSide, OpenIds
<1>2. CASE BookEntry(p)
  <2>1. OnlyAdds /\ trades'[n].coin = Setup[job.row.id].coin
    BY <1>2, Entered
  <2>2. \A i \in OpenIds : trades[i].coin # Setup[job.row.id].coin
    <3>1. /\ job.kind = "enter" /\ JobRows(run[p], trades) /\ run[p].step = "fill"
      BY <1>2, FillingJob DEF Booking, BookEntry
    <3> QED BY <3>1 DEF JobRows, EntryOK
  <2>3. \A i \in OpenIds' : i = n \/ (i \in OpenIds /\ trades'[i] = trades[i])
    BY <2>1 DEF OnlyAdds, OpenIds
  <2> HIDE DEF n, job
  <2> QED BY <2>1, <2>2, <2>3 DEF OneSide
<1>3. CASE BookAdd(p)
  <2>1. /\ OnlyAdds /\ trades'[n].coin = job.row.coin /\ trades'[n].side = job.row.side
    BY <1>3, Slices
  <2>2. /\ job.row.id \in OpenIds
        /\ job.row.coin = trades[job.row.id].coin /\ job.row.side = trades[job.row.id].side
    BY <1>3, FillingJob DEF Booking, BookAdd
  <2>3. \A i \in OpenIds' : i = n \/ (i \in OpenIds /\ trades'[i] = trades[i])
    BY <2>1 DEF OnlyAdds, OpenIds
  <2> HIDE DEF n, job
  <2> QED BY <2>1, <2>2, <2>3 DEF OneSide
<1>4. CASE BookClose(p)
  <2>1. OnlyRewrites(job.row.id) /\ trades'[job.row.id].status # "open"
    BY <1>4, Closes
  <2>2. \A i \in OpenIds' : i \in OpenIds /\ trades'[i] = trades[i]
    BY <2>1 DEF OnlyRewrites, OpenIds
  <2> QED BY <2>2 DEF OneSide
<1>5. CASE BookPartial(p)
  <2>1. /\ job.row.id \in DOMAIN trades /\ Grows
        /\ DOMAIN trades' = DOMAIN trades \cup {n}
        /\ \A j \in DOMAIN trades : j # job.row.id => trades'[j] = trades[j]
        /\ trades'[job.row.id].status = trades[job.row.id].status
        /\ trades'[n].status = "scaled"
    BY <1>5, Banks DEF Holds, Memory
  <2>2. \A i \in OpenIds' : /\ i \in OpenIds
                            /\ trades'[i].coin = trades[i].coin /\ trades'[i].side = trades[i].side
    BY <2>1 DEF Grows, OpenIds
  <2> QED BY <2>2 DEF OneSide
<1> QED BY <1>1, <1>2, <1>3, <1>4, <1>5 DEF Booking

-----------------------------------------------------------------------------
(* The order under way. *)

\* An order to close finds at least the row it is to close.
LEMMA PlacedFill ==
    ASSUME Base, RowsInv, OneSide, \A c \in Coins : Signed(position[c]) = Share(c),
           NEW p \in Procs, Place(p)
    PROVE  /\ FillOK(run[p], fill[p])' /\ fill'[p].step \in {"read", "write"}
           /\ fill'[p].step = "write" => Opens(fill'[p].held, fill'[p].order)
<1> DEFINE job == run[p].job
<1>1. /\ run[p].phase # "idle" /\ run[p].step = "place" /\ run'[p].phase = run[p].phase
      /\ run'[p].step = "fill" /\ run'[p].job = job
  BY Places DEF Holds, BookKept, Same, Place, Doing
<1>2. JobRows(run[p], trades) /\ JobOK(job, "place", trades)
  BY <1>1, AtWork DEF RowsInv, RowsOK, Base
<1>3. PICK mark : /\ PlaceOrder(p, OrderOf(job, mark))
                  /\ job.kind \notin Entries => mark = job.price
  BY DEF Place
<1> DEFINE order == OrderOf(job, mark)
           f == fill'[p]
<1>4. /\ order.price = mark /\ order.size = job.size
      /\ job.kind # "enter" => order.coin = job.row.coin
      /\ job.kind \notin Entries => order.side = -job.row.side
  BY <1>3 DEF OrderOf, Entries, Opposite
<1>5. /\ f.order = order /\ f.held = position[order.coin] /\ position' = position
      /\ f.step = (IF Opens(f.held, f.order) THEN "write" ELSE "read")
  BY <1>3 DEF PlaceOrder, Base, BookOK
<1>6. ASSUME job.kind \notin Entries PROVE Finds(f.held, f.order)
  <2> DEFINE id == job.row.id
  <2>1. job.kind \in Closing /\ job.kind # "enter"
    BY <1>2, <1>6, PurposesAre DEF JobOK, Closing, Entries
  <2>2. /\ IsOpen(trades[id]) /\ job.row.size = trades[id].size /\ job.size <= job.row.size
        /\ Known(job.row, trades)
    <3>1. RowInHand(run[p], trades) /\ IsOpen(trades[id]) /\ Known(job.row, trades)
      BY <1>1, <1>2, <2>1 DEF JobRows, JobOK
    <3>2. job.size \in Nat /\ job.row.size \in Nat
      BY <1>2, <3>1 DEF JobOK, Jobs, Known, Rows
    <3> QED BY <3>1, <3>2 DEF RowInHand
  <2>3. /\ id \in OpenIds /\ order.coin = trades[id].coin /\ order.coin \in Coins
        /\ order.side = -trades[id].side /\ order.size <= trades[id].size
        /\ trades[id].size > 0 /\ trades[id].size \in Nat /\ trades[id].side \in {1, -1}
        /\ order.size \in Nat
    BY <1>2, <1>4, <1>6, <2>1, <2>2, RowFacts, SideCases
       DEF Known, OpenIds, IsOpen, Rows, RowsInv, JobOK, Jobs, Base
  <2>4. /\ position[order.coin].side = trades[id].side
        /\ position[order.coin].size >= trades[id].size
        /\ position[order.coin].size \in Nat
    BY <2>3, CoinReached DEF Base, BookOK, Position
  <2> HIDE DEF id, order
  <2> QED BY <1>5, <2>3, <2>4 DEF Finds
<1> HIDE DEF order
<1>7. /\ f.step \in {"read", "write"}
      /\ IF f.step = "read" THEN ~Opens(f.held, f.order) ELSE Opens(f.held, f.order)
  BY <1>5
<1> QED BY <1>1, <1>3, <1>4, <1>5, <1>6, <1>7 DEF FillOK, order

LEMMA FillingFill ==
    ASSUME Base, NEW p \in Procs, Filling(p), FillOK(run[p], fill[p])
    PROVE  /\ FillOK(run[p], fill[p])' /\ fill'[p].order = fill[p].order
           /\ fill'[p].held = fill[p].held
           /\ run[p].phase # "idle" /\ run[p].step = "fill"
<1> DEFINE f == fill[p]
           g == fill'[p]
<1>1. /\ run' = run /\ run[p].phase # "idle" /\ run[p].step = "fill" /\ FillStep(p)
  BY DEF Filling, Doing
<1>2. f # NoFill /\ fill = [q \in Procs |-> fill[q]]
  BY <1>1 DEF FillOK, NoFill, Base, BookOK
<1>3. /\ f \in [step : {"read", "add", "write", "filled"}, order : Orders, held : {f.held},
                sum : {f.sum}]
  BY <1>2 DEF Base, BookOK, Fill
<1>4. CASE ReadRealized(p)
  <2> DEFINE h == [f EXCEPT !.step = "add", !.sum = realized]
  <2>1. fill' = [fill EXCEPT ![p] = h] /\ position' = position /\ f.step = "read"
    BY <1>2, <1>4 DEF ReadRealized
  <2>2. h.step = "add" /\ h.order = f.order /\ h.held = f.held
    BY <1>3
  <2> HIDE DEF h
  <2>3. g = h
    BY <1>2, <2>1
  <2> QED BY <1>1, <2>1, <2>2, <2>3 DEF FillOK
<1>5. CASE AddRealized(p)
  <2> DEFINE h == [f EXCEPT !.step = "write"]
  <2>1. fill' = [fill EXCEPT ![p] = h] /\ position' = position /\ f.step = "add"
    BY <1>2, <1>5 DEF AddRealized
  <2>2. h.step = "write" /\ h.order = f.order /\ h.held = f.held
    BY <1>3
  <2> HIDE DEF h
  <2>3. g = h
    BY <1>2, <2>1
  <2> QED BY <1>1, <2>1, <2>2, <2>3 DEF FillOK
<1>6. CASE WritePosition(p)
  <2> DEFINE h == [f EXCEPT !.step = "filled"]
  <2>1. fill' = [fill EXCEPT ![p] = h] /\ f.step = "write"
    BY <1>2, <1>6 DEF WritePosition
  <2>2. h.step = "filled" /\ h.order = f.order /\ h.held = f.held
    BY <1>3
  <2> HIDE DEF h
  <2>3. g = h
    BY <1>2, <2>1
  <2> QED BY <1>1, <2>1, <2>2, <2>3 DEF FillOK
<1> QED BY <1>1, <1>4, <1>5, <1>6 DEF FillStep

LEMMA RestFill ==
    ASSUME Base, RowsInv, NEW p \in Procs, Step(p), ~Place(p), ~Filling(p), FillOK(run[p], fill[p])
    PROVE  /\ fill'[p] = NoFill /\ FillOK(run[p], fill[p])'
           /\ position' = position /\ realized' = realized
           /\ ~Booking(p) /\ ~Die(p) => fill[p] = NoFill
<1> DEFINE x == run[p]
           y == run'[p]
<1>1. fill = [q \in Procs |-> fill[q]]
  BY DEF Base, BookOK
<1>2. position' = position /\ realized' = realized
  BY DEF Step, StartPass, StartRules, StartResolve, EndPass, StartEntries, JudgeTighten,
         JudgeReduce, JudgeClose, JudgeExtend, JudgeAdd, RuleDue, ResolveDue, GateEntry,
         PassOver, Still, Claim, Refused, BookEntry, BookPartial, BookClose, BookAdd, FillDone,
         LogAdd, WriteStop, WriteTarget, Die, bookVars
<1>3. ASSUME y.phase = "idle" \/ y.step # "fill", fill'[p] = NoFill PROVE FillOK(run[p], fill[p])'
  BY <1>3 DEF FillOK
<1>4. CASE Booking(p)
  <2>1. fill'[p] = NoFill
    BY <1>1, <1>4 DEF Booking, BookEntry, BookPartial, BookClose, BookAdd, FillDone
  <2>2. y.step # "fill"
    <3>1. y.step \in {"next", "stop", "log"}
      BY <1>4, Entered, Closes, Banks, Slices DEF Booking, Next1, StopLeft
    <3> QED BY <3>1
  <2> QED BY <1>2, <1>3, <1>4, <2>1, <2>2
<1>5. CASE Die(p)
  <2>1. fill'[p] = NoFill
    BY <1>1, <1>5 DEF Die
  <2>2. y = Idle
    BY <1>5, Idles DEF Die, deskVars, Base
  <2> QED BY <1>2, <1>3, <1>5, <2>1, <2>2 DEF Idle
<1>6. ASSUME ~Booking(p), ~Die(p)
      PROVE  /\ fill' = fill /\ (x.phase = "idle" \/ x.step # "fill")
             /\ y.phase = "idle" \/ y.step # "fill"
  <2>1. CASE Reading(p)
    <3>1. ReadsAnew(p)
      BY <2>1, ReadingReads DEF Base
    <3> QED BY <2>1, <3>1 DEF ReadsAnew, Reading, StartPass, StartRules, StartResolve,
                              StartEntries, In, Still, bookVars
  <2>2. CASE EndPass(p)
    <3>1. y = Idle
      BY <2>2, Idles DEF EndPass, Still, deskVars, Base
    <3> QED BY <2>2, <3>1 DEF Idle, EndPass, In, Still, bookVars
  <2>3. CASE PassOver(p)
    BY <2>3, PassingOver DEF PassOver, Still, bookVars, Base
  <2>4. CASE Planning(p)
    <3>1. PICK step \in Steps, j \in Jobs : Still /\ Plan(p, step, j)
      BY <2>4, Plans
    <3>2. trades' = trades
      BY <3>1 DEF Still, deskVars
    <3>3. y.step = step /\ step # "fill" /\ x.step = "next"
      BY <3>1, <3>2, PlanMoves DEF Base, Plan
    <3> QED BY <3>1, <3>3 DEF Still, bookVars
  <2>5. CASE Claim(p)
    <3>1. y.step \in {"next", "stop", "place"}
      BY <2>5, Claims DEF Next1, StopLeft
    <3> QED BY <2>5, <3>1 DEF Claim, Doing, bookVars
  <2>6. CASE Refused(p)
    BY <2>6, Refusals DEF Next1, Refused, Doing, bookVars
  <2>7. CASE Writing(p)
    <3>1. y.step \in {"next", "claim"}
      BY <2>7, Logs, Targets, StopsWritten DEF Writing, Next1
    <3> QED BY <2>7, <3>1 DEF Writing, LogAdd, WriteStop, WriteTarget, Doing, bookVars
  <2> QED BY <1>6, <2>1, <2>2, <2>3, <2>4, <2>5, <2>6, <2>7, StepIsOneOf DEF Quiet, Trading
<1>7. CASE ~Booking(p) /\ ~Die(p)
  <2>1. fill[p] = NoFill
    BY <1>6, <1>7 DEF FillOK
  <2> QED BY <1>2, <1>3, <1>6, <1>7, <2>1
<1> QED BY <1>4, <1>5, <1>7

-----------------------------------------------------------------------------
(* The arithmetic of a fill. *)

\* Held and orders as they are: a side, a size and a price.
SoundHeld(held) == held.side \in {1, -1} /\ held.size \in Nat
SoundOrder(order) == order.side \in {1, -1} /\ order.size \in Nat /\ order.price \in Int
Fits(held, order) == order.reduce_only /\ ~Opens(held, order) => order.size <= held.size

LEMMA ClosingFill ==
    ASSUME NEW held, SoundHeld(held), NEW order, SoundOrder(order), Fits(held, order),
           ~Opens(held, order)
    PROVE  LET after == AfterFill(held, order)
           IN  /\ held.side = -order.side
               /\ \/ /\ order.size < held.size /\ ClosedSize(held, order) = order.size
                     /\ after = [held EXCEPT !.size = held.size - order.size]
                  \/ /\ order.size = held.size /\ ClosedSize(held, order) = held.size
                     /\ after = Flat
                  \/ /\ order.size > held.size /\ ClosedSize(held, order) = held.size
                     /\ after = [side |-> order.side, size |-> order.size - held.size,
                                 entry |-> order.price]
<1>1. held.side = -order.side /\ AfterFill(held, order) = Reduced(held, order)
  BY DEF SoundHeld, SoundOrder, Opens, AfterFill
<1>2. CASE order.size < held.size
  <2>1. ClosedSize(held, order) = order.size
    BY <1>2 DEF ClosedSize, Smaller
  <2>2. held.size - order.size > 0
    BY <1>2 DEF SoundHeld, SoundOrder
  <2>3. Reduced(held, order) = [held EXCEPT !.size = held.size - order.size]
    BY <2>1, <2>2 DEF Reduced
  <2> QED BY <1>1, <1>2, <2>1, <2>3
<1>3. CASE order.size >= held.size
  <2>1. ClosedSize(held, order) = held.size
    BY <1>3 DEF ClosedSize, Smaller, SoundHeld, SoundOrder
  <2>2. held.size - held.size = 0
    BY DEF SoundHeld
  <2>3. CASE order.size = held.size
    <3>1. Reduced(held, order) = Flat
      BY <2>1, <2>2, <2>3 DEF Reduced
    <3> QED BY <1>1, <2>1, <2>3, <3>1
  <2>4. CASE order.size > held.size
    <3>1. ~order.reduce_only /\ order.size - held.size > 0
      BY <2>4 DEF Fits, SoundHeld, SoundOrder
    <3>2. Reduced(held, order) = [side |-> order.side, size |-> order.size - held.size,
                                  entry |-> order.price]
      BY <2>1, <2>2, <3>1 DEF Reduced
    <3> QED BY <1>1, <2>1, <2>4, <3>2
  <2> QED BY <1>3, <2>3, <2>4 DEF SoundHeld, SoundOrder
<1> QED BY <1>2, <1>3 DEF SoundHeld, SoundOrder

LEMMA SignedFilled ==
    ASSUME NEW held, held \in [side : {1, -1}, size : Nat, entry : {held.entry}],
           NEW order, SoundOrder(order), Fits(held, order)
    PROVE  Signed(AfterFill(held, order)) = Signed(held) + order.side * order.size
<1>1. SoundHeld(held)
  BY DEF SoundHeld
<1>2. CASE Opens(held, order)
  <2>1. /\ AfterFill(held, order).side = order.side
        /\ AfterFill(held, order).size = held.size + order.size
    BY <1>2 DEF AfterFill, Opened
  <2>2. CASE held.size = 0
    BY <1>1, <2>1, <2>2 DEF Signed, SoundHeld, SoundOrder
  <2>3. CASE held.side = order.side
    BY <1>1, <2>1, <2>3 DEF Signed, SoundHeld, SoundOrder
  <2> QED BY <1>2, <2>2, <2>3 DEF Opens
<1>3. CASE ~Opens(held, order)
  <2> DEFINE after == AfterFill(held, order)
  <2>1. held.side = -order.side
    BY <1>1, <1>3, ClosingFill
  <2>2. CASE order.size < held.size /\ after = [held EXCEPT !.size = held.size - order.size]
    <3>1. after.side = held.side /\ after.size = held.size - order.size
      BY <2>2
    <3> HIDE DEF after
    <3> QED BY <1>1, <2>1, <2>2, <3>1 DEF Signed, SoundHeld, SoundOrder, after
  <2>3. CASE order.size = held.size /\ after = Flat
    <3>1. after.side = 1 /\ after.size = 0
      BY <2>3 DEF Flat
    <3> HIDE DEF after
    <3> QED BY <1>1, <2>1, <2>3, <3>1 DEF Signed, SoundHeld, SoundOrder, after
  <2>4. CASE /\ order.size > held.size
             /\ after = [side |-> order.side, size |-> order.size - held.size,
                         entry |-> order.price]
    <3>1. after.side = order.side /\ after.size = order.size - held.size
      BY <2>4
    <3> HIDE DEF after
    <3> QED BY <1>1, <2>1, <2>4, <3>1 DEF Signed, SoundHeld, SoundOrder, after
  <2> QED BY <1>1, <1>3, <2>2, <2>3, <2>4, ClosingFill
<1> QED BY <1>2, <1>3

LEMMA WriteFacts ==
    ASSUME Base, RowsInv, NEW p \in Procs, Filling(p), FillOK(run[p], fill[p])
    PROVE  LET f == fill[p]
               order == f.order
           IN  /\ order \in Orders /\ SoundOrder(order) /\ Fits(f.held, order)
               /\ f.held \in [side : {1, -1}, size : Nat, entry : {f.held.entry}]
               /\ f.step # "filled" => f.held = position[order.coin]
               /\ Opens(f.held, order) => order.size > 0
<1> DEFINE f == fill[p]
           order == f.order
           job == run[p].job
<1>1. /\ f.step \in {"read", "add", "write"} /\ run[p].phase # "idle" /\ run[p].step = "fill"
      /\ order = OrderOf(job, order.price)
      /\ job.kind \notin Entries => Finds(f.held, order)
      /\ f.held = position[order.coin]
  BY DEF Filling, FillStep, ReadRealized, AddRealized, WritePosition, Doing, FillOK
<1>2. order \in Orders /\ Position(f.held)
  BY <1>1, FillFacts DEF Base
<1>3. SoundOrder(order) /\ f.held \in [side : {1, -1}, size : Nat, entry : {f.held.entry}]
  BY <1>2, SideCases DEF Orders, SoundOrder, Position
<1>4. JobRows(run[p], trades) /\ JobOK(job, "fill", trades)
  BY <1>1, AtWork DEF RowsInv, RowsOK, Base
<1>5. order.reduce_only => job.kind \notin Entries
  BY <1>1 DEF OrderOf, Entries
<1>6. Fits(f.held, order)
  BY <1>1, <1>5 DEF Fits, Finds
<1>7. ASSUME Opens(f.held, order) PROVE order.size > 0
  <2>1. job.kind \in Entries
    <3>1. ~Finds(f.held, order)
      BY <1>3, <1>7 DEF Opens, Finds, SoundOrder
    <3> QED BY <1>1, <3>1
  <2>2. order.size = job.size
    BY <1>1 DEF OrderOf
  <2>3. CASE job.kind = "enter"
    <3>1. job.row.id \in Cands /\ job.size = Setup[job.row.id].size
      BY <1>1, <1>4, <2>3 DEF JobRows, JobOK
    <3>2. Setup[job.row.id].size \in Nat \ {0}
      BY <3>1, Constants
    <3> QED BY <2>2, <3>1, <3>2
  <2>4. CASE job.kind = "add"
    BY <1>1, <1>4, <2>2, <2>4 DEF JobRows
  <2> QED BY <2>1, <2>3, <2>4 DEF Entries
<1> QED BY <1>1, <1>2, <1>3, <1>6, <1>7

LEMMA PositionWritten ==
    ASSUME Base, RowsInv, NEW p \in Procs, Filling(p), FillOK(run[p], fill[p])
    PROVE  LET f == fill[p]
           IN  \/ /\ position' = position /\ f.step # "filled" /\ fill'[p].step # "filled"
               \/ /\ f.step = "write" /\ fill'[p].step = "filled" /\ realized' = realized
                  /\ \A c \in Coins : position'[c] =
                         IF c = f.order.coin THEN AfterFill(f.held, f.order) ELSE position[c]
<1>1. /\ fill = [q \in Procs |-> fill[q]] /\ position = [c \in Coins |-> position[c]]
      /\ fill[p].step # "none" /\ FillStep(p)
  BY DEF Base, BookOK, Filling, FillStep, ReadRealized, AddRealized, WritePosition
<1>2. fill[p] \in [step : {"read", "add", "write", "filled"}, order : Orders,
                   held : {fill[p].held}, sum : {fill[p].sum}]
  BY <1>1 DEF Base, BookOK, Fill, NoFill
<1>3. CASE ReadRealized(p) \/ AddRealized(p)
  BY <1>1, <1>2, <1>3 DEF ReadRealized, AddRealized
<1>4. CASE WritePosition(p)
  BY <1>1, <1>2, <1>4 DEF WritePosition
<1> QED BY <1>1, <1>3, <1>4 DEF FillStep

Shared(p) == \A c \in Coins : Signed(position[c]) = Share(c) + Pending(fill[p], c)

LEMMA SignedAre ==
    ASSUME Base
    PROVE  \A c \in Coins : Signed(position[c]) \in Int /\ Share(c) \in Int
<1>1. \A c \in Coins : position[c].side \in {1, -1} /\ position[c].size \in Nat
  BY SideCases DEF Base, BookOK, Position
<1>2. \A c \in Coins : Signed(position[c]) \in Int
  BY <1>1 DEF Signed
<1> QED BY <1>2, LedgerSums DEF Base

LEMMA StepKeepsShares ==
    ASSUME Base, RowsInv, NEW p \in Procs, Step(p), ~Die(p), FillOK(run[p], fill[p]), Shared(p)
    PROVE  Shared(p)'
<1> DEFINE f == fill[p]
<1>1. ASSUME ~Booking(p) PROVE \A c : Share(c)' = Share(c)
  BY <1>1, StepKeepsRows, SameSums DEF Base
<1>2. CASE Booking(p)
  <2>1. /\ fill'[p] = NoFill /\ position' = position
    <3>1. ~Place(p) /\ ~Filling(p)
      BY <1>2 DEF Booking, BookEntry, BookPartial, BookClose, BookAdd, Filled, Place, Filling,
                  Doing, FillStep, ReadRealized, AddRealized, WritePosition
    <3> QED BY <3>1, RestFill
  <2>2. \A c : Share(c)' = Share(c) + Pending(f, c)
    BY <1>2, BookedSums
  <2>3. \A c \in Coins : Pending(fill'[p], c) = 0
    BY <2>1 DEF Pending, NoFill
  <2>4. \A c \in Coins : Signed(position'[c]) = Share(c)' + Pending(fill'[p], c)
    BY <2>1, <2>2, <2>3, SignedAre DEF Shared
  <2> QED BY <2>4 DEF Shared, Pending, Signed
<1>3. CASE Filling(p)
  <2>1. \A c : Share(c)' = Share(c)
    <3>1. ~Booking(p)
      BY <1>3 DEF Booking, BookEntry, BookPartial, BookClose, BookAdd, Filled, Filling,
                  FillStep, ReadRealized, AddRealized, WritePosition
    <3> QED BY <1>1, <3>1
  <2>2. /\ f.order \in Orders /\ SoundOrder(f.order) /\ Fits(f.held, f.order)
        /\ f.held \in [side : {1, -1}, size : Nat, entry : {f.held.entry}]
        /\ f.step # "filled" => f.held = position[f.order.coin]
    BY <1>3, WriteFacts
  <2>3. fill'[p].order = f.order
    BY <1>3, FillingFill
  <2>4. CASE position' = position /\ f.step # "filled" /\ fill'[p].step # "filled"
    <3>1. \A c \in Coins : Pending(f, c) = 0 /\ Pending(fill'[p], c) = 0
      BY <2>4 DEF Pending
    <3> QED BY <2>1, <2>4, <3>1 DEF Shared, Signed
  <2>5. CASE /\ f.step = "write" /\ fill'[p].step = "filled"
             /\ \A c \in Coins : position'[c] =
                    IF c = f.order.coin THEN AfterFill(f.held, f.order) ELSE position[c]
    <3>1. Signed(AfterFill(f.held, f.order)) = Signed(f.held) + f.order.side * f.order.size
      BY <2>2, SignedFilled
    <3>2. \A c \in Coins : Pending(f, c) = 0
      BY <2>5 DEF Pending
    <3>3. \A c \in Coins : Pending(fill'[p], c) =
              IF c = f.order.coin THEN f.order.side * f.order.size ELSE 0
      BY <2>3, <2>5 DEF Pending
    <3>4. f.order.side * f.order.size \in Int
      BY <2>2 DEF SoundOrder
    <3>5. \A c \in Coins : Signed(position'[c]) = Share(c) + Pending(fill'[p], c)
      <4> SUFFICES ASSUME NEW c \in Coins
                   PROVE  Signed(position'[c]) = Share(c) + Pending(fill'[p], c)
        OBVIOUS
      <4>1. Signed(position[c]) = Share(c)
        BY <3>2, SignedAre DEF Shared
      <4>2. CASE c = f.order.coin
        <5>1. Signed(position'[c]) = Signed(position[c]) + f.order.side * f.order.size
          BY <2>2, <2>5, <3>1, <4>2
        <5> QED BY <3>3, <4>1, <4>2, <5>1
      <4>3. CASE c # f.order.coin
        BY <2>5, <3>3, <4>1, <4>3, SignedAre
      <4> QED BY <4>2, <4>3
    <3> QED BY <2>1, <3>5 DEF Shared, Signed, Pending
  <2> QED BY <1>3, <2>4, <2>5, PositionWritten
<1>4. CASE Place(p)
  <2>1. ~Booking(p) /\ f = NoFill /\ fill'[p].step \in {"read", "write"} /\ position' = position
    <3>1. fill = [q \in Procs |-> fill[q]]
      BY DEF Base, BookOK
    <3> QED BY <1>4, <3>1 DEF Booking, BookEntry, BookPartial, BookClose, BookAdd, Filled, Place,
                              Doing, FillOK, PlaceOrder
  <2>2. \A c \in Coins : Pending(f, c) = 0 /\ Pending(fill'[p], c) = 0
    BY <2>1 DEF Pending, NoFill
  <2> QED BY <1>1, <2>1, <2>2 DEF Shared, Signed
<1>5. CASE ~Booking(p) /\ ~Filling(p) /\ ~Place(p)
  <2>1. f = NoFill /\ fill'[p] = NoFill /\ position' = position
    BY <1>5, RestFill
  <2> QED BY <1>1, <1>5, <2>1 DEF Shared, Signed, Pending
<1> QED BY <1>2, <1>3, <1>4, <1>5

\* As long as no process died, the book and the ledger tell of the same shares, but for
\* what is filled and not yet booked.
SharesOK(p) == EntryOK(run[p]) /\ FillOK(run[p], fill[p]) /\ Shared(p)
SharesInv == faults = 0 => OneSide /\ \A p \in Procs : SharesOK(p)

LEMMA FaultlessStep ==
    ASSUME CountsOK, NEW p \in Procs, Step(p), faults' = 0
    PROVE  faults = 0 /\ ~Die(p)
<1>1. faults' = faults \/ faults' = faults + 1
  BY DEF Step, StartPass, StartRules, StartResolve, StartEntries, EndPass, JudgeTighten,
         JudgeReduce, JudgeClose, JudgeExtend, JudgeAdd, RuleDue, ResolveDue, GateEntry,
         PassOver, Still, Claim, Place, Refused, Filling, BookEntry, BookPartial, BookClose,
         BookAdd, FillDone, LogAdd, WriteStop, WriteTarget, Die
<1>2. faults \in Nat
  BY DEF CountsOK
<1> QED BY <1>1, <1>2 DEF Die

LEMMA RestingShares ==
    ASSUME Base, NEW p \in Procs, SharesOK(p), StartEntries(p) \/ Place(p)
    PROVE  \A c \in Coins : Signed(position[c]) = Share(c)
<1>1. fill[p] = NoFill
  BY DEF SharesOK, FillOK, StartEntries, In, Place, Doing
<1>2. \A c \in Coins : Pending(fill[p], c) = 0
  BY <1>1 DEF Pending, NoFill
<1> QED BY <1>2, SignedAre DEF SharesOK, Shared

LEMMA StepKeepsSharesInv ==
    ASSUME OneProcess, Base, CountsOK, RowsInv, SharesInv, NEW p \in Procs, Step(p)
    PROVE  SharesInv'
<1> SUFFICES ASSUME faults' = 0 PROVE OneSide' /\ SharesOK(p)'
  BY DEF SharesInv, OneProcess
<1>1. OneSide /\ SharesOK(p) /\ ~Die(p)
  BY FaultlessStep DEF SharesInv
<1>2. OneSide'
  BY <1>1, StepKeepsOneSide DEF SharesOK
<1>3. EntryOK(run[p])'
  BY <1>1, RestingShares, StepKeepsEntry DEF SharesOK
<1>4. FillOK(run[p], fill[p])'
  BY <1>1, RestingShares, PlacedFill, FillingFill, RestFill DEF SharesOK
<1>5. Shared(p)'
  BY <1>1, StepKeepsShares DEF SharesOK
<1> QED BY <1>2, <1>3, <1>4, <1>5 DEF SharesOK

LEMMA InitLedger ==
    ASSUME Init
    PROVE  /\ RowsInv /\ OpenIds = {} /\ Value = 0 /\ \A c : Share(c) = 0
<1>1. DOMAIN trades = {}
  BY DEF Init
<1>2. IsFiniteSet({}) /\ IntsOn(Worth, {}) /\ \A c : IntsOn(Holding(c), {})
  BY FS_EmptySet DEF IntsOn
<1>3. Value = 0 /\ \A c : Share(c) = 0
  BY <1>1, <1>2, SumStep DEF Value, Share
<1>4. OpenIds = {}
  BY <1>1 DEF OpenIds
<1>5. RowsInv
  BY <1>4 DEF Init, RowsInv, RowsOK, Idle
<1> QED BY <1>3, <1>4, <1>5

LEMMA InitShares == Init => RowsInv /\ SharesInv
<1> SUFFICES ASSUME Init PROVE RowsInv /\ SharesInv
  OBVIOUS
<1>1. RowsInv /\ OpenIds = {} /\ \A c : Share(c) = 0
  BY InitLedger
<1>2. ASSUME NEW p \in Procs PROVE SharesOK(p)
  <2>1. run[p] = Idle /\ fill[p] = NoFill
    BY DEF Init, BookInit
  <2>2. EntryOK(run[p]) /\ FillOK(run[p], fill[p])
    BY <2>1 DEF EntryOK, FillOK, Idle
  <2>3. \A c \in Coins : Signed(position[c]) = 0 /\ Pending(fill[p], c) = 0
    BY <2>1 DEF Init, BookInit, Flat, Signed, Pending, NoFill
  <2> QED BY <1>1, <2>2, <2>3 DEF SharesOK, Shared
<1> QED BY <1>1, <1>2 DEF SharesInv, OneSide

LedgerInv == DeskInv /\ RowsInv /\ SharesInv

LEMMA LedgerStays ==
    ASSUME OneProcess, LedgerInv, [Next]_vars
    PROVE  LedgerInv'
<1>1. DeskInv'
  BY DeskStays DEF LedgerInv
<1>2. CASE UNCHANGED vars
  <2>1. UNCHANGED <<trades, run, position, fill, faults>>
    BY <1>2 DEF vars
  <2>2. RowsInv'
    BY <2>1 DEF LedgerInv, RowsInv, RowsOK, ReadRows, JobRows, RowInHand, OpenIds
  <2>3. SharesInv'
    <3>1. OneSide => OneSide'
      BY <2>1 DEF OneSide, OpenIds
    <3>2. \A p \in Procs : /\ EntryOK(run[p]) => EntryOK(run[p])'
                           /\ FillOK(run[p], fill[p]) => FillOK(run[p], fill[p])'
      BY <2>1 DEF EntryOK, OpenIds, FillOK
    <3>3. \A c : Share(c)' = Share(c)
      BY <2>1 DEF Share, Holding
    <3>4. \A p \in Procs : Shared(p) => Shared(p)'
      BY <2>1, <3>3 DEF Shared, Signed, Pending
    <3> QED BY <2>1, <3>1, <3>2, <3>4 DEF LedgerInv, SharesInv, SharesOK
  <2> QED BY <1>1, <2>2, <2>3 DEF LedgerInv
<1>3. ASSUME NEW p \in Procs, Step(p)
      PROVE  LedgerInv'
  BY <1>1, <1>3, StepKeepsRowsInv, StepKeepsSharesInv DEF LedgerInv, DeskInv
<1> QED BY <1>2, <1>3 DEF Next, Finished

LEMMA LedgerAlways ==
    ASSUME OneProcess
    PROVE  Spec => []LedgerInv
<1>1. Init => LedgerInv
  BY InitDesk, InitShares DEF LedgerInv
<1>2. LedgerInv /\ [Next]_vars => LedgerInv'
  BY LedgerStays
<1> QED BY <1>1, <1>2, PTL DEF Spec

\* Between orders, and as long as no pass died in mid-way.
Resting == faults = 0 /\ \A p \in Procs : run[p].phase = "idle" \/ run[p].step # "fill"

LEMMA RestingFills ==
    ASSUME LedgerInv, Resting
    PROVE  \A p \in Procs : fill[p] = NoFill
BY DEF LedgerInv, SharesInv, SharesOK, FillOK, Resting

LEMMA RestingBook ==
    ASSUME OneProcess, LedgerInv, Resting
    PROVE  BookMatchesLedger
<1> SUFFICES ASSUME NEW c \in Coins
             PROVE  Signed(position[c]) = SumFunction(Holding(c))
  BY DEF BookMatchesLedger
<1>1. PICK p \in Procs : TRUE
  BY DEF OneProcess
<1>2. Shared(p) /\ fill[p] = NoFill
  BY RestingFills DEF LedgerInv, SharesInv, SharesOK, Resting
<1>3. Pending(fill[p], c) = 0
  BY <1>2 DEF Pending, NoFill
<1>4. Signed(position[c]) = Share(c)
  BY <1>2, <1>3, SignedAre DEF Shared, LedgerInv, DeskInv
<1> QED BY <1>4, SumsAre

\* A coin's position is the sum of its open rows, whatever the order of entries, adds,
\* partials and closes, and however the averages are rounded.
THEOREM BookFollowsLedger ==
    ASSUME OneProcess
    PROVE  Spec => [](Resting => BookMatchesLedger)
<1>1. LedgerInv => (Resting => BookMatchesLedger)
  BY RestingBook
<1> QED BY <1>1, LedgerAlways, PTL

-----------------------------------------------------------------------------
(* The account. *)

\* The average a fill leaves, times what is held, is what was paid: the code's averages
\* are floats, the model's whole numbers.
WholeAverages ==
    faults = 0 => \A p \in Procs :
        LET f == fill[p]
        IN  f.step = "write" /\ Opens(f.held, f.order) =>
                Opened(f.held, f.order).entry * Opened(f.held, f.order).size
                    = f.held.entry * f.held.size + f.order.price * f.order.size

LEMMA TimesSide ==
    ASSUME NEW side \in {1, -1}, NEW x \in Int, NEW price \in Int
    PROVE  /\ side * x \in Int /\ side * x * price \in Int
           /\ (-side) * x = -(side * x) /\ (-side) * x * price = -(side * x * price)
<1>1. side * x \in Int /\ (-side) * x = -(side * x)
  OBVIOUS
<1>2. \A y \in Int : y * price \in Int /\ (-y) * price = -(y * price)
  OBVIOUS
<1> QED BY <1>1, <1>2

\* A fill changes what the position cost by what was paid, and by what was realized.
LEMMA CostFilled ==
    ASSUME NEW held, held \in [side : {1, -1}, size : Nat, entry : Int],
           NEW order, SoundOrder(order), Fits(held, order),
           Opens(held, order) =>
               /\ order.size > 0
               /\ Opened(held, order).entry * Opened(held, order).size
                      = held.entry * held.size + order.price * order.size
    PROVE  /\ Cost(AfterFill(held, order))
                  = Cost(held) + order.side * order.size * order.price
                    + (IF Opens(held, order) THEN 0 ELSE RealizedBy(held, order))
           /\ AfterFill(held, order).entry \in Int
           /\ ~Opens(held, order) => RealizedBy(held, order) \in Int
<1> DEFINE hs == held.size
           he == held.entry
           os == order.size
           price == order.price
           after == AfterFill(held, order)
<1>1. /\ SoundHeld(held) /\ hs \in Nat /\ he \in Int /\ os \in Nat /\ price \in Int
      /\ held.side \in {1, -1} /\ order.side \in {1, -1}
  BY DEF SoundHeld, SoundOrder
<1>2. CASE Opens(held, order)
  <2>1. /\ after.side = order.side /\ after.size = hs + os
        /\ after.entry = (he * hs + price * os) \div (hs + os)
        /\ after = Opened(held, order)
    BY <1>2 DEF AfterFill, Opened
  <2>2. after.entry * after.size = he * hs + price * os
    BY <1>2, <2>1
  <2>3. he * hs \in Int /\ price * os \in Int
    BY <1>1
  <2>4. after.entry \in Int
    <3>1. \A m \in Int, n \in Nat : n > 0 => m \div n \in Int
      OBVIOUS
    <3>2. he * hs + price * os \in Int /\ hs + os \in Nat /\ hs + os > 0
      BY <1>1, <1>2, <2>3
    <3> HIDE DEF after, hs, he, os, price
    <3> QED BY <2>1, <3>1, <3>2
  <2> HIDE DEF after, hs, he, os, price
  <2>5. Cost(after) = order.side * (he * hs + price * os)
    <3>1. after.size \in Int
      BY <1>1, <2>1
    <3>2. order.side * after.size * after.entry = order.side * (after.entry * after.size)
      <4>1. CASE order.side = 1
        BY <2>4, <3>1, <4>1
      <4>2. CASE order.side = -1
        <5>1. (-after.size) * after.entry = -(after.entry * after.size)
          BY <2>4, <3>1
        <5>2. order.side * after.size = -after.size
          BY <3>1, <4>2
        <5>3. order.side * (after.entry * after.size) = -(after.entry * after.size)
          BY <2>2, <2>3, <4>2
        <5> QED BY <5>1, <5>2, <5>3
      <4> QED BY <1>1, <4>1, <4>2
    <3> QED BY <2>1, <2>2, <3>2 DEF Cost
  <2>6. order.side * (he * hs + price * os) = order.side * (he * hs) + order.side * (price * os)
    BY <1>1, <2>3
  <2>7. order.side * (price * os) = order.side * os * price
    BY <1>1
  <2>8. Cost(held) = order.side * (he * hs)
    <3>1. Cost(held) = held.side * hs * he
      BY DEF Cost, hs, he
    <3>2. CASE hs = 0
      BY <1>1, <3>1, <3>2
    <3>3. CASE held.side = order.side
      BY <1>1, <3>1, <3>3
    <3> QED BY <1>2, <3>2, <3>3 DEF Opens, hs
  <2>9. order.side * os * price \in Int /\ Cost(held) \in Int
    BY <1>1, <2>3, <2>8, TimesSide
  <2> QED BY <1>2, <2>4, <2>5, <2>6, <2>7, <2>8, <2>9 DEF after, os, price
<1>3. CASE ~Opens(held, order)
  <2> DEFINE side == held.side
             closed == ClosedSize(held, order)
  <2>1. /\ side = -order.side
        /\ \/ /\ os < hs /\ closed = os /\ after = [held EXCEPT !.size = hs - os]
           \/ os = hs /\ closed = hs /\ after = Flat
           \/ /\ os > hs /\ closed = hs
              /\ after = [side |-> order.side, size |-> os - hs, entry |-> price]
    BY <1>1, <1>3, ClosingFill
  <2>2. closed \in Nat /\ RealizedBy(held, order) = side * (price - he) * closed
    BY <1>1, <2>1 DEF RealizedBy
  <2>3. RealizedBy(held, order) = side * closed * price - side * closed * he
    BY <1>1, <2>2, PnlIs
  <2>4. /\ side * os * price \in Int /\ side * hs * price \in Int
        /\ side * os * he \in Int /\ side * hs * he \in Int
        /\ side * closed * price \in Int /\ side * closed * he \in Int
        /\ order.side * os * price = -(side * os * price)
    <3>1. order.side = -side
      BY <1>1, <2>1
    <3> HIDE DEF closed, side
    <3> QED BY <1>1, <2>2, <3>1, TimesSide DEF side
  <2>5. Cost(held) = side * hs * he
    BY DEF Cost
  <2>6. CASE os < hs /\ closed = os /\ after = [held EXCEPT !.size = hs - os]
    <3>1. after.side = side /\ after.size = hs - os /\ after.entry = he
      BY <2>6
    <3>2. Cost(after) = side * (hs - os) * he
      BY <3>1 DEF Cost
    <3>3. side * (hs - os) * he = side * hs * he - side * os * he
      <4>1. (hs - os) * he = hs * he - os * he
        BY <1>1
      <4> QED BY <1>1, <4>1
    <3> HIDE DEF after, closed, side, hs, he, os, price
    <3> QED BY <1>1, <1>3, <2>3, <2>4, <2>5, <2>6, <3>1, <3>2, <3>3 DEF after, os, price
  <2>7. CASE os = hs /\ closed = hs /\ after = Flat
    <3>1. after.entry = 0 /\ Cost(after) = 0
      BY <2>7 DEF Flat, Cost
    <3> HIDE DEF after, closed, side, hs, he, os, price
    <3> QED BY <1>1, <1>3, <2>3, <2>4, <2>5, <2>7, <3>1 DEF after, os, price
  <2>8. CASE /\ os > hs /\ closed = hs
             /\ after = [side |-> order.side, size |-> os - hs, entry |-> price]
    <3>1. Cost(after) = order.side * (os - hs) * price /\ after.entry = price
      BY <2>8 DEF Cost
    <3>2. order.side * (os - hs) * price = order.side * os * price - order.side * hs * price
      <4>1. (os - hs) * price = os * price - hs * price
        BY <1>1
      <4> QED BY <1>1, <4>1
    <3>3. order.side * hs * price = -(side * hs * price)
      <4>1. order.side = -side
        BY <1>1, <2>1
      <4> HIDE DEF side
      <4> QED BY <1>1, <4>1, TimesSide DEF side
    <3> HIDE DEF after, closed, side, hs, he, os, price
    <3> QED BY <1>1, <1>3, <2>3, <2>4, <2>5, <2>8, <3>1, <3>2, <3>3 DEF after, os, price
  <2> QED BY <2>1, <2>6, <2>7, <2>8
<1> QED BY <1>2, <1>3

Spent == SumFunctionOnSet(Outlay, Coins)

EquityOK(p) ==
    /\ fill[p].step = "add" => fill[p].sum = realized
    /\ fill[p].step = "write" /\ ~Opens(fill[p].held, fill[p].order) =>
           RealizedBy(fill[p].held, fill[p].order) \in Int
    /\ realized - Spent = Value + Proceeds(fill[p])
EquityInv ==
    faults = 0 => /\ realized \in Int
                  /\ \A c \in Coins : position[c].entry \in Int
                  /\ \A p \in Procs : EquityOK(p)

LEMMA Outlays ==
    ASSUME Base, \A c \in Coins : position[c].entry \in Int
    PROVE  /\ IsFiniteSet(Coins) /\ IntsOn(Outlay, Coins) /\ Spent \in Int
           /\ SumFunction(Outlay) = Spent
<1>1. IsFiniteSet(Coins)
  BY DeskAssumption DEF DeskAssumption
<1>2. ASSUME NEW c \in Coins PROVE Cost(position[c]) \in Int
  <2>1. position[c].side \in {1, -1} /\ position[c].size \in Int /\ position[c].entry \in Int
    BY SideCases DEF Base, BookOK, Position
  <2> QED BY <2>1, TimesSide DEF Cost
<1>3. IntsOn(Outlay, Coins)
  BY <1>2 DEF IntsOn, Outlay
<1> QED BY <1>1, <1>3, SumIsInt DEF Spent, SumFunction, Outlay

LEMMA ProceedsAre ==
    ASSUME Base, NEW p \in Procs, EquityOK(p)
    PROVE  Proceeds(fill[p]) \in Int
<1> DEFINE f == fill[p]
<1>1. CASE f.step = "filled"
  <2>1. f.order \in Orders
    BY <1>1, FillFacts DEF Base
  <2>2. f.order.side \in {1, -1} /\ f.order.size \in Int /\ f.order.price \in Int
    BY <2>1, SideCases DEF Orders
  <2>3. f.order.side * f.order.size * f.order.price \in Int
    BY <2>2, TimesSide
  <2> QED BY <1>1, <2>3 DEF Proceeds
<1>2. CASE f.step = "write" /\ ~Opens(f.held, f.order)
  BY <1>2 DEF Proceeds, EquityOK
<1> QED BY <1>1, <1>2 DEF Proceeds

\* A fill writes the position: what it costs changes by the order's worth and by what
\* was realized.
LEMMA FilledEquity ==
    ASSUME Base, RowsInv, WholeAverages, faults = 0, NEW p \in Procs, Filling(p),
           FillOK(run[p], fill[p]), EquityOK(p), realized \in Int,
           \A c \in Coins : position[c].entry \in Int
    PROVE  /\ realized' \in Int
           /\ \A c \in Coins : position'[c].entry \in Int
           /\ EquityOK(p)'
<1> DEFINE f == fill[p]
           g == fill'[p]
           d == f.order.coin
<1>1. /\ f.order \in Orders /\ SoundOrder(f.order) /\ Fits(f.held, f.order)
      /\ f.held \in [side : {1, -1}, size : Nat, entry : {f.held.entry}]
      /\ f.step # "filled" => f.held = position[d]
      /\ Opens(f.held, f.order) => f.order.size > 0
  BY WriteFacts
<1>2. g.order = f.order /\ g.held = f.held /\ d \in Coins
  BY <1>1, FillingFill DEF Orders
<1>3. /\ fill = [q \in Procs |-> fill[q]]
      /\ f \in [step : {"read", "add", "write", "filled"}, order : Orders, held : {f.held},
                sum : {f.sum}]
      /\ f.step # "filled" /\ run[p].phase # "idle" /\ run[p].step = "fill"
  <2>1. f.step \in {"read", "add", "write"} /\ run[p].phase # "idle" /\ run[p].step = "fill"
    BY DEF Filling, FillStep, ReadRealized, AddRealized, WritePosition, Doing
  <2> QED BY <2>1 DEF Base, BookOK, Fill, NoFill
<1>4. /\ f.held \in [side : {1, -1}, size : Nat, entry : Int]
      /\ f.held = position[d]
  BY <1>1, <1>2, <1>3
<1>5. Value' = Value /\ trades' = trades
  <2>1. trades' = trades
    BY DEF Filling, deskVars
  <2> QED BY <2>1 DEF Value, Worth
<1>6. CASE ReadRealized(p)
  <2> DEFINE h == [f EXCEPT !.step = "add", !.sum = realized]
  <2>1. /\ fill' = [fill EXCEPT ![p] = h] /\ position' = position /\ f.step = "read"
        /\ realized' = realized
    BY <1>3, <1>6 DEF ReadRealized
  <2>2. h.step = "add" /\ h.sum = realized
    BY <1>3
  <2> HIDE DEF h
  <2>3. g.step = "add" /\ g.sum = realized
    BY <1>3, <2>1, <2>2
  <2>4. Spent' = Spent
    BY <2>1 DEF Spent, Outlay
  <2>5. Proceeds(g) = 0 /\ Proceeds(f) = 0
    BY <2>1, <2>3 DEF Proceeds
  <2> QED BY <1>5, <2>1, <2>3, <2>4, <2>5 DEF EquityOK, Proceeds
<1>7. CASE AddRealized(p)
  <2> DEFINE h == [f EXCEPT !.step = "write"]
             gain == RealizedBy(f.held, f.order)
  <2>1. /\ fill' = [fill EXCEPT ![p] = h] /\ position' = position /\ f.step = "add"
        /\ realized' = f.sum + gain
    BY <1>3, <1>7 DEF AddRealized
  <2>2. h.step = "write" /\ ~Opens(f.held, f.order) /\ f.sum = realized
    BY <1>3, <2>1 DEF FillOK, EquityOK
  <2> HIDE DEF h
  <2>3. g.step = "write"
    BY <1>3, <2>1, <2>2
  <2>4. Spent' = Spent
    BY <2>1 DEF Spent, Outlay
  <2>5. gain \in Int
    BY <1>1, <1>4, <2>2, CostFilled
  <2>6. Proceeds(g) = gain /\ Proceeds(f) = 0
    BY <1>2, <2>1, <2>2, <2>3 DEF Proceeds
  <2>7. Spent \in Int /\ Value \in Int
    BY Outlays, LedgerSums DEF Base
  <2>8. realized' - Spent' = Value' + Proceeds(g)
    BY <1>5, <2>1, <2>2, <2>4, <2>5, <2>6, <2>7 DEF EquityOK
  <2>9. RealizedBy(g.held, g.order) \in Int
    BY <1>2, <2>5
  <2>10. realized' \in Int
    BY <2>1, <2>2, <2>5
  <2> HIDE DEF gain
  <2> QED BY <1>2, <2>1, <2>2, <2>3, <2>8, <2>9, <2>10 DEF EquityOK, Proceeds
<1>8. CASE WritePosition(p)
  <2> DEFINE after == AfterFill(f.held, f.order)
             paid == f.order.side * f.order.size * f.order.price
             gain == IF Opens(f.held, f.order) THEN 0 ELSE RealizedBy(f.held, f.order)
  <2>1. /\ f.step = "write" /\ realized' = realized
        /\ position' = [position EXCEPT ![d] = after]
    BY <1>8 DEF WritePosition
  <2>2. g.step = "filled"
    BY <1>2, <1>3, <1>8 DEF WritePosition
  <2>3. /\ Cost(after) = Cost(f.held) + paid + gain /\ after.entry \in Int
        /\ ~Opens(f.held, f.order) => RealizedBy(f.held, f.order) \in Int
    <3>1. Opens(f.held, f.order) =>
              Opened(f.held, f.order).entry * Opened(f.held, f.order).size
                  = f.held.entry * f.held.size + f.order.price * f.order.size
      BY <2>1 DEF WholeAverages
    <3> QED BY <1>1, <1>4, <3>1, CostFilled
  <2>4. \A c \in Coins : position'[c] = IF c = d THEN after ELSE position[c]
    BY <2>1 DEF Base, BookOK
  <2> HIDE DEF after
  <2>5. \A c \in Coins : position'[c].entry \in Int
    BY <2>3, <2>4
  <2>6. /\ paid \in Int /\ gain \in Int
    BY <1>1, <2>3, TimesSide DEF SoundOrder
  <2>7. Proceeds(g) = -paid /\ Proceeds(f) = gain
    BY <1>2, <2>1, <2>2 DEF Proceeds
  <2> HIDE DEF paid, gain
  <2>8. Cost(f.held) \in Int /\ Cost(after) \in Int
    <3>1. Cost(f.held) \in Int
      BY <1>4, TimesSide DEF Cost
    <3> QED BY <2>3, <2>6, <3>1
  <2>9. Spent' = Spent - Cost(f.held) + Cost(after)
    <3> DEFINE w == Outlay
               v == Outlay'
    <3>1. IsFiniteSet(Coins) /\ IntsOn(w, Coins)
      BY Outlays
    <3>2. \A c \in Coins : v[c] = IF c = d THEN Cost(after) ELSE w[c]
      BY <2>4 DEF Outlay, Cost
    <3>3. IntsOn(v, Coins) /\ v[d] = Cost(after) /\ w[d] = Cost(f.held)
      BY <1>2, <1>4, <2>8, <3>1, <3>2 DEF IntsOn, Outlay
    <3>4. Spent = SumFunctionOnSet(w, Coins) /\ Spent' = SumFunctionOnSet(v, Coins)
      BY DEF Spent
    <3> HIDE DEF w, v
    <3>5. SumFunctionOnSet(v, Coins) = SumFunctionOnSet(w, Coins) - w[d] + v[d]
      BY <1>2, <3>1, <3>2, <3>3, SumChanged
    <3> QED BY <3>3, <3>4, <3>5
  <2>10. Spent \in Int /\ Value \in Int
    BY Outlays, LedgerSums DEF Base
  <2>11. realized' - Spent' = Value' + Proceeds(g)
    BY <1>5, <2>1, <2>3, <2>6, <2>7, <2>8, <2>9, <2>10 DEF EquityOK
  <2> QED BY <2>1, <2>2, <2>5, <2>11 DEF EquityOK, Proceeds
<1> QED BY <1>6, <1>7, <1>8 DEF Filling, FillStep

LEMMA RestEquity ==
    ASSUME Base, RowsInv, NEW p \in Procs, Step(p), ~Die(p), ~Filling(p),
           SharesOK(p), OneSide, EquityOK(p), \A c \in Coins : position[c].entry \in Int
    PROVE  realized' = realized /\ position' = position /\ EquityOK(p)'
<1>1. ASSUME position' = position PROVE Spent' = Spent
  BY <1>1 DEF Spent, Outlay
<1>2. ASSUME ~Booking(p) PROVE Value' = Value
  BY <1>2, StepKeepsRows, SameSums DEF Base
<1>3. CASE Place(p)
  <2>1. fill'[p].step \in {"read", "write"}
        /\ (fill'[p].step = "write" => Opens(fill'[p].held, fill'[p].order))
    BY <1>3, RestingShares, PlacedFill DEF SharesOK
  <2>2. position' = position /\ realized' = realized /\ ~Booking(p) /\ fill[p] = NoFill
    BY <1>3 DEF Booking, BookEntry, BookPartial, BookClose, BookAdd, Filled, Place,
                Doing, FillOK, PlaceOrder, SharesOK
  <2>3. Proceeds(fill[p]) = 0 /\ Proceeds(fill'[p]) = 0
    BY <2>1, <2>2 DEF Proceeds, NoFill
  <2> QED BY <1>1, <1>2, <2>1, <2>2, <2>3 DEF EquityOK, Proceeds
<1>4. CASE ~Place(p)
  <2>1. /\ fill'[p] = NoFill /\ position' = position /\ realized' = realized
        /\ ~Booking(p) => fill[p] = NoFill
    BY <1>4, RestFill DEF SharesOK
  <2>2. Proceeds(fill'[p]) = 0 /\ (~Booking(p) => Proceeds(fill[p]) = 0)
    BY <2>1 DEF Proceeds, NoFill
  <2>3. Value' = Value + Proceeds(fill[p])
    <3>1. CASE Booking(p)
      BY <3>1, BookedSums DEF SharesOK
    <3>2. CASE ~Booking(p)
      BY <1>2, <2>2, <3>2, LedgerSums DEF Base
    <3> QED BY <3>1, <3>2
  <2>4. Spent \in Int /\ Value \in Int /\ Proceeds(fill[p]) \in Int
    BY Outlays, ProceedsAre, LedgerSums DEF Base
  <2>5. realized' - Spent' = Value' + Proceeds(fill'[p])
    BY <1>1, <2>1, <2>2, <2>3, <2>4 DEF EquityOK
  <2> QED BY <2>1, <2>5 DEF EquityOK, Proceeds, NoFill
<1> QED BY <1>3, <1>4

LEMMA StepKeepsEquityInv ==
    ASSUME OneProcess, LedgerInv, EquityInv, WholeAverages, NEW p \in Procs, Step(p)
    PROVE  EquityInv'
<1> SUFFICES ASSUME faults' = 0
             PROVE  /\ realized' \in Int /\ \A c \in Coins : position'[c].entry \in Int
                    /\ EquityOK(p)'
  BY DEF EquityInv, OneProcess
<1>1. /\ faults = 0 /\ ~Die(p) /\ Base /\ RowsInv /\ OneSide /\ SharesOK(p)
      /\ realized \in Int /\ \A c \in Coins : position[c].entry \in Int
      /\ EquityOK(p)
  BY FaultlessStep DEF LedgerInv, DeskInv, SharesInv, EquityInv
<1>2. CASE Filling(p)
  BY <1>1, <1>2, FilledEquity DEF SharesOK
<1>3. CASE ~Filling(p)
  BY <1>1, <1>3, RestEquity
<1> QED BY <1>2, <1>3

LEMMA InitEquity == Init => EquityInv
<1> SUFFICES ASSUME Init PROVE EquityInv
  OBVIOUS
<1>1. Value = 0 /\ realized = 0 /\ \A p \in Procs : fill[p] = NoFill
  BY InitLedger DEF Init, BookInit
<1>2. \A c \in Coins : position[c].entry = 0 /\ Outlay[c] = 0
  BY DEF Init, BookInit, Flat, Outlay, Cost
<1>3. Spent = 0
  BY <1>2, DeskAssumption, SumIsZero DEF DeskAssumption, Spent
<1>4. \A p \in Procs : EquityOK(p)
  BY <1>1, <1>3 DEF EquityOK, Proceeds, NoFill
<1> QED BY <1>1, <1>2, <1>4 DEF EquityInv

\* What the book has realized and spent is what the ledger says, as long as the averages
\* come out whole.
THEOREM AccountsAgree ==
    ASSUME OneProcess
    PROVE  Spec /\ []WholeAverages => []AccountAgrees
<1> DEFINE Inv == LedgerInv /\ EquityInv
<1>1. Init => Inv
  BY InitDesk, InitShares, InitEquity DEF LedgerInv
<1>2. Inv /\ WholeAverages /\ [Next]_vars => Inv'
  <2> SUFFICES ASSUME Inv, WholeAverages, [Next]_vars PROVE Inv'
    OBVIOUS
  <2>1. LedgerInv'
    BY LedgerStays
  <2>2. CASE UNCHANGED vars
    <3>1. UNCHANGED <<position, realized, fill, trades, faults>>
      BY <2>2 DEF vars
    <3>2. Value' = Value /\ Spent' = Spent
      BY <3>1 DEF Value, Worth, Spent, Outlay
    <3>3. \A p \in Procs : EquityOK(p) => EquityOK(p)'
      BY <3>1, <3>2 DEF EquityOK, Proceeds
    <3> QED BY <2>1, <3>1, <3>3 DEF EquityInv
  <2>3. ASSUME NEW p \in Procs, Step(p) PROVE Inv'
    BY <2>1, <2>3, StepKeepsEquityInv
  <2> QED BY <2>2, <2>3 DEF Next, Finished
<1>3. Inv => AccountAgrees
  <2> SUFFICES ASSUME Inv, Resting PROVE BookMatchesLedger /\ EquityMatchesLedger
    BY DEF AccountAgrees, Resting
  <2>1. BookMatchesLedger
    BY RestingBook
  <2>2. PICK p \in Procs : TRUE
    BY DEF OneProcess
  <2>3. /\ fill[p] = NoFill /\ EquityOK(p) /\ Base
        /\ \A c \in Coins : position[c].entry \in Int
    BY RestingFills DEF EquityInv, Resting, LedgerInv, DeskInv
  <2>4. realized - Spent = Value
    <3>1. Proceeds(fill[p]) = 0
      BY <2>3 DEF Proceeds, NoFill
    <3> QED BY <2>3, <3>1, LedgerSums DEF EquityOK, Base
  <2>5. SumFunction(Outlay) = Spent
    BY <2>3, Outlays
  <2> QED BY <2>1, <2>4, <2>5, SumsAre DEF EquityMatchesLedger
<1> QED BY <1>1, <1>2, <1>3, PTL DEF Spec
=============================================================================
