---------------------------- MODULE LiveDesk_proofs ----------------------------
(***************************************************************************)
(* What LiveDesk's runs check of one position, proved for any levels,      *)
(* budgets and numbers of faults, moves and calls.                         *)
(***************************************************************************)
EXTENDS LiveDesk, Sums_proofs

(* Stages of a pass. *)
Stopping == {"place stop", "cancel stop", "book stop oid", "book stop"}
Targeting == {"place take", "cancel take", "book take oid", "book take"}
Ordering == {"claim", "release", "order scale", "book scale", "order close", "order add"}
SliceStages == {"slice stop", "slice take", "slice oids", "slice close", "slice cancel",
                "slice abort"}
Closing == {"order resolve", "book close"}
Stages == {"manage", "resolve", "log", "open slice", "cancel row", "sweep"}
            \cup Stopping \cup Targeting \cup Ordering \cup SliceStages \cup Closing
\* The row in hand is open.
Owning == {"open slice"} \cup Stopping \cup Targeting \cup Ordering \cup SliceStages \cup Closing
Purposes == {"none", "tighten", "add", "scale", "extend", "close", "resolve"}

-----------------------------------------------------------------------------
(* Types. *)

Triggers == [oid : Nat \ {0}, kind : {"stop", "take"}, level : Int, size : Nat]
RowsType == [entry : Int, sl : Int, initial_sl : Int, tp : Int, size : Nat,
             status : {"open", "resolved", "aborted"}, sl_oid : Nat, tp_oid : Nat,
             scaled_out : BOOLEAN]
Logs == [applied : Nat, evaluated : BOOLEAN, adds : SUBSET Nat]
\* What the book held is a sum, and no property is about it.
Passes == [at : Stages, phase : {"manage", "resolve"}, todo : SUBSET Nat, row : Nat,
           mark : Int, book : SUBSET Nat, held : {pass.held}, level : Int, size : Int,
           oid : Nat, oid2 : Nat, for : Purposes, flat : BOOLEAN]

BookTypeOK == mark \in Nat /\ pos \in Nat /\ oids \in Nat /\ triggers \in SUBSET Triggers
RowsTypeOK == rows \in Seq(RowsType) /\ log \in Seq(Logs) /\ Len(log) = Len(rows)
Orders == [row : Nat, rows : Nat]
CountsOK == faults \in Nat /\ sent \in Seq(Orders)
PassOK == pass = Idle \/ pass \in Passes

TypeInv == BookTypeOK /\ RowsTypeOK /\ CountsOK /\ PassOK

LEMMA Constants ==
    /\ {Entry, InitialStop, Target, Size} \subseteq Nat \ {0} /\ Marks \subseteq Nat
    /\ StopLevels \subseteq Nat /\ TargetLevels \subseteq Nat /\ ReduceShares \subseteq Nat
    /\ Room \in Nat /\ MaxAdds \in Nat
BY DeskAssumption, NativeAssumption DEF DeskAssumption, NativeAssumption

LEMMA RowsFacts ==
    ASSUME TypeInv
    PROVE  /\ DOMAIN rows = 1..Len(rows) /\ DOMAIN log = 1..Len(rows) /\ Len(rows) \in Nat
           /\ \A r \in DOMAIN rows : rows[r] \in RowsType /\ log[r] \in Logs
           /\ OpenRows \subseteq DOMAIN rows
BY DEF TypeInv, RowsTypeOK, OpenRows

LEMMA InPass ==
    ASSUME TypeInv, ~At("idle")
    PROVE  pass \in Passes
BY DEF TypeInv, PassOK, Idle, At

LEMMA AtMost ==
    ASSUME NEW a \in Nat, NEW b \in Nat, NEW c \in Nat, a <= b, b <= c
    PROVE  a <= c
OBVIOUS

LEMMA Zero == 0 \in Int
OBVIOUS

LEMMA SetAt ==
    ASSUME NEW S, NEW s \in Seq(S), NEW i \in DOMAIN s, NEW e \in S
    PROVE  /\ [s EXCEPT ![i] = e] \in Seq(S)
           /\ Len([s EXCEPT ![i] = e]) = Len(s)
           /\ DOMAIN [s EXCEPT ![i] = e] = DOMAIN s
           /\ [s EXCEPT ![i] = e][i] = e
           /\ \A j \in DOMAIN s : j # i => [s EXCEPT ![i] = e][j] = s[j]
OBVIOUS

LEMMA Appended ==
    ASSUME NEW S, NEW s \in Seq(S), NEW e \in S
    PROVE  /\ Append(s, e) \in Seq(S) /\ Len(Append(s, e)) = Len(s) + 1
           /\ DOMAIN s = 1..Len(s) /\ DOMAIN Append(s, e) = 1..(Len(s) + 1)
           /\ Append(s, e)[Len(s) + 1] = e
           /\ \A i \in 1..Len(s) : Append(s, e)[i] = s[i]
OBVIOUS

(* The moves of a pass, field by field. *)

Kept == pass'.phase = pass.phase /\ pass'.mark = pass.mark /\ pass'.book = pass.book
InHandKept ==
    /\ Kept /\ pass'.row = pass.row /\ pass'.level = pass.level /\ pass'.for = pass.for
    /\ pass'.flat = pass.flat
OidsKept == pass'.oid = pass.oid /\ pass'.oid2 = pass.oid2

LEMMA Goes ==
    ASSUME pass \in Passes, NEW step \in Stages, Go(step)
    PROVE  /\ pass' \in Passes' /\ pass'.at = step /\ pass'.todo = pass.todo
           /\ InHandKept /\ OidsKept /\ pass'.size = pass.size
BY DEF Passes, Go, InHandKept, OidsKept, Kept

LEMMA GoesOn ==
    ASSUME pass \in Passes, NextRow
    PROVE  /\ pass' \in Passes' /\ pass'.at = pass.phase /\ pass'.todo = pass.todo
           /\ InHandKept /\ OidsKept /\ pass'.size = pass.size
           /\ pass'.at \in {"manage", "resolve"}
<1>1. pass.phase \in {"manage", "resolve"} /\ pass.phase \in Stages
  BY DEF Passes, Stages
<1> QED BY <1>1, Goes DEF NextRow

LEMMA Skips ==
    ASSUME pass \in Passes, NEW r, Skip(r)
    PROVE  /\ pass' \in Passes' /\ pass'.at = pass.at /\ pass'.todo = pass.todo \ {r}
           /\ InHandKept /\ OidsKept /\ pass'.size = pass.size
BY DEF Passes, Skip, InHandKept, OidsKept, Kept

LEMMA DoesIt ==
    ASSUME pass \in Passes, NEW r \in Nat, NEW step \in Stages, NEW level \in Int,
           NEW size \in Int, NEW for \in Purposes, Does(r, step, level, size, for)
    PROVE  /\ pass' \in Passes' /\ pass'.at = step /\ pass'.row = r
           /\ pass'.todo = pass.todo \ {r} /\ pass'.level = level /\ pass'.size = size
           /\ pass'.for = for /\ Kept /\ OidsKept
BY DEF Passes, Does, OidsKept, Kept

-----------------------------------------------------------------------------
(* The row in hand, and what the pass has it in hand for. *)

RowOwned ==
    /\ ~At("idle") => pass.todo \subseteq OpenRows
    /\ pass.at \in Owning => pass.row \in OpenRows \ pass.todo
    /\ pass.at \in SliceStages => Slice \in OpenRows \ pass.todo /\ pass.row < Slice
    /\ pass.at \in {"cancel row", "sweep"} => pass.row \in DOMAIN rows \ OpenRows
    /\ At("sweep") => OpenRows = {}
    /\ At("log") => pass.row \in DOMAIN rows
Purposeful ==
    /\ pass.at \in Stopping => pass.for \in {"tighten", "add"}
    /\ pass.at \in Targeting => pass.for = "extend"
    /\ pass.at \in {"claim", "release"} => pass.for \in {"close", "scale", "add"}
    /\ pass.at \in {"order scale", "book scale"} => pass.for = "scale"
    /\ pass.at \in {"claim", "order scale", "book scale"} /\ pass.for = "scale" =>
           pass.size \in Nat /\ pass.size <= Row.size
    /\ At("order close") => pass.for = "close"
    /\ At("order resolve") => pass.for = "resolve"
    /\ pass.at \in {"order resolve", "resolve"} => pass.phase = "resolve"
    /\ At("manage") => pass.phase = "manage"
    /\ pass.at \in {"order add", "open slice"} \cup SliceStages => pass.for = "add"
    /\ pass.at \in {"book close", "cancel row", "sweep"} => pass.for \in {"close", "resolve"}
    /\ pass.at \in Stopping \cup Ordering \cup {"open slice"} /\ pass.for = "add" =>
           pass.size \in Nat \ {0}
    /\ pass.at \in SliceStages => pass.size \in Nat
    /\ At("log") /\ pass.for = "add" => pass.row < Slice

ControlInv == RowOwned /\ Purposeful

-----------------------------------------------------------------------------
(* NoAmbush *)

Pristine ==
    /\ rows = <<>> /\ At("idle") /\ pos = Size
    /\ \E t \in triggers : triggers = {t} /\ t.kind = "stop" /\ t.size = Size
AmbushInv ==
    OpenRows = {} /\ "unswept" \notin past =>
        triggers = {} \/ pass.at \in {"cancel row", "sweep"} \/ Pristine

-----------------------------------------------------------------------------
(* LedgerNeverTighter *)

Calm == past \cap {"stopped", "cut-off add"} = {}

OidsUnique == \A t, u \in triggers : t.oid = u.oid => t = u
OidsGiven ==
    /\ \A t \in triggers : t.oid <= oids
    /\ \A r \in DOMAIN rows : rows[r].sl_oid <= oids /\ rows[r].tp_oid <= oids
    /\ ~At("idle") => pass.oid <= oids /\ pass.oid2 <= oids
NoStop(oid) == \A t \in Stops : t.oid # oid
TargetsNoStops ==
    /\ \A r \in DOMAIN rows : NoStop(rows[r].tp_oid)
    /\ pass.at \in {"cancel take", "book take oid"} => NoStop(pass.oid)
    /\ At("slice oids") => NoStop(pass.oid2)
StopsRecorded ==
    Calm => \A r \in OpenRows : ~Underway(r) => rows[r].sl_oid # NoOid
Active == OpenRows \cup (IF At("cancel row") THEN {pass.row} ELSE {})
Foreign(oid, r) == \A q \in Active \ {r} : oid # rows[q].sl_oid /\ oid # rows[q].tp_oid
Replacing == {"cancel stop", "book stop oid"}
SliceHeld == {"slice take", "slice oids", "slice close", "slice cancel"}
InHand(oid, r) ==
    /\ pass.at \in Replacing /\ r # pass.row => oid # pass.oid
    /\ pass.at \in SliceHeld => oid # pass.oid
Large(t, size) == t.size >= size \/ "unswept" \in past
Guards(t, r) ==
    /\ t.level >= rows[r].sl /\ Large(t, rows[r].size)
    /\ Foreign(t.oid, r) /\ InHand(t.oid, r)
Guarded(r) == \E t \in Stops : Guards(t, r)
Placed(t) ==
    /\ t.oid = pass.oid /\ t.level = pass.level
    /\ Large(t, Row.size) /\ Foreign(t.oid, pass.row)
StopPlaced ==
    /\ pass.at \in Stopping => pass.level > Row.sl
    /\ Calm /\ pass.at \in Stopping \ {"place stop"} =>
        /\ pass.oid # NoOid
        /\ At("cancel stop") => pass.oid # Row.sl_oid
        /\ \E t \in Stops : Placed(t)
Covers(t) ==
    /\ t.oid = pass.oid /\ t.level = pass.level /\ t.size = pass.size
    /\ Foreign(t.oid, Slice)
SlicePlaced ==
    /\ pass.at \in SliceStages => rows[Slice].sl = pass.level /\ rows[Slice].size = pass.size
    /\ Calm /\ pass.at \in {"slice take", "slice oids"} =>
        /\ pass.oid # NoOid
        /\ \E t \in Stops : Covers(t)
AllGuarded == Calm => \A r \in OpenRows : ~Underway(r) => Guarded(r)

LedgerInv == OidsUnique /\ OidsGiven /\ TargetsNoStops /\ StopsRecorded
             /\ StopPlaced /\ SlicePlaced /\ AllGuarded

-----------------------------------------------------------------------------
(* AddsBounded *)

Adding ==
    /\ pass.at \in {"open slice", "log"} \cup Stopping \cup Ordering \cup SliceStages
    /\ pass.for = "add"
Unlogged ==
    pass.at \in {"open slice", "slice stop", "slice take", "slice oids", "log"} /\ pass.for = "add"
Claimed(r) == pass.at \in {"order add", "release"} /\ pass.for = "add" /\ pass.row = r
AddsFrom(r) == {c \in Adds : c >= r}
AddsOfBook == {c \in Adds : \E o \in pass.book : o <= c}
Ordinals(r) == {n \in 0..(MaxAdds - 1) : <<"add", r, n>> \in keys}

AddsLogged ==
    /\ \A o \in DOMAIN log : log[o].adds \subseteq (o + 1)..Len(rows)
    /\ pass.at \in SliceStages \/ (At("log") /\ pass.for = "add") => Slice \notin Adds
SentEarlier == \A i \in DOMAIN sent : sent[i].rows \in 1..Len(rows) /\ sent[i].row <= sent[i].rows
BookIsOldest ==
    ~At("idle") =>
        /\ \A r \in OpenRows : \E o \in pass.book : o <= r
        /\ pass.phase = "manage" => pass.todo \subseteq pass.book
        /\ Adding => pass.row \in pass.book
WithinBudget ==
    /\ \A r \in OpenRows : Cardinality(AddsFrom(r)) <= MaxAdds
    /\ Adding => Cardinality(AddsOfBook) < MaxAdds
KeysPaid ==
    /\ \A r \in Nat : Claimed(r) => Key \in keys
    /\ \A r \in DOMAIN rows :
           Cardinality(SentBy(r)) + (IF Claimed(r) THEN 1 ELSE 0) <= Cardinality(Ordinals(r))
AddsPaid ==
    \A r \in DOMAIN rows :
        Cardinality(SentSince(r))
            <= Cardinality(AddsFrom(r)) + faults + (IF Unlogged THEN 1 ELSE 0)
AddsInv == AddsLogged /\ SentEarlier /\ BookIsOldest /\ WithinBudget /\ KeysPaid /\ AddsPaid
-----------------------------------------------------------------------------
(* Types are kept. *)

LEMMA Stays ==
    ASSUME TypeInv, UNCHANGED bookVars
    PROVE  BookTypeOK'
BY DEF TypeInv, BookTypeOK, bookVars

LEMMA Places ==
    ASSUME TypeInv, NEW kind \in {"stop", "take"}, NEW level \in Int, NEW size \in Nat,
           PlaceTrigger(kind, level, size)
    PROVE  BookTypeOK'
BY DEF TypeInv, BookTypeOK, PlaceTrigger, Triggers

LEMMA Cancels ==
    ASSUME TypeInv, NEW gone, CancelOids(gone)
    PROVE  BookTypeOK'
BY DEF TypeInv, BookTypeOK, CancelOids

LEMMA SmallerOf ==
    ASSUME NEW a \in Int, NEW b \in Int
    PROVE  /\ Smaller(a, b) \in Int /\ Smaller(a, b) <= a /\ Smaller(a, b) <= b
           /\ Smaller(a, b) = a \/ Smaller(a, b) = b
BY DEF Smaller

LEMMA Closes ==
    ASSUME TypeInv, NEW size \in Int, NEW left \in Nat, left <= Smaller(size, pos),
           MarketClose(size, left)
    PROVE  /\ BookTypeOK' /\ Closed(size, left) \in Nat /\ pos' = pos - Closed(size, left)
           /\ triggers' = triggers /\ oids' = oids
<1>1. pos \in Nat /\ Smaller(size, pos) \in Int /\ Smaller(size, pos) <= pos
  BY SmallerOf DEF TypeInv, BookTypeOK
<1> QED BY <1>1 DEF TypeInv, BookTypeOK, MarketClose, Closed

LEMMA ClosesUnseenEffect ==
    ASSUME TypeInv, ~At("idle"), ClosesUnseen
    PROVE  /\ BookTypeOK' /\ triggers' = triggers /\ oids' = oids
           /\ faults' \in {faults, faults + 1} /\ past' \in {past, past \cup {"short close"}}
<1>1. pass.size \in Int /\ pos \in Nat
  BY InPass DEF Passes, TypeInv, BookTypeOK
<1>2. Smaller(pass.size, pos) \in Int
  BY <1>1 DEF Smaller
<1>3. PICK left \in 0..Smaller(pass.size, pos) :
        /\ MarketClose(pass.size, left)
        /\ IF left = 0 THEN Sound /\ UNCHANGED past
           ELSE Faulty /\ past' = past \cup {"short close"}
  BY DEF ClosesUnseen
<1>4. left \in Nat /\ left <= Smaller(pass.size, pos)
  <2>1. left \in 0..Smaller(pass.size, pos)
    BY <1>3
  <2> QED BY <1>2, <2>1
<1>5. BookTypeOK' /\ triggers' = triggers /\ oids' = oids
  BY <1>1, <1>3, <1>4, Closes
<1> QED BY <1>3, <1>5 DEF Sound, Faulty

LEMMA FiresEffect ==
    ASSUME TypeInv, NEW t \in triggers, Fires(t)
    PROVE  BookTypeOK'
<1>1. t.size \in Nat /\ pos \in Nat
  BY DEF TypeInv, BookTypeOK, Triggers
<1>2. Smaller(t.size, pos) \in Int /\ Smaller(t.size, pos) <= pos
  BY <1>1 DEF Smaller
<1> QED BY <1>1, <1>2 DEF TypeInv, BookTypeOK, Fires

\* Steps the exchange has no part in.
Offline ==
    \/ StartPass \/ PassOver \/ Holds \/ Judge
    \/ BookStopOid \/ BookStop \/ BookTakeOid \/ BookTake
    \/ LogAction \/ Claim \/ Release \/ BookScale \/ OpenSlice \/ SliceAbort \/ SliceOids
    \/ StartResolve \/ Resolve \/ BookClose \/ EndPass
    \/ Dies \/ IntervalPasses \/ Reconcile \/ Clears

LEMMA OfflineStays ==
    ASSUME Offline
    PROVE  UNCHANGED bookVars
BY DEF Offline, StartPass, PassOver, Holds, Judge, BookStopOid, BookStop, BookTakeOid, BookTake,
       LogAction, Claim, Release, BookScale, OpenSlice, SliceAbort, SliceOids,
       StartResolve, Resolve, BookClose, EndPass, Dies, IntervalPasses, Reconcile, Clears,
       Books, Book

LEMMA NextCases ==
    ASSUME Next
    PROVE  \/ Offline
           \/ PlaceStop \/ PlaceTake \/ CancelStop \/ CancelTake
           \/ OrderScale \/ OrderClose \/ OrderAdd \/ OrderResolve
           \/ SliceStop \/ SliceTake \/ SliceClose \/ SliceCancel
           \/ CancelRow \/ Sweep
           \/ TriggerFires \/ Moves
BY DEF Next, Step, Offline

LEMMA OpenTyped ==
    ASSUME TypeInv, ControlInv
    PROVE  /\ pass.at \in Owning =>
                 /\ pass \in Passes /\ pass.row \in DOMAIN rows /\ Row \in RowsType
                 /\ pass.row \in OpenRows
           /\ pass.at \in SliceStages => Slice \in DOMAIN rows /\ rows[Slice] \in RowsType
<1>1. pass.at \in Owning => ~At("idle")
  BY DEF Owning, At, Stopping, Targeting, Ordering, SliceStages, Closing
<1> QED BY <1>1, InPass, RowsFacts DEF ControlInv, RowOwned, Row

LEMMA BookTypeNext ==
    ASSUME TypeInv, ControlInv, Next
    PROVE  BookTypeOK'
<1> USE DEF Owning, Stopping, Targeting, Ordering, SliceStages, Closing
<1>1. CASE Offline
  BY <1>1, OfflineStays, Stays
<1>2. CASE PlaceStop \/ PlaceTake
  <2>1. /\ pass.level \in Int /\ Row.size \in Nat
    BY <1>2, OpenTyped DEF PlaceStop, PlaceTake, PlaceNew, At, Passes, RowsType
  <2> QED BY <1>2, <2>1, Stays, Places DEF PlaceStop, PlaceTake, PlaceNew
<1>3. CASE CancelStop \/ CancelTake
  BY <1>3, Stays, Cancels DEF CancelStop, CancelTake, CancelOld
<1>4. CASE OrderScale \/ OrderClose
  <2>1. /\ pass.size \in Int /\ pos \in Nat
    BY <1>4, OpenTyped DEF OrderScale, OrderClose, At, Passes, TypeInv, BookTypeOK
  <2>2. Smaller(pass.size, pos) \in Int
    BY <2>1 DEF Smaller
  <2>3. ASSUME NEW left \in 0..(Smaller(pass.size, pos) - 1), MarketClose(pass.size, left)
        PROVE  BookTypeOK'
    <3>1. left \in Nat /\ left <= Smaller(pass.size, pos)
      BY <2>2
    <3> QED BY <2>1, <2>3, <3>1, Closes
  <2> QED BY <1>4, <2>3, Stays DEF OrderScale, OrderClose
<1>5. CASE OrderAdd
  <2>1. pass.size \in Int
    BY <1>5, OpenTyped DEF OrderAdd, At, Passes
  <2>2. ASSUME NEW left \in 0..(pass.size - 1), MarketOpen(pass.size - left)
        PROVE  BookTypeOK'
    BY <2>1, <2>2 DEF MarketOpen, TypeInv, BookTypeOK
  <2> QED BY <1>5, <2>2, Stays DEF OrderAdd
<1>6. CASE OrderResolve \/ SliceClose
  BY <1>6, ClosesUnseenEffect DEF OrderResolve, SliceClose, At
<1>7. CASE SliceStop \/ SliceTake
  <2>1. /\ pass.level \in Int /\ rows[Slice].tp \in Int
    BY <1>7, OpenTyped DEF SliceStop, SliceTake, At, Passes, RowsType
  <2>2. pass.size \in Nat
    BY <1>7 DEF SliceStop, SliceTake, At, ControlInv, Purposeful
  <2> QED BY <1>7, <2>1, <2>2, Stays, Places DEF SliceStop, SliceTake
<1>8. CASE SliceCancel \/ CancelRow \/ Sweep
  BY <1>8, Stays, Cancels DEF SliceCancel, CancelRow, Sweep
<1>9. CASE TriggerFires
  BY <1>9, FiresEffect DEF TriggerFires
<1>10. CASE Moves
  BY <1>10, Constants DEF Moves, MarkMoves, TypeInv, BookTypeOK
<1> QED BY <1>1, <1>2, <1>3, <1>4, <1>5, <1>6, <1>7, <1>8, <1>9, <1>10, NextCases

LEMMA NewRowTyped ==
    ASSUME NEW entry \in Int, NEW sl \in Int, NEW tp \in Int, NEW size \in Nat,
           NEW sl_oid \in Nat, NEW tp_oid \in Nat
    PROVE  NewRow(entry, sl, tp, size, sl_oid, tp_oid) \in RowsType
BY DEF NewRow, RowsType

LEMMA NoLogTyped == NoLog \in Logs
BY DEF NoLog, Logs

\* The row adoption opens.
Adopted(stop, take) == NewRow(Entry, stop.level, take.level, pos, stop.oid, take.oid)
Adopts == pos > 0 /\ OpenRows = {} /\ Stops # {}

LEMMA AdoptedTyped ==
    ASSUME TypeInv, NEW stop \in Farthest, NEW take \in Nearest(stop)
    PROVE  /\ stop \in Triggers /\ stop \in Stops /\ take.oid \in Nat /\ take.level \in Int
           /\ take \in Targets \/ take.oid = NoOid
           /\ Adopted(stop, take) \in RowsType
<1>1. stop \in Triggers /\ stop \in Stops /\ stop.level \in Int /\ stop.oid \in Nat
  BY DEF Farthest, Stops, TypeInv, BookTypeOK, Triggers
<1>2. take.oid \in Nat /\ take.level \in Int /\ (take \in Targets \/ take.oid = NoOid)
  <2>1. CASE Targets = {}
    BY <1>1, <2>1, Constants DEF Nearest, NoOid
  <2>2. CASE Targets # {}
    BY <2>2 DEF Nearest, Targets, TypeInv, BookTypeOK, Triggers
  <2> QED BY <2>1, <2>2
<1>3. pos \in Nat
  BY DEF TypeInv, BookTypeOK
<1>4. Entry \in Int
  BY Constants
<1>5. Adopted(stop, take) \in RowsType
  BY <1>1, <1>2, <1>3, <1>4, NewRowTyped DEF Adopted
<1> QED BY <1>1, <1>2, <1>5

LEMMA StartPassEffect ==
    ASSUME TypeInv, StartPass
    PROVE  /\ At("idle")
           /\ \/ /\ Adopts
                 /\ \E stop \in Farthest : \E take \in Nearest(stop) :
                        rows' = Append(rows, Adopted(stop, take))
                 /\ log' = Append(log, NoLog)
                 /\ pass' = Manage({Len(rows) + 1}, pos)
              \/ /\ ~Adopts /\ UNCHANGED <<rows, log>>
                 /\ \E held : pass' = Manage(OpenRows, held)
           /\ UNCHANGED <<bookVars, calls, keys, halted, faults, past, sent>>
<1>1. CASE Adopts
  BY <1>1 DEF StartPass, Adopts, Adopted
<1>2. CASE ~Adopts
  <2>1. pass' = Manage(OpenRows, MapThenSumSet(LAMBDA r : rows[r].size, OpenRows))
    BY <1>2 DEF StartPass, Adopts
  <2> QED BY <1>2, <2>1 DEF StartPass, Adopts
<1> QED BY <1>1, <1>2

\* Steps that leave the rows and the log alone.
RowsRest ==
    \/ PassOver \/ Judge \/ PlaceStop \/ PlaceTake \/ CancelStop \/ CancelTake
    \/ Claim \/ Release \/ OrderScale \/ OrderClose \/ OrderAdd \/ OrderResolve
    \/ SliceStop \/ SliceTake \/ SliceClose \/ SliceCancel
    \/ StartResolve \/ Resolve \/ CancelRow \/ Sweep \/ EndPass
    \/ Dies \/ Reconcile \/ Clears \/ TriggerFires \/ Moves

LEMMA RowsAtRest ==
    ASSUME RowsRest
    PROVE  UNCHANGED <<rows, log>>
<1>1. CASE PassOver \/ Judge \/ Claim \/ Release \/ StartResolve \/ Resolve \/ EndPass
           \/ Dies \/ Reconcile \/ Clears \/ TriggerFires \/ Moves
  BY <1>1 DEF PassOver, Judge, Claim, Release, StartResolve, Resolve, EndPass, Dies, Reconcile,
       Clears, TriggerFires, Moves, deskVars
<1>2. CASE PlaceStop \/ PlaceTake \/ CancelStop \/ CancelTake \/ OrderScale \/ OrderClose
           \/ OrderAdd \/ OrderResolve \/ SliceStop \/ SliceTake \/ SliceClose \/ SliceCancel
           \/ CancelRow \/ Sweep
  BY <1>2 DEF PlaceStop, PlaceTake, CancelStop, CancelTake, OrderScale, OrderClose,
       OrderAdd, OrderResolve, SliceStop, SliceTake, SliceClose, SliceCancel, CancelRow, Sweep,
       PlaceNew, CancelOld, Calls
<1> QED BY <1>1, <1>2 DEF RowsRest

Logging == Holds \/ LogAction \/ IntervalPasses
Rebooking ==
    BookStopOid \/ BookStop \/ BookTakeOid \/ BookTake \/ BookScale \/ BookClose
    \/ SliceAbort \/ SliceOids

LEMMA NextOnRows ==
    ASSUME Next
    PROVE  StartPass \/ OpenSlice \/ Logging \/ Rebooking \/ RowsRest
BY DEF Next, Step, Logging, Rebooking, RowsRest

\* The entries logged.
LEMMA LoggingEffect ==
    ASSUME TypeInv, ControlInv, Logging
    PROVE  /\ rows' = rows
           /\ \E r \in DOMAIN log : \E entry \in Logs :
                  /\ log' = [log EXCEPT ![r] = entry]
                  /\ \/ entry.adds = log[r].adds
                     \/ /\ LogAction /\ r = pass.row /\ pass.for = "add"
                        /\ entry.adds = log[r].adds \cup {Slice}
                  /\ LogAction /\ pass.for = "add" =>
                        r = pass.row /\ entry.adds = log[r].adds \cup {Slice}
<1>1. DOMAIN log = DOMAIN rows /\ \A r \in DOMAIN log : log[r] \in Logs
  BY RowsFacts
<1>2. Slice \in Nat
  BY RowsFacts DEF Slice
<1>a. ~(LogAction /\ (Holds \/ IntervalPasses))
  BY DEF LogAction, Holds, IntervalPasses, At
<1>3. CASE Holds
  <2>1. PICK r \in pass.todo : Log(r, Evaluated(r))
    BY <1>3 DEF Holds
  <2>2. r \in DOMAIN log
    BY <1>1, <1>3, <2>1, RowsFacts DEF Holds, At, ControlInv, RowOwned
  <2>3. Evaluated(r) \in Logs /\ Evaluated(r).adds = log[r].adds
    BY <1>1, <2>2 DEF Evaluated, Logs
  <2> QED BY <1>3, <1>a, <2>1, <2>2, <2>3 DEF Holds, Log
<1>4. CASE IntervalPasses
  <2>1. PICK r \in OpenRows : Log(r, [log[r] EXCEPT !.evaluated = FALSE])
    BY <1>4 DEF IntervalPasses
  <2>2. r \in DOMAIN log
    BY <1>1, RowsFacts
  <2>3. /\ [log[r] EXCEPT !.evaluated = FALSE] \in Logs
        /\ [log[r] EXCEPT !.evaluated = FALSE].adds = log[r].adds
    BY <1>1, <2>2 DEF Logs
  <2> QED BY <1>4, <1>a, <2>1, <2>2, <2>3 DEF IntervalPasses, Log
<1>5. CASE LogAction
  <2> DEFINE r == pass.row
             entry == [Applied(r) EXCEPT !.adds = IF pass.for = "add" THEN @ \cup {Slice} ELSE @]
  <2>1. r \in DOMAIN log
    BY <1>1, <1>5 DEF LogAction, At, ControlInv, RowOwned
  <2>2. Applied(r) \in Logs /\ Applied(r).adds = log[r].adds
    <3>1. Evaluated(r) \in Logs /\ Evaluated(r).adds = log[r].adds
      BY <1>1, <2>1 DEF Evaluated, Logs
    <3>2. Applied(r) = [Evaluated(r) EXCEPT !.applied = @ + 1]
      BY DEF Applied
    <3> QED BY <3>1, <3>2 DEF Logs
  <2>3. entry \in Logs /\ entry.adds = IF pass.for = "add" THEN log[r].adds \cup {Slice}
                                       ELSE log[r].adds
    BY <1>2, <2>2 DEF Logs
  <2>4. rows' = rows /\ log' = [log EXCEPT ![r] = entry]
    BY <1>5 DEF LogAction, Log
  <2>5. \/ entry.adds = log[r].adds
        \/ /\ LogAction /\ r = pass.row /\ pass.for = "add"
           /\ entry.adds = log[r].adds \cup {Slice}
    BY <1>5, <2>3
  <2>6. LogAction /\ pass.for = "add" => r = pass.row /\ entry.adds = log[r].adds \cup {Slice}
    BY <2>3
  <2> HIDE DEF r, entry
  <2> QED BY <2>1, <2>3, <2>4, <2>5, <2>6
<1> QED BY <1>3, <1>4, <1>5 DEF Logging

\* The row rebooked keeps what the step does not book.
LEMMA RebookingEffect ==
    ASSUME TypeInv, ControlInv, Rebooking
    PROVE  /\ log' = log
           /\ \E r \in DOMAIN rows : \E row \in RowsType : rows' = [rows EXCEPT ![r] = row]
<1> USE DEF Owning, Stopping, Targeting, Ordering, SliceStages, Closing
<1>1. CASE BookStopOid \/ BookTakeOid
  <2>1. pass \in Passes /\ pass.row \in DOMAIN rows /\ Row \in RowsType
    BY <1>1, OpenTyped DEF BookStopOid, BookTakeOid, Book, At
  <2>2. /\ [Row EXCEPT !.sl_oid = pass.oid] \in RowsType
        /\ [Row EXCEPT !.tp_oid = pass.oid] \in RowsType
    BY <2>1 DEF RowsType, Passes
  <2> QED BY <1>1, <2>1, <2>2 DEF BookStopOid, BookTakeOid, Book
<1>2. CASE BookStop \/ BookTake
  <2>1. pass \in Passes /\ pass.row \in DOMAIN rows /\ Row \in RowsType
    BY <1>2, OpenTyped DEF BookStop, BookTake, Book, At
  <2>2. /\ [Row EXCEPT !.sl = pass.level] \in RowsType
        /\ [Row EXCEPT !.tp = pass.level] \in RowsType
    BY <2>1 DEF RowsType, Passes
  <2> QED BY <1>2, <2>1, <2>2 DEF BookStop, BookTake, Book
<1>3. CASE BookClose
  <2>1. pass.row \in DOMAIN rows /\ Row \in RowsType
    BY <1>3, OpenTyped DEF BookClose, Book, At
  <2>2. [Row EXCEPT !.status = "resolved"] \in RowsType
    BY <2>1 DEF RowsType
  <2> QED BY <1>3, <2>1, <2>2 DEF BookClose, Book
<1>4. CASE BookScale
  <2>1. pass.row \in DOMAIN rows /\ Row \in RowsType
    BY <1>4, OpenTyped DEF BookScale, Book, At
  <2>2. Row.size \in Nat /\ pass.size \in Nat /\ pass.size <= Row.size
    BY <1>4, <2>1 DEF BookScale, Book, At, ControlInv, Purposeful, RowsType
  <2>3. [Row EXCEPT !.size = @ - pass.size, !.scaled_out = TRUE] \in RowsType
    <3>1. Row.size - pass.size \in Nat
      BY <2>2
    <3> QED BY <2>1, <3>1 DEF RowsType
  <2> QED BY <1>4, <2>1, <2>3 DEF BookScale, Book
<1>5. CASE SliceAbort
  <2>1. Slice \in DOMAIN rows /\ rows[Slice] \in RowsType
    BY <1>5, OpenTyped DEF SliceAbort, At
  <2>2. [rows[Slice] EXCEPT !.status = "aborted"] \in RowsType
    BY <2>1 DEF RowsType
  <2>3. rows' = [rows EXCEPT ![Slice] = [rows[Slice] EXCEPT !.status = "aborted"]]
    BY <1>5, <2>1 DEF SliceAbort
  <2> QED BY <1>5, <2>1, <2>2, <2>3 DEF SliceAbort
<1>6. CASE SliceOids
  <2>1. Slice \in DOMAIN rows /\ rows[Slice] \in RowsType /\ pass \in Passes
    BY <1>6, OpenTyped DEF SliceOids, At
  <2>2. [rows[Slice] EXCEPT !.sl_oid = pass.oid, !.tp_oid = pass.oid2] \in RowsType
    BY <2>1 DEF RowsType, Passes
  <2>3. rows' = [rows EXCEPT ![Slice] = [rows[Slice] EXCEPT !.sl_oid = pass.oid, !.tp_oid = pass.oid2]]
    BY <1>6, <2>1 DEF SliceOids, RowsType
  <2> QED BY <1>6, <2>1, <2>2, <2>3 DEF SliceOids
<1> QED BY <1>1, <1>2, <1>3, <1>4, <1>5, <1>6 DEF Rebooking

LEMMA RowsTypeNext ==
    ASSUME TypeInv, ControlInv, Next
    PROVE  RowsTypeOK'
<1>a. /\ rows \in Seq(RowsType) /\ log \in Seq(Logs) /\ Len(log) = Len(rows)
      /\ pass.at \in SliceStages => Slice \in DOMAIN rows
  BY OpenTyped DEF TypeInv, RowsTypeOK
<1>1. CASE StartPass
  <2>1. CASE Adopts
    <3>0. PICK stop \in Farthest : \E take \in Nearest(stop) :
              rows' = Append(rows, Adopted(stop, take))
      BY <1>1, <2>1, StartPassEffect
    <3>1. PICK take \in Nearest(stop) : rows' = Append(rows, Adopted(stop, take))
      BY <3>0
    <3>2. Adopted(stop, take) \in RowsType
      BY AdoptedTyped
    <3>3. log' = Append(log, NoLog) /\ NoLog \in Logs
      BY <1>1, <2>1, StartPassEffect, NoLogTyped
    <3> QED BY <1>a, <3>1, <3>2, <3>3, Appended DEF RowsTypeOK
  <2> QED BY <1>1, <1>a, <2>1, StartPassEffect DEF RowsTypeOK
<1>2. CASE OpenSlice
  <2>1. pass \in Passes /\ Row \in RowsType /\ pass.size \in Nat
    BY <1>2, OpenTyped DEF OpenSlice, At, Owning, ControlInv, Purposeful
  <2>2. NewRow(pass.mark, pass.level, Row.tp, pass.size, NoOid, NoOid) \in RowsType
    BY <2>1, NewRowTyped DEF Passes, RowsType, NoOid
  <2>3. /\ rows' = Append(rows, NewRow(pass.mark, pass.level, Row.tp, pass.size, NoOid, NoOid))
        /\ log' = Append(log, NoLog) /\ NoLog \in Logs
    BY <1>2, NoLogTyped DEF OpenSlice
  <2> QED BY <1>a, <2>2, <2>3, Appended DEF RowsTypeOK
<1>3. CASE Logging
  BY <1>3, <1>a, LoggingEffect, SetAt DEF RowsTypeOK
<1>4. CASE Rebooking
  BY <1>4, <1>a, RebookingEffect, SetAt DEF RowsTypeOK
<1>5. CASE RowsRest
  BY <1>5, <1>a, RowsAtRest DEF RowsTypeOK
<1> QED BY <1>1, <1>2, <1>3, <1>4, <1>5, NextOnRows

LEMMA CountsNext ==
    ASSUME TypeInv, ControlInv, Next
    PROVE  CountsOK' /\ faults' \in {faults, faults + 1}
<1>1. faults' \in {faults, faults + 1}
  <2>1. CASE SliceClose \/ OrderResolve
    BY <2>1, ClosesUnseenEffect DEF SliceClose, OrderResolve, At
  <2>2. CASE Offline
    BY <2>2 DEF Offline, StartPass, PassOver, Holds, Judge, BookStopOid, BookStop, BookTakeOid,
         BookTake, LogAction, Claim, Release, BookScale, OpenSlice, SliceAbort, SliceOids,
         StartResolve, Resolve, BookClose, EndPass, Dies, IntervalPasses, Reconcile, Clears,
         Books, Book, Faulty
  <2>3. CASE PlaceStop \/ PlaceTake \/ CancelStop \/ CancelTake \/ SliceStop \/ SliceTake
             \/ SliceCancel \/ CancelRow \/ Sweep \/ TriggerFires \/ Moves
    BY <2>3 DEF PlaceStop, PlaceTake, CancelStop, CancelTake, SliceStop, SliceTake,
         SliceCancel, CancelRow, Sweep, TriggerFires, Moves, PlaceNew, CancelOld, Faulty, Sound,
         deskVars
  <2>4. CASE OrderScale \/ OrderClose \/ OrderAdd
    BY <2>4 DEF OrderScale, OrderClose, OrderAdd, Refused, Filled, Faulty, Sound
  <2> QED BY <2>1, <2>2, <2>3, <2>4, NextCases
<1>2. sent' \in Seq(Orders)
  <2>1. CASE OrderAdd
    <3>1. [row |-> pass.row, rows |-> Len(rows)] \in Orders
      BY <2>1, OpenTyped, RowsFacts DEF OrderAdd, At, Owning, Ordering, Passes, Orders
    <3>2. sent \in Seq(Orders)
      BY DEF TypeInv, CountsOK
    <3>3. sent' \in {sent, Append(sent, [row |-> pass.row, rows |-> Len(rows)])}
      BY <2>1 DEF OrderAdd
    <3>4. Append(sent, [row |-> pass.row, rows |-> Len(rows)]) \in Seq(Orders)
      BY <3>1, <3>2, Appended
    <3> QED BY <3>2, <3>3, <3>4
  <2>2. CASE Offline
    BY <2>2 DEF Offline, StartPass, PassOver, Holds, Judge, BookStopOid, BookStop, BookTakeOid,
         BookTake, LogAction, Claim, Release, BookScale, OpenSlice, SliceAbort, SliceOids,
         StartResolve, Resolve, BookClose, EndPass, Dies, IntervalPasses, Reconcile, Clears,
         Books, Book, TypeInv, CountsOK
  <2>3. CASE PlaceStop \/ PlaceTake \/ CancelStop \/ CancelTake \/ SliceStop \/ SliceTake
             \/ SliceCancel \/ CancelRow \/ Sweep \/ TriggerFires \/ Moves
    BY <2>3 DEF PlaceStop, PlaceTake, CancelStop, CancelTake, SliceStop, SliceTake,
         SliceCancel, CancelRow, Sweep, TriggerFires, Moves, PlaceNew, CancelOld, Calls,
         deskVars, TypeInv, CountsOK
  <2>4. CASE OrderScale \/ OrderClose \/ OrderResolve \/ SliceClose
    BY <2>4 DEF OrderScale, OrderClose, OrderResolve, SliceClose, Calls, TypeInv, CountsOK
  <2> QED BY <2>1, <2>2, <2>3, <2>4, NextCases
<1> QED BY <1>1, <1>2 DEF CountsOK, TypeInv

LEMMA Managed ==
    ASSUME TypeInv, NEW book \in SUBSET Nat, NEW held, pass' = Manage(book, held)
    PROVE  /\ pass' \in Passes' /\ pass'.at = "manage" /\ pass'.todo = book
           /\ pass'.book = book /\ pass'.phase = "manage" /\ pass'.for = "none"
           /\ pass'.oid = NoOid /\ pass'.oid2 = NoOid
<1>1. mark \in Int
  BY DEF TypeInv, BookTypeOK
<1> QED BY <1>1 DEF Manage, Passes, Stages, Purposes, NoOid

\* What a pass begins with.
LEMMA Begins ==
    ASSUME TypeInv, StartPass
    PROVE  \E book \in SUBSET Nat : \E held :
               /\ pass' = Manage(book, held) /\ book = OpenRows'
               /\ OpenRows \subseteq book /\ book \subseteq DOMAIN rows'
               /\ (Adopts => book = {Len(rows) + 1})
<1>a. DOMAIN rows \subseteq Nat /\ OpenRows \subseteq DOMAIN rows /\ Len(rows) \in Nat
  BY RowsFacts
<1>1. CASE Adopts
  <2>0. PICK stop \in Farthest : \E take \in Nearest(stop) :
            rows' = Append(rows, Adopted(stop, take))
    BY <1>1, StartPassEffect
  <2>1. PICK take \in Nearest(stop) : rows' = Append(rows, Adopted(stop, take))
    BY <2>0
  <2>2. Adopted(stop, take) \in RowsType /\ rows \in Seq(RowsType)
    BY AdoptedTyped DEF TypeInv, RowsTypeOK
  <2>3. /\ DOMAIN rows' = 1..(Len(rows) + 1) /\ rows'[Len(rows) + 1] = Adopted(stop, take)
        /\ \A i \in 1..Len(rows) : rows'[i] = rows[i]
        /\ DOMAIN rows = 1..Len(rows)
    BY <2>1, <2>2, Appended
  <2>4. OpenRows = {}
    BY <1>1 DEF Adopts
  <2>5. Adopted(stop, take).status = "open"
    BY DEF Adopted, NewRow
  <2>6. OpenRows' = {Len(rows) + 1}
    BY <1>a, <2>3, <2>4, <2>5 DEF OpenRows, Open
  <2> QED BY <1>1, <1>a, <2>3, <2>4, <2>6, StartPassEffect
<1>2. CASE ~Adopts
  BY <1>2, <1>a, StartPassEffect DEF OpenRows, Open
<1> QED BY <1>1, <1>2

LEMMA Levels ==
    StopLevels \subseteq Int /\ TargetLevels \subseteq Int /\ ReduceShares \subseteq Nat
BY Constants

\* A verdict that is acted on: its row and what the pass does with it.
Acted(r, level, size) ==
    \/ Does(r, "claim", level, size, "close")
    \/ Does(r, "place stop", level, size, "tighten") /\ level > rows[r].sl
    \/ /\ Does(r, "place stop", level, size, "add") /\ level > rows[r].sl
       /\ size \in Nat \ {0} /\ CoinAdds(r) < MaxAdds
    \/ Does(r, "claim", level, size, "scale") /\ size \in Nat /\ size <= rows[r].size
    \/ Does(r, "place take", level, size, "extend")

LEMMA JudgeEffect ==
    ASSUME TypeInv, ControlInv, Judge
    PROVE  /\ At("manage") /\ UNCHANGED <<bookVars, rows, log, keys, faults, past, sent>>
           /\ \E r \in pass.todo, level \in Int, size \in Int :
                  /\ r \in OpenRows /\ r \in Nat /\ rows[r] \in RowsType
                  /\ Acted(r, level, size)
<1>1. PICK r \in pass.todo :
         \/ Does(r, "claim", pass.mark, rows[r].size, "close")
         \/ \E level \in StopLevels :
               \/ Tightens(r, level) /\ Does(r, "place stop", level, 0, "tighten")
               \/ /\ MayAdd(r, level)
                  /\ \E size \in 1..Room : Does(r, "place stop", level, size, "add")
         \/ \E size \in ReduceShares :
               size < rows[r].size /\ Does(r, "claim", 0, size, "scale")
         \/ \E level \in TargetLevels : Does(r, "place take", level, 0, "extend")
  BY DEF Judge
<1>4. At("manage") /\ UNCHANGED <<bookVars, rows, log, keys, faults, past, sent>>
  BY DEF Judge, Books
<1>0. ~At("idle")
  BY <1>4 DEF At
<1>2. r \in OpenRows /\ r \in DOMAIN rows /\ r \in Nat /\ rows[r] \in RowsType
  <2>1. r \in OpenRows
    BY <1>0 DEF ControlInv, RowOwned
  <2>2. r \in DOMAIN rows
    BY <2>1, RowsFacts
  <2> QED BY <2>1, <2>2, RowsFacts
<1>3. pass.mark \in Int /\ rows[r].size \in Int /\ rows[r].sl \in Int
  <2>1. pass \in Passes
    BY <1>0, InPass
  <2> QED BY <1>2, <2>1 DEF Passes, RowsType
<1> SUFFICES \E level \in Int, size \in Int : Acted(r, level, size)
  BY <1>2, <1>4
<1>5. CASE Does(r, "claim", pass.mark, rows[r].size, "close")
  BY <1>3, <1>5 DEF Acted
<1>6. ASSUME NEW level \in StopLevels, Tightens(r, level), Does(r, "place stop", level, 0, "tighten")
      PROVE  level \in Int /\ 0 \in Int /\ Acted(r, level, 0)
  <2>1. level \in Int /\ 0 \in Int
    BY Levels
  <2>2. level > rows[r].sl
    BY <1>6 DEF Tightens
  <2>3. Acted(r, level, 0)
    BY <1>6, <2>2, Zenon DEF Acted
  <2> QED BY <2>1, <2>3
<1>7. ASSUME NEW level \in StopLevels, MayAdd(r, level), NEW size \in 1..Room,
             Does(r, "place stop", level, size, "add")
      PROVE  level \in Int /\ size \in Int /\ Acted(r, level, size)
  <2>1. level \in Int /\ size \in Int /\ size \in Nat \ {0}
    BY Levels
  <2>2. level > rows[r].sl /\ CoinAdds(r) < MaxAdds
    BY <1>7 DEF MayAdd
  <2>3. Acted(r, level, size)
    BY <1>7, <2>1, <2>2, Zenon DEF Acted
  <2> QED BY <2>1, <2>3
<1>8. ASSUME NEW size \in ReduceShares, size < rows[r].size, Does(r, "claim", 0, size, "scale")
      PROVE  0 \in Int /\ size \in Int /\ Acted(r, 0, size)
  <2>1. size \in Nat /\ size <= rows[r].size
    BY <1>3, <1>8, Levels
  <2>2. Acted(r, 0, size)
    BY <1>8, <2>1, Zenon DEF Acted
  <2> QED BY <2>1, <2>2
<1>9. ASSUME NEW level \in TargetLevels, Does(r, "place take", level, 0, "extend")
      PROVE  level \in Int /\ 0 \in Int /\ Acted(r, level, 0)
  <2>1. level \in Int /\ 0 \in Int
    BY Levels
  <2>2. Acted(r, level, 0)
    BY <1>9, Zenon DEF Acted
  <2> QED BY <2>1, <2>2
<1> QED BY <1>1, <1>5, <1>6, <1>7, <1>8, <1>9

-----------------------------------------------------------------------------
(* What a step leaves in the rows, field by field. *)

LEMMA Rewritten ==
    ASSUME TypeInv, NEW r \in DOMAIN rows, NEW row \in RowsType,
           rows' = [rows EXCEPT ![r] = row]
    PROVE  /\ DOMAIN rows' = DOMAIN rows /\ Len(rows') = Len(rows) /\ Slice' = Slice
           /\ rows'[r] = row /\ \A q \in DOMAIN rows : q # r => rows'[q] = rows[q]
           /\ row.status = rows[r].status => OpenRows' = OpenRows
           /\ row.status # "open" => OpenRows' = OpenRows \ {r}
<1>1. rows \in Seq(RowsType)
  BY DEF TypeInv, RowsTypeOK
<1>2. /\ DOMAIN rows' = DOMAIN rows /\ Len(rows') = Len(rows)
      /\ rows'[r] = row /\ \A q \in DOMAIN rows : q # r => rows'[q] = rows[q]
  BY <1>1, SetAt
<1>3. Slice' = Slice
  BY <1>2 DEF Slice
<1> QED BY <1>2, <1>3 DEF OpenRows, Open

\* Only row r is written.
Others(r) ==
    /\ DOMAIN rows' = DOMAIN rows /\ Len(rows') = Len(rows) /\ Slice' = Slice
    /\ log' = log /\ \A q \in DOMAIN rows : q # r => rows'[q] = rows[q]
\* Its fields, as they are given.
RowIs(r, sl, size, tp, sl_oid, tp_oid) ==
    /\ rows'[r].sl = sl /\ rows'[r].size = size /\ rows'[r].tp = tp
    /\ rows'[r].sl_oid = sl_oid /\ rows'[r].tp_oid = tp_oid
\* The pass goes on to another step with the same row in hand.
GoneTo(step) ==
    /\ pass' \in Passes' /\ pass'.at = step /\ pass'.todo = pass.todo
    /\ InHandKept /\ OidsKept /\ pass'.size = pass.size
\* The pass is back where it takes the next row.
GoneOn ==
    /\ GoneTo(pass.phase) /\ pass'.at \in {"manage", "resolve"}

LEMMA BookStopOidEffect ==
    ASSUME TypeInv, ControlInv, BookStopOid
    PROVE  /\ Others(pass.row) /\ RowIs(pass.row, Row.sl, Row.size, Row.tp, pass.oid, Row.tp_oid)
           /\ OpenRows' = OpenRows /\ GoneTo("book stop")
           /\ pass \in Passes /\ pass.row \in OpenRows /\ pass.row \in DOMAIN rows
           /\ Row \in RowsType /\ UNCHANGED <<bookVars, keys, faults, past, sent>>
<1> USE DEF Owning, Stopping, Targeting, Ordering, SliceStages, Closing
<1>1. pass \in Passes /\ pass.row \in DOMAIN rows /\ Row \in RowsType /\ pass.row \in OpenRows
  BY OpenTyped DEF BookStopOid, Book, At
<1> DEFINE row == [Row EXCEPT !.sl_oid = pass.oid]
<1>2. row \in RowsType
  BY <1>1 DEF RowsType, Passes
<1>3. rows' = [rows EXCEPT ![pass.row] = row] /\ log' = log
  BY DEF BookStopOid, Book
<1>4. Others(pass.row) /\ rows'[pass.row] = row
  BY <1>1, <1>2, <1>3, Rewritten DEF Others
<1>5. /\ row.sl = Row.sl /\ row.size = Row.size /\ row.tp = Row.tp /\ row.sl_oid = pass.oid
      /\ row.tp_oid = Row.tp_oid
  BY <1>1 DEF RowsType
<1>6. OpenRows' = OpenRows
  <2>1. row.status = Row.status
    BY <1>1 DEF RowsType
  <2> HIDE DEF row
  <2> QED BY <1>1, <1>2, <1>3, <2>1, Rewritten DEF Row
<1>7. GoneTo("book stop")
  <2>1. "book stop" \in Stages /\ Go("book stop")
    BY DEF BookStopOid, Book, Stages
  <2> QED BY <1>1, <2>1, Goes DEF GoneTo
<1> QED BY <1>1, <1>4, <1>5, <1>6, <1>7 DEF BookStopOid, Book, Books, RowIs

LEMMA BookTakeOidEffect ==
    ASSUME TypeInv, ControlInv, BookTakeOid
    PROVE  /\ Others(pass.row) /\ RowIs(pass.row, Row.sl, Row.size, Row.tp, Row.sl_oid, pass.oid)
           /\ OpenRows' = OpenRows /\ GoneTo("book take")
           /\ pass \in Passes /\ pass.row \in OpenRows /\ pass.row \in DOMAIN rows
           /\ Row \in RowsType /\ UNCHANGED <<bookVars, keys, faults, past, sent>>
<1> USE DEF Owning, Stopping, Targeting, Ordering, SliceStages, Closing
<1>1. pass \in Passes /\ pass.row \in DOMAIN rows /\ Row \in RowsType /\ pass.row \in OpenRows
  BY OpenTyped DEF BookTakeOid, Book, At
<1> DEFINE row == [Row EXCEPT !.tp_oid = pass.oid]
<1>2. row \in RowsType
  BY <1>1 DEF RowsType, Passes
<1>3. rows' = [rows EXCEPT ![pass.row] = row] /\ log' = log
  BY DEF BookTakeOid, Book
<1>4. Others(pass.row) /\ rows'[pass.row] = row
  BY <1>1, <1>2, <1>3, Rewritten DEF Others
<1>5. /\ row.sl = Row.sl /\ row.size = Row.size /\ row.tp = Row.tp /\ row.sl_oid = Row.sl_oid
      /\ row.tp_oid = pass.oid
  BY <1>1 DEF RowsType
<1>6. OpenRows' = OpenRows
  <2>1. row.status = Row.status
    BY <1>1 DEF RowsType
  <2> HIDE DEF row
  <2> QED BY <1>1, <1>2, <1>3, <2>1, Rewritten DEF Row
<1>7. GoneTo("book take")
  <2>1. "book take" \in Stages /\ Go("book take")
    BY DEF BookTakeOid, Book, Stages
  <2> QED BY <1>1, <2>1, Goes DEF GoneTo
<1> QED BY <1>1, <1>4, <1>5, <1>6, <1>7 DEF BookTakeOid, Book, Books, RowIs

LEMMA BookStopEffect ==
    ASSUME TypeInv, ControlInv, BookStop
    PROVE  /\ Others(pass.row) /\ RowIs(pass.row, pass.level, Row.size, Row.tp, Row.sl_oid, Row.tp_oid)
           /\ OpenRows' = OpenRows /\ GoneTo((IF pass.for = "add" THEN "claim" ELSE "log"))
           /\ pass \in Passes /\ pass.row \in OpenRows /\ pass.row \in DOMAIN rows
           /\ Row \in RowsType /\ UNCHANGED <<bookVars, keys, faults, past, sent>>
<1> USE DEF Owning, Stopping, Targeting, Ordering, SliceStages, Closing
<1>1. pass \in Passes /\ pass.row \in DOMAIN rows /\ Row \in RowsType /\ pass.row \in OpenRows
  BY OpenTyped DEF BookStop, Book, At
<1> DEFINE row == [Row EXCEPT !.sl = pass.level]
<1>2. row \in RowsType
  BY <1>1 DEF RowsType, Passes
<1>3. rows' = [rows EXCEPT ![pass.row] = row] /\ log' = log
  BY DEF BookStop, Book
<1>4. Others(pass.row) /\ rows'[pass.row] = row
  BY <1>1, <1>2, <1>3, Rewritten DEF Others
<1>5. /\ row.sl = pass.level /\ row.size = Row.size /\ row.tp = Row.tp /\ row.sl_oid = Row.sl_oid
      /\ row.tp_oid = Row.tp_oid
  BY <1>1 DEF RowsType
<1>6. OpenRows' = OpenRows
  <2>1. row.status = Row.status
    BY <1>1 DEF RowsType
  <2> HIDE DEF row
  <2> QED BY <1>1, <1>2, <1>3, <2>1, Rewritten DEF Row
<1>7. GoneTo((IF pass.for = "add" THEN "claim" ELSE "log"))
  <2>1. (IF pass.for = "add" THEN "claim" ELSE "log") \in Stages /\ Go((IF pass.for = "add" THEN "claim" ELSE "log"))
    BY DEF BookStop, Book, Stages
  <2> QED BY <1>1, <2>1, Goes DEF GoneTo
<1> QED BY <1>1, <1>4, <1>5, <1>6, <1>7 DEF BookStop, Book, Books, RowIs

LEMMA BookTakeEffect ==
    ASSUME TypeInv, ControlInv, BookTake
    PROVE  /\ Others(pass.row) /\ RowIs(pass.row, Row.sl, Row.size, pass.level, Row.sl_oid, Row.tp_oid)
           /\ OpenRows' = OpenRows /\ GoneTo("log")
           /\ pass \in Passes /\ pass.row \in OpenRows /\ pass.row \in DOMAIN rows
           /\ Row \in RowsType /\ UNCHANGED <<bookVars, keys, faults, past, sent>>
<1> USE DEF Owning, Stopping, Targeting, Ordering, SliceStages, Closing
<1>1. pass \in Passes /\ pass.row \in DOMAIN rows /\ Row \in RowsType /\ pass.row \in OpenRows
  BY OpenTyped DEF BookTake, Book, At
<1> DEFINE row == [Row EXCEPT !.tp = pass.level]
<1>2. row \in RowsType
  BY <1>1 DEF RowsType, Passes
<1>3. rows' = [rows EXCEPT ![pass.row] = row] /\ log' = log
  BY DEF BookTake, Book
<1>4. Others(pass.row) /\ rows'[pass.row] = row
  BY <1>1, <1>2, <1>3, Rewritten DEF Others
<1>5. /\ row.sl = Row.sl /\ row.size = Row.size /\ row.tp = pass.level /\ row.sl_oid = Row.sl_oid
      /\ row.tp_oid = Row.tp_oid
  BY <1>1 DEF RowsType
<1>6. OpenRows' = OpenRows
  <2>1. row.status = Row.status
    BY <1>1 DEF RowsType
  <2> HIDE DEF row
  <2> QED BY <1>1, <1>2, <1>3, <2>1, Rewritten DEF Row
<1>7. GoneTo("log")
  <2>1. "log" \in Stages /\ Go("log")
    BY DEF BookTake, Book, Stages
  <2> QED BY <1>1, <2>1, Goes DEF GoneTo
<1> QED BY <1>1, <1>4, <1>5, <1>6, <1>7 DEF BookTake, Book, Books, RowIs

LEMMA BookCloseEffect ==
    ASSUME TypeInv, ControlInv, BookClose
    PROVE  /\ Others(pass.row) /\ RowIs(pass.row, Row.sl, Row.size, Row.tp, Row.sl_oid, Row.tp_oid)
           /\ OpenRows' = OpenRows \ {pass.row} /\ GoneTo("cancel row")
           /\ pass \in Passes /\ pass.row \in OpenRows /\ pass.row \in DOMAIN rows
           /\ Row \in RowsType /\ UNCHANGED <<bookVars, keys, faults, past, sent>>
<1> USE DEF Owning, Stopping, Targeting, Ordering, SliceStages, Closing
<1>1. pass \in Passes /\ pass.row \in DOMAIN rows /\ Row \in RowsType /\ pass.row \in OpenRows
  BY OpenTyped DEF BookClose, Book, At
<1> DEFINE row == [Row EXCEPT !.status = "resolved"]
<1>2. row \in RowsType
  BY <1>1 DEF RowsType, Passes
<1>3. rows' = [rows EXCEPT ![pass.row] = row] /\ log' = log
  BY DEF BookClose, Book
<1>4. Others(pass.row) /\ rows'[pass.row] = row
  BY <1>1, <1>2, <1>3, Rewritten DEF Others
<1>5. /\ row.sl = Row.sl /\ row.size = Row.size /\ row.tp = Row.tp /\ row.sl_oid = Row.sl_oid
      /\ row.tp_oid = Row.tp_oid
  BY <1>1 DEF RowsType
<1>6. OpenRows' = OpenRows \ {pass.row}
  <2>1. row.status # "open"
    BY <1>1 DEF RowsType
  <2> HIDE DEF row
  <2> QED BY <1>1, <1>2, <1>3, <2>1, Rewritten DEF Row
<1>7. GoneTo("cancel row")
  <2>1. "cancel row" \in Stages /\ Go("cancel row")
    BY DEF BookClose, Book, Stages
  <2> QED BY <1>1, <2>1, Goes DEF GoneTo
<1> QED BY <1>1, <1>4, <1>5, <1>6, <1>7 DEF BookClose, Book, Books, RowIs

LEMMA BookScaleEffect ==
    ASSUME TypeInv, ControlInv, BookScale
    PROVE  /\ Others(pass.row) /\ RowIs(pass.row, Row.sl, Row.size - pass.size, Row.tp, Row.sl_oid, Row.tp_oid)
           /\ OpenRows' = OpenRows /\ GoneTo("log")
           /\ pass \in Passes /\ pass.row \in OpenRows /\ pass.row \in DOMAIN rows
           /\ Row \in RowsType /\ UNCHANGED <<bookVars, keys, faults, past, sent>>
<1> USE DEF Owning, Stopping, Targeting, Ordering, SliceStages, Closing
<1>1. pass \in Passes /\ pass.row \in DOMAIN rows /\ Row \in RowsType /\ pass.row \in OpenRows
  BY OpenTyped DEF BookScale, Book, At
<1> DEFINE row == [Row EXCEPT !.size = @ - pass.size, !.scaled_out = TRUE]
<1>2. row \in RowsType
  <2>1. Row.size \in Nat /\ pass.size \in Nat /\ pass.size <= Row.size
    BY <1>1 DEF BookScale, Book, At, ControlInv, Purposeful, RowsType
  <2>2. Row.size - pass.size \in Nat
    BY <2>1
  <2> QED BY <1>1, <2>2 DEF RowsType
<1>3. rows' = [rows EXCEPT ![pass.row] = row] /\ log' = log
  BY DEF BookScale, Book
<1>4. Others(pass.row) /\ rows'[pass.row] = row
  BY <1>1, <1>2, <1>3, Rewritten DEF Others
<1>5. /\ row.sl = Row.sl /\ row.size = Row.size - pass.size /\ row.tp = Row.tp /\ row.sl_oid = Row.sl_oid
      /\ row.tp_oid = Row.tp_oid
  BY <1>1 DEF RowsType
<1>6. OpenRows' = OpenRows
  <2>1. row.status = Row.status
    BY <1>1 DEF RowsType
  <2> HIDE DEF row
  <2> QED BY <1>1, <1>2, <1>3, <2>1, Rewritten DEF Row
<1>7. GoneTo("log")
  <2>1. "log" \in Stages /\ Go("log")
    BY DEF BookScale, Book, Stages
  <2> QED BY <1>1, <2>1, Goes DEF GoneTo
<1> QED BY <1>1, <1>4, <1>5, <1>6, <1>7 DEF BookScale, Book, Books, RowIs

LEMMA SliceAbortEffect ==
    ASSUME TypeInv, ControlInv, SliceAbort
    PROVE  /\ Others(Slice) /\ OpenRows' = OpenRows \ {Slice} /\ GoneOn
           /\ pass \in Passes /\ pass.row \in OpenRows /\ pass.row # Slice /\ Slice \in DOMAIN rows
           /\ UNCHANGED <<bookVars, keys, faults, past, sent>>
<1> USE DEF Owning, SliceStages
<1>1. pass \in Passes /\ Slice \in DOMAIN rows /\ rows[Slice] \in RowsType /\ pass.row \in OpenRows
  BY OpenTyped DEF SliceAbort, At
<1>2. pass.row # Slice
  <2>1. pass.row < Slice /\ pass.row \in Nat /\ Slice \in Nat
    BY <1>1, RowsFacts DEF SliceAbort, At, ControlInv, RowOwned, Passes, Slice
  <2> QED BY <2>1
<1> DEFINE row == [rows[Slice] EXCEPT !.status = "aborted"]
<1>3. row \in RowsType /\ row.status # "open"
  BY <1>1 DEF RowsType
<1>4. rows' = [rows EXCEPT ![Slice] = row] /\ log' = log
  BY <1>1 DEF SliceAbort
<1>5. Others(Slice) /\ OpenRows' = OpenRows \ {Slice}
  <2> HIDE DEF row
  <2> QED BY <1>1, <1>3, <1>4, Rewritten DEF Others
<1>6. GoneOn
  BY <1>1, GoesOn DEF SliceAbort, GoneOn, GoneTo
<1> QED BY <1>1, <1>2, <1>5, <1>6 DEF SliceAbort, Books

LEMMA SliceOidsEffect ==
    ASSUME TypeInv, ControlInv, SliceOids
    PROVE  /\ Others(Slice)
           /\ RowIs(Slice, rows[Slice].sl, rows[Slice].size, rows[Slice].tp, pass.oid, pass.oid2)
           /\ OpenRows' = OpenRows /\ GoneTo("log")
           /\ pass \in Passes /\ pass.row \in OpenRows /\ Slice \in OpenRows /\ Slice \in DOMAIN rows
           /\ UNCHANGED <<bookVars, keys, faults, past, sent>>
<1> USE DEF Owning, SliceStages
<1>1. /\ pass \in Passes /\ Slice \in DOMAIN rows /\ rows[Slice] \in RowsType
      /\ pass.row \in OpenRows /\ Slice \in OpenRows
  BY OpenTyped DEF SliceOids, At, ControlInv, RowOwned
<1> DEFINE row == [rows[Slice] EXCEPT !.sl_oid = pass.oid, !.tp_oid = pass.oid2]
<1>2. row \in RowsType /\ row.status = rows[Slice].status
  BY <1>1 DEF RowsType, Passes
<1>3. /\ row.sl = rows[Slice].sl /\ row.size = rows[Slice].size /\ row.tp = rows[Slice].tp
      /\ row.sl_oid = pass.oid /\ row.tp_oid = pass.oid2
  BY <1>1 DEF RowsType
<1>4. rows' = [rows EXCEPT ![Slice] = row] /\ log' = log
  BY <1>1 DEF SliceOids, RowsType
<1>5. Others(Slice) /\ OpenRows' = OpenRows /\ rows'[Slice] = row
  <2> HIDE DEF row
  <2> QED BY <1>1, <1>2, <1>4, Rewritten DEF Others
<1>6. GoneTo("log")
  BY <1>1, Goes DEF SliceOids, GoneTo, Stages
<1> QED BY <1>1, <1>3, <1>5, <1>6 DEF SliceOids, Books, RowIs

\* A row is added.
Grows(row) ==
    /\ DOMAIN rows' = DOMAIN rows \cup {Slice'} /\ Slice' = Slice + 1 /\ Slice' \notin DOMAIN rows
    /\ rows'[Slice'] = row /\ \A q \in DOMAIN rows : rows'[q] = rows[q]
    /\ OpenRows' = OpenRows \cup {Slice'}
    /\ DOMAIN log' = DOMAIN rows' /\ log'[Slice'] = NoLog
    /\ \A q \in DOMAIN rows : log'[q] = log[q]

LEMMA Grown ==
    ASSUME TypeInv, NEW row \in RowsType, row.status = "open",
           rows' = Append(rows, row), log' = Append(log, NoLog)
    PROVE  Grows(row)
<1>1. rows \in Seq(RowsType) /\ log \in Seq(Logs) /\ NoLog \in Logs /\ Len(log) = Len(rows)
  BY NoLogTyped DEF TypeInv, RowsTypeOK
<1>2. /\ Len(rows') = Len(rows) + 1 /\ DOMAIN rows' = 1..(Len(rows) + 1)
      /\ DOMAIN rows = 1..Len(rows) /\ rows'[Len(rows) + 1] = row
      /\ \A q \in DOMAIN rows : rows'[q] = rows[q]
  BY <1>1, Appended
<1>3. /\ DOMAIN log' = 1..(Len(rows) + 1) /\ log'[Len(rows) + 1] = NoLog
      /\ \A q \in DOMAIN rows : log'[q] = log[q]
  BY <1>1, <1>2, Appended
<1>4. Slice' = Len(rows) + 1 /\ Slice = Len(rows) /\ Len(rows) \in Nat
  BY <1>2, RowsFacts DEF Slice
<1>5. DOMAIN rows' = DOMAIN rows \cup {Slice'} /\ Slice' \notin DOMAIN rows
  BY <1>2, <1>4
<1>6. OpenRows' = OpenRows \cup {Slice'}
  BY <1>2, <1>4, <1>5 DEF OpenRows, Open
<1> QED BY <1>2, <1>3, <1>4, <1>5, <1>6 DEF Grows

LEMMA OpenSliceEffect ==
    ASSUME TypeInv, ControlInv, OpenSlice
    PROVE  /\ Grows(NewRow(pass.mark, pass.level, Row.tp, pass.size, NoOid, NoOid))
           /\ GoneTo("slice stop") /\ pass \in Passes /\ pass.row \in OpenRows
           /\ pass.row \in DOMAIN rows /\ pass.row < Slice'
           /\ UNCHANGED <<bookVars, keys, faults, past, sent>>
<1>1. pass \in Passes /\ Row \in RowsType /\ pass.row \in OpenRows /\ pass.row \in DOMAIN rows
  BY OpenTyped DEF OpenSlice, At, Owning
<1>2. pass.size \in Nat
  BY DEF OpenSlice, At, ControlInv, Purposeful
<1>3. NewRow(pass.mark, pass.level, Row.tp, pass.size, NoOid, NoOid) \in RowsType
  BY <1>1, <1>2, NewRowTyped DEF Passes, RowsType, NoOid
<1>4. NewRow(pass.mark, pass.level, Row.tp, pass.size, NoOid, NoOid).status = "open"
  BY DEF NewRow
<1>5. Grows(NewRow(pass.mark, pass.level, Row.tp, pass.size, NoOid, NoOid))
  BY <1>3, <1>4, Grown DEF OpenSlice
<1>6. GoneTo("slice stop")
  BY <1>1, Goes DEF OpenSlice, GoneTo, Stages, SliceStages
<1>7. pass.row < Slice'
  BY <1>1, <1>5, RowsFacts DEF Grows, Slice
<1> QED BY <1>1, <1>5, <1>6, <1>7 DEF OpenSlice, Books

LEMMA AdoptsEffect ==
    ASSUME TypeInv, StartPass, Adopts
    PROVE  \E stop \in Farthest : \E take \in Nearest(stop) :
               /\ Grows(Adopted(stop, take)) /\ OpenRows = {} /\ OpenRows' = {Slice'}
               /\ pass' = Manage({Slice'}, pos)
<1>0. PICK stop \in Farthest : \E take \in Nearest(stop) :
          rows' = Append(rows, Adopted(stop, take))
  BY StartPassEffect
<1>1. PICK take \in Nearest(stop) : rows' = Append(rows, Adopted(stop, take))
  BY <1>0
<1>2. log' = Append(log, NoLog) /\ pass' = Manage({Len(rows) + 1}, pos)
  BY StartPassEffect
<1>3. Adopted(stop, take) \in RowsType /\ Adopted(stop, take).status = "open"
  BY AdoptedTyped DEF Adopted, NewRow
<1>4. Grows(Adopted(stop, take))
  BY <1>1, <1>2, <1>3, Grown
<1>5. OpenRows = {} /\ Slice' = Len(rows) + 1
  BY <1>4 DEF Adopts, Grows, Slice
<1>6. OpenRows' = {Slice'}
  BY <1>4, <1>5 DEF Grows
<1> QED BY <1>2, <1>4, <1>5, <1>6

\* A step that leaves the rows alone.
LEMMA OpenAtRest ==
    ASSUME rows' = rows
    PROVE  OpenRows' = OpenRows /\ Slice' = Slice
BY DEF OpenRows, Open, Slice

-----------------------------------------------------------------------------
(* The pass after each step. *)

\* As GoneTo, with a trigger's oid noted.
Noted(step) ==
    /\ pass' \in Passes' /\ pass'.at = step /\ pass'.todo = pass.todo
    /\ InHandKept /\ pass'.size = pass.size

LEMMA Notes ==
    ASSUME pass \in Passes, NEW step \in Stages, NEW oid \in Nat
    PROVE  /\ pass' = [pass EXCEPT !.at = step, !.oid = oid] =>
                  Noted(step) /\ pass'.oid = oid /\ pass'.oid2 = pass.oid2
           /\ pass' = [pass EXCEPT !.at = step, !.oid2 = oid] =>
                  Noted(step) /\ pass'.oid2 = oid /\ pass'.oid = pass.oid
<1>1. CASE pass' = [pass EXCEPT !.at = step, !.oid = oid]
  <2>1. pass' \in Passes'
    BY <1>1 DEF Passes
  <2>2. /\ pass'.at = step /\ pass'.todo = pass.todo /\ InHandKept /\ pass'.size = pass.size
        /\ pass'.oid = oid /\ pass'.oid2 = pass.oid2
    BY <1>1 DEF Passes, InHandKept, Kept
  <2>3. pass' = [pass EXCEPT !.at = step, !.oid2 = oid] => pass'.oid2 = oid /\ pass'.oid = pass.oid
    BY DEF Passes
  <2> QED BY <2>1, <2>2, <2>3 DEF Noted
<1>2. CASE pass' = [pass EXCEPT !.at = step, !.oid2 = oid]
  <2>1. pass' \in Passes'
    BY <1>2 DEF Passes
  <2>2. /\ pass'.at = step /\ pass'.todo = pass.todo /\ InHandKept /\ pass'.size = pass.size
        /\ pass'.oid2 = oid /\ pass'.oid = pass.oid
    BY <1>2 DEF Passes, InHandKept, Kept
  <2>3. pass' = [pass EXCEPT !.at = step, !.oid = oid] => pass'.oid = oid /\ pass'.oid2 = pass.oid2
    BY DEF Passes
  <2> QED BY <2>1, <2>2, <2>3 DEF Noted
<1> QED BY <1>1, <1>2

\* As GoneTo, with the size that filled.
Sized(step, size) ==
    /\ pass' \in Passes' /\ pass'.at = step /\ pass'.todo = pass.todo
    /\ InHandKept /\ OidsKept /\ pass'.size = size

LEMMA Sizes ==
    ASSUME pass \in Passes, NEW step \in Stages, NEW size \in Int,
           pass' = [pass EXCEPT !.at = step, !.size = size]
    PROVE  Sized(step, size)
BY DEF Passes, Sized, InHandKept, Kept, OidsKept

LEMMA PlaceStopEffect ==
    ASSUME TypeInv, ControlInv, PlaceStop
    PROVE  /\ \/ /\ PlaceTrigger("stop", pass.level, Row.size)
                 /\ Noted("cancel stop") /\ pass'.oid = oids + 1 /\ pass'.oid2 = pass.oid2
                 /\ faults' = faults
              \/ UNCHANGED bookVars /\ GoneOn /\ faults' = faults + 1
           /\ pass \in Passes /\ pass.row \in OpenRows /\ pass.row \in DOMAIN rows
           /\ Row \in RowsType
           /\ UNCHANGED <<rows, log, keys, past, sent>>
<1> USE DEF Owning, Stopping, Targeting, SliceStages
<1>1. pass \in Passes /\ pass.row \in OpenRows /\ pass.row \in DOMAIN rows /\ Row \in RowsType
  BY OpenTyped DEF PlaceStop, PlaceNew, At
<1>2. oids + 1 \in Nat /\ "cancel stop" \in Stages /\ NoOid \in Nat /\ "slice close" \in Stages
  BY DEF TypeInv, BookTypeOK, Stages, NoOid
<1>3. pass' = [pass EXCEPT !.at = "cancel stop", !.oid = oids + 1] =>
          Noted("cancel stop") /\ pass'.oid = oids + 1 /\ pass'.oid2 = pass.oid2
  BY <1>1, <1>2, Notes
<1>4. NextRow => GoneOn
  BY <1>1, GoesOn DEF GoneOn, GoneTo
<1> QED BY <1>1, <1>3, <1>4 DEF PlaceStop, PlaceNew, Calls, Faulty, Sound

LEMMA PlaceTakeEffect ==
    ASSUME TypeInv, ControlInv, PlaceTake
    PROVE  /\ \/ /\ PlaceTrigger("take", pass.level, Row.size)
                 /\ Noted("cancel take") /\ pass'.oid = oids + 1 /\ pass'.oid2 = pass.oid2
                 /\ faults' = faults
              \/ UNCHANGED bookVars /\ GoneOn /\ faults' = faults + 1
           /\ pass \in Passes /\ pass.row \in OpenRows /\ pass.row \in DOMAIN rows
           /\ Row \in RowsType
           /\ UNCHANGED <<rows, log, keys, past, sent>>
<1> USE DEF Owning, Stopping, Targeting, SliceStages
<1>1. pass \in Passes /\ pass.row \in OpenRows /\ pass.row \in DOMAIN rows /\ Row \in RowsType
  BY OpenTyped DEF PlaceTake, PlaceNew, At
<1>2. oids + 1 \in Nat /\ "cancel take" \in Stages /\ NoOid \in Nat /\ "slice close" \in Stages
  BY DEF TypeInv, BookTypeOK, Stages, NoOid
<1>3. pass' = [pass EXCEPT !.at = "cancel take", !.oid = oids + 1] =>
          Noted("cancel take") /\ pass'.oid = oids + 1 /\ pass'.oid2 = pass.oid2
  BY <1>1, <1>2, Notes
<1>4. NextRow => GoneOn
  BY <1>1, GoesOn DEF GoneOn, GoneTo
<1> QED BY <1>1, <1>3, <1>4 DEF PlaceTake, PlaceNew, Calls, Faulty, Sound

LEMMA SliceStopEffect ==
    ASSUME TypeInv, ControlInv, SliceStop
    PROVE  /\ \/ /\ PlaceTrigger("stop", pass.level, pass.size)
                 /\ Noted("slice take") /\ pass'.oid = oids + 1 /\ pass'.oid2 = pass.oid2
                 /\ faults' = faults
              \/ UNCHANGED bookVars /\ Noted("slice close") /\ pass'.oid = NoOid /\ faults' = faults + 1
           /\ pass \in Passes /\ pass.row \in OpenRows /\ pass.row \in DOMAIN rows
           /\ Row \in RowsType
           /\ UNCHANGED <<rows, log, keys, past, sent>>
<1> USE DEF Owning, Stopping, Targeting, SliceStages
<1>1. pass \in Passes /\ pass.row \in OpenRows /\ pass.row \in DOMAIN rows /\ Row \in RowsType
  BY OpenTyped DEF SliceStop, At
<1>2. oids + 1 \in Nat /\ "slice take" \in Stages /\ NoOid \in Nat /\ "slice close" \in Stages
  BY DEF TypeInv, BookTypeOK, Stages, NoOid
<1>3. pass' = [pass EXCEPT !.at = "slice take", !.oid = oids + 1] =>
          Noted("slice take") /\ pass'.oid = oids + 1 /\ pass'.oid2 = pass.oid2
  BY <1>1, <1>2, Notes
<1>4. pass' = [pass EXCEPT !.at = "slice close", !.oid = NoOid] =>
          Noted("slice close") /\ pass'.oid = NoOid
  BY <1>1, <1>2, Notes
<1> QED BY <1>1, <1>3, <1>4 DEF SliceStop, Calls, Faulty, Sound

LEMMA SliceTakeEffect ==
    ASSUME TypeInv, ControlInv, SliceTake
    PROVE  /\ \/ /\ PlaceTrigger("take", rows[Slice].tp, pass.size)
                 /\ Noted("slice oids") /\ pass'.oid2 = oids + 1 /\ pass'.oid = pass.oid
                 /\ faults' = faults
              \/ UNCHANGED bookVars /\ GoneTo("slice close") /\ faults' = faults + 1
           /\ pass \in Passes /\ pass.row \in OpenRows /\ pass.row \in DOMAIN rows
           /\ Row \in RowsType
           /\ UNCHANGED <<rows, log, keys, past, sent>>
<1> USE DEF Owning, Stopping, Targeting, SliceStages
<1>1. pass \in Passes /\ pass.row \in OpenRows /\ pass.row \in DOMAIN rows /\ Row \in RowsType
  BY OpenTyped DEF SliceTake, At
<1>2. oids + 1 \in Nat /\ "slice oids" \in Stages /\ NoOid \in Nat /\ "slice close" \in Stages
  BY DEF TypeInv, BookTypeOK, Stages, NoOid
<1>3. pass' = [pass EXCEPT !.at = "slice oids", !.oid2 = oids + 1] =>
          Noted("slice oids") /\ pass'.oid2 = oids + 1 /\ pass'.oid = pass.oid
  BY <1>1, <1>2, Notes
<1>4. Go("slice close") => GoneTo("slice close")
  BY <1>1, <1>2, Goes DEF GoneTo
<1> QED BY <1>1, <1>3, <1>4 DEF SliceTake, Calls, Faulty, Sound

LEMMA CancelStopEffect ==
    ASSUME TypeInv, ControlInv, CancelStop
    PROVE  /\ CancelOids(Replaced("stop", Row.sl_oid)) \/ UNCHANGED bookVars
           /\ GoneTo("book stop oid") /\ pass \in Passes /\ pass.row \in OpenRows
           /\ pass.row \in DOMAIN rows /\ Row \in RowsType
           /\ UNCHANGED <<rows, log, keys, past, sent>>
<1> USE DEF Owning, Stopping, Targeting, SliceStages
<1>1. pass \in Passes /\ pass.row \in OpenRows /\ pass.row \in DOMAIN rows /\ Row \in RowsType
  BY OpenTyped DEF CancelStop, CancelOld, At
<1>2. Go("book stop oid") => GoneTo("book stop oid")
  BY <1>1, Goes DEF GoneTo, Stages
<1> QED BY <1>1, <1>2 DEF CancelStop, CancelOld, Calls

LEMMA CancelTakeEffect ==
    ASSUME TypeInv, ControlInv, CancelTake
    PROVE  /\ CancelOids(Replaced("take", Row.tp_oid)) \/ UNCHANGED bookVars
           /\ GoneTo("book take oid") /\ pass \in Passes /\ pass.row \in OpenRows
           /\ pass.row \in DOMAIN rows /\ Row \in RowsType
           /\ UNCHANGED <<rows, log, keys, past, sent>>
<1> USE DEF Owning, Stopping, Targeting, SliceStages
<1>1. pass \in Passes /\ pass.row \in OpenRows /\ pass.row \in DOMAIN rows /\ Row \in RowsType
  BY OpenTyped DEF CancelTake, CancelOld, At
<1>2. Go("book take oid") => GoneTo("book take oid")
  BY <1>1, Goes DEF GoneTo, Stages
<1> QED BY <1>1, <1>2 DEF CancelTake, CancelOld, Calls

LEMMA SliceCancelEffect ==
    ASSUME TypeInv, ControlInv, SliceCancel
    PROVE  /\ CancelOids({pass.oid}) \/ UNCHANGED bookVars
           /\ GoneTo("slice abort") /\ pass \in Passes /\ pass.row \in OpenRows
           /\ pass.row \in DOMAIN rows /\ Row \in RowsType
           /\ UNCHANGED <<rows, log, keys, past, sent>>
<1> USE DEF Owning, Stopping, Targeting, SliceStages
<1>1. pass \in Passes /\ pass.row \in OpenRows /\ pass.row \in DOMAIN rows /\ Row \in RowsType
  BY OpenTyped DEF SliceCancel, At
<1>2. Go("slice abort") => GoneTo("slice abort")
  BY <1>1, Goes DEF GoneTo, Stages
<1> QED BY <1>1, <1>2 DEF SliceCancel, Calls

\* An order's steps: the position changes, no trigger does.
Trades == triggers' = triggers /\ oids' = oids /\ UNCHANGED <<rows, log, keys>>

LEMMA OrderScaleEffect ==
    ASSUME TypeInv, ControlInv, OrderScale
    PROVE  /\ Trades /\ UNCHANGED <<past, sent>>
           /\ \/ GoneTo("release")
              \/ \E size \in Nat : Sized("book scale", size) /\ size <= pass.size
           /\ pass \in Passes /\ pass.row \in OpenRows
<1> USE DEF Owning, Ordering
<1>1. pass \in Passes /\ pass.row \in OpenRows
  BY OpenTyped DEF OrderScale, At
<1>2. pass.size \in Int /\ pos \in Nat /\ Smaller(pass.size, pos) \in Int
  <2>1. pass.size \in Int /\ pos \in Nat
    BY <1>1 DEF Passes, TypeInv, BookTypeOK
  <2> QED BY <2>1 DEF Smaller
<1>3. CASE Go("release") /\ UNCHANGED bookVars
  BY <1>1, <1>3, Goes DEF OrderScale, Calls, bookVars, GoneTo, Stages, Trades
<1>4. CASE \E left \in 0..(Smaller(pass.size, pos) - 1) :
               /\ MarketClose(pass.size, left)
               /\ pass' = [pass EXCEPT !.at = "book scale", !.size = Closed(pass.size, left)]
  <2>1. PICK left \in 0..(Smaller(pass.size, pos) - 1) :
               /\ MarketClose(pass.size, left)
               /\ pass' = [pass EXCEPT !.at = "book scale", !.size = Closed(pass.size, left)]
    BY <1>4
  <2>2. Closed(pass.size, left) \in Nat /\ Closed(pass.size, left) <= pass.size
    BY <1>2 DEF Closed, Smaller
  <2>3. Sized("book scale", Closed(pass.size, left))
    <3>1. "book scale" \in Stages /\ Closed(pass.size, left) \in Int
      BY <2>2 DEF Stages, Ordering
    <3>2. pass' = [pass EXCEPT !.at = "book scale", !.size = Closed(pass.size, left)]
      BY <2>1
    <3> HIDE DEF Owning, Ordering
    <3> QED BY <1>1, <3>1, <3>2, Sizes
  <2>4. Trades /\ UNCHANGED <<past, sent>>
    BY <2>1 DEF OrderScale, Calls, MarketClose, Trades
  <2> QED BY <1>1, <2>2, <2>3, <2>4
<1> QED BY <1>3, <1>4 DEF OrderScale

LEMMA OrderCloseEffect ==
    ASSUME TypeInv, ControlInv, OrderClose
    PROVE  /\ Trades /\ sent' = sent /\ past' \in {past, past \cup {"short close"}}
           /\ GoneTo("release") \/ GoneTo("book close")
           /\ pass \in Passes /\ pass.row \in OpenRows
<1>1. pass \in Passes /\ pass.row \in OpenRows
  BY OpenTyped DEF OrderClose, At, Owning, Ordering
<1>2. /\ Go("release") => GoneTo("release")
      /\ Go("book close") => GoneTo("book close")
  BY <1>1, Goes DEF GoneTo, Stages, Ordering, Closing
<1>3. Go("release") \/ Go("book close")
  BY DEF OrderClose
<1> QED BY <1>1, <1>2, <1>3 DEF OrderClose, Calls, MarketClose, bookVars, Trades

LEMMA OrderAddEffect ==
    ASSUME TypeInv, ControlInv, OrderAdd
    PROVE  /\ Trades /\ past' = past
           /\ \/ GoneTo("release") /\ sent' = sent
              \/ /\ \E size \in Nat \ {0} : Sized("open slice", size)
                 /\ sent' = Append(sent, [row |-> pass.row, rows |-> Len(rows)])
           /\ pass \in Passes /\ pass.row \in OpenRows
<1> USE DEF Owning, Ordering
<1>1. pass \in Passes /\ pass.row \in OpenRows
  BY OpenTyped DEF OrderAdd, At
<1>2. pass.size \in Int
  BY <1>1 DEF Passes
<1>3. CASE Go("release") /\ UNCHANGED <<bookVars, sent>>
  BY <1>1, <1>3, Goes DEF OrderAdd, bookVars, GoneTo, Stages, Trades
<1>4. CASE \E left \in 0..(pass.size - 1) :
               /\ MarketOpen(pass.size - left)
               /\ pass' = [pass EXCEPT !.at = "open slice", !.size = @ - left]
               /\ sent' = Append(sent, [row |-> pass.row, rows |-> Len(rows)])
  <2>1. PICK left \in 0..(pass.size - 1) :
               /\ MarketOpen(pass.size - left)
               /\ pass' = [pass EXCEPT !.at = "open slice", !.size = @ - left]
               /\ sent' = Append(sent, [row |-> pass.row, rows |-> Len(rows)])
    BY <1>4
  <2>2. pass.size - left \in Nat \ {0} /\ pass.size - left \in Int
    BY <1>2
  <2>3. pass' = [pass EXCEPT !.at = "open slice", !.size = pass.size - left]
    BY <1>1, <2>1 DEF Passes
  <2>4. Sized("open slice", pass.size - left)
    BY <1>1, <2>2, <2>3, Sizes DEF Stages
  <2>5. Trades /\ past' = past
    BY <2>1 DEF OrderAdd, MarketOpen, Trades
  <2> QED BY <1>1, <2>1, <2>2, <2>4, <2>5
<1> QED BY <1>3, <1>4 DEF OrderAdd

LEMMA UnseenEffect ==
    ASSUME TypeInv, ControlInv, OrderResolve \/ SliceClose
    PROVE  /\ Trades /\ sent' = sent /\ past' \in {past, past \cup {"short close"}}
           /\ OrderResolve => GoneTo("book close")
           /\ SliceClose => GoneTo("slice cancel")
           /\ pass \in Passes /\ pass.row \in OpenRows
<1>1. pass \in Passes /\ pass.row \in OpenRows
  BY OpenTyped DEF OrderResolve, SliceClose, At, Owning, Closing, SliceStages
<1>2. /\ Go("book close") => GoneTo("book close")
      /\ Go("slice cancel") => GoneTo("slice cancel")
  BY <1>1, Goes DEF GoneTo, Stages, Closing, SliceStages
<1>3. triggers' = triggers /\ oids' = oids /\ past' \in {past, past \cup {"short close"}}
  BY ClosesUnseenEffect DEF OrderResolve, SliceClose, At
<1> QED BY <1>1, <1>2, <1>3 DEF OrderResolve, SliceClose, Calls, Trades

LEMMA CancelRowEffect ==
    ASSUME TypeInv, ControlInv, CancelRow
    PROVE  /\ CancelOids({Row.sl_oid, Row.tp_oid}) \/ UNCHANGED bookVars
           /\ \/ OpenRows = {} /\ GoneTo("sweep")
              \/ OpenRows # {} /\ GoneTo("log")
              \/ OpenRows # {} /\ GoneOn
           /\ pass \in Passes /\ pass.row \in DOMAIN rows /\ pass.row \notin OpenRows
           /\ UNCHANGED <<rows, log, keys, past, sent>>
<1>1. pass \in Passes /\ pass.row \in DOMAIN rows /\ pass.row \notin OpenRows
  BY InPass DEF CancelRow, At, ControlInv, RowOwned
<1>2. /\ Go("sweep") => GoneTo("sweep")
      /\ Go("log") => GoneTo("log")
      /\ NextRow => GoneOn
  BY <1>1, Goes, GoesOn DEF GoneTo, GoneOn, Stages
<1> QED BY <1>1, <1>2 DEF CancelRow, AfterCancel, AfterClose, Calls

LEMMA SweepEffect ==
    ASSUME TypeInv, ControlInv, Sweep
    PROVE  /\ \/ CancelOids({t.oid : t \in triggers}) /\ past' = past
              \/ UNCHANGED bookVars /\ past' = past \cup {"unswept"}
           /\ GoneTo("log") \/ GoneOn
           /\ pass \in Passes /\ pass.row \in DOMAIN rows /\ OpenRows = {}
           /\ UNCHANGED <<rows, log, keys, sent>>
<1>1. pass \in Passes /\ pass.row \in DOMAIN rows /\ OpenRows = {}
  BY InPass DEF Sweep, At, ControlInv, RowOwned
<1>2. /\ Go("log") => GoneTo("log")
      /\ NextRow => GoneOn
  BY <1>1, Goes, GoesOn DEF GoneTo, GoneOn, Stages
<1> QED BY <1>1, <1>2 DEF Sweep, AfterClose, Calls

LEMMA ClaimEffect ==
    ASSUME TypeInv, ControlInv, Claim
    PROVE  /\ \/ Key \in keys /\ GoneOn /\ keys' = keys
              \/ /\ Key \notin keys /\ keys' = keys \cup {Key}
                 /\ \/ pass.for = "close" /\ GoneTo("order close")
                    \/ pass.for = "scale" /\ GoneTo("order scale")
                    \/ pass.for = "add" /\ GoneTo("order add")
           /\ pass \in Passes /\ pass.row \in OpenRows
           /\ UNCHANGED <<bookVars, rows, log, faults, past, sent>>
<1>1. pass \in Passes /\ pass.row \in OpenRows
  BY OpenTyped DEF Claim, At, Owning, Ordering
<1>2. /\ Go("order close") => GoneTo("order close")
      /\ Go("order scale") => GoneTo("order scale")
      /\ Go("order add") => GoneTo("order add")
      /\ NextRow => GoneOn
  BY <1>1, Goes, GoesOn DEF GoneTo, GoneOn, Stages, Ordering
<1>3. /\ OrderFor["close"] = "order close" /\ OrderFor["scale"] = "order scale"
      /\ OrderFor["add"] = "order add"
  BY DEF OrderFor
<1>4. pass.for \in {"close", "scale", "add"}
  BY DEF Claim, At, ControlInv, Purposeful
<1>5. CASE Key \in keys
  BY <1>1, <1>2, <1>5 DEF Claim, Books
<1>6. CASE Key \notin keys
  <2>1. keys' = keys \cup {Key} /\ Go(OrderFor[pass.for])
    BY <1>6 DEF Claim
  <2> QED BY <1>1, <1>2, <1>3, <1>4, <1>6, <2>1 DEF Claim, Books
<1> QED BY <1>5, <1>6

LEMMA ReleaseEffect ==
    ASSUME TypeInv, ControlInv, Release
    PROVE  /\ keys' = keys \ {Key} /\ GoneOn /\ pass \in Passes /\ pass.row \in OpenRows
           /\ UNCHANGED <<bookVars, rows, log, faults, past, sent>>
<1>1. pass \in Passes /\ pass.row \in OpenRows
  BY OpenTyped DEF Release, At, Owning, Ordering
<1>2. NextRow => GoneOn
  BY <1>1, GoesOn DEF GoneTo, GoneOn
<1> QED BY <1>1, <1>2 DEF Release, Books

LEMMA LogActionEffect ==
    ASSUME TypeInv, ControlInv, LogAction
    PROVE  /\ GoneOn /\ pass \in Passes /\ pass.row \in DOMAIN rows
           /\ UNCHANGED <<bookVars, rows, keys, faults, past, sent>>
<1>1. pass \in Passes /\ pass.row \in DOMAIN rows
  BY InPass DEF LogAction, At, ControlInv, RowOwned
<1>2. NextRow => GoneOn
  BY <1>1, GoesOn DEF GoneTo, GoneOn
<1> QED BY <1>1, <1>2 DEF LogAction

\* Passing a row over, or all that are left.
LessToDo ==
    /\ pass' \in Passes' /\ pass'.at = pass.at /\ pass'.todo \subseteq pass.todo
    /\ InHandKept /\ OidsKept /\ pass'.size = pass.size

LEMMA PassOverEffect ==
    ASSUME TypeInv, ControlInv, PassOver \/ Holds
    PROVE  /\ LessToDo /\ pass \in Passes /\ At("manage")
           /\ UNCHANGED <<bookVars, rows, keys, faults, past, sent>>
<1>1. pass \in Passes /\ At("manage")
  BY InPass DEF PassOver, Holds, At
<1>2. ASSUME NEW r, Skip(r)
      PROVE  LessToDo
  BY <1>1, <1>2, Skips DEF LessToDo
<1>3. ASSUME pass' = [pass EXCEPT !.todo = {}]
      PROVE  LessToDo
  BY <1>1, <1>3 DEF Passes, LessToDo, InHandKept, Kept, OidsKept
<1> QED BY <1>1, <1>2, <1>3 DEF PassOver, Holds, Books

LEMMA StartResolveEffect ==
    ASSUME TypeInv, ControlInv, StartResolve
    PROVE  /\ pass' \in Passes' /\ pass'.at = "resolve" /\ pass'.phase = "resolve"
           /\ pass'.todo = OpenRows /\ pass'.for = "resolve" /\ OidsKept
           /\ pass'.book = pass.book /\ pass \in Passes
           /\ UNCHANGED <<bookVars, rows, log, keys, faults, past, sent>>
<1>1. pass \in Passes
  BY InPass DEF StartResolve, At
<1>2. OpenRows \in SUBSET Nat /\ mark \in Int
  BY RowsFacts DEF TypeInv, BookTypeOK
<1>3. pass' = [pass EXCEPT !.at = "resolve", !.phase = "resolve", !.todo = OpenRows,
                           !.mark = mark, !.flat = (pos = 0), !.for = "resolve"]
  BY DEF StartResolve
<1>4. (pos = 0) \in BOOLEAN
  OBVIOUS
<1>5. pass' \in Passes'
  BY <1>1, <1>2, <1>3, <1>4 DEF Passes, Stages, Purposes
<1> QED BY <1>1, <1>3, <1>5 DEF Passes, OidsKept, StartResolve, Books

LEMMA ResolveEffect ==
    ASSUME TypeInv, ControlInv, Resolve
    PROVE  /\ pass \in Passes /\ At("resolve")
           /\ \/ LessToDo
              \/ \E r \in pass.todo, size \in Int, step \in Closing :
                    /\ r \in OpenRows /\ r \in Nat /\ Does(r, step, 0, size, "resolve")
           /\ UNCHANGED <<bookVars, rows, log, keys, faults, past, sent>>
<1>1. pass \in Passes /\ At("resolve")
  BY InPass DEF Resolve, At
<1>2. PICK r \in pass.todo :
         \/ Does(r, "book close", 0, 0, "resolve")
         \/ Does(r, "order resolve", 0, rows[r].size, "resolve")
         \/ Skip(r)
  BY DEF Resolve
<1>3. UNCHANGED <<bookVars, rows, log, keys, faults, past, sent>>
  BY DEF Resolve, Books
<1>4. r \in OpenRows
  BY <1>1 DEF At, ControlInv, RowOwned
<1>5. r \in DOMAIN rows
  BY <1>4, RowsFacts
<1>6. r \in Nat /\ rows[r].size \in Int
  BY <1>5, RowsFacts DEF RowsType
<1>7. CASE Skip(r)
  BY <1>1, <1>3, <1>7, Skips DEF LessToDo
<1>8. ASSUME NEW step \in Closing, NEW size \in Int, Does(r, step, 0, size, "resolve")
      PROVE  \E q \in pass.todo, s \in Int, st \in Closing :
                q \in OpenRows /\ q \in Nat /\ Does(q, st, 0, s, "resolve")
  BY <1>4, <1>6, <1>8
<1>9. "book close" \in Closing /\ "order resolve" \in Closing /\ 0 \in Int
  BY DEF Closing
<1> QED BY <1>1, <1>2, <1>3, <1>6, <1>7, <1>8, <1>9

-----------------------------------------------------------------------------
(* The row in hand stays the pass's own. *)

LEMMA PassIs ==
    ASSUME pass' \in Passes' \/ pass' = Idle \/ (PassOK /\ pass' = pass)
    PROVE  PassOK'
BY DEF PassOK, Passes, Idle

LEMMA ControlStops ==
    ASSUME TypeInv, ControlInv, PlaceStop \/ CancelStop \/ BookStopOid \/ BookStop
    PROVE  PassOK' /\ ControlInv'
<1> USE DEF Owning, Stopping, Targeting, Ordering, SliceStages, Closing
<1>1. CASE PlaceStop
  <2>1. pass.at = "place stop"
    BY <1>1 DEF PlaceStop, PlaceNew, At
  <2>2. OpenRows' = OpenRows /\ Slice' = Slice /\ rows' = rows
    BY <1>1, PlaceStopEffect, OpenAtRest
  <2>3. CASE Noted("cancel stop")
    BY <1>1, <2>1, <2>2, <2>3, PlaceStopEffect, PassIs
       DEF Noted, ControlInv, RowOwned, Purposeful, InHandKept, Kept, At, Row
  <2>4. CASE GoneOn
    BY <1>1, <2>1, <2>2, <2>4, PlaceStopEffect, PassIs
       DEF GoneOn, GoneTo, ControlInv, RowOwned, Purposeful, InHandKept, Kept, At, Row
  <2> QED BY <1>1, <2>3, <2>4, PlaceStopEffect
<1>2. CASE CancelStop
  <2>1. pass.at = "cancel stop"
    BY <1>2 DEF CancelStop, CancelOld, At
  <2>2. OpenRows' = OpenRows /\ Slice' = Slice /\ rows' = rows
    BY <1>2, CancelStopEffect, OpenAtRest
  <2> QED
    BY <1>2, <2>1, <2>2, CancelStopEffect, PassIs
       DEF GoneTo, ControlInv, RowOwned, Purposeful, InHandKept, Kept, At, Row
<1>3. CASE BookStopOid
  <2>1. pass.at = "book stop oid"
    BY <1>3 DEF BookStopOid, Book, At
  <2> QED
    BY <1>3, <2>1, BookStopOidEffect, PassIs
       DEF GoneTo, ControlInv, RowOwned, Purposeful, InHandKept, Kept, At, Row, Others, RowIs
<1>4. CASE BookStop
  <2>1. pass.at = "book stop"
    BY <1>4 DEF BookStop, Book, At
  <2>2. CASE pass.for = "add"
    BY <1>4, <2>1, <2>2, BookStopEffect, PassIs
       DEF GoneTo, ControlInv, RowOwned, Purposeful, InHandKept, Kept, At, Row, Others, RowIs
  <2>3. CASE pass.for # "add"
    BY <1>4, <2>1, <2>3, BookStopEffect, PassIs
       DEF GoneTo, ControlInv, RowOwned, Purposeful, InHandKept, Kept, At, Row, Others, RowIs
  <2> QED BY <2>2, <2>3
<1> QED BY <1>1, <1>2, <1>3, <1>4

LEMMA ControlPlaceTake ==
    ASSUME TypeInv, ControlInv, PlaceTake
    PROVE  PassOK' /\ ControlInv'
<1> USE DEF Owning, Stopping, Targeting, Ordering, SliceStages, Closing
<1>1. pass.at = "place take"
  BY DEF PlaceTake, PlaceNew, At
<1>2. OpenRows' = OpenRows /\ Slice' = Slice /\ rows' = rows
  BY PlaceTakeEffect, OpenAtRest
<1>3. CASE Noted("cancel take")
  BY <1>1, <1>2, <1>3, PlaceTakeEffect, PassIs
     DEF GoneOn, GoneTo, Noted, Sized, LessToDo, ControlInv, RowOwned, Purposeful,
           InHandKept, Kept, At, Row, Others, RowIs
<1>4. CASE GoneOn
  BY <1>1, <1>2, <1>4, PlaceTakeEffect, PassIs
     DEF GoneOn, GoneTo, Noted, Sized, LessToDo, ControlInv, RowOwned, Purposeful,
           InHandKept, Kept, At, Row, Others, RowIs
<1> QED BY <1>3, <1>4, PlaceTakeEffect

LEMMA ControlCancelTake ==
    ASSUME TypeInv, ControlInv, CancelTake
    PROVE  PassOK' /\ ControlInv'
<1> USE DEF Owning, Stopping, Targeting, Ordering, SliceStages, Closing
<1>1. pass.at = "cancel take"
  BY DEF CancelTake, CancelOld, At
<1>2. OpenRows' = OpenRows /\ Slice' = Slice /\ rows' = rows
  BY CancelTakeEffect, OpenAtRest
<1> QED
  BY <1>1, <1>2, CancelTakeEffect, PassIs
     DEF GoneOn, GoneTo, Noted, Sized, LessToDo, ControlInv, RowOwned, Purposeful,
           InHandKept, Kept, At, Row, Others, RowIs

LEMMA ControlBookTakeOid ==
    ASSUME TypeInv, ControlInv, BookTakeOid
    PROVE  PassOK' /\ ControlInv'
<1> USE DEF Owning, Stopping, Targeting, Ordering, SliceStages, Closing
<1>1. pass.at = "book take oid"
  BY DEF BookTakeOid, Book, At
<1> QED
  BY <1>1, BookTakeOidEffect, PassIs
     DEF GoneOn, GoneTo, Noted, Sized, LessToDo, ControlInv, RowOwned, Purposeful,
           InHandKept, Kept, At, Row, Others, RowIs

LEMMA ControlBookTake ==
    ASSUME TypeInv, ControlInv, BookTake
    PROVE  PassOK' /\ ControlInv'
<1> USE DEF Owning, Stopping, Targeting, Ordering, SliceStages, Closing
<1>1. pass.at = "book take"
  BY DEF BookTake, Book, At
<1> QED
  BY <1>1, BookTakeEffect, PassIs
     DEF GoneOn, GoneTo, Noted, Sized, LessToDo, ControlInv, RowOwned, Purposeful,
           InHandKept, Kept, At, Row, Others, RowIs

LEMMA ControlLogAction ==
    ASSUME TypeInv, ControlInv, LogAction
    PROVE  PassOK' /\ ControlInv'
<1> USE DEF Owning, Stopping, Targeting, Ordering, SliceStages, Closing
<1>1. pass.at = "log"
  BY DEF LogAction, At
<1>2. OpenRows' = OpenRows /\ Slice' = Slice /\ rows' = rows
  BY LogActionEffect, OpenAtRest
<1> QED
  BY <1>1, <1>2, LogActionEffect, PassIs
     DEF GoneOn, GoneTo, Noted, Sized, LessToDo, ControlInv, RowOwned, Purposeful,
           InHandKept, Kept, At, Row, Others, RowIs

LEMMA ControlClaim ==
    ASSUME TypeInv, ControlInv, Claim
    PROVE  PassOK' /\ ControlInv'
<1> USE DEF Owning, Stopping, Targeting, Ordering, SliceStages, Closing
<1>1. pass.at = "claim"
  BY DEF Claim, At
<1>2. OpenRows' = OpenRows /\ Slice' = Slice /\ rows' = rows
  BY ClaimEffect, OpenAtRest
<1>3. CASE GoneOn
  BY <1>1, <1>2, <1>3, ClaimEffect, PassIs
     DEF GoneOn, GoneTo, Noted, Sized, LessToDo, ControlInv, RowOwned, Purposeful,
           InHandKept, Kept, At, Row, Others, RowIs
<1>4. CASE pass.for = "close" /\ GoneTo("order close")
  BY <1>1, <1>2, <1>4, ClaimEffect, PassIs
     DEF GoneOn, GoneTo, Noted, Sized, LessToDo, ControlInv, RowOwned, Purposeful,
           InHandKept, Kept, At, Row, Others, RowIs
<1>5. CASE pass.for = "scale" /\ GoneTo("order scale")
  BY <1>1, <1>2, <1>5, ClaimEffect, PassIs
     DEF GoneOn, GoneTo, Noted, Sized, LessToDo, ControlInv, RowOwned, Purposeful,
           InHandKept, Kept, At, Row, Others, RowIs
<1>6. CASE pass.for = "add" /\ GoneTo("order add")
  BY <1>1, <1>2, <1>6, ClaimEffect, PassIs
     DEF GoneOn, GoneTo, Noted, Sized, LessToDo, ControlInv, RowOwned, Purposeful,
           InHandKept, Kept, At, Row, Others, RowIs
<1> QED BY <1>3, <1>4, <1>5, <1>6, ClaimEffect

LEMMA ControlRelease ==
    ASSUME TypeInv, ControlInv, Release
    PROVE  PassOK' /\ ControlInv'
<1> USE DEF Owning, Stopping, Targeting, Ordering, SliceStages, Closing
<1>1. pass.at = "release"
  BY DEF Release, At
<1>2. OpenRows' = OpenRows /\ Slice' = Slice /\ rows' = rows
  BY ReleaseEffect, OpenAtRest
<1> QED
  BY <1>1, <1>2, ReleaseEffect, PassIs
     DEF GoneOn, GoneTo, Noted, Sized, LessToDo, ControlInv, RowOwned, Purposeful,
           InHandKept, Kept, At, Row, Others, RowIs

LEMMA ControlOrderScale ==
    ASSUME TypeInv, ControlInv, OrderScale
    PROVE  PassOK' /\ ControlInv'
<1> USE DEF Owning, Stopping, Targeting, Ordering, SliceStages, Closing
<1>1. pass.at = "order scale"
  BY DEF OrderScale, At
<1>2. OpenRows' = OpenRows /\ Slice' = Slice /\ rows' = rows
  BY OrderScaleEffect, OpenAtRest DEF Trades
<1>3. CASE GoneTo("release")
  BY <1>1, <1>2, <1>3, OrderScaleEffect, PassIs
     DEF GoneOn, GoneTo, Noted, Sized, LessToDo, ControlInv, RowOwned, Purposeful,
           InHandKept, Kept, At, Row, Others, RowIs
<1>4. CASE \E size \in Nat : Sized("book scale", size) /\ size <= pass.size
  <2>1. PICK size \in Nat : Sized("book scale", size) /\ size <= pass.size
    BY <1>4
  <2>2. pass.size \in Nat /\ pass.size <= Row.size /\ Row.size \in Nat
    BY <1>1, OpenTyped DEF ControlInv, Purposeful, At, RowsType
  <2>3. Row' = Row /\ size <= Row.size
    <3>1. Row' = Row
      BY <1>2, <2>1 DEF Row, Sized, InHandKept
    <3>2. size <= Row.size
      BY <2>1, <2>2, AtMost
    <3> QED BY <3>1, <3>2
  <2>4. RowOwned' /\ PassOK'
    BY <1>1, <1>2, <2>1, PassIs DEF Sized, ControlInv, RowOwned, InHandKept, Kept, At
  <2>5. Purposeful'
    BY <1>1, <2>1, <2>3 DEF Sized, ControlInv, Purposeful, InHandKept, Kept, At
  <2> QED BY <2>4, <2>5 DEF ControlInv
<1> QED BY <1>3, <1>4, OrderScaleEffect

LEMMA ControlBookScale ==
    ASSUME TypeInv, ControlInv, BookScale
    PROVE  PassOK' /\ ControlInv'
<1> USE DEF Owning, Stopping, Targeting, Ordering, SliceStages, Closing
<1>1. pass.at = "book scale"
  BY DEF BookScale, Book, At
<1> QED
  BY <1>1, BookScaleEffect, PassIs
     DEF GoneOn, GoneTo, Noted, Sized, LessToDo, ControlInv, RowOwned, Purposeful,
           InHandKept, Kept, At, Row, Others, RowIs

LEMMA ControlOrderClose ==
    ASSUME TypeInv, ControlInv, OrderClose
    PROVE  PassOK' /\ ControlInv'
<1> USE DEF Owning, Stopping, Targeting, Ordering, SliceStages, Closing
<1>1. pass.at = "order close"
  BY DEF OrderClose, At
<1>2. OpenRows' = OpenRows /\ Slice' = Slice /\ rows' = rows
  BY OrderCloseEffect, OpenAtRest DEF Trades
<1>3. CASE GoneTo("release")
  BY <1>1, <1>2, <1>3, OrderCloseEffect, PassIs
     DEF GoneOn, GoneTo, Noted, Sized, LessToDo, ControlInv, RowOwned, Purposeful,
           InHandKept, Kept, At, Row, Others, RowIs
<1>4. CASE GoneTo("book close")
  BY <1>1, <1>2, <1>4, OrderCloseEffect, PassIs
     DEF GoneOn, GoneTo, Noted, Sized, LessToDo, ControlInv, RowOwned, Purposeful,
           InHandKept, Kept, At, Row, Others, RowIs
<1> QED BY <1>3, <1>4, OrderCloseEffect

LEMMA ControlOrderAdd ==
    ASSUME TypeInv, ControlInv, OrderAdd
    PROVE  PassOK' /\ ControlInv'
<1> USE DEF Owning, Stopping, Targeting, Ordering, SliceStages, Closing
<1>1. pass.at = "order add"
  BY DEF OrderAdd, At
<1>2. OpenRows' = OpenRows /\ Slice' = Slice /\ rows' = rows
  BY OrderAddEffect, OpenAtRest DEF Trades
<1>3. CASE GoneTo("release")
  BY <1>1, <1>2, <1>3, OrderAddEffect, PassIs
     DEF GoneOn, GoneTo, Noted, Sized, LessToDo, ControlInv, RowOwned, Purposeful,
           InHandKept, Kept, At, Row, Others, RowIs
<1>4. CASE \E size \in Nat \ {0} : Sized("open slice", size)
  BY <1>1, <1>2, <1>4, OrderAddEffect, PassIs
     DEF GoneOn, GoneTo, Noted, Sized, LessToDo, ControlInv, RowOwned, Purposeful,
           InHandKept, Kept, At, Row, Others, RowIs
<1> QED BY <1>3, <1>4, OrderAddEffect

LEMMA ControlSliceStop ==
    ASSUME TypeInv, ControlInv, SliceStop
    PROVE  PassOK' /\ ControlInv'
<1> USE DEF Owning, Stopping, Targeting, Ordering, SliceStages, Closing
<1>1. pass.at = "slice stop"
  BY DEF SliceStop, At
<1>2. OpenRows' = OpenRows /\ Slice' = Slice /\ rows' = rows
  BY SliceStopEffect, OpenAtRest
<1>3. CASE Noted("slice take")
  BY <1>1, <1>2, <1>3, SliceStopEffect, PassIs
     DEF GoneOn, GoneTo, Noted, Sized, LessToDo, ControlInv, RowOwned, Purposeful,
           InHandKept, Kept, At, Row, Others, RowIs
<1>4. CASE Noted("slice close")
  BY <1>1, <1>2, <1>4, SliceStopEffect, PassIs
     DEF GoneOn, GoneTo, Noted, Sized, LessToDo, ControlInv, RowOwned, Purposeful,
           InHandKept, Kept, At, Row, Others, RowIs
<1> QED BY <1>3, <1>4, SliceStopEffect

LEMMA ControlSliceTake ==
    ASSUME TypeInv, ControlInv, SliceTake
    PROVE  PassOK' /\ ControlInv'
<1> USE DEF Owning, Stopping, Targeting, Ordering, SliceStages, Closing
<1>1. pass.at = "slice take"
  BY DEF SliceTake, At
<1>2. OpenRows' = OpenRows /\ Slice' = Slice /\ rows' = rows
  BY SliceTakeEffect, OpenAtRest
<1>3. CASE Noted("slice oids")
  BY <1>1, <1>2, <1>3, SliceTakeEffect, PassIs
     DEF GoneOn, GoneTo, Noted, Sized, LessToDo, ControlInv, RowOwned, Purposeful,
           InHandKept, Kept, At, Row, Others, RowIs
<1>4. CASE GoneTo("slice close")
  BY <1>1, <1>2, <1>4, SliceTakeEffect, PassIs
     DEF GoneOn, GoneTo, Noted, Sized, LessToDo, ControlInv, RowOwned, Purposeful,
           InHandKept, Kept, At, Row, Others, RowIs
<1> QED BY <1>3, <1>4, SliceTakeEffect

LEMMA ControlSliceClose ==
    ASSUME TypeInv, ControlInv, SliceClose
    PROVE  PassOK' /\ ControlInv'
<1> USE DEF Owning, Stopping, Targeting, Ordering, SliceStages, Closing
<1>1. pass.at = "slice close"
  BY DEF SliceClose, At
<1>2. OpenRows' = OpenRows /\ Slice' = Slice /\ rows' = rows
  BY UnseenEffect, OpenAtRest DEF Trades
<1> QED
  BY <1>1, <1>2, UnseenEffect, PassIs
     DEF GoneOn, GoneTo, Noted, Sized, LessToDo, ControlInv, RowOwned, Purposeful,
           InHandKept, Kept, At, Row, Others, RowIs

LEMMA ControlOrderResolve ==
    ASSUME TypeInv, ControlInv, OrderResolve
    PROVE  PassOK' /\ ControlInv'
<1> USE DEF Owning, Stopping, Targeting, Ordering, SliceStages, Closing
<1>1. pass.at = "order resolve"
  BY DEF OrderResolve, At
<1>2. OpenRows' = OpenRows /\ Slice' = Slice /\ rows' = rows
  BY UnseenEffect, OpenAtRest DEF Trades
<1> QED
  BY <1>1, <1>2, UnseenEffect, PassIs
     DEF GoneOn, GoneTo, Noted, Sized, LessToDo, ControlInv, RowOwned, Purposeful,
           InHandKept, Kept, At, Row, Others, RowIs

LEMMA ControlSliceCancel ==
    ASSUME TypeInv, ControlInv, SliceCancel
    PROVE  PassOK' /\ ControlInv'
<1> USE DEF Owning, Stopping, Targeting, Ordering, SliceStages, Closing
<1>1. pass.at = "slice cancel"
  BY DEF SliceCancel, At
<1>2. OpenRows' = OpenRows /\ Slice' = Slice /\ rows' = rows
  BY SliceCancelEffect, OpenAtRest
<1> QED
  BY <1>1, <1>2, SliceCancelEffect, PassIs
     DEF GoneOn, GoneTo, Noted, Sized, LessToDo, ControlInv, RowOwned, Purposeful,
           InHandKept, Kept, At, Row, Others, RowIs

LEMMA ControlSliceAbort ==
    ASSUME TypeInv, ControlInv, SliceAbort
    PROVE  PassOK' /\ ControlInv'
<1> USE DEF Owning, Stopping, Targeting, Ordering, SliceStages, Closing
<1>1. pass.at = "slice abort"
  BY DEF SliceAbort, At
<1> QED
  BY <1>1, SliceAbortEffect, PassIs
     DEF GoneOn, GoneTo, Noted, Sized, LessToDo, ControlInv, RowOwned, Purposeful,
           InHandKept, Kept, At, Row, Others, RowIs

LEMMA ControlSliceOids ==
    ASSUME TypeInv, ControlInv, SliceOids
    PROVE  PassOK' /\ ControlInv'
<1> USE DEF Owning, Stopping, Targeting, Ordering, SliceStages, Closing
<1>1. pass.at = "slice oids"
  BY DEF SliceOids, At
<1>2. /\ pass'.at = "log" /\ pass'.row = pass.row /\ pass'.for = pass.for
      /\ pass'.todo = pass.todo /\ PassOK'
  BY SliceOidsEffect, PassIs DEF GoneTo, InHandKept
<1>3. OpenRows' = OpenRows /\ DOMAIN rows' = DOMAIN rows /\ Slice' = Slice
  BY SliceOidsEffect DEF Others
<1>4. pass.row \in DOMAIN rows /\ pass.row < Slice
  BY <1>1, SliceOidsEffect, RowsFacts DEF ControlInv, RowOwned
<1>5. RowOwned'
  BY <1>1, <1>2, <1>3, <1>4 DEF ControlInv, RowOwned, At
<1>6. Purposeful'
  BY <1>2, <1>3, <1>4 DEF ControlInv, Purposeful, At
<1> QED BY <1>2, <1>5, <1>6 DEF ControlInv

LEMMA ControlBookClose ==
    ASSUME TypeInv, ControlInv, BookClose
    PROVE  PassOK' /\ ControlInv'
<1> USE DEF Owning, Stopping, Targeting, Ordering, SliceStages, Closing
<1>1. pass.at = "book close"
  BY DEF BookClose, Book, At
<1> QED
  BY <1>1, BookCloseEffect, PassIs
     DEF GoneOn, GoneTo, Noted, Sized, LessToDo, ControlInv, RowOwned, Purposeful,
           InHandKept, Kept, At, Row, Others, RowIs

LEMMA ControlCancelRow ==
    ASSUME TypeInv, ControlInv, CancelRow
    PROVE  PassOK' /\ ControlInv'
<1> USE DEF Owning, Stopping, Targeting, Ordering, SliceStages, Closing
<1>1. pass.at = "cancel row"
  BY DEF CancelRow, At
<1>2. OpenRows' = OpenRows /\ Slice' = Slice /\ rows' = rows
  BY CancelRowEffect, OpenAtRest
<1>3. CASE OpenRows = {} /\ GoneTo("sweep")
  BY <1>1, <1>2, <1>3, CancelRowEffect, PassIs
     DEF GoneOn, GoneTo, Noted, Sized, LessToDo, ControlInv, RowOwned, Purposeful,
           InHandKept, Kept, At, Row, Others, RowIs
<1>4. CASE OpenRows # {} /\ GoneTo("log")
  BY <1>1, <1>2, <1>4, CancelRowEffect, PassIs
     DEF GoneOn, GoneTo, Noted, Sized, LessToDo, ControlInv, RowOwned, Purposeful,
           InHandKept, Kept, At, Row, Others, RowIs
<1>5. CASE OpenRows # {} /\ GoneOn
  BY <1>1, <1>2, <1>5, CancelRowEffect, PassIs
     DEF GoneOn, GoneTo, Noted, Sized, LessToDo, ControlInv, RowOwned, Purposeful,
           InHandKept, Kept, At, Row, Others, RowIs
<1> QED BY <1>3, <1>4, <1>5, CancelRowEffect

LEMMA ControlSweep ==
    ASSUME TypeInv, ControlInv, Sweep
    PROVE  PassOK' /\ ControlInv'
<1> USE DEF Owning, Stopping, Targeting, Ordering, SliceStages, Closing
<1>1. pass.at = "sweep"
  BY DEF Sweep, At
<1>2. OpenRows' = OpenRows /\ Slice' = Slice /\ rows' = rows
  BY SweepEffect, OpenAtRest
<1>3. CASE GoneTo("log")
  BY <1>1, <1>2, <1>3, SweepEffect, PassIs
     DEF GoneOn, GoneTo, Noted, Sized, LessToDo, ControlInv, RowOwned, Purposeful,
           InHandKept, Kept, At, Row, Others, RowIs
<1>4. CASE GoneOn
  BY <1>1, <1>2, <1>4, SweepEffect, PassIs
     DEF GoneOn, GoneTo, Noted, Sized, LessToDo, ControlInv, RowOwned, Purposeful,
           InHandKept, Kept, At, Row, Others, RowIs
<1> QED BY <1>3, <1>4, SweepEffect

LEMMA ControlStartResolve ==
    ASSUME TypeInv, ControlInv, StartResolve
    PROVE  PassOK' /\ ControlInv'
<1> USE DEF Owning, Stopping, Targeting, Ordering, SliceStages, Closing
<1>1. pass.at = "manage"
  BY DEF StartResolve, At
<1>2. OpenRows' = OpenRows /\ Slice' = Slice /\ rows' = rows
  BY StartResolveEffect, OpenAtRest
<1> QED
  BY <1>1, <1>2, StartResolveEffect, PassIs
     DEF GoneOn, GoneTo, Noted, Sized, LessToDo, ControlInv, RowOwned, Purposeful,
           InHandKept, Kept, At, Row, Others, RowIs

LEMMA ControlLess ==
    ASSUME TypeInv, ControlInv, LessToDo, pass \in Passes, pass.at \in {"manage", "resolve"},
           OpenRows' = OpenRows, DOMAIN rows' = DOMAIN rows
    PROVE  PassOK' /\ ControlInv'
<1> USE DEF Owning, Stopping, Targeting, Ordering, SliceStages, Closing
<1> QED
  BY PassIs DEF LessToDo, ControlInv, RowOwned, Purposeful, InHandKept, Kept, At

LEMMA ControlJudge ==
    ASSUME TypeInv, ControlInv, Judge
    PROVE  PassOK' /\ ControlInv'
<1> USE DEF Owning, Stopping, Targeting, Ordering, SliceStages, Closing
<1>1. pass.at = "manage" /\ pass \in Passes
  BY JudgeEffect, InPass DEF At
<1>2. OpenRows' = OpenRows /\ Slice' = Slice /\ rows' = rows
  BY JudgeEffect, OpenAtRest
<1>3. PICK r \in pass.todo, level \in Int, size \in Int :
          r \in OpenRows /\ r \in Nat /\ rows[r] \in RowsType /\ Acted(r, level, size)
  BY JudgeEffect
<1>4. ASSUME NEW step \in Stages, NEW for \in Purposes, Does(r, step, level, size, for)
      PROVE  /\ PassOK' /\ pass'.at = step /\ pass'.row = r /\ pass'.todo = pass.todo \ {r}
             /\ pass'.for = for /\ pass'.size = size /\ Row' = rows[r]
  <2>1. /\ pass' \in Passes' /\ pass'.at = step /\ pass'.row = r /\ pass'.todo = pass.todo \ {r}
        /\ pass'.for = for /\ pass'.size = size
    BY <1>1, <1>3, <1>4, DoesIt
  <2> QED BY <1>2, <2>1, PassIs DEF Row
<1>5. pass.todo \subseteq OpenRows
  BY <1>1 DEF ControlInv, RowOwned, At
<1>6. CASE Does(r, "claim", level, size, "close")
  <2>1. "claim" \in Stages /\ "close" \in Purposes
    BY DEF Stages, Purposes
  <2> QED BY <1>2, <1>3, <1>4, <1>5, <1>6, <2>1 DEF ControlInv, RowOwned, Purposeful, At
<1>7. CASE Does(r, "place stop", level, size, "tighten")
  <2>1. "place stop" \in Stages /\ "tighten" \in Purposes
    BY DEF Stages, Purposes
  <2> QED BY <1>2, <1>3, <1>4, <1>5, <1>7, <2>1 DEF ControlInv, RowOwned, Purposeful, At
<1>8. CASE Does(r, "place stop", level, size, "add") /\ size \in Nat \ {0}
  <2>1. "place stop" \in Stages /\ "add" \in Purposes
    BY DEF Stages, Purposes
  <2> QED BY <1>2, <1>3, <1>4, <1>5, <1>8, <2>1 DEF ControlInv, RowOwned, Purposeful, At
<1>9. CASE Does(r, "claim", level, size, "scale") /\ size \in Nat /\ size <= rows[r].size
  <2>1. "claim" \in Stages /\ "scale" \in Purposes
    BY DEF Stages, Purposes
  <2> QED BY <1>2, <1>3, <1>4, <1>5, <1>9, <2>1 DEF ControlInv, RowOwned, Purposeful, At
<1>10. CASE Does(r, "place take", level, size, "extend")
  <2>1. "place take" \in Stages /\ "extend" \in Purposes
    BY DEF Stages, Purposes
  <2> QED BY <1>2, <1>3, <1>4, <1>5, <1>10, <2>1 DEF ControlInv, RowOwned, Purposeful, At
<1> QED BY <1>3, <1>6, <1>7, <1>8, <1>9, <1>10 DEF Acted

LEMMA ControlResolve ==
    ASSUME TypeInv, ControlInv, Resolve
    PROVE  PassOK' /\ ControlInv'
<1> USE DEF Owning, Stopping, Targeting, Ordering, SliceStages, Closing
<1>1. pass.at = "resolve" /\ pass \in Passes
  BY ResolveEffect DEF At
<1>2. OpenRows' = OpenRows /\ Slice' = Slice /\ rows' = rows
  BY ResolveEffect, OpenAtRest
<1>3. CASE LessToDo
  BY <1>1, <1>2, <1>3, ControlLess
<1>4. ASSUME NEW r \in pass.todo, NEW size \in Int, NEW step \in Closing,
             r \in OpenRows, r \in Nat, Does(r, step, 0, size, "resolve")
      PROVE  PassOK' /\ ControlInv'
  <2>1. step \in Stages /\ "resolve" \in Purposes
    BY DEF Stages, Purposes
  <2>2. /\ pass' \in Passes' /\ pass'.at = step /\ pass'.row = r /\ pass'.todo = pass.todo \ {r}
        /\ pass'.for = "resolve" /\ pass'.phase = pass.phase
    <3> HIDE DEF Owning, Stopping, Targeting, Ordering, SliceStages, Closing
    <3> QED BY <1>1, <1>4, <2>1, Zero, DoesIt DEF Kept
  <2>3. pass.todo \subseteq OpenRows /\ pass.phase = "resolve"
    BY <1>1 DEF ControlInv, RowOwned, Purposeful, At
  <2> QED BY <1>2, <1>4, <2>2, <2>3, PassIs DEF ControlInv, RowOwned, Purposeful, At
<1> QED BY <1>3, <1>4, ResolveEffect

LEMMA ControlOpenSlice ==
    ASSUME TypeInv, ControlInv, OpenSlice
    PROVE  PassOK' /\ ControlInv'
<1> USE DEF Owning, Stopping, Targeting, Ordering, SliceStages, Closing
<1>1. pass.at = "open slice" /\ pass \in Passes
  BY OpenSliceEffect DEF OpenSlice, At
<1>2. /\ OpenRows' = OpenRows \cup {Slice'} /\ Slice' \notin DOMAIN rows
      /\ OpenRows \subseteq DOMAIN rows
  BY OpenSliceEffect, RowsFacts DEF Grows
<1>3. /\ pass'.at = "slice stop" /\ pass'.row = pass.row /\ pass'.for = pass.for
      /\ pass'.todo = pass.todo /\ pass'.size = pass.size /\ PassOK'
  BY OpenSliceEffect, PassIs DEF GoneTo, InHandKept
<1>4. pass.row \in OpenRows /\ pass.row < Slice'
  BY OpenSliceEffect
<1>5. RowOwned'
  BY <1>1, <1>2, <1>3, <1>4 DEF ControlInv, RowOwned, At
<1>6. Purposeful'
  BY <1>1, <1>3 DEF ControlInv, Purposeful, At
<1> QED BY <1>3, <1>5, <1>6 DEF ControlInv

LEMMA ControlStart ==
    ASSUME TypeInv, StartPass
    PROVE  PassOK' /\ ControlInv'
<1> USE DEF Owning, Stopping, Targeting, Ordering, SliceStages, Closing
<1>1. PICK book \in SUBSET Nat : \E held : pass' = Manage(book, held) /\ book = OpenRows'
  BY Begins
<1>2. PICK held : pass' = Manage(book, held)
  BY <1>1
<1>3. /\ pass' \in Passes' /\ pass'.at = "manage" /\ pass'.todo = book
      /\ pass'.phase = "manage"
  BY <1>2, Managed
<1> QED BY <1>1, <1>3, PassIs DEF ControlInv, RowOwned, Purposeful, At

\* The steps around the pass.
Around == EndPass \/ Dies \/ IntervalPasses \/ Reconcile \/ Clears \/ TriggerFires \/ Moves

LEMMA AroundEffect ==
    ASSUME Around
    PROVE  rows' = rows /\ (pass' = Idle \/ pass' = pass) /\ UNCHANGED <<keys, sent>>
BY DEF Around, EndPass, Dies, IntervalPasses, Reconcile, Clears, TriggerFires, Moves, deskVars,
       Books

LEMMA ControlIdle ==
    ASSUME pass' = Idle
    PROVE  PassOK' /\ ControlInv'
<1> USE DEF Owning, Stopping, Targeting, Ordering, SliceStages, Closing
<1>1. pass'.at = "idle"
  BY DEF Idle
<1> QED BY <1>1, PassIs DEF ControlInv, RowOwned, Purposeful, At

LEMMA ControlKept ==
    ASSUME ControlInv, pass' = pass, rows' = rows
    PROVE  ControlInv'
<1>1. OpenRows' = OpenRows /\ Slice' = Slice /\ Row' = Row
  BY OpenAtRest DEF Row
<1>2. RowOwned'
  BY <1>1 DEF ControlInv, RowOwned, At
<1>3. Purposeful'
  BY <1>1 DEF ControlInv, Purposeful, At
<1> QED BY <1>2, <1>3 DEF ControlInv

LEMMA ControlAround ==
    ASSUME TypeInv, ControlInv, Around
    PROVE  PassOK' /\ ControlInv'
<1>1. CASE pass' = Idle
  BY <1>1, ControlIdle
<1>2. CASE pass' = pass
  <2>1. PassOK'
    BY <1>2, PassIs DEF TypeInv
  <2> QED BY <1>2, <2>1, AroundEffect, ControlKept
<1> QED BY <1>1, <1>2, AroundEffect

LEMMA ControlNext ==
    ASSUME TypeInv, ControlInv, Next
    PROVE  PassOK' /\ ControlInv'
<1>1. CASE PassOver \/ Holds
  <2>1. LessToDo /\ pass \in Passes /\ pass.at = "manage" /\ rows' = rows
    BY <1>1, PassOverEffect DEF At
  <2> QED BY <2>1, ControlLess, OpenAtRest
<1>2. CASE StartPass \/ Judge \/ Resolve \/ StartResolve \/ OpenSlice
  BY <1>2, ControlStart, ControlJudge, ControlResolve, ControlStartResolve, ControlOpenSlice
<1>3. CASE PlaceStop \/ CancelStop \/ BookStopOid \/ BookStop
  BY <1>3, ControlStops
<1>4. CASE PlaceTake \/ CancelTake \/ BookTakeOid \/ BookTake
  BY <1>4, ControlPlaceTake, ControlCancelTake, ControlBookTakeOid, ControlBookTake
<1>5. CASE LogAction \/ Claim \/ Release
  BY <1>5, ControlLogAction, ControlClaim, ControlRelease
<1>6. CASE OrderScale \/ BookScale \/ OrderClose \/ OrderAdd \/ OrderResolve
  BY <1>6, ControlOrderScale, ControlBookScale, ControlOrderClose, ControlOrderAdd,
     ControlOrderResolve
<1>7. CASE SliceStop \/ SliceTake \/ SliceClose \/ SliceCancel \/ SliceAbort \/ SliceOids
  BY <1>7, ControlSliceStop, ControlSliceTake, ControlSliceClose, ControlSliceCancel,
     ControlSliceAbort, ControlSliceOids
<1>8. CASE BookClose \/ CancelRow \/ Sweep
  BY <1>8, ControlBookClose, ControlCancelRow, ControlSweep
<1>9. CASE Around
  BY <1>9, ControlAround
<1> QED BY <1>1, <1>2, <1>3, <1>4, <1>5, <1>6, <1>7, <1>8, <1>9 DEF Next, Step, Around

LEMMA ControlInit ==
    ASSUME Init
    PROVE  TypeInv /\ ControlInv
<1> DEFINE stop == [oid |-> 1, kind |-> "stop", level |-> InitialStop, size |-> Size]
           take == [oid |-> 2, kind |-> "take", level |-> Target, size |-> Size]
           row == NewRow(Entry, InitialStop, Target, Size, 1, 2)
<1> USE DEF Owning, Stopping, Targeting, Ordering, SliceStages, Closing
<1>1. stop \in Triggers /\ take \in Triggers
  BY Constants DEF Triggers
<1>2. row \in RowsType /\ NoLog \in Logs
  BY Constants, NewRowTyped, NoLogTyped
<1>3. \/ triggers = {stop, take} /\ rows = <<row>> /\ log = <<NoLog>>
      \/ triggers = {stop} /\ rows = <<>> /\ log = <<>>
  BY DEF Init
<1>4. RowsTypeOK
  <2>1. <<row>> \in Seq(RowsType) /\ <<NoLog>> \in Seq(Logs) /\ Len(<<row>>) = 1 /\ Len(<<NoLog>>) = 1
    BY <1>2
  <2>2. <<>> \in Seq(RowsType) /\ <<>> \in Seq(Logs) /\ Len(<<>>) = 0
    OBVIOUS
  <2> HIDE DEF row
  <2>3. CASE triggers = {stop, take} /\ rows = <<row>> /\ log = <<NoLog>>
    BY <2>1, <2>3 DEF RowsTypeOK
  <2>4. CASE triggers = {stop} /\ rows = <<>> /\ log = <<>>
    BY <2>2, <2>4 DEF RowsTypeOK
  <2> QED BY <1>3, <2>3, <2>4
<1>5. BookTypeOK
  <2>1. mark \in Nat /\ pos \in Nat /\ oids \in Nat
    BY Constants DEF Init
  <2> HIDE DEF stop, take
  <2> QED BY <1>1, <1>3, <2>1 DEF BookTypeOK
<1>6. CountsOK /\ PassOK /\ pass.at = "idle"
  BY DEF Init, CountsOK, PassOK, Idle
<1> QED BY <1>4, <1>5, <1>6 DEF TypeInv, ControlInv, RowOwned, Purposeful, At

LEMMA TypeInvNext ==
    ASSUME TypeInv, ControlInv, [Next]_vars
    PROVE  TypeInv' /\ ControlInv'
<1>1. CASE Next
  BY <1>1, BookTypeNext, RowsTypeNext, CountsNext, ControlNext DEF TypeInv
<1>2. CASE UNCHANGED vars
  <2>1. OpenRows' = OpenRows /\ Slice' = Slice /\ UNCHANGED <<bookVars, deskVars>>
    BY <1>2, OpenAtRest DEF vars, deskVars
  <2>2. TypeInv'
    BY <2>1 DEF TypeInv, BookTypeOK, RowsTypeOK, CountsOK, PassOK, bookVars, deskVars, Passes
  <2>3. ControlInv'
    BY <2>1, ControlKept DEF deskVars
  <2> QED BY <2>2, <2>3
<1> QED BY <1>1, <1>2

-----------------------------------------------------------------------------
(* No trigger is left behind. *)

\* Steps that have an open row in hand and leave it open.
Held ==
    \/ PlaceStop \/ CancelStop \/ BookStopOid \/ BookStop
    \/ PlaceTake \/ CancelTake \/ BookTakeOid \/ BookTake
    \/ Claim \/ Release \/ OrderScale \/ BookScale \/ OrderClose \/ OrderAdd \/ OrderResolve
    \/ OpenSlice \/ SliceStop \/ SliceTake \/ SliceClose \/ SliceCancel \/ SliceAbort \/ SliceOids

LEMMA HeldStaysOpen ==
    ASSUME TypeInv, ControlInv, Held
    PROVE  OpenRows' # {}
<1>1. CASE PlaceStop \/ CancelStop \/ PlaceTake \/ CancelTake \/ SliceStop \/ SliceTake \/ SliceCancel
  <2>1. pass.row \in OpenRows /\ rows' = rows
    BY <1>1, PlaceStopEffect, CancelStopEffect, PlaceTakeEffect, CancelTakeEffect,
       SliceStopEffect, SliceTakeEffect, SliceCancelEffect
  <2> QED BY <2>1, OpenAtRest
<1>2. CASE BookStopOid \/ BookStop \/ BookTakeOid \/ BookTake \/ BookScale \/ SliceOids
  <2>1. pass.row \in OpenRows /\ OpenRows' = OpenRows
    BY <1>2, BookStopOidEffect, BookStopEffect, BookTakeOidEffect, BookTakeEffect, BookScaleEffect,
       SliceOidsEffect
  <2> QED BY <2>1
<1>3. CASE Claim \/ Release \/ OrderScale \/ OrderClose \/ OrderAdd \/ OrderResolve \/ SliceClose
  <2>1. pass.row \in OpenRows /\ rows' = rows
    BY <1>3, ClaimEffect, ReleaseEffect, OrderScaleEffect, OrderCloseEffect, OrderAddEffect,
       UnseenEffect DEF Trades
  <2> QED BY <2>1, OpenAtRest
<1>4. CASE OpenSlice
  BY <1>4, OpenSliceEffect DEF Grows
<1>5. CASE SliceAbort
  BY <1>5, SliceAbortEffect
<1> QED BY <1>1, <1>2, <1>3, <1>4, <1>5 DEF Held

LEMMA AmbushInit ==
    ASSUME Init
    PROVE  AmbushInv
<1> DEFINE stop == [oid |-> 1, kind |-> "stop", level |-> InitialStop, size |-> Size]
<1>1. CASE rows = <<>>
  <2>1. triggers = {stop} /\ pos = Size /\ At("idle")
    BY <1>1 DEF Init, At, Idle
  <2>2. stop.kind = "stop" /\ stop.size = Size
    OBVIOUS
  <2> HIDE DEF stop
  <2> QED BY <1>1, <2>1, <2>2 DEF AmbushInv, Pristine
<1>2. CASE rows = <<NewRow(Entry, InitialStop, Target, Size, 1, 2)>>
  <2>1. NewRow(Entry, InitialStop, Target, Size, 1, 2).status = "open"
    BY DEF NewRow
  <2>2. 1 \in DOMAIN rows /\ rows[1] = NewRow(Entry, InitialStop, Target, Size, 1, 2)
    BY <1>2
  <2>3. 1 \in OpenRows
    BY <2>1, <2>2 DEF OpenRows, Open
  <2> QED BY <2>3 DEF AmbushInv
<1> QED BY <1>1, <1>2 DEF Init

LEMMA AmbushNext ==
    ASSUME TypeInv, ControlInv, AmbushInv, [Next]_vars
    PROVE  AmbushInv'
<1>1. CASE Held
  BY <1>1, HeldStaysOpen DEF AmbushInv
<1>2. CASE StartPass
  <2>1. CASE Adopts
    BY <1>2, <2>1, AdoptsEffect DEF AmbushInv
  <2>2. CASE ~Adopts
    <3>1. UNCHANGED <<rows, triggers, past>> /\ At("idle")
      BY <1>2, <2>2, StartPassEffect DEF bookVars
    <3>2. Pristine /\ OpenRows = {} => Adopts
      BY Constants DEF Pristine, Adopts, Stops
    <3> QED BY <2>2, <3>1, <3>2, OpenAtRest DEF AmbushInv, At
  <2> QED BY <2>1, <2>2
<1>3. CASE PassOver \/ Holds \/ Judge \/ StartResolve \/ Resolve \/ LogAction \/ EndPass
  <2>1. UNCHANGED <<rows, triggers, past>>
    BY <1>3, PassOverEffect, JudgeEffect, StartResolveEffect, ResolveEffect, LogActionEffect
       DEF EndPass, Books, bookVars
  <2>2. pass.at \in {"manage", "resolve", "log"}
    BY <1>3 DEF PassOver, Holds, Judge, StartResolve, Resolve, LogAction, EndPass, At
  <2> QED BY <2>1, <2>2, OpenAtRest DEF AmbushInv, Pristine, At
<1>4. CASE BookClose
  BY <1>4, BookCloseEffect DEF AmbushInv, GoneTo
<1>5. CASE CancelRow
  <2>1. rows' = rows
    BY <1>5, CancelRowEffect
  <2>2. OpenRows = {} => pass'.at = "sweep"
    BY <1>5, CancelRowEffect DEF GoneTo
  <2> QED BY <2>1, <2>2, OpenAtRest DEF AmbushInv
<1>6. CASE Sweep
  <2>1. CASE CancelOids({t.oid : t \in triggers})
    BY <2>1 DEF CancelOids, AmbushInv
  <2> QED BY <1>6, <2>1, SweepEffect DEF AmbushInv
<1>7. CASE Dies
  <2>1. UNCHANGED <<rows, triggers>> /\ ~At("idle") /\ past \subseteq past'
    BY <1>7 DEF Dies, bookVars
  <2>2. pass.at \in {"cancel row", "sweep"} => "unswept" \in past'
    BY <1>7 DEF Dies, CutOff
  <2> QED BY <2>1, <2>2, OpenAtRest DEF AmbushInv, Pristine
<1>8. CASE TriggerFires
  <2>1. PICK t \in triggers : Fires(t)
    BY <1>8 DEF TriggerFires
  <2>2. triggers' = triggers \ {t} /\ rows' = rows /\ pass' = pass /\ past \subseteq past'
    BY <1>8, <2>1 DEF TriggerFires, Fires
  <2>3. Pristine => triggers' = {}
    BY <2>2 DEF Pristine
  <2>4. triggers # {}
    BY <2>1
  <2> QED BY <2>2, <2>3, <2>4, OpenAtRest DEF AmbushInv
<1>9. CASE IntervalPasses \/ Reconcile \/ Clears \/ Moves \/ UNCHANGED vars
  <2>1. UNCHANGED <<rows, triggers, past, pass, pos>>
    BY <1>9 DEF IntervalPasses, Reconcile, Clears, Moves, MarkMoves, vars, deskVars, bookVars
  <2> QED BY <2>1, OpenAtRest DEF AmbushInv, Pristine, At
<1> QED BY <1>1, <1>2, <1>3, <1>4, <1>5, <1>6, <1>7, <1>8, <1>9 DEF Next, Step, Held

\* Nothing rests where nothing is held and no row is open, but for a sweep that was refused
\* or never reached, whatever fires, fails or dies on the way.
THEOREM NothingLeftBehind == Spec => []NoAmbush
<1>1. Init => TypeInv /\ ControlInv /\ AmbushInv
  BY ControlInit, AmbushInit
<1>2. TypeInv /\ ControlInv /\ AmbushInv /\ [Next]_vars => (TypeInv /\ ControlInv /\ AmbushInv)'
  BY TypeInvNext, AmbushNext
<1>3. TypeInv /\ ControlInv /\ AmbushInv => NoAmbush
  <2>1. Pristine => pos # 0
    BY Constants DEF Pristine
  <2> QED BY <2>1 DEF AmbushInv, NoAmbush, At
<1> QED BY <1>1, <1>2, <1>3, PTL DEF Spec

-----------------------------------------------------------------------------
(* The budget of adds. *)

Slicing == pass.at \in SliceStages \/ (At("log") /\ pass.for = "add")

\* A step that takes no add further than its next stage, unless by a fault.
BookSteady ==
    /\ ~At("idle")' => /\ ~At("idle") /\ pass'.book = pass.book
                       /\ pass'.phase = "manage" =>
                              pass.phase = "manage" /\ pass'.todo \subseteq pass.todo
    /\ Adding' => Adding /\ pass'.row = pass.row
    /\ Slicing' => Slicing
Hastened == Unlogged => Unlogged' \/ faults' = faults + 1
Reclaimed == \A r \in Nat : Claimed(r)' => Claimed(r)
PassSteady == BookSteady /\ Hastened /\ Reclaimed

LEMMA SteadyStops ==
    ASSUME TypeInv, ControlInv, PlaceStop \/ CancelStop \/ BookStopOid \/ BookStop
    PROVE  PassSteady
<1> USE DEF Stopping, Targeting, Ordering, SliceStages
<1>1. CASE PlaceStop
  <2>1. pass.at = "place stop"
    BY <1>1 DEF PlaceStop, PlaceNew, At
  <2> QED
    BY <1>1, <2>1, PlaceStopEffect
       DEF GoneOn, GoneTo, Noted, Sized, LessToDo, ControlInv, Purposeful, InHandKept, Kept, At,
         PassSteady, BookSteady, Hastened, Reclaimed, Adding, Claimed, Slicing, Unlogged
<1>2. CASE CancelStop
  <2>1. pass.at = "cancel stop"
    BY <1>2 DEF CancelStop, CancelOld, At
  <2> QED
    BY <1>2, <2>1, CancelStopEffect
       DEF GoneOn, GoneTo, Noted, Sized, LessToDo, ControlInv, Purposeful, InHandKept, Kept, At,
         PassSteady, BookSteady, Hastened, Reclaimed, Adding, Claimed, Slicing, Unlogged
<1>3. CASE BookStopOid
  <2>1. pass.at = "book stop oid"
    BY <1>3 DEF BookStopOid, Book, At
  <2> QED
    BY <1>3, <2>1, BookStopOidEffect
       DEF GoneOn, GoneTo, Noted, Sized, LessToDo, ControlInv, Purposeful, InHandKept, Kept, At,
         PassSteady, BookSteady, Hastened, Reclaimed, Adding, Claimed, Slicing, Unlogged
<1>4. CASE BookStop
  <2>1. pass.at = "book stop"
    BY <1>4 DEF BookStop, Book, At
  <2> QED
    BY <1>4, <2>1, BookStopEffect
       DEF GoneOn, GoneTo, Noted, Sized, LessToDo, ControlInv, Purposeful, InHandKept, Kept, At,
         PassSteady, BookSteady, Hastened, Reclaimed, Adding, Claimed, Slicing, Unlogged
<1> QED BY <1>1, <1>2, <1>3, <1>4

LEMMA SteadyTakes ==
    ASSUME TypeInv, ControlInv, PlaceTake \/ CancelTake \/ BookTakeOid \/ BookTake
    PROVE  PassSteady
<1> USE DEF Stopping, Targeting, Ordering, SliceStages
<1>1. CASE PlaceTake
  <2>1. pass.at = "place take"
    BY <1>1 DEF PlaceTake, PlaceNew, At
  <2> QED
    BY <1>1, <2>1, PlaceTakeEffect
       DEF GoneOn, GoneTo, Noted, Sized, LessToDo, ControlInv, Purposeful, InHandKept, Kept, At,
         PassSteady, BookSteady, Hastened, Reclaimed, Adding, Claimed, Slicing, Unlogged
<1>2. CASE CancelTake
  <2>1. pass.at = "cancel take"
    BY <1>2 DEF CancelTake, CancelOld, At
  <2> QED
    BY <1>2, <2>1, CancelTakeEffect
       DEF GoneOn, GoneTo, Noted, Sized, LessToDo, ControlInv, Purposeful, InHandKept, Kept, At,
         PassSteady, BookSteady, Hastened, Reclaimed, Adding, Claimed, Slicing, Unlogged
<1>3. CASE BookTakeOid
  <2>1. pass.at = "book take oid"
    BY <1>3 DEF BookTakeOid, Book, At
  <2> QED
    BY <1>3, <2>1, BookTakeOidEffect
       DEF GoneOn, GoneTo, Noted, Sized, LessToDo, ControlInv, Purposeful, InHandKept, Kept, At,
         PassSteady, BookSteady, Hastened, Reclaimed, Adding, Claimed, Slicing, Unlogged
<1>4. CASE BookTake
  <2>1. pass.at = "book take"
    BY <1>4 DEF BookTake, Book, At
  <2> QED
    BY <1>4, <2>1, BookTakeEffect
       DEF GoneOn, GoneTo, Noted, Sized, LessToDo, ControlInv, Purposeful, InHandKept, Kept, At,
         PassSteady, BookSteady, Hastened, Reclaimed, Adding, Claimed, Slicing, Unlogged
<1> QED BY <1>1, <1>2, <1>3, <1>4

LEMMA SteadyOrders ==
    ASSUME TypeInv, ControlInv, OrderScale \/ BookScale \/ OrderClose \/ OrderResolve
    PROVE  PassSteady
<1> USE DEF Stopping, Targeting, Ordering, SliceStages
<1>1. CASE OrderScale
  <2>1. pass.at = "order scale"
    BY <1>1 DEF OrderScale, At
  <2> QED
    BY <1>1, <2>1, OrderScaleEffect
       DEF GoneOn, GoneTo, Noted, Sized, LessToDo, ControlInv, Purposeful, InHandKept, Kept, At,
         PassSteady, BookSteady, Hastened, Reclaimed, Adding, Claimed, Slicing, Unlogged
<1>2. CASE BookScale
  <2>1. pass.at = "book scale"
    BY <1>2 DEF BookScale, Book, At
  <2> QED
    BY <1>2, <2>1, BookScaleEffect
       DEF GoneOn, GoneTo, Noted, Sized, LessToDo, ControlInv, Purposeful, InHandKept, Kept, At,
         PassSteady, BookSteady, Hastened, Reclaimed, Adding, Claimed, Slicing, Unlogged
<1>3. CASE OrderClose
  <2>1. pass.at = "order close"
    BY <1>3 DEF OrderClose, At
  <2> QED
    BY <1>3, <2>1, OrderCloseEffect
       DEF GoneOn, GoneTo, Noted, Sized, LessToDo, ControlInv, Purposeful, InHandKept, Kept, At,
         PassSteady, BookSteady, Hastened, Reclaimed, Adding, Claimed, Slicing, Unlogged
<1>4. CASE OrderResolve
  <2>1. pass.at = "order resolve"
    BY <1>4 DEF OrderResolve, At
  <2> QED
    BY <1>4, <2>1, UnseenEffect
       DEF GoneOn, GoneTo, Noted, Sized, LessToDo, ControlInv, Purposeful, InHandKept, Kept, At,
         PassSteady, BookSteady, Hastened, Reclaimed, Adding, Claimed, Slicing, Unlogged
<1> QED BY <1>1, <1>2, <1>3, <1>4

LEMMA SteadySlice ==
    ASSUME TypeInv, ControlInv, SliceStop \/ SliceTake \/ SliceClose \/ SliceCancel \/ SliceAbort \/ SliceOids
    PROVE  PassSteady
<1> USE DEF Stopping, Targeting, Ordering, SliceStages
<1>1. CASE SliceStop
  <2>1. pass.at = "slice stop"
    BY <1>1 DEF SliceStop, At
  <2> QED
    BY <1>1, <2>1, SliceStopEffect
       DEF GoneOn, GoneTo, Noted, Sized, LessToDo, ControlInv, Purposeful, InHandKept, Kept, At,
         PassSteady, BookSteady, Hastened, Reclaimed, Adding, Claimed, Slicing, Unlogged
<1>2. CASE SliceTake
  <2>1. pass.at = "slice take"
    BY <1>2 DEF SliceTake, At
  <2> QED
    BY <1>2, <2>1, SliceTakeEffect
       DEF GoneOn, GoneTo, Noted, Sized, LessToDo, ControlInv, Purposeful, InHandKept, Kept, At,
         PassSteady, BookSteady, Hastened, Reclaimed, Adding, Claimed, Slicing, Unlogged
<1>3. CASE SliceClose
  <2>1. pass.at = "slice close"
    BY <1>3 DEF SliceClose, At
  <2> QED
    BY <1>3, <2>1, UnseenEffect
       DEF GoneOn, GoneTo, Noted, Sized, LessToDo, ControlInv, Purposeful, InHandKept, Kept, At,
         PassSteady, BookSteady, Hastened, Reclaimed, Adding, Claimed, Slicing, Unlogged
<1>4. CASE SliceCancel
  <2>1. pass.at = "slice cancel"
    BY <1>4 DEF SliceCancel, At
  <2> QED
    BY <1>4, <2>1, SliceCancelEffect
       DEF GoneOn, GoneTo, Noted, Sized, LessToDo, ControlInv, Purposeful, InHandKept, Kept, At,
         PassSteady, BookSteady, Hastened, Reclaimed, Adding, Claimed, Slicing, Unlogged
<1>5. CASE SliceAbort
  <2>1. pass.at = "slice abort"
    BY <1>5 DEF SliceAbort, At
  <2> QED
    BY <1>5, <2>1, SliceAbortEffect
       DEF GoneOn, GoneTo, Noted, Sized, LessToDo, ControlInv, Purposeful, InHandKept, Kept, At,
         PassSteady, BookSteady, Hastened, Reclaimed, Adding, Claimed, Slicing, Unlogged
<1>6. CASE SliceOids
  <2>1. pass.at = "slice oids"
    BY <1>6 DEF SliceOids, At
  <2> QED
    BY <1>6, <2>1, SliceOidsEffect
       DEF GoneOn, GoneTo, Noted, Sized, LessToDo, ControlInv, Purposeful, InHandKept, Kept, At,
         PassSteady, BookSteady, Hastened, Reclaimed, Adding, Claimed, Slicing, Unlogged
<1> QED BY <1>1, <1>2, <1>3, <1>4, <1>5, <1>6

LEMMA SteadyCloses ==
    ASSUME TypeInv, ControlInv, BookClose \/ CancelRow \/ Sweep
    PROVE  PassSteady
<1> USE DEF Stopping, Targeting, Ordering, SliceStages
<1>1. CASE BookClose
  <2>1. pass.at = "book close"
    BY <1>1 DEF BookClose, Book, At
  <2> QED
    BY <1>1, <2>1, BookCloseEffect
       DEF GoneOn, GoneTo, Noted, Sized, LessToDo, ControlInv, Purposeful, InHandKept, Kept, At,
         PassSteady, BookSteady, Hastened, Reclaimed, Adding, Claimed, Slicing, Unlogged
<1>2. CASE CancelRow
  <2>1. pass.at = "cancel row"
    BY <1>2 DEF CancelRow, At
  <2> QED
    BY <1>2, <2>1, CancelRowEffect
       DEF GoneOn, GoneTo, Noted, Sized, LessToDo, ControlInv, Purposeful, InHandKept, Kept, At,
         PassSteady, BookSteady, Hastened, Reclaimed, Adding, Claimed, Slicing, Unlogged
<1>3. CASE Sweep
  <2>1. pass.at = "sweep"
    BY <1>3 DEF Sweep, At
  <2> QED
    BY <1>3, <2>1, SweepEffect
       DEF GoneOn, GoneTo, Noted, Sized, LessToDo, ControlInv, Purposeful, InHandKept, Kept, At,
         PassSteady, BookSteady, Hastened, Reclaimed, Adding, Claimed, Slicing, Unlogged
<1> QED BY <1>1, <1>2, <1>3

LEMMA SteadyRest ==
    ASSUME TypeInv, ControlInv,
           PassOver \/ Holds \/ StartResolve \/ Resolve \/ Around \/ UNCHANGED vars
    PROVE  PassSteady
<1> USE DEF Stopping, Targeting, Ordering, SliceStages
<1>1. CASE LessToDo /\ pass.at \in {"manage", "resolve"}
  BY <1>1 DEF LessToDo, InHandKept, Kept, At, PassSteady, BookSteady, Hastened, Reclaimed, Adding, Claimed, Slicing, Unlogged
<1>2. CASE PassOver \/ Holds
  BY <1>1, <1>2, PassOverEffect DEF At
<1>3. CASE StartResolve
  <2>1. pass.at = "manage"
    BY <1>3 DEF StartResolve, At
  <2>2. pass'.at = "resolve" /\ pass'.phase = "resolve" /\ pass'.book = pass.book
    BY <1>3, StartResolveEffect
  <2> QED BY <2>1, <2>2 DEF At, PassSteady, BookSteady, Hastened, Reclaimed, Adding, Claimed, Slicing, Unlogged
<1>4. CASE Resolve
  <2>1. pass.at = "resolve" /\ pass \in Passes /\ pass.phase = "resolve"
    BY <1>4, ResolveEffect DEF At, ControlInv, Purposeful
  <2>2. ASSUME NEW r \in pass.todo, NEW size \in Int, NEW step \in Closing,
               r \in Nat, Does(r, step, 0, size, "resolve")
        PROVE  PassSteady
    <3>1. step \in Stages /\ "resolve" \in Purposes
      BY DEF Stages, Purposes
    <3>2. /\ pass'.at = step /\ pass'.for = "resolve" /\ pass'.phase = pass.phase
          /\ pass'.book = pass.book
      <4> HIDE DEF Stopping, Targeting, Ordering, SliceStages
      <4> QED BY <2>1, <2>2, <3>1, Zero, DoesIt DEF Kept
    <3> QED BY <2>1, <3>2 DEF Closing, At, PassSteady, BookSteady, Hastened, Reclaimed, Adding, Claimed, Slicing, Unlogged
  <2> QED BY <1>1, <1>4, <2>1, <2>2, ResolveEffect
<1>5. CASE EndPass
  <2>1. pass.at = "resolve" /\ pass' = Idle
    BY <1>5 DEF EndPass, At
  <2> QED BY <2>1 DEF Idle, At, PassSteady, BookSteady, Hastened, Reclaimed, Adding, Claimed, Slicing, Unlogged
<1>6. CASE Dies
  <2>1. faults' = faults + 1 /\ pass' = Idle
    BY <1>6 DEF Dies, Faulty
  <2> QED BY <2>1 DEF Idle, At, PassSteady, BookSteady, Hastened, Reclaimed, Adding, Claimed, Slicing, Unlogged
<1>7. CASE IntervalPasses \/ Reconcile \/ Clears \/ TriggerFires \/ Moves \/ UNCHANGED vars
  <2>1. pass' = pass
    BY <1>7 DEF IntervalPasses, Reconcile, Clears, TriggerFires, Moves, vars, deskVars
  <2> QED BY <2>1 DEF At, PassSteady, BookSteady, Hastened, Reclaimed, Adding, Claimed, Slicing, Unlogged
<1> QED BY <1>2, <1>3, <1>4, <1>5, <1>6, <1>7 DEF Around

LEMMA Fewer ==
    ASSUME NEW S, IsFiniteSet(S), NEW T, T \subseteq S
    PROVE  /\ IsFiniteSet(T) /\ Cardinality(T) \in Nat /\ Cardinality(S) \in Nat
           /\ Cardinality(T) <= Cardinality(S)
BY FS_Subset, FS_CardinalityType

LEMMA OneMore ==
    ASSUME NEW S, IsFiniteSet(S), NEW x, NEW T, T \subseteq S \cup {x}
    PROVE  /\ IsFiniteSet(T) /\ Cardinality(T) \in Nat /\ Cardinality(S) \in Nat
           /\ Cardinality(T) <= Cardinality(S) + 1
<1>1. /\ IsFiniteSet(S \cup {x}) /\ Cardinality(S) \in Nat
      /\ Cardinality(S \cup {x}) <= Cardinality(S) + 1
  <2>1. Cardinality(S) \in Nat
    BY FS_CardinalityType
  <2>2. /\ IsFiniteSet(S \cup {x})
        /\ Cardinality(S \cup {x}) = IF x \in S THEN Cardinality(S) ELSE Cardinality(S) + 1
    BY FS_AddElement
  <2> QED BY <2>1, <2>2
<1>2. /\ IsFiniteSet(T) /\ Cardinality(T) \in Nat /\ Cardinality(S \cup {x}) \in Nat
      /\ Cardinality(T) <= Cardinality(S \cup {x})
  BY <1>1, Fewer
<1> QED BY <1>1, <1>2

LEMMA OneLess ==
    ASSUME NEW S, IsFiniteSet(S), NEW x, x \notin S, NEW T, S \cup {x} \subseteq T, IsFiniteSet(T)
    PROVE  Cardinality(S) + 1 <= Cardinality(T)
<1>1. IsFiniteSet(S \cup {x}) /\ Cardinality(S \cup {x}) = Cardinality(S) + 1
  BY FS_AddElement
<1> QED BY <1>1, Fewer

\* The adds on record are rows, each younger than the row it is on record with.
LEMMA AddsAreRows ==
    ASSUME TypeInv, AddsLogged
    PROVE  /\ Adds \subseteq 1..Len(rows) /\ IsFiniteSet(Adds)
           /\ \A r : IsFiniteSet(AddsFrom(r)) /\ Cardinality(AddsFrom(r)) \in Nat
           /\ IsFiniteSet(AddsOfBook) /\ Cardinality(AddsOfBook) \in Nat
<1>1. Len(rows) \in Nat /\ DOMAIN log = 1..Len(rows)
  BY RowsFacts
<1>2. Adds \subseteq 1..Len(rows)
  <2>1. ASSUME NEW o \in DOMAIN log PROVE log[o].adds \subseteq 1..Len(rows)
    BY <1>1, <2>1 DEF AddsLogged
  <2> QED BY <2>1 DEF Adds
<1>3. IsFiniteSet(1..Len(rows))
  BY <1>1, FS_Interval
<1>4. IsFiniteSet(Adds)
  BY <1>2, <1>3, Fewer
<1>5. ASSUME NEW r PROVE IsFiniteSet(AddsFrom(r)) /\ Cardinality(AddsFrom(r)) \in Nat
  <2>1. AddsFrom(r) \subseteq Adds
    BY DEF AddsFrom
  <2> QED BY <1>4, <2>1, Fewer
<1>6. AddsOfBook \subseteq Adds
  BY DEF AddsOfBook
<1> QED BY <1>2, <1>4, <1>5, <1>6, Fewer

\* The adds sent and the keys claimed for them are finitely many.
LEMMA SentFinite ==
    ASSUME TypeInv
    PROVE  /\ IsFiniteSet(DOMAIN sent) /\ Len(sent) \in Nat /\ DOMAIN sent = 1..Len(sent)
           /\ \A r : IsFiniteSet(SentBy(r)) /\ Cardinality(SentBy(r)) \in Nat
           /\ \A r : IsFiniteSet(SentSince(r)) /\ Cardinality(SentSince(r)) \in Nat
           /\ \A r : /\ IsFiniteSet(Ordinals(r)) /\ Cardinality(Ordinals(r)) \in Nat
                     /\ Cardinality(Ordinals(r)) <= MaxAdds
<1>1. DOMAIN sent = 1..Len(sent) /\ Len(sent) \in Nat
  BY DEF TypeInv, CountsOK
<1>2. IsFiniteSet(DOMAIN sent)
  BY <1>1, FS_Interval
<1>3. ASSUME NEW r PROVE SentBy(r) \subseteq DOMAIN sent /\ SentSince(r) \subseteq DOMAIN sent
  BY DEF SentBy, SentSince
<1>4. IsFiniteSet(0..(MaxAdds - 1)) /\ Cardinality(0..(MaxAdds - 1)) = MaxAdds
  <2>1. 0 \in Int /\ MaxAdds - 1 \in Int /\ MaxAdds \in Nat
    BY Constants
  <2> QED BY <2>1, FS_Interval
<1>5. ASSUME NEW r PROVE Ordinals(r) \subseteq 0..(MaxAdds - 1)
  BY DEF Ordinals
<1> QED BY <1>1, <1>2, <1>3, <1>4, <1>5, Fewer

\* Steps that neither log an add nor send one, nor decide on one.
Steady ==
    \/ PlaceStop \/ CancelStop \/ BookStopOid \/ BookStop
    \/ PlaceTake \/ CancelTake \/ BookTakeOid \/ BookTake
    \/ OrderScale \/ BookScale \/ OrderClose \/ OrderResolve
    \/ SliceStop \/ SliceTake \/ SliceClose \/ SliceCancel \/ SliceAbort \/ SliceOids
    \/ BookClose \/ CancelRow \/ Sweep
    \/ PassOver \/ Holds \/ StartResolve \/ Resolve \/ Around \/ UNCHANGED vars

RowsSteady ==
    /\ DOMAIN rows' = DOMAIN rows /\ Len(rows') = Len(rows) /\ Slice' = Slice
    /\ OpenRows' \subseteq OpenRows
    /\ DOMAIN log' = DOMAIN log /\ \A o \in DOMAIN log : log'[o].adds = log[o].adds

LEMMA SteadyEffect ==
    ASSUME TypeInv, ControlInv, Steady
    PROVE  RowsSteady /\ PassSteady /\ keys' = keys /\ sent' = sent
<1>1. PassSteady
  BY SteadyStops, SteadyTakes, SteadyOrders, SteadySlice, SteadyCloses, SteadyRest DEF Steady
<1>2. ASSUME rows' = rows, log' = log PROVE RowsSteady
  BY <1>2, OpenAtRest DEF RowsSteady
<1>3. ASSUME NEW r, Others(r), OpenRows' \subseteq OpenRows PROVE RowsSteady
  BY <1>3 DEF RowsSteady, Others
<1>4. CASE \/ PlaceStop \/ CancelStop \/ PlaceTake \/ CancelTake
           \/ SliceStop \/ SliceTake \/ SliceCancel \/ CancelRow
  <2>1. UNCHANGED <<rows, log, keys, sent>>
    BY <1>4, PlaceStopEffect, CancelStopEffect, PlaceTakeEffect, CancelTakeEffect,
       SliceStopEffect, SliceTakeEffect, SliceCancelEffect, CancelRowEffect
  <2> QED BY <1>1, <1>2, <2>1
<1>5. CASE OrderScale \/ OrderClose \/ OrderResolve \/ SliceClose \/ Sweep
  <2>1. UNCHANGED <<rows, log, keys, sent>>
    BY <1>5, OrderScaleEffect, OrderCloseEffect, UnseenEffect, SweepEffect DEF Trades
  <2> QED BY <1>1, <1>2, <2>1
<1>6. CASE PassOver \/ StartResolve \/ Resolve
  <2>1. UNCHANGED <<rows, log, keys, sent>>
    BY <1>6, PassOverEffect, StartResolveEffect, ResolveEffect DEF PassOver
  <2> QED BY <1>1, <1>2, <2>1
<1>7. CASE EndPass \/ Dies \/ Reconcile \/ Clears \/ TriggerFires \/ Moves \/ UNCHANGED vars
  <2>1. UNCHANGED <<rows, log, keys, sent>>
    BY <1>7 DEF EndPass, Dies, Reconcile, Clears, TriggerFires, Moves, Books, vars, deskVars
  <2> QED BY <1>1, <1>2, <2>1
<1>8. CASE BookStopOid \/ BookStop \/ BookTakeOid \/ BookTake \/ BookScale \/ BookClose
  <2>1. Others(pass.row) /\ OpenRows' \subseteq OpenRows /\ keys' = keys /\ sent' = sent
    BY <1>8, BookStopOidEffect, BookStopEffect, BookTakeOidEffect, BookTakeEffect, BookScaleEffect,
       BookCloseEffect
  <2> QED BY <1>1, <1>3, <2>1
<1>9. CASE SliceAbort \/ SliceOids
  <2>1. Others(Slice) /\ OpenRows' \subseteq OpenRows /\ keys' = keys /\ sent' = sent
    BY <1>9, SliceAbortEffect, SliceOidsEffect
  <2> QED BY <1>1, <1>3, <2>1
<1>10. CASE Holds \/ IntervalPasses
  <2>1. ~LogAction
    BY <1>10 DEF Holds, IntervalPasses, LogAction, At
  <2>2. rows' = rows /\ keys' = keys /\ sent' = sent
    BY <1>10 DEF Holds, IntervalPasses
  <2>3. PICK r \in DOMAIN log, entry \in Logs :
            log' = [log EXCEPT ![r] = entry] /\ entry.adds = log[r].adds
    BY <1>10, <2>1, LoggingEffect DEF Logging
  <2>4. DOMAIN log' = DOMAIN log /\ \A o \in DOMAIN log : log'[o].adds = log[o].adds
    BY <2>3
  <2> QED BY <1>1, <2>2, <2>4, OpenAtRest DEF RowsSteady
<1> QED BY <1>4, <1>5, <1>6, <1>7, <1>8, <1>9, <1>10 DEF Steady, Around

LEMMA SteadyBudget ==
    ASSUME TypeInv, ControlInv, AddsInv, RowsSteady
    PROVE  /\ Adds' = Adds /\ \A r : AddsFrom(r)' = AddsFrom(r)
           /\ BookSteady => AddsLogged' /\ BookIsOldest' /\ WithinBudget'
<1>1. Adds' = Adds /\ DOMAIN log' = DOMAIN log
  BY DEF RowsSteady, Adds
<1>2. \A r : AddsFrom(r)' = AddsFrom(r)
  BY <1>1 DEF AddsFrom
<1>3. ASSUME BookSteady PROVE AddsLogged'
  BY <1>1, <1>3 DEF AddsInv, AddsLogged, RowsSteady, BookSteady, Slicing
<1>4. ASSUME BookSteady PROVE BookIsOldest'
  BY <1>4 DEF AddsInv, BookIsOldest, RowsSteady, BookSteady, Adding, At
<1>5. ASSUME BookSteady PROVE WithinBudget'
  <2>1. Adding' => AddsOfBook' = AddsOfBook /\ Adding
    <3>1. Adding' => ~At("idle")'
      BY DEF Adding, At, Stopping, Ordering, SliceStages
    <3> QED BY <1>1, <1>5, <3>1 DEF BookSteady, AddsOfBook
  <2> QED BY <1>2, <2>1 DEF AddsInv, WithinBudget, RowsSteady
<1> QED BY <1>1, <1>2, <1>3, <1>4, <1>5

LEMMA SteadyPaid ==
    ASSUME TypeInv, ControlInv, AddsInv, RowsSteady, sent' = sent, Hastened,
           faults' \in {faults, faults + 1}
    PROVE  SentEarlier' /\ AddsPaid'
<1>1. \A r : SentSince(r)' = SentSince(r)
  BY DEF SentSince
<1>2. SentEarlier'
  BY DEF AddsInv, SentEarlier, RowsSteady
<1>3. AddsPaid'
  <2>1. ASSUME NEW r \in DOMAIN rows'
        PROVE  Cardinality(SentSince(r)')
                 <= Cardinality(AddsFrom(r)') + faults' + (IF Unlogged' THEN 1 ELSE 0)
    <3>1. r \in DOMAIN rows
      BY <2>1 DEF RowsSteady
    <3>2. /\ Cardinality(SentSince(r)) \in Nat /\ Cardinality(AddsFrom(r)) \in Nat
          /\ faults \in Nat
      BY SentFinite, AddsAreRows DEF AddsInv, TypeInv, CountsOK
    <3>3. Unlogged => Unlogged' \/ faults' = faults + 1
      BY DEF Hastened
    <3>4. Cardinality(SentSince(r))
            <= Cardinality(AddsFrom(r)) + faults + (IF Unlogged THEN 1 ELSE 0)
      BY <3>1 DEF AddsInv, AddsPaid
    <3>5. AddsFrom(r)' = AddsFrom(r)
      BY SteadyBudget
    <3> QED BY <1>1, <3>2, <3>3, <3>4, <3>5
  <2> QED BY <2>1 DEF AddsPaid
<1> QED BY <1>2, <1>3

\* The row of a claimed add is on record, and an add's key counts the adds on record with it.
LEMMA ClaimedRow ==
    ASSUME TypeInv, ControlInv, NEW r, Claimed(r)
    PROVE  r \in DOMAIN log /\ r \in DOMAIN rows /\ r = pass.row /\ pass.for = "add"
BY RowsFacts DEF Claimed, ControlInv, RowOwned, Owning, Ordering

LEMMA SteadyKeys ==
    ASSUME TypeInv, ControlInv, AddsInv, RowsSteady, keys' = keys, sent' = sent, Reclaimed
    PROVE  KeysPaid'
<1>1. \A r : SentBy(r)' = SentBy(r) /\ Ordinals(r)' = Ordinals(r)
  BY DEF SentBy, Ordinals
<1>2. ASSUME NEW r \in Nat, Claimed(r)' PROVE Key' \in keys'
  <2>1. Claimed(r) /\ pass'.row = r /\ pass'.for = "add"
    BY <1>2 DEF Reclaimed, Claimed
  <2>2. Key' = Key
    BY <2>1, ClaimedRow DEF Key, RowsSteady
  <2> QED BY <2>1, <2>2 DEF AddsInv, KeysPaid
<1>3. ASSUME NEW r \in DOMAIN rows'
      PROVE  Cardinality(SentBy(r)') + (IF Claimed(r)' THEN 1 ELSE 0) <= Cardinality(Ordinals(r)')
  <2>1. r \in DOMAIN rows /\ r \in Nat
    BY <1>3, RowsFacts DEF RowsSteady
  <2>2. Cardinality(SentBy(r)) \in Nat /\ Cardinality(Ordinals(r)) \in Nat
    BY SentFinite
  <2>3. Claimed(r)' => Claimed(r)
    BY <2>1 DEF Reclaimed
  <2>4. Cardinality(SentBy(r)) + (IF Claimed(r) THEN 1 ELSE 0) <= Cardinality(Ordinals(r))
    BY <2>1 DEF AddsInv, KeysPaid
  <2> QED BY <1>1, <2>2, <2>3, <2>4
<1> QED BY <1>2, <1>3 DEF KeysPaid

LEMMA AddsSteady ==
    ASSUME TypeInv, ControlInv, AddsInv, Steady, faults' \in {faults, faults + 1}
    PROVE  AddsInv'
BY SteadyEffect, SteadyBudget, SteadyPaid, SteadyKeys DEF PassSteady, AddsInv

\* A verdict to add is within the budget.
LEMMA AddsJudge ==
    ASSUME TypeInv, ControlInv, AddsInv, Judge
    PROVE  AddsInv'
<1> USE DEF Stopping, Targeting, Ordering, SliceStages
<1>1. pass.at = "manage" /\ pass \in Passes /\ pass.phase = "manage"
  BY JudgeEffect, InPass DEF At, ControlInv, Purposeful
<1>2. RowsSteady /\ keys' = keys /\ sent' = sent /\ faults' = faults
  BY JudgeEffect, OpenAtRest DEF RowsSteady
<1>3. PICK r \in pass.todo, level \in Int, size \in Int :
          r \in OpenRows /\ r \in Nat /\ rows[r] \in RowsType /\ Acted(r, level, size)
  BY JudgeEffect
<1>4. ASSUME NEW step \in Stages, NEW for \in Purposes, Does(r, step, level, size, for)
      PROVE  /\ pass'.at = step /\ pass'.row = r /\ pass'.todo \subseteq pass.todo
             /\ pass'.for = for /\ pass'.book = pass.book /\ pass'.phase = pass.phase
  <2> HIDE DEF Stopping, Targeting, Ordering, SliceStages
  <2> QED BY <1>1, <1>3, <1>4, DoesIt DEF Kept
<1>5. /\ pass'.at \in {"claim", "place stop", "place take"} /\ pass'.row = r
      /\ pass'.todo \subseteq pass.todo /\ pass'.book = pass.book /\ pass'.phase = pass.phase
      /\ pass'.for = "add" => CoinAdds(r) < MaxAdds
  <2>1. /\ {"claim", "place stop", "place take"} \subseteq Stages
        /\ {"close", "tighten", "add", "scale", "extend"} \subseteq Purposes
    BY DEF Stages, Purposes
  <2>2. CASE Does(r, "claim", level, size, "close")
    BY <1>4, <2>1, <2>2
  <2>3. CASE Does(r, "place stop", level, size, "tighten")
    BY <1>4, <2>1, <2>3
  <2>4. CASE Does(r, "place stop", level, size, "add") /\ CoinAdds(r) < MaxAdds
    BY <1>4, <2>1, <2>4
  <2>5. CASE Does(r, "claim", level, size, "scale")
    BY <1>4, <2>1, <2>5
  <2>6. CASE Does(r, "place take", level, size, "extend")
    BY <1>4, <2>1, <2>6
  <2> QED BY <1>3, <2>2, <2>3, <2>4, <2>5, <2>6 DEF Acted
<1>6. AddsLogged'
  BY <1>2, <1>5, SteadyBudget DEF AddsInv, AddsLogged, RowsSteady, At
<1>7. BookIsOldest'
  BY <1>1, <1>2, <1>3, <1>5 DEF AddsInv, BookIsOldest, RowsSteady, At
<1>8. WithinBudget'
  <2>1. AddsOfBook' = AddsOfBook /\ CoinAdds(r) = Cardinality(AddsOfBook)
    BY <1>2, <1>5, SteadyBudget DEF AddsOfBook, CoinAdds
  <2>2. Adding' => Cardinality(AddsOfBook') < MaxAdds
    BY <1>5, <2>1 DEF Adding
  <2> QED BY <1>2, <2>2, SteadyBudget DEF AddsInv, WithinBudget, RowsSteady
<1>9. Hastened /\ Reclaimed
  BY <1>1, <1>5 DEF Hastened, Reclaimed, Unlogged, Claimed
<1> QED BY <1>2, <1>6, <1>7, <1>8, <1>9, SteadyPaid, SteadyKeys DEF AddsInv

\* What a claim and its release change is the keys.
LEMMA OrderedBook ==
    ASSUME TypeInv, ControlInv, AddsInv, RowsSteady, sent' = sent, faults' = faults,
           pass.at \in {"claim", "release"}, pass' = Idle \/ pass' \in Passes',
           pass'.at \in {"order close", "order scale", "order add", "manage", "resolve"},
           pass'.phase = pass.phase, pass'.todo = pass.todo, pass'.book = pass.book,
           pass'.row = pass.row, pass'.for = pass.for
    PROVE  AddsLogged' /\ BookIsOldest' /\ WithinBudget' /\ SentEarlier' /\ AddsPaid'
<1> USE DEF Stopping, Targeting, Ordering, SliceStages
<1>1. BookSteady /\ Hastened
  BY DEF BookSteady, Hastened, At, Adding, Slicing, Unlogged
<1> QED BY <1>1, SteadyBudget, SteadyPaid

\* A key is claimed for an add as long as the budget has one left.
LEMMA AddsClaim ==
    ASSUME TypeInv, ControlInv, AddsInv, Claim
    PROVE  AddsInv'
<1> USE DEF Stopping, Targeting, Ordering, SliceStages
<1>1. pass.at = "claim" /\ pass \in Passes /\ pass.row \in OpenRows
  BY ClaimEffect DEF Claim, At
<1>2. RowsSteady /\ sent' = sent /\ faults' = faults /\ log' = log
  BY ClaimEffect, OpenAtRest DEF RowsSteady
<1>3. /\ pass'.phase = pass.phase /\ pass'.todo = pass.todo /\ pass'.book = pass.book
      /\ pass'.row = pass.row /\ pass'.for = pass.for /\ pass' \in Passes'
      /\ pass'.at \in {"order close", "order scale", "order add", "manage", "resolve"}
  BY ClaimEffect DEF GoneOn, GoneTo, InHandKept, Kept
<1>4. AddsLogged' /\ BookIsOldest' /\ WithinBudget' /\ SentEarlier' /\ AddsPaid'
  BY <1>1, <1>2, <1>3, OrderedBook
<1>5. CASE keys' = keys /\ GoneOn
  <2>1. Reclaimed
    BY <1>5 DEF GoneOn, GoneTo, Reclaimed, Claimed
  <2> QED BY <1>2, <1>4, <1>5, <2>1, SteadyKeys DEF AddsInv
<1>6. CASE /\ Key \notin keys /\ keys' = keys \cup {Key} /\ pass.for \in {"close", "scale"}
  <2>1. \A r : SentBy(r)' = SentBy(r)
    BY <1>2 DEF SentBy
  <2>2. \A r : Ordinals(r)' = Ordinals(r)
    BY <1>6 DEF Ordinals, Key
  <2>3. \A r : ~Claimed(r) /\ ~Claimed(r)'
    BY <1>1, <1>3, <1>6 DEF Claimed
  <2>4. KeysPaid'
    BY <1>2, <2>1, <2>2, <2>3 DEF AddsInv, KeysPaid, RowsSteady
  <2> QED BY <1>4, <2>4 DEF AddsInv
<1>7. CASE Key \notin keys /\ keys' = keys \cup {Key} /\ pass.for = "add" /\ GoneTo("order add")
  <2>a. PICK row \in DOMAIN rows : row = pass.row
    BY <1>1, RowsFacts
  <2>b. PICK n : n = Cardinality(log[row].adds)
    OBVIOUS
  <2>1. row \in DOMAIN log /\ row \in DOMAIN rows /\ row \in Nat /\ Len(rows) \in Nat
    BY RowsFacts
  <2>2. n \in 0..(MaxAdds - 1)
    <3>1. row \in pass.book
      BY <1>1, <1>7, <2>a DEF AddsInv, BookIsOldest, Adding, At
    <3>2. log[row].adds \subseteq AddsOfBook
      <4>1. log[row].adds \subseteq (row + 1)..Len(rows)
        BY <2>1 DEF AddsInv, AddsLogged
      <4>2. \A c \in log[row].adds : c \in Adds /\ row <= c
        BY <2>1, <4>1 DEF Adds
      <4> QED BY <3>1, <4>2 DEF AddsOfBook
    <3>3. Cardinality(AddsOfBook) < MaxAdds
      BY <1>1, <1>7 DEF AddsInv, WithinBudget, Adding
    <3>4. n \in Nat /\ n <= Cardinality(AddsOfBook) /\ Cardinality(AddsOfBook) \in Nat
      BY <2>b, <3>2, AddsAreRows, Fewer DEF AddsInv
    <3> QED BY <3>3, <3>4, Constants
  <2>3. Key = <<"add", row, n>> /\ Key' = Key
    BY <1>2, <1>3, <1>7, <2>a, <2>b DEF Key
  <2>4. \A r : r # row => Ordinals(r)' = Ordinals(r)
    BY <1>7, <2>3 DEF Ordinals
  <2>5. Ordinals(row) \cup {n} \subseteq Ordinals(row)' /\ n \notin Ordinals(row)
    BY <1>7, <2>2, <2>3 DEF Ordinals
  <2>6. \A r : SentBy(r)' = SentBy(r)
    BY <1>2 DEF SentBy
  <2>7. (\A r : ~Claimed(r)) /\ \A r : r # row => ~Claimed(r)'
    BY <1>1, <1>3, <2>a DEF Claimed
  <2>8. ASSUME NEW r \in DOMAIN rows'
        PROVE  Cardinality(SentBy(r)') + (IF Claimed(r)' THEN 1 ELSE 0)
                 <= Cardinality(Ordinals(r)')
    <3>1. r \in DOMAIN rows
      BY <1>2, <2>8 DEF RowsSteady
    <3>2. Cardinality(SentBy(r)) <= Cardinality(Ordinals(r))
      <4>1. Cardinality(SentBy(r)) + 0 <= Cardinality(Ordinals(r))
        BY <2>7, <3>1 DEF AddsInv, KeysPaid
      <4> QED BY <4>1, SentFinite
    <3>3. CASE r # row
      <4>1. Cardinality(SentBy(r)) + 0 <= Cardinality(Ordinals(r))
        BY <3>2, SentFinite
      <4> QED BY <2>4, <2>6, <2>7, <3>3, <4>1
    <3>4. CASE r = row
      <4>1. IsFiniteSet(Ordinals(row)')
        <5>1. Ordinals(row)' \subseteq 0..(MaxAdds - 1)
          BY DEF Ordinals
        <5>2. 0 \in Int /\ MaxAdds - 1 \in Int
          BY Constants
        <5> QED BY <5>1, <5>2, FS_Interval, Fewer
      <4>2. Cardinality(Ordinals(row)) + 1 <= Cardinality(Ordinals(row)')
        BY <2>5, <4>1, SentFinite, OneLess
      <4>3. /\ Cardinality(SentBy(r)) \in Nat /\ Cardinality(Ordinals(row)) \in Nat
            /\ Cardinality(Ordinals(row)') \in Nat
        BY <4>1, SentFinite, Fewer
      <4>4. Cardinality(SentBy(row)) + 1 <= Cardinality(Ordinals(row)')
        BY <3>2, <3>4, <4>2, <4>3
      <4>5. Cardinality(SentBy(row)) + 0 <= Cardinality(Ordinals(row)')
        BY <3>4, <4>3, <4>4
      <4> QED BY <2>6, <3>4, <4>4, <4>5
    <3> QED BY <3>3, <3>4
  <2>9. \A r \in Nat : Claimed(r)' => Key' \in keys'
    BY <1>7, <2>3
  <2> QED BY <1>4, <2>8, <2>9 DEF AddsInv, KeysPaid
<1> QED BY <1>5, <1>6, <1>7, ClaimEffect

\* An order that failed gives its key back, and its ordinal with it.
LEMMA AddsRelease ==
    ASSUME TypeInv, ControlInv, AddsInv, Release
    PROVE  AddsInv'
<1> USE DEF Stopping, Targeting, Ordering, SliceStages
<1>1. pass.at = "release" /\ pass \in Passes /\ pass.row \in OpenRows /\ keys' = keys \ {Key}
  BY ReleaseEffect DEF Release, At
<1>2. RowsSteady /\ sent' = sent /\ faults' = faults
  BY ReleaseEffect, OpenAtRest DEF RowsSteady
<1>3. /\ pass'.phase = pass.phase /\ pass'.todo = pass.todo /\ pass'.book = pass.book
      /\ pass'.row = pass.row /\ pass'.for = pass.for /\ pass' \in Passes'
      /\ pass'.at \in {"manage", "resolve"}
  BY ReleaseEffect DEF GoneOn, GoneTo, InHandKept, Kept
<1>4. AddsLogged' /\ BookIsOldest' /\ WithinBudget' /\ SentEarlier' /\ AddsPaid'
  BY <1>1, <1>2, <1>3, OrderedBook
<1>5. \A r : ~Claimed(r)'
  BY <1>3 DEF Claimed
<1>6. \A r : SentBy(r)' = SentBy(r)
  BY <1>2 DEF SentBy
<1>7. ASSUME NEW r \in DOMAIN rows'
      PROVE  Cardinality(SentBy(r)') + 0 <= Cardinality(Ordinals(r)')
  <2>1. r \in DOMAIN rows
    BY <1>2, <1>7 DEF RowsSteady
  <2>2. /\ Cardinality(SentBy(r)) \in Nat /\ Cardinality(Ordinals(r)) \in Nat
        /\ Cardinality(SentBy(r)) + (IF Claimed(r) THEN 1 ELSE 0) <= Cardinality(Ordinals(r))
    BY <2>1, SentFinite DEF AddsInv, KeysPaid
  <2>3. IsFiniteSet(Ordinals(r)') /\ Cardinality(Ordinals(r)') \in Nat
    <3>1. Ordinals(r)' \subseteq Ordinals(r)
      BY <1>1 DEF Ordinals
    <3> QED BY <3>1, SentFinite, Fewer
  <2>4. CASE Claimed(r)
    <3>1. PICK n : n = Cardinality(log[r].adds)
      OBVIOUS
    <3>2. Key = <<"add", r, n>>
      BY <2>4, <3>1 DEF Key, Claimed
    <3>3. Ordinals(r) \subseteq Ordinals(r)' \cup {n}
      BY <1>1, <3>2 DEF Ordinals
    <3>4. Cardinality(Ordinals(r)) <= Cardinality(Ordinals(r)') + 1
      BY <2>3, <3>3, OneMore
    <3> QED BY <1>6, <2>2, <2>3, <2>4, <3>4
  <2>5. CASE ~Claimed(r)
    <3>1. \A n : Key # <<"add", r, n>>
      BY <1>1, <2>5 DEF Key, Claimed
    <3>2. Ordinals(r)' = Ordinals(r)
      BY <1>1, <3>1 DEF Ordinals
    <3> QED BY <1>6, <2>2, <2>5, <3>2
  <2> QED BY <2>4, <2>5
<1> QED BY <1>4, <1>5, <1>7 DEF AddsInv, KeysPaid

\* An add that fills takes the ordinal its key has claimed.
LEMMA AddsOrder ==
    ASSUME TypeInv, ControlInv, AddsInv, OrderAdd, faults' \in {faults, faults + 1}
    PROVE  AddsInv'
<1> USE DEF Stopping, Targeting, Ordering, SliceStages
<1>1. /\ pass.at = "order add" /\ pass \in Passes /\ pass.row \in OpenRows /\ pass.for = "add"
      /\ UNCHANGED <<rows, log, keys>>
  BY OrderAddEffect DEF OrderAdd, At, ControlInv, Purposeful, Trades
<1>2. RowsSteady
  BY <1>1, OpenAtRest DEF RowsSteady
<1>3. /\ pass'.phase = pass.phase /\ pass'.todo = pass.todo /\ pass'.book = pass.book
      /\ pass'.row = pass.row /\ pass'.for = pass.for /\ pass'.at \in {"release", "open slice"}
  BY OrderAddEffect DEF GoneTo, Sized, InHandKept, Kept
<1>4. BookSteady /\ ~Unlogged
  BY <1>1, <1>3 DEF BookSteady, At, Adding, Slicing, Unlogged
<1>5. AddsLogged' /\ BookIsOldest' /\ WithinBudget' /\ \A r : AddsFrom(r)' = AddsFrom(r)
  BY <1>2, <1>4, SteadyBudget
<1>6. CASE GoneTo("release") /\ sent' = sent
  <2>1. Hastened /\ Reclaimed
    BY <1>1, <1>3, <1>4 DEF Hastened, Reclaimed, Claimed
  <2> QED BY <1>1, <1>2, <1>5, <1>6, <2>1, SteadyPaid, SteadyKeys DEF AddsInv
<1>7. CASE /\ \E size \in Nat \ {0} : Sized("open slice", size)
           /\ sent' = Append(sent, [row |-> pass.row, rows |-> Len(rows)])
  <2> DEFINE order == [row |-> pass.row, rows |-> Len(rows)]
  <2>1. PICK next : next = Len(sent) + 1
    OBVIOUS
  <2>2. PICK row \in DOMAIN rows : row = pass.row
    BY <1>1, RowsFacts
  <2>3. row \in 1..Len(rows) /\ Len(rows) \in Nat /\ Len(rows') = Len(rows) /\ row \in Nat
    <3>1. DOMAIN rows = 1..Len(rows) /\ Len(rows) \in Nat
      BY RowsFacts
    <3>2. rows' = rows
      BY <1>1
    <3> QED BY <3>1, <3>2
  <2>4. order \in Orders /\ sent \in Seq(Orders) /\ order.row = row /\ order.rows = Len(rows)
    BY <2>2, <2>3 DEF TypeInv, CountsOK, Orders
  <2>5. /\ DOMAIN sent' = DOMAIN sent \cup {next} /\ next \notin DOMAIN sent
        /\ sent'[next].row = row /\ sent'[next].rows = Len(rows)
        /\ \A i \in DOMAIN sent : sent'[i] = sent[i]
    <3> HIDE DEF order
    <3>1. sent' = Append(sent, order)
      BY <1>7 DEF order
    <3>2. /\ DOMAIN sent = 1..Len(sent) /\ DOMAIN sent' = 1..(Len(sent) + 1)
          /\ sent'[Len(sent) + 1] = order /\ \A i \in 1..Len(sent) : sent'[i] = sent[i]
      BY <2>4, <3>1, Appended
    <3>3. Len(sent) \in Nat
      BY SentFinite
    <3> QED BY <2>1, <2>4, <3>2, <3>3
  <2>6. SentEarlier'
    <3>1. ASSUME NEW i \in DOMAIN sent'
          PROVE  sent'[i].rows \in 1..Len(rows) /\ sent'[i].row <= sent'[i].rows
      <4>1. CASE i = next
        BY <2>3, <2>5, <4>1
      <4>2. CASE i \in DOMAIN sent
        BY <2>5, <4>2 DEF AddsInv, SentEarlier
      <4> QED BY <2>5, <4>1, <4>2
    <3> QED BY <2>3, <3>1 DEF SentEarlier
  <2>7. (\A r : ~Claimed(r)') /\ (\A r : Claimed(r) <=> r = row) /\ Unlogged'
    <3>1. pass'.at = "open slice"
      BY <1>7 DEF Sized
    <3> QED BY <1>1, <1>3, <2>2, <3>1 DEF Claimed, Unlogged
  <2>8. ASSUME NEW r \in DOMAIN rows'
        PROVE  Cardinality(SentBy(r)') + 0 <= Cardinality(Ordinals(r)')
    <3>1. /\ Cardinality(SentBy(r)) \in Nat /\ Cardinality(Ordinals(r)) \in Nat
          /\ IsFiniteSet(SentBy(r))
          /\ Cardinality(SentBy(r)) + (IF Claimed(r) THEN 1 ELSE 0) <= Cardinality(Ordinals(r))
      BY <1>1, <2>8, SentFinite DEF AddsInv, KeysPaid
    <3>2. Ordinals(r)' = Ordinals(r)
      BY <1>1 DEF Ordinals
    <3>3. CASE r = row
      <4>1. SentBy(r)' \subseteq SentBy(r) \cup {next}
        BY <2>5 DEF SentBy
      <4>2. Cardinality(SentBy(r)') \in Nat /\ Cardinality(SentBy(r)') <= Cardinality(SentBy(r)) + 1
        BY <3>1, <4>1, OneMore
      <4> QED BY <2>7, <3>1, <3>2, <3>3, <4>2
    <3>4. CASE r # row
      <4>1. SentBy(r)' \subseteq SentBy(r)
        BY <2>5, <3>4 DEF SentBy
      <4>2. Cardinality(SentBy(r)') \in Nat /\ Cardinality(SentBy(r)') <= Cardinality(SentBy(r))
        BY <3>1, <4>1, Fewer
      <4> QED BY <2>7, <3>1, <3>2, <3>4, <4>2
    <3> QED BY <3>3, <3>4
  <2>9. KeysPaid'
    BY <2>7, <2>8 DEF KeysPaid
  <2>10. ASSUME NEW r \in DOMAIN rows'
         PROVE  Cardinality(SentSince(r)') <= Cardinality(AddsFrom(r)') + faults' + 1
    <3>1. /\ Cardinality(SentSince(r)) \in Nat /\ Cardinality(AddsFrom(r)) \in Nat
          /\ IsFiniteSet(SentSince(r)) /\ faults \in Nat
          /\ Cardinality(SentSince(r))
               <= Cardinality(AddsFrom(r)) + faults + (IF Unlogged THEN 1 ELSE 0)
      BY <1>1, <2>10, SentFinite, AddsAreRows DEF AddsInv, AddsPaid, TypeInv, CountsOK
    <3>2. SentSince(r)' \subseteq SentSince(r) \cup {next}
      BY <2>5 DEF SentSince
    <3>3. /\ Cardinality(SentSince(r)') \in Nat
          /\ Cardinality(SentSince(r)') <= Cardinality(SentSince(r)) + 1
      BY <3>1, <3>2, OneMore
    <3> QED BY <1>4, <1>5, <3>1, <3>3
  <2>11. AddsPaid'
    BY <2>7, <2>10 DEF AddsPaid
  <2> QED BY <1>5, <2>6, <2>9, <2>11 DEF AddsInv
<1> QED BY <1>6, <1>7, OrderAddEffect

\* An add that is logged is one that was sent.
LEMMA AddsLog ==
    ASSUME TypeInv, ControlInv, AddsInv, LogAction
    PROVE  AddsInv'
<1> USE DEF Stopping, Targeting, Ordering, SliceStages
<1>1. /\ pass.at = "log" /\ pass \in Passes /\ pass.row \in DOMAIN rows
      /\ rows' = rows /\ keys' = keys /\ faults' = faults /\ sent' = sent
  BY LogActionEffect DEF LogAction, At
<1>2. /\ pass'.phase = pass.phase /\ pass'.todo = pass.todo /\ pass'.book = pass.book
      /\ pass'.at \in {"manage", "resolve"}
  BY LogActionEffect DEF GoneOn, GoneTo, InHandKept, Kept
<1>3. PICK r \in DOMAIN log, entry \in Logs :
          /\ log' = [log EXCEPT ![r] = entry]
          /\ \/ entry.adds = log[r].adds
             \/ r = pass.row /\ pass.for = "add" /\ entry.adds = log[r].adds \cup {Slice}
          /\ pass.for = "add" => r = pass.row /\ entry.adds = log[r].adds \cup {Slice}
  BY LoggingEffect DEF Logging
<1>4. BookSteady /\ Reclaimed
  BY <1>1, <1>2 DEF BookSteady, Reclaimed, At, Adding, Slicing, Claimed
<1>5. CASE pass.for # "add"
  <2>1. RowsSteady
    BY <1>1, <1>3, <1>5, OpenAtRest DEF RowsSteady
  <2>2. Hastened
    BY <1>5 DEF Hastened, Unlogged
  <2> QED BY <1>1, <1>4, <2>1, <2>2, SteadyBudget, SteadyPaid, SteadyKeys DEF AddsInv
<1>6. CASE pass.for = "add"
  <2>1. PICK slice : slice = Slice
    OBVIOUS
  <2>2. /\ Len(rows) \in Nat /\ slice = Len(rows) /\ slice \in Nat /\ DOMAIN rows = 1..Len(rows)
        /\ pass.row < slice /\ r = pass.row /\ r \in Nat /\ DOMAIN log = 1..Len(rows)
        /\ Len(rows') = Len(rows) /\ OpenRows' = OpenRows /\ Slice' = Slice
    BY <1>1, <1>3, <1>6, <2>1, RowsFacts, OpenAtRest DEF Slice, ControlInv, Purposeful, At
  <2>3. /\ DOMAIN log' = DOMAIN log /\ log'[r].adds = log[r].adds \cup {slice}
        /\ \A o \in DOMAIN log : o # r => log'[o] = log[o]
    BY <1>3, <1>6, <2>1
  <2>4. Adds' = Adds \cup {slice}
    BY <2>3 DEF Adds
  <2>5. \A q : AddsFrom(q)' \subseteq AddsFrom(q) \cup {slice}
    BY <2>4 DEF AddsFrom
  <2>6. slice \notin Adds
    BY <1>1, <1>6, <2>1 DEF AddsInv, AddsLogged, At
  <2>7. AddsLogged'
    <3>1. ASSUME NEW o \in DOMAIN log PROVE log'[o].adds \subseteq (o + 1)..Len(rows)
      <4>1. log[o].adds \subseteq (o + 1)..Len(rows)
        BY DEF AddsInv, AddsLogged
      <4>2. CASE o = r
        <5>1. slice \in (r + 1)..Len(rows)
          BY <2>2
        <5> QED BY <2>3, <4>1, <4>2, <5>1
      <4>3. CASE o # r
        BY <2>3, <4>1, <4>3
      <4> QED BY <4>2, <4>3
    <3> QED BY <1>2, <2>2, <2>3, <3>1 DEF AddsLogged, At
  <2>8. BookIsOldest'
    BY <1>1, <1>2, <2>2, <1>4 DEF AddsInv, BookIsOldest, BookSteady, At, Adding
  <2>9. WithinBudget'
    <3>1. ASSUME NEW q \in OpenRows PROVE Cardinality(AddsFrom(q)') <= MaxAdds
      <4>1. PICK o \in pass.book : o <= q
        BY <1>1 DEF AddsInv, BookIsOldest, At
      <4>2. AddsFrom(q) \subseteq AddsOfBook
        <5>1. o \in Nat /\ q \in Nat
          BY <1>1, <2>2, RowsFacts DEF Passes
        <5>2. \A c \in Adds : c \in Nat
          BY <2>2, AddsAreRows DEF AddsInv
        <5> QED BY <4>1, <5>1, <5>2 DEF AddsFrom, AddsOfBook
      <4>3. Cardinality(AddsOfBook) < MaxAdds
        BY <1>1, <1>6 DEF AddsInv, WithinBudget, Adding
      <4>4. /\ Cardinality(AddsFrom(q)) <= Cardinality(AddsOfBook) /\ IsFiniteSet(AddsFrom(q))
            /\ Cardinality(AddsFrom(q)) \in Nat /\ Cardinality(AddsOfBook) \in Nat
        BY <4>2, AddsAreRows, Fewer DEF AddsInv
      <4>5. /\ Cardinality(AddsFrom(q)') \in Nat
            /\ Cardinality(AddsFrom(q)') <= Cardinality(AddsFrom(q)) + 1
        BY <2>5, <4>4, OneMore
      <4> QED BY <4>3, <4>4, <4>5, Constants
    <3>2. ~Adding'
      BY <1>2 DEF Adding
    <3> QED BY <2>2, <3>1, <3>2 DEF WithinBudget
  <2>10. SentEarlier'
    BY <1>1 DEF AddsInv, SentEarlier
  <2>11. KeysPaid'
    <3>1. \A q : ~Claimed(q) /\ ~Claimed(q)'
      BY <1>1, <1>2 DEF Claimed
    <3>2. \A q : SentBy(q)' = SentBy(q) /\ Ordinals(q)' = Ordinals(q)
      BY <1>1 DEF SentBy, Ordinals
    <3> QED BY <1>1, <3>1, <3>2 DEF AddsInv, KeysPaid
  <2>12. AddsPaid'
    <3>1. ASSUME NEW q \in DOMAIN rows'
          PROVE  Cardinality(SentSince(q)') <= Cardinality(AddsFrom(q)') + faults' + 0
      <4>1. q \in Nat /\ q <= slice
        BY <1>1, <2>2, <3>1
      <4>2. AddsFrom(q) \cup {slice} \subseteq AddsFrom(q)' /\ slice \notin AddsFrom(q)
        BY <2>4, <2>6, <4>1 DEF AddsFrom
      <4>3. IsFiniteSet(AddsFrom(q)) /\ Cardinality(AddsFrom(q)) \in Nat
        BY AddsAreRows DEF AddsInv
      <4>4. IsFiniteSet(AddsFrom(q)') /\ Cardinality(AddsFrom(q)') \in Nat
        BY <2>5, <4>3, OneMore
      <4>5. Cardinality(AddsFrom(q)) + 1 <= Cardinality(AddsFrom(q)')
        BY <4>2, <4>3, <4>4, OneLess
      <4>6. SentSince(q)' = SentSince(q) /\ Cardinality(SentSince(q)) \in Nat /\ faults \in Nat
        BY <1>1, SentFinite DEF SentSince, TypeInv, CountsOK
      <4>7. Cardinality(SentSince(q)) <= Cardinality(AddsFrom(q)) + faults + 1
        <5>1. Cardinality(SentSince(q))
                <= Cardinality(AddsFrom(q)) + faults + (IF Unlogged THEN 1 ELSE 0)
          BY <1>1, <3>1 DEF AddsInv, AddsPaid
        <5> QED BY <4>3, <4>6, <5>1
      <4> QED BY <1>1, <4>3, <4>4, <4>5, <4>6, <4>7
    <3>2. ~Unlogged'
      BY <1>2 DEF Unlogged
    <3> QED BY <3>1, <3>2 DEF AddsPaid
  <2> QED BY <2>7, <2>8, <2>9, <2>10, <2>11, <2>12 DEF AddsInv
<1> QED BY <1>5, <1>6

\* A row that is opened has no adds, logged or sent, after it.
LEMMA GrownAdds ==
    ASSUME TypeInv, AddsInv, NEW row, Grows(row), sent' = sent
    PROVE  /\ Adds' = Adds /\ \A r : AddsFrom(r)' = AddsFrom(r)
           /\ \A r : SentBy(r)' = SentBy(r) /\ SentSince(r)' = SentSince(r)
           /\ \A r \in DOMAIN rows' \ DOMAIN rows :
                  /\ r = Slice' /\ AddsFrom(r) = {} /\ SentBy(r) = {} /\ SentSince(r) = {}
           /\ SentEarlier' /\ \A o \in DOMAIN log' : log'[o].adds \subseteq (o + 1)..Len(rows')
           /\ Slice' \notin Adds /\ OpenRows' = OpenRows \cup {Slice'}
<1>1. PICK next : next = Slice'
  OBVIOUS
<1>2. PICK last : last = Len(rows)
  OBVIOUS
<1>3. /\ last \in Nat /\ next = last + 1 /\ Len(rows') = next /\ Len(rows) = last
      /\ DOMAIN rows = 1..last /\ DOMAIN log = 1..last
  BY <1>1, <1>2, RowsFacts DEF Grows, Slice
<1>4. /\ DOMAIN rows' = DOMAIN rows \cup {next} /\ DOMAIN log' = DOMAIN log \cup {next}
      /\ log'[next].adds = {} /\ \A q \in DOMAIN log : log'[q] = log[q]
      /\ next \notin DOMAIN rows /\ OpenRows' = OpenRows \cup {next}
  BY <1>1, <1>3 DEF Grows, NoLog
<1>5. Adds' = Adds
  BY <1>3, <1>4 DEF Adds
<1>6. \A r : AddsFrom(r)' = AddsFrom(r)
  BY <1>5 DEF AddsFrom
<1>7. \A r : SentBy(r)' = SentBy(r) /\ SentSince(r)' = SentSince(r)
  BY DEF SentBy, SentSince
<1>8. Adds \subseteq 1..last
  BY <1>2, AddsAreRows DEF AddsInv
<1>9. \A i \in DOMAIN sent : sent[i].rows \in 1..last /\ sent[i].row <= sent[i].rows
                               /\ sent[i].row \in Nat
  <2>1. \A i \in DOMAIN sent : sent[i] \in Orders
    BY DEF TypeInv, CountsOK
  <2> QED BY <1>3, <2>1 DEF AddsInv, SentEarlier, Orders
<1>10. AddsFrom(next) = {} /\ SentBy(next) = {} /\ SentSince(next) = {} /\ next \notin Adds
  <2>1. \A c \in Adds : ~(c >= next) /\ c # next
    BY <1>3, <1>8
  <2>2. ASSUME NEW i \in DOMAIN sent PROVE sent[i].row # next /\ ~(sent[i].rows >= next)
    <3>1. sent[i].rows \in 1..last /\ sent[i].row <= sent[i].rows /\ sent[i].row \in Nat
      BY <1>9
    <3> QED BY <1>3, <3>1
  <2> QED BY <2>1, <2>2 DEF AddsFrom, SentBy, SentSince
<1>11. SentEarlier'
  BY <1>3, <1>9 DEF SentEarlier
<1>12. ASSUME NEW o \in DOMAIN log' PROVE log'[o].adds \subseteq (o + 1)..Len(rows')
  <2>1. CASE o = next
    BY <1>4, <2>1
  <2>2. CASE o \in DOMAIN log
    <3>1. log[o].adds \subseteq (o + 1)..last /\ o \in Nat
      BY <1>3, <2>2 DEF AddsInv, AddsLogged
    <3>2. (o + 1)..last \subseteq (o + 1)..next
      BY <1>3, <3>1
    <3> QED BY <1>3, <1>4, <2>2, <3>1, <3>2
  <2> QED BY <1>4, <2>1, <2>2
<1> QED BY <1>1, <1>4, <1>5, <1>6, <1>7, <1>10, <1>11, <1>12

LEMMA GrownPaid ==
    ASSUME TypeInv, AddsInv, NEW row, Grows(row), sent' = sent, keys' = keys, faults' = faults,
           Unlogged => Unlogged', \A r : ~Claimed(r)'
    PROVE  AddsPaid' /\ KeysPaid'
<1>1. ASSUME NEW r \in DOMAIN rows'
      PROVE  Cardinality(SentBy(r)') + 0 <= Cardinality(Ordinals(r)')
  <2>1. SentBy(r)' = SentBy(r) /\ Ordinals(r)' = Ordinals(r)
    BY GrownAdds DEF Ordinals
  <2>2. Cardinality(SentBy(r)) \in Nat /\ Cardinality(Ordinals(r)) \in Nat
    BY SentFinite
  <2>3. CASE r \in DOMAIN rows
    <3>1. Cardinality(SentBy(r)) + (IF Claimed(r) THEN 1 ELSE 0) <= Cardinality(Ordinals(r))
      BY <2>3 DEF AddsInv, KeysPaid
    <3> QED BY <2>1, <2>2, <3>1
  <2>4. CASE r \notin DOMAIN rows
    <3>1. Cardinality(SentBy(r)) = 0
      BY <1>1, <2>4, GrownAdds, FS_EmptySet
    <3> QED BY <2>1, <2>2, <3>1
  <2> QED BY <2>3, <2>4
<1>2. ASSUME NEW r \in DOMAIN rows'
      PROVE  Cardinality(SentSince(r)')
               <= Cardinality(AddsFrom(r)') + faults' + (IF Unlogged' THEN 1 ELSE 0)
  <2>1. SentSince(r)' = SentSince(r) /\ AddsFrom(r)' = AddsFrom(r)
    BY GrownAdds
  <2>2. /\ Cardinality(SentSince(r)) \in Nat /\ Cardinality(AddsFrom(r)) \in Nat
        /\ faults \in Nat
    BY SentFinite, AddsAreRows DEF AddsInv, TypeInv, CountsOK
  <2>3. CASE r \in DOMAIN rows
    <3>1. Cardinality(SentSince(r))
            <= Cardinality(AddsFrom(r)) + faults + (IF Unlogged THEN 1 ELSE 0)
      BY <2>3 DEF AddsInv, AddsPaid
    <3> QED BY <2>1, <2>2, <3>1
  <2>4. CASE r \notin DOMAIN rows
    <3>1. Cardinality(SentSince(r)) = 0
      BY <1>2, <2>4, GrownAdds, FS_EmptySet
    <3> QED BY <2>1, <2>2, <3>1
  <2> QED BY <2>3, <2>4
<1> QED BY <1>1, <1>2 DEF AddsPaid, KeysPaid

LEMMA GrownBudget ==
    ASSUME TypeInv, AddsInv, NEW row, Grows(row), sent' = sent
    PROVE  \A r \in OpenRows' : Cardinality(AddsFrom(r)') <= MaxAdds
<1>1. ASSUME NEW r \in OpenRows' PROVE Cardinality(AddsFrom(r)') <= MaxAdds
  <2>1. AddsFrom(r)' = AddsFrom(r)
    BY GrownAdds
  <2>2. CASE r \in OpenRows
    BY <2>1, <2>2 DEF AddsInv, WithinBudget
  <2>3. CASE r \notin OpenRows
    <3>1. r \in DOMAIN rows' /\ r \notin DOMAIN rows
      BY <1>1, <2>3, GrownAdds DEF Grows
    <3>2. Cardinality(AddsFrom(r)) = 0
      BY <3>1, GrownAdds, FS_EmptySet
    <3> QED BY <2>1, <3>2, Constants
  <2> QED BY <2>2, <2>3
<1> QED BY <1>1

LEMMA AddsOpenSlice ==
    ASSUME TypeInv, ControlInv, AddsInv, OpenSlice
    PROVE  AddsInv'
<1> USE DEF Stopping, Targeting, Ordering, SliceStages
<1>1. PICK row : Grows(row)
  BY OpenSliceEffect
<1>2. /\ pass.at = "open slice" /\ pass \in Passes /\ pass.for = "add" /\ pass.row \in OpenRows
      /\ keys' = keys /\ faults' = faults /\ sent' = sent /\ pass.row < Slice'
  BY OpenSliceEffect DEF OpenSlice, At, ControlInv, Purposeful
<1>3. /\ pass'.phase = pass.phase /\ pass'.todo = pass.todo /\ pass'.book = pass.book
      /\ pass'.row = pass.row /\ pass'.for = pass.for /\ pass'.at = "slice stop"
  BY OpenSliceEffect DEF GoneTo, InHandKept, Kept
<1>4. AddsLogged' /\ SentEarlier'
  BY <1>1, <1>2, GrownAdds DEF AddsLogged
<1>5. BookIsOldest'
  <2>1. OpenRows' = OpenRows \cup {Slice'}
    BY <1>1, <1>2, GrownAdds
  <2>2. pass.row \in pass.book /\ pass.row <= Slice'
    <3>1. pass.row \in pass.book
      BY <1>2 DEF AddsInv, BookIsOldest, Adding, At
    <3>2. PICK r : r = pass.row
      OBVIOUS
    <3>3. PICK k : k = Slice'
      OBVIOUS
    <3>4. Slice \in Nat
      BY RowsFacts DEF Slice
    <3>5. k \in Nat
      BY <1>1, <3>3, <3>4 DEF Grows
    <3>6. r \in Nat
      BY <1>2, <3>2 DEF Passes
    <3>7. r < k
      BY <1>2, <3>2, <3>3
    <3>8. r <= k
      BY <3>5, <3>6, <3>7
    <3> QED BY <3>1, <3>2, <3>3, <3>8
  <2>3. /\ \A r \in OpenRows : \E o \in pass.book : o <= r
        /\ pass.phase = "manage" => pass.todo \subseteq pass.book
    BY <1>2 DEF AddsInv, BookIsOldest, At
  <2> QED BY <1>3, <2>1, <2>2, <2>3 DEF BookIsOldest
<1>6. WithinBudget'
  <2>1. AddsOfBook' = AddsOfBook
    BY <1>1, <1>2, <1>3, GrownAdds DEF AddsOfBook
  <2>2. Cardinality(AddsOfBook) < MaxAdds
    BY <1>2 DEF AddsInv, WithinBudget, Adding
  <2> QED BY <1>1, <1>2, <2>1, <2>2, GrownBudget DEF WithinBudget
<1>7. Unlogged' /\ \A r : ~Claimed(r)'
  BY <1>2, <1>3 DEF Unlogged, Claimed
<1>8. AddsPaid' /\ KeysPaid'
  BY <1>1, <1>2, <1>7, GrownPaid
<1> QED BY <1>4, <1>5, <1>6, <1>8 DEF AddsInv

LEMMA AddsStart ==
    ASSUME TypeInv, ControlInv, AddsInv, StartPass
    PROVE  AddsInv'
<1> USE DEF Stopping, Targeting, Ordering, SliceStages
<1>1. /\ pass.at = "idle" /\ keys' = keys /\ faults' = faults /\ sent' = sent
  BY StartPassEffect DEF At
<1>2. /\ pass'.at = "manage" /\ pass'.book = OpenRows' /\ pass'.todo = OpenRows'
      /\ pass'.for = "none"
  BY Begins, Managed
<1>3. /\ ~Adding' /\ ~Slicing' /\ ~Unlogged /\ ~Unlogged' /\ \A r : ~Claimed(r) /\ ~Claimed(r)'
  BY <1>1, <1>2 DEF Adding, Slicing, Unlogged, Claimed, At
<1>4. BookIsOldest'
  <2>1. OpenRows' \subseteq Nat
    BY Begins
  <2> QED BY <1>2, <1>3, <2>1 DEF BookIsOldest
<1>5. CASE Adopts
  <2>1. PICK row : Grows(row)
    BY <1>5, AdoptsEffect
  <2>2. AddsLogged' /\ SentEarlier'
    BY <1>1, <1>3, <2>1, GrownAdds DEF AddsLogged, Slicing
  <2>3. WithinBudget'
    BY <1>1, <1>3, <2>1, GrownBudget DEF WithinBudget
  <2>4. AddsPaid' /\ KeysPaid'
    BY <1>1, <1>3, <2>1, GrownPaid
  <2> QED BY <1>4, <2>2, <2>3, <2>4 DEF AddsInv
<1>6. CASE ~Adopts
  <2>1. rows' = rows /\ log' = log
    BY <1>6, StartPassEffect
  <2>2. RowsSteady
    BY <2>1, OpenAtRest DEF RowsSteady
  <2>3. Hastened /\ Reclaimed
    BY <1>3 DEF Hastened, Reclaimed
  <2>4. SentEarlier' /\ AddsPaid' /\ KeysPaid'
    BY <1>1, <2>2, <2>3, SteadyPaid, SteadyKeys
  <2>5. AddsLogged'
    BY <1>3, <2>2, SteadyBudget DEF AddsInv, AddsLogged, RowsSteady, Slicing
  <2>6. WithinBudget'
    BY <1>3, <2>2, SteadyBudget DEF AddsInv, WithinBudget, RowsSteady
  <2> QED BY <1>4, <2>4, <2>5, <2>6 DEF AddsInv
<1> QED BY <1>5, <1>6

LEMMA AddsNext ==
    ASSUME TypeInv, ControlInv, AddsInv, [Next]_vars
    PROVE  AddsInv'
<1>1. faults' \in {faults, faults + 1}
  BY CountsNext DEF vars, deskVars
<1>2. CASE Steady
  BY <1>1, <1>2, AddsSteady
<1>3. CASE StartPass \/ Judge \/ OpenSlice \/ LogAction \/ Claim \/ Release \/ OrderAdd
  BY <1>1, <1>3, AddsStart, AddsJudge, AddsOpenSlice, AddsLog, AddsClaim, AddsRelease, AddsOrder
<1> QED BY <1>2, <1>3 DEF Next, Step, Steady, Around

LEMMA AddsInit ==
    ASSUME Init
    PROVE  AddsInv
<1> USE DEF Stopping, Targeting, Ordering, SliceStages
<1>1. TypeInv
  BY ControlInit
<1>2. \A o \in DOMAIN log : log[o] = NoLog
  BY DEF Init
<1>3. Adds = {}
  BY <1>2 DEF Adds, NoLog
<1>4. sent = <<>> /\ DOMAIN sent = {} /\ pass.at = "idle"
  BY DEF Init, Idle
<1>5. \A r : AddsFrom(r) = {} /\ SentBy(r) = {} /\ SentSince(r) = {}
  BY <1>3, <1>4 DEF AddsFrom, SentBy, SentSince
<1>6. ~Adding /\ ~Slicing /\ ~Unlogged /\ \A r : ~Claimed(r)
  BY <1>4 DEF Adding, Slicing, Unlogged, Claimed, At
<1>7. AddsLogged /\ SentEarlier /\ BookIsOldest
  BY <1>2, <1>4, <1>6 DEF AddsLogged, SentEarlier, BookIsOldest, NoLog, At, Slicing
<1>8. Cardinality({}) = 0 /\ MaxAdds \in Nat
  BY FS_EmptySet, Constants
<1>9. WithinBudget
  BY <1>5, <1>6, <1>8 DEF WithinBudget
<1>10. KeysPaid
  <2>1. ASSUME NEW r \in DOMAIN rows
        PROVE  Cardinality(SentBy(r)) + 0 <= Cardinality(Ordinals(r))
    <3>1. Cardinality(Ordinals(r)) \in Nat /\ Cardinality(SentBy(r)) = 0
      BY <1>1, <1>5, <1>8, SentFinite
    <3> QED BY <3>1
  <2> QED BY <1>6, <2>1 DEF KeysPaid
<1>11. AddsPaid
  <2>1. faults = 0
    BY DEF Init
  <2> QED BY <1>5, <1>6, <1>8, <2>1 DEF AddsPaid
<1> QED BY <1>7, <1>9, <1>10, <1>11 DEF AddsInv

\* However adds, crashes, retries and siblings come together, a row sends no more adds than
\* the budget, and the coin gets no more, but one for each fault, while the row stays open.
THEOREM AddsKeepTheBudget == Spec => []AddsBounded
<1>1. Init => TypeInv /\ ControlInv /\ AddsInv
  BY ControlInit, AddsInit
<1>2. TypeInv /\ ControlInv /\ AddsInv /\ [Next]_vars => (TypeInv /\ ControlInv /\ AddsInv)'
  BY TypeInvNext, AddsNext
<1>3. TypeInv /\ ControlInv /\ AddsInv => AddsBounded
  <2> SUFFICES ASSUME TypeInv, ControlInv, AddsInv PROVE AddsBounded
    OBVIOUS
  <2>1. ASSUME NEW r \in DOMAIN rows PROVE Cardinality(SentBy(r)) <= MaxAdds
    <3>1. Cardinality(SentBy(r)) + (IF Claimed(r) THEN 1 ELSE 0) <= Cardinality(Ordinals(r))
      BY <2>1 DEF AddsInv, KeysPaid
    <3> QED BY <3>1, SentFinite, Constants
  <2>2. ASSUME NEW r \in OpenRows PROVE Cardinality(SentSince(r)) <= MaxAdds + faults
    <3>1. /\ Cardinality(SentSince(r)) \in Nat /\ Cardinality(AddsFrom(r)) \in Nat
          /\ faults \in Nat /\ MaxAdds \in Nat
          /\ Cardinality(SentSince(r))
               <= Cardinality(AddsFrom(r)) + faults + (IF Unlogged THEN 1 ELSE 0)
      BY <2>2, RowsFacts, SentFinite, AddsAreRows, Constants
         DEF AddsInv, AddsPaid, TypeInv, CountsOK
    <3>2. CASE Unlogged
      <4>1. Adding /\ ~At("idle")
        BY <3>2 DEF Unlogged, Adding, SliceStages, At
      <4>2. PICK o \in pass.book : o <= r
        BY <2>2, <4>1 DEF AddsInv, BookIsOldest
      <4>3. AddsFrom(r) \subseteq AddsOfBook
        <5>1. o \in Nat /\ r \in Nat
          BY <2>2, <4>1, InPass, RowsFacts DEF Passes
        <5>2. \A c \in Adds : c \in Nat
          BY RowsFacts, AddsAreRows DEF AddsInv
        <5> QED BY <4>2, <5>1, <5>2 DEF AddsFrom, AddsOfBook
      <4>4. Cardinality(AddsOfBook) < MaxAdds
        BY <4>1 DEF AddsInv, WithinBudget
      <4>5. /\ Cardinality(AddsFrom(r)) <= Cardinality(AddsOfBook)
            /\ Cardinality(AddsOfBook) \in Nat
        BY <4>3, AddsAreRows, Fewer DEF AddsInv
      <4> QED BY <3>1, <3>2, <4>4, <4>5
    <3>3. CASE ~Unlogged
      <4>1. Cardinality(AddsFrom(r)) <= MaxAdds
        BY <2>2 DEF AddsInv, WithinBudget
      <4> QED BY <3>1, <3>3, <4>1
    <3> QED BY <3>2, <3>3
  <2> QED BY <2>1, <2>2 DEF AddsBounded
<1> QED BY <1>1, <1>2, <1>3, PTL DEF Spec

-----------------------------------------------------------------------------
(* The ledger claims no more than rests. *)

LEMMA UnderwayIs ==
    \A r : /\ Underway(r) <=> pass.at \in SliceStages /\ r = Slice
           /\ Underway(r)' <=> pass'.at \in SliceStages /\ r = Slice'
BY DEF Underway, CutOff, At, SliceStages

LEMMA CalmBefore ==
    ASSUME past \subseteq past'
    PROVE  /\ Calm' => Calm
           /\ \A t, size : Large(t, size) => Large(t, size)'
BY DEF Calm, Large

\* Steps that write no row and give no oid.
BookQuiet ==
    /\ UNCHANGED <<rows, oids>> /\ triggers' \subseteq triggers /\ past \subseteq past'
    /\ Calm' => \A r \in OpenRows : \A t \in Stops : Foreign(t.oid, r) => t \in Stops'
StopsQuiet == Calm' => Stops \subseteq Stops'

Elsewhere ==
    /\ At("place stop")' => (pass.level > Row.sl)'
    /\ pass'.at \notin (Stopping \ {"place stop"}) \cup SliceStages \cup {"cancel take", "book take oid", "cancel row"}
    /\ pass.at \in SliceStages => ~Calm'
    /\ ~At("idle")' => pass'.oid <= oids /\ pass'.oid2 <= oids

LEMMA OidsQuiet ==
    ASSUME TypeInv, OidsUnique, OidsGiven, TargetsNoStops, BookQuiet
    PROVE  /\ OidsUnique' /\ (\A t \in triggers' : t.oid <= oids')
           /\ \A r \in DOMAIN rows' : /\ rows'[r].sl_oid <= oids' /\ rows'[r].tp_oid <= oids'
           /\ \A r \in DOMAIN rows' : NoStop(rows[r].tp_oid)'
           /\ \A oid : NoStop(oid) => NoStop(oid)'
<1>1. OidsUnique' /\ (\A t \in triggers' : t.oid <= oids')
  BY DEF BookQuiet, OidsUnique, OidsGiven
<1>2. \A r \in DOMAIN rows' : /\ rows'[r].sl_oid <= oids' /\ rows'[r].tp_oid <= oids'
  BY DEF BookQuiet, OidsGiven
<1>3. \A oid : NoStop(oid) => NoStop(oid)'
  BY DEF BookQuiet, NoStop, Stops
<1>4. ASSUME NEW r \in DOMAIN rows' PROVE NoStop(rows[r].tp_oid)'
  <2>1. PICK oid : oid = rows[r].tp_oid
    OBVIOUS
  <2>2. oid = rows'[r].tp_oid /\ NoStop(oid)
    BY <1>4, <2>1 DEF BookQuiet, TargetsNoStops
  <2> QED BY <1>3, <2>2
<1> QED BY <1>1, <1>2, <1>3, <1>4

LEMMA LedgerElsewhere ==
    ASSUME TypeInv, ControlInv, LedgerInv, BookQuiet, Elsewhere
    PROVE  LedgerInv'
<1> USE DEF Stopping, SliceStages, SliceHeld, Replacing
<1>1. OpenRows' = OpenRows /\ Slice' = Slice /\ rows' = rows /\ past \subseteq past'
  BY OpenAtRest DEF BookQuiet
<1>2. OidsUnique' /\ OidsGiven'
  BY OidsQuiet DEF LedgerInv, OidsGiven, Elsewhere, BookQuiet
<1>3. TargetsNoStops'
  <2>1. pass'.at \notin {"cancel take", "book take oid"} /\ ~At("slice oids")'
    BY DEF Elsewhere, At
  <2> QED BY <2>1, OidsQuiet DEF LedgerInv, TargetsNoStops
<1>4. Calm' => Calm /\ \A r : ~Underway(r)
  BY <1>1, CalmBefore, UnderwayIs DEF Elsewhere
<1>5. StopsRecorded'
  BY <1>1, <1>4 DEF LedgerInv, StopsRecorded
<1>6. StopPlaced' /\ SlicePlaced'
  <2>1. pass'.at \notin SliceStages \cup {"cancel stop", "book stop oid", "book stop"}
    BY DEF Elsewhere
  <2>2. pass'.at = "place stop" => (pass.level > Row.sl)'
    BY DEF Elsewhere, At
  <2> QED BY <2>1, <2>2 DEF StopPlaced, SlicePlaced
<1>7. AllGuarded'
  <2>1. ASSUME Calm', NEW r \in OpenRows' PROVE Guarded(r)'
    <3>1. PICK t \in Stops : Guards(t, r)
      BY <1>1, <1>4, <2>1 DEF LedgerInv, AllGuarded, Guarded
    <3>2. t \in Stops'
      BY <1>1, <2>1, <3>1 DEF BookQuiet, Guards
    <3>3. Active' \subseteq Active
      BY <1>1 DEF Active, Elsewhere, At
    <3>4. Guards(t, r)'
      BY <1>1, <3>1, <3>3, CalmBefore DEF Guards, Foreign, InHand, Elsewhere
    <3> QED BY <3>2, <3>4 DEF Guarded
  <2> QED BY <2>1 DEF AllGuarded
<1> QED BY <1>2, <1>3, <1>5, <1>6, <1>7 DEF LedgerInv

LEMMA LedgerUnmoved ==
    ASSUME TypeInv, ControlInv, LedgerInv, BookQuiet, StopsQuiet, pass' = pass
    PROVE  LedgerInv'
<1> USE DEF Stopping, SliceStages, SliceHeld, Replacing
<1>1. OpenRows' = OpenRows /\ Slice' = Slice /\ rows' = rows /\ past \subseteq past' /\ Row' = Row
  BY OpenAtRest DEF BookQuiet, Row
<1>2. OidsUnique' /\ OidsGiven'
  BY OidsQuiet DEF LedgerInv, OidsGiven, BookQuiet, At
<1>3. TargetsNoStops'
  <2>1. PICK oid, oid2 : oid = pass.oid /\ oid2 = pass.oid2
    OBVIOUS
  <2>2. /\ pass'.at \in {"cancel take", "book take oid"} => NoStop(oid)
        /\ At("slice oids")' => NoStop(oid2)
    BY <2>1 DEF LedgerInv, TargetsNoStops, At
  <2>3. oid = pass'.oid /\ oid2 = pass'.oid2
    BY <2>1
  <2> QED BY <2>2, <2>3, OidsQuiet DEF LedgerInv, TargetsNoStops
<1>4. (Calm' => Calm) /\ (\A r : Underway(r)' <=> Underway(r)) /\ Active' = Active
  BY <1>1, CalmBefore, UnderwayIs DEF Active, At
<1>5. StopsRecorded'
  BY <1>1, <1>4 DEF LedgerInv, StopsRecorded
<1>6. \A oid, r : (Foreign(oid, r) => Foreign(oid, r)') /\ (InHand(oid, r) => InHand(oid, r)')
  BY <1>1, <1>4 DEF Foreign, InHand
<1>7. StopPlaced'
  <2>1. ASSUME Calm', NEW t \in Stops, Placed(t) PROVE t \in Stops' /\ Placed(t)'
    BY <1>1, <1>6, <2>1, CalmBefore DEF Placed, StopsQuiet
  <2> QED BY <1>1, <1>4, <2>1 DEF LedgerInv, StopPlaced, At
<1>8. SlicePlaced'
  <2>1. ASSUME Calm', NEW t \in Stops, Covers(t) PROVE t \in Stops' /\ Covers(t)'
    BY <1>1, <1>6, <2>1 DEF Covers, StopsQuiet
  <2> QED BY <1>1, <1>4, <2>1 DEF LedgerInv, SlicePlaced
<1>9. AllGuarded'
  <2>1. ASSUME Calm', NEW r \in OpenRows', ~Underway(r)' PROVE Guarded(r)'
    <3>1. PICK t \in Stops : Guards(t, r)
      BY <1>1, <1>4, <2>1 DEF LedgerInv, AllGuarded, Guarded
    <3>2. t \in Stops' /\ Guards(t, r)'
      BY <1>1, <1>6, <2>1, <3>1, CalmBefore DEF Guards, StopsQuiet
    <3> QED BY <3>2 DEF Guarded
  <2> QED BY <2>1 DEF AllGuarded
<1> QED BY <1>2, <1>3, <1>5, <1>7, <1>8, <1>9 DEF LedgerInv

\* A step that leaves the exchange and the rows alone, or trades only.
LEMMA QuietOf ==
    ASSUME rows' = rows, oids' = oids, triggers' = triggers, past \subseteq past'
    PROVE  BookQuiet /\ StopsQuiet
BY DEF BookQuiet, StopsQuiet, Stops

LEMMA OidsStay ==
    ASSUME LedgerInv, ~At("idle"), OidsKept
    PROVE  pass'.oid <= oids /\ pass'.oid2 <= oids
BY DEF LedgerInv, OidsGiven, OidsKept

LEMMA LedgerManage ==
    ASSUME TypeInv, ControlInv, LedgerInv,
           PassOver \/ Holds \/ StartResolve \/ Resolve \/ LogAction \/ Claim \/ Release
    PROVE  LedgerInv'
<1> USE DEF Stopping, SliceStages
<1>1. /\ pass.at \in {"manage", "resolve", "log", "claim", "release"}
  BY DEF PassOver, Holds, StartResolve, Resolve, LogAction, Claim, Release, At
<1>2. UNCHANGED <<rows, oids, triggers, past>> /\ pass \in Passes
  BY PassOverEffect, StartResolveEffect, ResolveEffect, LogActionEffect, ClaimEffect, ReleaseEffect
     DEF bookVars
<1>3. OidsKept /\ pass'.at \in {"manage", "resolve", "order close", "order scale", "order add",
                                 "order resolve", "book close"}
  <2>1. CASE PassOver \/ Holds
    BY <1>1, <2>1, PassOverEffect DEF LessToDo, At
  <2>2. CASE StartResolve
    BY <2>2, StartResolveEffect
  <2>3. CASE Resolve
    <3>1. CASE LessToDo
      BY <2>3, <3>1, ResolveEffect DEF LessToDo, At
    <3>2. ASSUME NEW r \in pass.todo, NEW size \in Int, NEW step \in Closing,
                 r \in Nat, Does(r, step, 0, size, "resolve")
          PROVE  OidsKept /\ pass'.at \in Closing
      <4>1. step \in Stages /\ "resolve" \in Purposes
        BY DEF Stages, Purposes
      <4> HIDE DEF Stopping, SliceStages
      <4> QED BY <1>2, <3>2, <4>1, Zero, DoesIt
    <3> QED BY <2>3, <3>1, <3>2, ResolveEffect DEF Closing
  <2>4. CASE LogAction
    BY <2>4, LogActionEffect DEF GoneOn, GoneTo
  <2>5. CASE Claim
    BY <2>5, ClaimEffect DEF GoneOn, GoneTo
  <2>6. CASE Release
    BY <2>6, ReleaseEffect DEF GoneOn, GoneTo
  <2> QED BY <2>1, <2>2, <2>3, <2>4, <2>5, <2>6
<1>4. Elsewhere
  BY <1>1, <1>3, OidsStay DEF Elsewhere, At
<1> QED BY <1>2, <1>4, QuietOf, LedgerElsewhere

LEMMA LedgerTrades ==
    ASSUME TypeInv, ControlInv, LedgerInv, OrderScale \/ OrderClose \/ OrderAdd \/ OrderResolve
    PROVE  LedgerInv'
<1> USE DEF Stopping, SliceStages
<1>1. pass.at \in {"order scale", "order close", "order add", "order resolve"}
  BY DEF OrderScale, OrderClose, OrderAdd, OrderResolve, At
<1>2. UNCHANGED <<rows, oids, triggers>> /\ past \subseteq past'
  BY OrderScaleEffect, OrderCloseEffect, OrderAddEffect, UnseenEffect DEF Trades
<1>3. OidsKept /\ pass'.at \in {"release", "book scale", "book close", "open slice"}
  BY OrderScaleEffect, OrderCloseEffect, OrderAddEffect, UnseenEffect DEF GoneTo, Sized
<1>4. Elsewhere
  BY <1>1, <1>3, OidsStay DEF Elsewhere, At
<1> QED BY <1>2, <1>4, QuietOf, LedgerElsewhere

\* A closed row's triggers are its own: no other row loses its stop with them.
LEMMA LedgerSweeps ==
    ASSUME TypeInv, ControlInv, LedgerInv, CancelRow \/ Sweep
    PROVE  LedgerInv'
<1> USE DEF Stopping, SliceStages
<1>1. pass.at \in {"cancel row", "sweep"}
  BY DEF CancelRow, Sweep, At
<1>2. UNCHANGED <<rows, oids>> /\ triggers' \subseteq triggers /\ past \subseteq past'
  BY CancelRowEffect, SweepEffect DEF CancelOids, bookVars
<1>3. \A r \in OpenRows : \A t \in Stops : Foreign(t.oid, r) => t \in Stops'
  <2>1. CASE CancelRow
    <3>1. pass.row \in Active /\ pass.row \notin OpenRows
      BY <2>1, CancelRowEffect DEF Active, CancelRow
    <3>2. ASSUME NEW r \in OpenRows, NEW t \in Stops, Foreign(t.oid, r)
          PROVE  t.oid \notin {Row.sl_oid, Row.tp_oid}
      BY <3>1, <3>2 DEF Foreign, Row
    <3> QED BY <2>1, <3>2, CancelRowEffect DEF CancelOids, bookVars, Stops
  <2>2. CASE Sweep
    BY <2>2, SweepEffect
  <2> QED BY <2>1, <2>2
<1>4. OidsKept /\ pass'.at \in {"sweep", "log", "manage", "resolve"}
  BY CancelRowEffect, SweepEffect DEF GoneOn, GoneTo
<1>5. Elsewhere
  BY <1>1, <1>4, OidsStay DEF Elsewhere, At
<1> QED BY <1>2, <1>3, <1>5, LedgerElsewhere DEF BookQuiet

LEMMA LedgerAround ==
    ASSUME TypeInv, ControlInv, LedgerInv, Around \/ UNCHANGED vars
    PROVE  LedgerInv'
<1> USE DEF Stopping, SliceStages
<1>1. CASE EndPass \/ Dies
  <2>1. UNCHANGED <<rows, oids, triggers>> /\ past \subseteq past' /\ pass' = Idle
    BY <1>1 DEF EndPass, Dies, Books, bookVars
  <2>2. pass.at \in SliceStages => ~Calm'
    BY <1>1 DEF EndPass, Dies, CutOff, At, Calm
  <2>3. Elsewhere
    BY <2>1, <2>2 DEF Elsewhere, Idle, At
  <2> QED BY <2>1, <2>3, QuietOf, LedgerElsewhere
<1>2. CASE IntervalPasses \/ Reconcile \/ Clears \/ Moves \/ UNCHANGED vars
  <2>1. UNCHANGED <<rows, oids, triggers, past, pass>>
    BY <1>2 DEF IntervalPasses, Reconcile, Clears, Moves, MarkMoves, vars, deskVars, bookVars
  <2> QED BY <2>1, QuietOf, LedgerUnmoved
<1>3. CASE TriggerFires
  <2>1. PICK t \in triggers :
            /\ Fires(t)
            /\ past' = IF t.kind = "stop" THEN past \cup {"stopped"} ELSE past \cup {"taken"}
    BY <1>3 DEF TriggerFires
  <2>2. rows' = rows /\ oids' = oids /\ triggers' = triggers \ {t} /\ pass' = pass
    BY <1>3, <2>1 DEF TriggerFires, Fires
  <2>3. past \subseteq past'
    BY <2>1
  <2>4. Calm' => Stops \subseteq Stops'
    BY <2>1, <2>2 DEF Calm, Stops
  <2> QED BY <2>2, <2>3, <2>4, LedgerUnmoved DEF BookQuiet, StopsQuiet
<1> QED BY <1>1, <1>2, <1>3 DEF Around

\* A trigger that is placed has an oid no row and no other trigger has.
LEMMA PlacedFacts ==
    ASSUME TypeInv, ControlInv, LedgerInv, rows' = rows,
           NEW kind \in {"stop", "take"}, NEW level \in Int, NEW size \in Nat,
           PlaceTrigger(kind, level, size)
    PROVE  /\ oids \in Nat /\ oids' = oids + 1
           /\ kind = "take" => Stops' = Stops
           /\ OidsUnique' /\ \A t \in triggers' : t.oid <= oids'
           /\ \A r \in DOMAIN rows' : rows'[r].sl_oid <= oids' /\ rows'[r].tp_oid <= oids'
           /\ \A r \in DOMAIN rows' : NoStop(rows[r].tp_oid)'
           /\ \A r : Foreign(oids + 1, r)
           /\ \A t \in triggers : t.oid \in Nat /\ t.oid <= oids /\ t.oid # oids + 1 /\ t.oid # NoOid
<1> DEFINE new == [oid |-> oids + 1, kind |-> kind, level |-> level, size |-> size]
<1>1. oids \in Nat /\ oids' = oids + 1 /\ triggers' = triggers \cup {new}
  BY DEF TypeInv, BookTypeOK, PlaceTrigger
<1>2. /\ new \in Triggers /\ new.oid = oids + 1 /\ new.kind = kind /\ new.level = level
      /\ new.size = size
  BY <1>1 DEF Triggers
<1>3. \A t \in triggers : t.oid \in Nat \ {0} /\ t.oid <= oids /\ t.oid # oids + 1
  <2>1. \A t \in triggers : t.oid \in Nat \ {0} /\ t.oid <= oids
    BY DEF TypeInv, BookTypeOK, Triggers, LedgerInv, OidsGiven
  <2> QED BY <1>1, <2>1
<1> HIDE DEF new
<1>4. /\ kind = "stop" => Stops' = Stops \cup {new}
      /\ kind = "take" => Stops' = Stops
  BY <1>1, <1>2 DEF Stops
<1>5. OidsUnique'
  BY <1>1, <1>2, <1>3 DEF LedgerInv, OidsUnique
<1>6. \A t \in triggers' : t.oid <= oids'
  BY <1>1, <1>2, <1>3
<1>7. \A r \in DOMAIN rows : /\ rows[r].sl_oid \in Nat /\ rows[r].sl_oid <= oids
                             /\ rows[r].tp_oid \in Nat /\ rows[r].tp_oid <= oids
  BY RowsFacts DEF RowsType, LedgerInv, OidsGiven
<1>8. \A r \in DOMAIN rows' : rows'[r].sl_oid <= oids' /\ rows'[r].tp_oid <= oids'
  BY <1>1, <1>7
<1>9. ASSUME NEW r \in DOMAIN rows' PROVE NoStop(rows[r].tp_oid)'
  <2>1. PICK oid : oid = rows[r].tp_oid
    OBVIOUS
  <2>2. oid \in Nat /\ oid <= oids /\ NoStop(oid) /\ oid = rows'[r].tp_oid
    BY <1>7, <1>9, <2>1 DEF LedgerInv, TargetsNoStops
  <2>3. NoStop(oid)'
    BY <1>1, <1>2, <1>4, <2>2 DEF NoStop
  <2> QED BY <2>2, <2>3
<1>10. Active \subseteq DOMAIN rows
  BY RowsFacts DEF Active, ControlInv, RowOwned, At
<1>11. \A r : Foreign(oids + 1, r)
  BY <1>1, <1>7, <1>10 DEF Foreign
<1> QED BY <1>1, <1>2, <1>3, <1>4, <1>5, <1>6, <1>8, <1>9, <1>11 DEF NoOid

Rests(new, level, size) ==
    /\ new.oid = oids + 1 /\ new.kind = "stop" /\ new.level = level
    /\ new.size = size /\ Stops' = Stops \cup {new}

LEMMA PlacedStop ==
    ASSUME TypeInv, NEW level \in Int, NEW size \in Nat, PlaceTrigger("stop", level, size)
    PROVE  \E new \in Triggers : Rests(new, level, size)
<1> DEFINE new == [oid |-> oids + 1, kind |-> "stop", level |-> level, size |-> size]
<1>1. oids \in Nat /\ triggers' = triggers \cup {new}
  BY DEF TypeInv, BookTypeOK, PlaceTrigger
<1>2. /\ new \in Triggers /\ new.oid = oids + 1 /\ new.kind = "stop" /\ new.level = level
      /\ new.size = size
  BY <1>1 DEF Triggers
<1> HIDE DEF new
<1>3. Stops' = Stops \cup {new}
  BY <1>1, <1>2 DEF Stops
<1> QED BY <1>2, <1>3 DEF Rests

\* Rows and their oids at rest: what was no other row's stays so.
LEMMA ForeignStays ==
    ASSUME rows' = rows, ~At("cancel row")'
    PROVE  /\ OpenRows' = OpenRows /\ Slice' = Slice /\ Active' \subseteq Active
           /\ \A oid, r : Foreign(oid, r) => Foreign(oid, r)'
<1>1. OpenRows' = OpenRows /\ Slice' = Slice /\ Active' \subseteq Active
  BY OpenAtRest DEF Active
<1> QED BY <1>1 DEF Foreign

LEMMA LedgerPlaceStop ==
    ASSUME TypeInv, ControlInv, LedgerInv, PlaceStop
    PROVE  LedgerInv'
<1> USE DEF Stopping, SliceStages, SliceHeld, Replacing
<1>1. /\ pass.at = "place stop" /\ pass \in Passes /\ Row \in RowsType /\ pass.row \in OpenRows
      /\ rows' = rows /\ past' = past /\ pass.level > Row.sl
  BY PlaceStopEffect DEF PlaceStop, PlaceNew, At, LedgerInv, StopPlaced
<1>2. CASE GoneOn /\ UNCHANGED bookVars
  <2>1. UNCHANGED <<rows, oids, triggers>> /\ past \subseteq past'
    BY <1>1, <1>2 DEF bookVars
  <2>2. Elsewhere
    BY <1>1, <1>2, OidsStay DEF Elsewhere, At, GoneOn, GoneTo
  <2> QED BY <2>1, <2>2, QuietOf, LedgerElsewhere
<1>3. CASE /\ PlaceTrigger("stop", pass.level, Row.size) /\ Noted("cancel stop")
           /\ pass'.oid = oids + 1 /\ pass'.oid2 = pass.oid2
  <2>1. pass.level \in Int /\ Row.size \in Nat
    BY <1>1 DEF Passes, RowsType
  <2>2. PICK new \in Triggers :
            /\ new.oid = oids + 1 /\ new.kind = "stop" /\ new.level = pass.level
            /\ new.size = Row.size /\ Stops' = Stops \cup {new}
    <3>1. PICK new \in Triggers : Rests(new, pass.level, Row.size)
      BY <1>3, <2>1, PlacedStop
    <3> QED BY <3>1 DEF Rests
  <2>3. /\ oids \in Nat /\ oids' = oids + 1 /\ OidsUnique' /\ \A t \in triggers' : t.oid <= oids'
        /\ \A r \in DOMAIN rows' : rows'[r].sl_oid <= oids' /\ rows'[r].tp_oid <= oids'
        /\ \A r \in DOMAIN rows' : NoStop(rows[r].tp_oid)'
        /\ \A r : Foreign(oids + 1, r)
        /\ \A t \in triggers : t.oid # oids + 1
    BY <1>1, <1>3, <2>1, PlacedFacts
  <2>4. /\ pass'.at = "cancel stop" /\ pass'.row = pass.row /\ pass'.level = pass.level
        /\ pass'.oid = oids + 1 /\ pass'.oid2 = pass.oid2
    BY <1>3 DEF Noted, InHandKept
  <2>5. /\ OpenRows' = OpenRows /\ Row' = Row
        /\ \A oid, r : Foreign(oid, r) => Foreign(oid, r)'
    BY <1>1, <2>4, ForeignStays DEF At, Row
  <2>6. OidsGiven'
    <3>1. pass.oid2 \in Nat /\ pass.oid2 <= oids
      BY <1>1 DEF LedgerInv, OidsGiven, At, Passes
    <3>2. pass.oid2 <= oids + 1 /\ oids + 1 <= oids + 1
      BY <2>3, <3>1
    <3>3. pass'.oid <= oids' /\ pass'.oid2 <= oids'
      BY <2>3, <2>4, <3>2
    <3> QED BY <2>3, <3>3 DEF OidsGiven
  <2>7. TargetsNoStops'
    BY <1>1, <2>3, <2>4 DEF TargetsNoStops, At
  <2>8. (Calm' <=> Calm) /\ (\A r : ~Underway(r)) /\ \A t, size : Large(t, size)' <=> Large(t, size)
    BY <1>1, UnderwayIs DEF Calm, Large
  <2>9. StopsRecorded'
    BY <1>1, <2>5, <2>8 DEF LedgerInv, StopsRecorded
  <2>10. StopPlaced'
    <3>1. oids + 1 # NoOid /\ oids + 1 # Row.sl_oid
      <4>1. Row.sl_oid \in Nat /\ Row.sl_oid <= oids
        BY <1>1, RowsFacts DEF RowsType, LedgerInv, OidsGiven, Row
      <4> QED BY <2>3, <4>1 DEF NoOid
    <3>2. Large(new, Row.size)
      BY <2>1, <2>2 DEF Large
    <3>3. Placed(new)'
      BY <2>2, <2>3, <2>4, <2>5, <2>8, <3>2 DEF Placed
    <3> QED BY <1>1, <2>2, <2>4, <2>5, <3>1, <3>3 DEF StopPlaced, At
  <2>11. SlicePlaced'
    BY <2>4 DEF SlicePlaced
  <2>12. AllGuarded'
    <3>1. ASSUME Calm', NEW r \in OpenRows' PROVE Guarded(r)'
      <4>1. PICK t \in Stops : Guards(t, r)
        BY <2>5, <2>8, <3>1 DEF LedgerInv, AllGuarded, Guarded
      <4>2. InHand(t.oid, r)'
        BY <2>3, <2>4 DEF InHand, Stops
      <4>3. Guards(t, r)'
        BY <1>1, <2>5, <2>8, <4>1, <4>2 DEF Guards
      <4> QED BY <2>2, <4>3 DEF Guarded
    <3> QED BY <3>1 DEF AllGuarded
  <2> QED BY <2>3, <2>6, <2>7, <2>9, <2>10, <2>11, <2>12 DEF LedgerInv
<1> QED BY <1>2, <1>3, PlaceStopEffect

LEMMA LedgerPlaceTake ==
    ASSUME TypeInv, ControlInv, LedgerInv, PlaceTake
    PROVE  LedgerInv'
<1> USE DEF Stopping, SliceStages, SliceHeld, Replacing
<1>1. /\ pass.at = "place take" /\ pass \in Passes /\ Row \in RowsType /\ pass.row \in OpenRows
      /\ rows' = rows /\ past' = past
  BY PlaceTakeEffect DEF PlaceTake, PlaceNew, At
<1>2. CASE GoneOn /\ UNCHANGED bookVars
  <2>1. UNCHANGED <<rows, oids, triggers>> /\ past \subseteq past'
    BY <1>1, <1>2 DEF bookVars
  <2>2. Elsewhere
    BY <1>1, <1>2, OidsStay DEF Elsewhere, At, GoneOn, GoneTo
  <2> QED BY <2>1, <2>2, QuietOf, LedgerElsewhere
<1>3. CASE /\ PlaceTrigger("take", pass.level, Row.size) /\ Noted("cancel take")
           /\ pass'.oid = oids + 1 /\ pass'.oid2 = pass.oid2
  <2>1. pass.level \in Int /\ Row.size \in Nat
    BY <1>1 DEF Passes, RowsType
  <2>3. /\ oids \in Nat /\ oids' = oids + 1 /\ OidsUnique' /\ \A t \in triggers' : t.oid <= oids'
        /\ \A r \in DOMAIN rows' : rows'[r].sl_oid <= oids' /\ rows'[r].tp_oid <= oids'
        /\ \A r \in DOMAIN rows' : NoStop(rows[r].tp_oid)'
        /\ \A t \in triggers : t.oid # oids + 1
        /\ Stops' = Stops
    BY <1>1, <1>3, <2>1, PlacedFacts
  <2>4. /\ pass'.at = "cancel take" /\ pass'.oid = oids + 1 /\ pass'.oid2 = pass.oid2
    BY <1>3 DEF Noted
  <2>5. /\ OpenRows' = OpenRows
        /\ \A oid, r : Foreign(oid, r) => Foreign(oid, r)'
    BY <1>1, <2>4, ForeignStays DEF At
  <2>6. OidsGiven'
    <3>1. pass.oid2 \in Nat /\ pass.oid2 <= oids
      BY <1>1 DEF LedgerInv, OidsGiven, At, Passes
    <3>2. pass.oid2 <= oids + 1 /\ oids + 1 <= oids + 1
      BY <2>3, <3>1
    <3>3. pass'.oid <= oids' /\ pass'.oid2 <= oids'
      BY <2>3, <2>4, <3>2
    <3> QED BY <2>3, <3>3 DEF OidsGiven
  <2>7. TargetsNoStops'
    <3>1. NoStop(pass.oid)'
      BY <2>3, <2>4 DEF NoStop, Stops
    <3> QED BY <1>1, <2>3, <2>4, <3>1 DEF TargetsNoStops, At
  <2>8. (Calm' <=> Calm) /\ (\A r : ~Underway(r)) /\ \A t, size : Large(t, size)' <=> Large(t, size)
    BY <1>1, UnderwayIs DEF Calm, Large
  <2>9. StopsRecorded'
    BY <1>1, <2>5, <2>8 DEF LedgerInv, StopsRecorded
  <2>10. StopPlaced' /\ SlicePlaced'
    BY <2>4 DEF StopPlaced, SlicePlaced
  <2>11. AllGuarded'
    <3>1. ASSUME Calm', NEW r \in OpenRows' PROVE Guarded(r)'
      <4>1. PICK t \in Stops : Guards(t, r)
        BY <2>5, <2>8, <3>1 DEF LedgerInv, AllGuarded, Guarded
      <4>2. Guards(t, r)'
        BY <1>1, <2>4, <2>5, <2>8, <4>1 DEF Guards, InHand
      <4> QED BY <2>3, <4>2 DEF Guarded
    <3> QED BY <3>1 DEF AllGuarded
  <2> QED BY <2>3, <2>6, <2>7, <2>9, <2>10, <2>11 DEF LedgerInv
<1> QED BY <1>2, <1>3, PlaceTakeEffect

\* Row r is written and nothing else but the pass, which has no stop in hand after it.
Rebooks(r) ==
    /\ UNCHANGED <<bookVars, past>> /\ Others(r) /\ OpenRows' = OpenRows /\ OidsKept
    /\ pass.at \notin {"idle", "cancel row"} /\ pass'.at \in {"book stop", "book take", "claim", "log"}
    /\ \A q \in OpenRows \ {r} : ~Underway(q)
    /\ rows'[r].sl_oid <= oids /\ rows'[r].tp_oid <= oids
    /\ NoStop(rows'[r].tp_oid)
    /\ Calm => rows'[r].sl_oid # NoOid
Spares(r) ==
    Calm => \A q \in OpenRows \ {r} : \A t \in Stops :
                Foreign(t.oid, q) /\ InHand(t.oid, q) =>
                    t.oid # rows'[r].sl_oid /\ t.oid # rows'[r].tp_oid
Backed(r, t) ==
    /\ t.level >= rows'[r].sl /\ Large(t, rows'[r].size) /\ Foreign(t.oid, r)

LEMMA LedgerRebooked ==
    ASSUME TypeInv, ControlInv, LedgerInv, NEW r \in OpenRows, Rebooks(r), Spares(r),
           Calm => \E t \in Stops : Backed(r, t), StopPlaced'
    PROVE  LedgerInv'
<1> USE DEF Stopping, SliceStages, SliceHeld, Replacing
<1>1. /\ UNCHANGED <<triggers, oids, past>> /\ DOMAIN rows' = DOMAIN rows /\ Slice' = Slice
      /\ OpenRows' = OpenRows /\ \A q \in DOMAIN rows : q # r => rows'[q] = rows[q]
      /\ pass'.at \in {"book stop", "book take", "claim", "log"}
  BY DEF Rebooks, Others, bookVars
<1>2. Stops' = Stops /\ (Calm' <=> Calm) /\ OpenRows \subseteq DOMAIN rows
  BY <1>1, RowsFacts DEF Stops, Calm
<1>3. OidsUnique'
  BY <1>1 DEF LedgerInv, OidsUnique
<1>4. OidsGiven'
  <2>1. ASSUME NEW q \in DOMAIN rows' PROVE rows'[q].sl_oid <= oids /\ rows'[q].tp_oid <= oids
    <3>1. CASE q = r
      BY <3>1 DEF Rebooks
    <3>2. CASE q # r
      BY <1>1, <2>1, <3>2 DEF LedgerInv, OidsGiven
    <3> QED BY <3>1, <3>2
  <2>2. ~At("idle") => pass'.oid <= oids /\ pass'.oid2 <= oids
    BY OidsStay DEF Rebooks
  <2>3. ~At("idle")
    BY DEF Rebooks, At
  <2> QED BY <1>1, <2>1, <2>2, <2>3 DEF OidsGiven, LedgerInv
<1>5. TargetsNoStops'
  <2>1. ASSUME NEW q \in DOMAIN rows' PROVE NoStop(rows[q].tp_oid)'
    <3>1. NoStop(rows'[q].tp_oid)
      <4>1. CASE q = r
        BY <4>1 DEF Rebooks
      <4>2. CASE q # r
        BY <1>1, <2>1, <4>2 DEF LedgerInv, TargetsNoStops
      <4> QED BY <4>1, <4>2
    <3> QED BY <1>2, <3>1 DEF NoStop
  <2> QED BY <1>1, <2>1 DEF TargetsNoStops, At
<1>6. StopsRecorded'
  <2>1. ASSUME Calm', NEW q \in OpenRows' PROVE rows'[q].sl_oid # NoOid
    <3>1. CASE q = r
      BY <1>2, <2>1, <3>1 DEF Rebooks
    <3>2. CASE q # r
      BY <1>1, <1>2, <2>1, <3>2 DEF Rebooks, LedgerInv, StopsRecorded
    <3> QED BY <3>1, <3>2
  <2> QED BY <2>1 DEF StopsRecorded
<1>7. SlicePlaced'
  BY <1>1 DEF SlicePlaced
<1>8. Active = OpenRows /\ Active' = OpenRows
  BY <1>1 DEF Rebooks, Active, At
<1>9. ASSUME Calm, NEW q \in OpenRows PROVE Guarded(q)'
  <2>1. \A oid : InHand(oid, q)'
    BY <1>1 DEF InHand
  <2>2. \A t, size : Large(t, size) => Large(t, size)'
    BY <1>1 DEF Large
  <2>3. CASE q = r
    <3>1. PICK t \in Stops : Backed(r, t)
      BY <1>9
    <3>2. Foreign(t.oid, r)'
      BY <1>1, <1>2, <1>8, <3>1 DEF Backed, Foreign
    <3>3. Guards(t, r)'
      BY <2>1, <2>2, <2>3, <3>1, <3>2 DEF Guards, Backed
    <3> QED BY <1>2, <2>3, <3>3 DEF Guarded
  <2>4. CASE q # r
    <3>1. PICK t \in Stops : Guards(t, q)
      BY <1>9, <2>4 DEF Rebooks, LedgerInv, AllGuarded, Guarded
    <3>2. t.oid # rows'[r].sl_oid /\ t.oid # rows'[r].tp_oid
      BY <1>9, <2>4, <3>1 DEF Spares, Guards
    <3>3. Foreign(t.oid, q)'
      BY <1>1, <1>2, <1>8, <3>1, <3>2 DEF Guards, Foreign
    <3>4. rows'[q] = rows[q]
      BY <1>1, <1>2, <2>4
    <3>5. Guards(t, q)'
      BY <2>1, <2>2, <3>1, <3>3, <3>4 DEF Guards
    <3> QED BY <1>2, <3>5 DEF Guarded
  <2> QED BY <2>3, <2>4
<1>10. AllGuarded'
  BY <1>1, <1>2, <1>9 DEF AllGuarded
<1> QED BY <1>3, <1>4, <1>5, <1>6, <1>7, <1>10 DEF LedgerInv

LEMMA LedgerBookStopOid ==
    ASSUME TypeInv, ControlInv, LedgerInv, BookStopOid
    PROVE  LedgerInv'
<1> USE DEF Stopping, SliceStages, SliceHeld, Replacing
<1>1. /\ Others(pass.row)
      /\ RowIs(pass.row, Row.sl, Row.size, Row.tp, pass.oid, Row.tp_oid)
      /\ OpenRows' = OpenRows /\ GoneTo("book stop") /\ pass.row \in OpenRows
      /\ pass.row \in DOMAIN rows /\ UNCHANGED <<bookVars, past>> /\ pass.at = "book stop oid"
  BY BookStopOidEffect DEF BookStopOid, Book, At
<1>2. Row = rows[pass.row] /\ UNCHANGED <<triggers, oids>> /\ Stops' = Stops /\ (Calm' <=> Calm)
  BY <1>1 DEF Row, bookVars, Stops, Calm
<1>3. Rebooks(pass.row)
  <2>1. rows'[pass.row].sl_oid <= oids /\ rows'[pass.row].tp_oid <= oids
    BY <1>1, <1>2 DEF LedgerInv, OidsGiven, RowIs, At
  <2>2. NoStop(rows'[pass.row].tp_oid)
    BY <1>1, <1>2 DEF LedgerInv, TargetsNoStops, RowIs
  <2>3. Calm => rows'[pass.row].sl_oid # NoOid
    BY <1>1 DEF LedgerInv, StopPlaced, RowIs
  <2>4. \A q : ~Underway(q)
    BY <1>1, UnderwayIs
  <2> QED BY <1>1, <2>1, <2>2, <2>3, <2>4 DEF Rebooks, GoneTo
<1>4. Spares(pass.row)
  <2>1. ASSUME NEW q \in OpenRows \ {pass.row}, NEW t \in Stops, Foreign(t.oid, q), InHand(t.oid, q)
        PROVE  t.oid # pass.oid /\ t.oid # Row.tp_oid
    BY <1>1, <1>2, <2>1 DEF Foreign, InHand, Active
  <2> QED BY <1>1, <2>1 DEF Spares, RowIs
<1>5. Calm => \E t \in Stops : Placed(t)
  BY <1>1 DEF LedgerInv, StopPlaced
<1>6. ASSUME NEW t \in Stops, Placed(t) PROVE Backed(pass.row, t)
  <2>1. t.level = pass.level /\ pass.level > Row.sl /\ pass.level \in Int /\ Row.sl \in Int
    BY <1>1, <1>2, <1>6, RowsFacts, BookStopOidEffect
       DEF Placed, LedgerInv, StopPlaced, Passes, RowsType
  <2>2. t.level >= Row.sl
    BY <2>1
  <2> QED BY <1>1, <1>6, <2>2 DEF Placed, Backed, RowIs
<1>7. StopPlaced'
  <2>1. pass'.at = "book stop" /\ pass'.oid = pass.oid /\ pass'.level = pass.level /\ pass'.row = pass.row
    BY <1>1 DEF GoneTo, OidsKept, InHandKept
  <2>2. Row'.sl = Row.sl /\ Row'.size = Row.size
    BY <1>1, <2>1 DEF Row, RowIs
  <2>3. ASSUME NEW t \in Stops, Placed(t) PROVE Placed(t)'
    <3>1. Active' = OpenRows /\ Active = OpenRows
      BY <1>1, <2>1 DEF Active, At
    <3>2. Foreign(t.oid, pass.row)'
      BY <1>1, <2>1, <2>3, <3>1, RowsFacts DEF Placed, Foreign, Others
    <3> QED BY <1>1, <1>2, <2>1, <2>2, <2>3, <3>2 DEF Placed, Large
  <2> QED BY <1>1, <1>2, <1>5, <2>1, <2>2, <2>3 DEF StopPlaced, LedgerInv, At
<1>8. Calm => \E t \in Stops : Backed(pass.row, t)
  BY <1>5, <1>6
<1> QED BY <1>1, <1>3, <1>4, <1>7, <1>8, LedgerRebooked

LEMMA LedgerBookStop ==
    ASSUME TypeInv, ControlInv, LedgerInv, BookStop
    PROVE  LedgerInv'
<1> USE DEF Stopping, SliceStages, SliceHeld, Replacing
<1>1. /\ Others(pass.row)
      /\ RowIs(pass.row, pass.level, Row.size, Row.tp, Row.sl_oid, Row.tp_oid)
      /\ OpenRows' = OpenRows /\ pass.row \in OpenRows /\ pass \in Passes
      /\ pass.row \in DOMAIN rows /\ UNCHANGED <<bookVars, past>> /\ pass.at = "book stop"
      /\ GoneTo(IF pass.for = "add" THEN "claim" ELSE "log")
  BY BookStopEffect DEF BookStop, Book, At
<1>2. Row = rows[pass.row] /\ pass'.at \in {"claim", "log"} /\ OidsKept
  BY <1>1 DEF Row, GoneTo
<1>3. Rebooks(pass.row)
  <2>1. rows'[pass.row].sl_oid <= oids /\ rows'[pass.row].tp_oid <= oids
    BY <1>1, <1>2 DEF LedgerInv, OidsGiven, RowIs
  <2>2. NoStop(rows'[pass.row].tp_oid)
    BY <1>1, <1>2 DEF LedgerInv, TargetsNoStops, RowIs
  <2>3. \A q : ~Underway(q)
    BY <1>1, UnderwayIs
  <2>4. Calm => rows'[pass.row].sl_oid # NoOid
    BY <1>1, <1>2, <2>3 DEF LedgerInv, StopsRecorded, RowIs
  <2> QED BY <1>1, <1>2, <2>1, <2>2, <2>3, <2>4 DEF Rebooks
<1>4. Spares(pass.row)
  BY <1>1, <1>2 DEF Spares, RowIs, Foreign, Active
<1>5. Calm => \E t \in Stops : Placed(t)
  BY <1>1 DEF LedgerInv, StopPlaced
<1>6. ASSUME NEW t \in Stops, Placed(t) PROVE Backed(pass.row, t)
  <2>1. PICK level \in Int : level = pass.level
    BY <1>1 DEF Passes
  <2>2. t.level >= level
    BY <1>6, <2>1 DEF Placed
  <2> QED BY <1>1, <1>6, <2>1, <2>2 DEF Placed, Backed, RowIs
<1>7. StopPlaced'
  BY <1>2 DEF StopPlaced
<1>8. Calm => \E t \in Stops : Backed(pass.row, t)
  BY <1>5, <1>6
<1> QED BY <1>1, <1>3, <1>4, <1>7, <1>8, LedgerRebooked

LEMMA LedgerBookTake ==
    ASSUME TypeInv, ControlInv, LedgerInv, BookTakeOid \/ BookTake \/ BookScale
    PROVE  LedgerInv'
<1> USE DEF Stopping, SliceStages, SliceHeld, Replacing
<1>1. /\ pass \in Passes /\ pass.row \in OpenRows /\ pass.row \in DOMAIN rows /\ Row \in RowsType
      /\ Others(pass.row) /\ OpenRows' = OpenRows /\ UNCHANGED <<bookVars, past>> /\ OidsKept
      /\ pass.at \in {"book take oid", "book take", "book scale"}
      /\ pass'.at \in {"book take", "log"}
  BY BookTakeOidEffect, BookTakeEffect, BookScaleEffect
     DEF BookTakeOid, BookTake, BookScale, Book, At, GoneTo
<1>2. Row = rows[pass.row]
  BY DEF Row
<1>3. /\ rows'[pass.row].sl = Row.sl /\ rows'[pass.row].sl_oid = Row.sl_oid
      /\ rows'[pass.row].tp_oid = Row.tp_oid \/ (At("book take oid") /\ rows'[pass.row].tp_oid = pass.oid)
      /\ rows'[pass.row].size = Row.size \/ (At("book scale") /\ rows'[pass.row].size = Row.size - pass.size)
  BY BookTakeOidEffect, BookTakeEffect, BookScaleEffect
     DEF RowIs, BookTakeOid, BookTake, BookScale, Book
<1>4. Rebooks(pass.row)
  <2>1. rows'[pass.row].sl_oid <= oids /\ rows'[pass.row].tp_oid <= oids
    BY <1>1, <1>2, <1>3 DEF LedgerInv, OidsGiven, At
  <2>2. NoStop(rows'[pass.row].tp_oid)
    BY <1>1, <1>2, <1>3 DEF LedgerInv, TargetsNoStops, At
  <2>3. \A q : ~Underway(q)
    BY <1>1, UnderwayIs
  <2>4. Calm => rows'[pass.row].sl_oid # NoOid
    BY <1>1, <1>2, <1>3, <2>3 DEF LedgerInv, StopsRecorded
  <2> QED BY <1>1, <2>1, <2>2, <2>3, <2>4 DEF Rebooks
<1>5. Spares(pass.row)
  <2>1. At("book take oid") => NoStop(pass.oid)
    BY DEF LedgerInv, TargetsNoStops, At
  <2>2. ASSUME NEW q \in OpenRows \ {pass.row}, NEW t \in Stops, Foreign(t.oid, q)
        PROVE  t.oid # Row.sl_oid /\ t.oid # Row.tp_oid
    BY <1>1, <1>2, <2>2 DEF Foreign, Active
  <2> QED BY <1>3, <2>1, <2>2 DEF Spares, NoStop
<1>6. Calm => \E t \in Stops : Guards(t, pass.row)
  BY <1>1, UnderwayIs DEF LedgerInv, AllGuarded, Guarded
<1>7. ASSUME NEW t \in Stops, Guards(t, pass.row) PROVE Backed(pass.row, t)
  <2>1. Large(t, rows'[pass.row].size)
    <3>1. CASE rows'[pass.row].size = Row.size
      BY <1>2, <1>7, <3>1 DEF Guards
    <3>2. CASE At("book scale") /\ rows'[pass.row].size = Row.size - pass.size
      <4>1. PICK size, share \in Nat : size = Row.size /\ share = pass.size
        BY <1>1, <3>2 DEF ControlInv, Purposeful, At, RowsType
      <4>2. t.size \in Nat /\ size \in Nat
        BY <1>1, <4>1 DEF Stops, TypeInv, BookTypeOK, Triggers, RowsType
      <4>3. t.size >= size => t.size >= size - share
        BY <4>1, <4>2
      <4> QED BY <1>2, <1>7, <3>2, <4>1, <4>3 DEF Guards, Large
    <3> QED BY <1>3, <3>1, <3>2
  <2> QED BY <1>2, <1>3, <1>7, <2>1 DEF Guards, Backed
<1>8. StopPlaced'
  BY <1>1 DEF StopPlaced
<1>9. Calm => \E t \in Stops : Backed(pass.row, t)
  BY <1>6, <1>7
<1> QED BY <1>1, <1>4, <1>5, <1>8, <1>9, LedgerRebooked

LEMMA LedgerSliceOids ==
    ASSUME TypeInv, ControlInv, LedgerInv, SliceOids
    PROVE  LedgerInv'
<1> USE DEF Stopping, SliceStages, SliceHeld, Replacing
<1>1. /\ Others(Slice) /\ OpenRows' = OpenRows /\ GoneTo("log") /\ pass \in Passes
      /\ RowIs(Slice, rows[Slice].sl, rows[Slice].size, rows[Slice].tp, pass.oid, pass.oid2)
      /\ Slice \in OpenRows /\ Slice \in DOMAIN rows
      /\ UNCHANGED <<bookVars, past>> /\ pass.at = "slice oids"
  BY SliceOidsEffect DEF SliceOids, At
<1>2. pass'.at = "log" /\ OidsKept
  BY <1>1 DEF GoneTo
<1>3. Calm => /\ pass.oid # NoOid
              /\ \E t \in Stops : Covers(t)
  BY <1>1 DEF LedgerInv, SlicePlaced
<1>4. NoStop(pass.oid2)
  BY <1>1 DEF LedgerInv, TargetsNoStops, At
<1>5. Rebooks(Slice)
  <2>1. rows'[Slice].sl_oid <= oids /\ rows'[Slice].tp_oid <= oids
    BY <1>1 DEF LedgerInv, OidsGiven, RowIs, At
  <2>2. \A q : Underway(q) => q = Slice
    BY UnderwayIs
  <2> QED BY <1>1, <1>2, <1>3, <1>4, <2>1, <2>2 DEF Rebooks, RowIs
<1>6. Spares(Slice)
  <2>1. ASSUME NEW q \in OpenRows \ {Slice}, NEW t \in Stops, InHand(t.oid, q)
        PROVE  t.oid # pass.oid /\ t.oid # pass.oid2
    BY <1>1, <1>4, <2>1 DEF InHand, NoStop
  <2> QED BY <1>1, <2>1 DEF Spares, RowIs
<1>7. ASSUME NEW t \in Stops, Covers(t) PROVE Backed(Slice, t)
  <2>1. rows[Slice].sl = pass.level /\ rows[Slice].size = pass.size
    BY <1>1 DEF LedgerInv, SlicePlaced
  <2>2. pass.level \in Int /\ pass.size \in Int
    BY <1>1 DEF Passes
  <2>3. t.level >= pass.level /\ t.size >= pass.size
    BY <1>7, <2>2 DEF Covers
  <2> QED BY <1>1, <1>7, <2>1, <2>3 DEF Covers, Backed, RowIs, Large
<1>8. StopPlaced'
  BY <1>2 DEF StopPlaced
<1>9. Calm => \E t \in Stops : Backed(Slice, t)
  BY <1>3, <1>7
<1> QED BY <1>1, <1>5, <1>6, <1>8, <1>9, LedgerRebooked

\* The row's old stop goes, or stays where the cancel is refused: the new one rests.
LEMMA LedgerCancelStop ==
    ASSUME TypeInv, ControlInv, LedgerInv, CancelStop
    PROVE  LedgerInv'
<1> USE DEF Stopping, SliceStages, SliceHeld, Replacing
<1>1. /\ GoneTo("book stop oid") /\ pass \in Passes /\ pass.row \in OpenRows
      /\ pass.row \in DOMAIN rows /\ Row \in RowsType
      /\ UNCHANGED <<rows, past>> /\ pass.at = "cancel stop"
      /\ CancelOids(Replaced("stop", Row.sl_oid)) \/ UNCHANGED bookVars
  BY CancelStopEffect DEF CancelStop, CancelOld, At
<1>2. /\ pass'.at = "book stop oid" /\ pass'.row = pass.row /\ pass'.oid = pass.oid
      /\ pass'.oid2 = pass.oid2 /\ pass'.level = pass.level
  BY <1>1 DEF GoneTo, InHandKept, OidsKept
<1>3. /\ oids' = oids /\ triggers' \subseteq triggers
      /\ \A t \in triggers : t.oid \notin Replaced("stop", Row.sl_oid) => t \in triggers'
  BY <1>1 DEF CancelOids, bookVars
<1>4. /\ OpenRows' = OpenRows /\ Slice' = Slice /\ Row' = Row /\ (Calm' <=> Calm)
      /\ \A oid, r : Foreign(oid, r) => Foreign(oid, r)'
  BY <1>1, <1>2, ForeignStays DEF At, Row, Calm
<1>5. \A r : ~Underway(r) /\ ~Underway(r)'
  BY <1>1, <1>2, UnderwayIs
<1>6. Row = rows[pass.row]
  BY DEF Row
<1>7. Calm => Replaced("stop", Row.sl_oid) = {Row.sl_oid}
  BY <1>1, <1>5, <1>6 DEF LedgerInv, StopsRecorded, Replaced
<1>8. Calm => \A t \in Stops : t.oid # Row.sl_oid => t \in Stops'
  BY <1>3, <1>7 DEF Stops
<1>9. OidsUnique' /\ OidsGiven' /\ TargetsNoStops'
  <2>1. /\ OidsUnique' /\ (\A t \in triggers' : t.oid <= oids')
        /\ \A r \in DOMAIN rows' : /\ rows'[r].sl_oid <= oids' /\ rows'[r].tp_oid <= oids'
    BY <1>1, <1>3 DEF LedgerInv, OidsUnique, OidsGiven
  <2>2. pass'.oid <= oids' /\ pass'.oid2 <= oids'
    BY <1>1, <1>2, <1>3 DEF LedgerInv, OidsGiven, At
  <2>3. \A oid : NoStop(oid) => NoStop(oid)'
    BY <1>3 DEF NoStop, Stops
  <2>4. ASSUME NEW r \in DOMAIN rows' PROVE NoStop(rows[r].tp_oid)'
    <3>1. PICK oid : oid = rows[r].tp_oid
      OBVIOUS
    <3>2. oid = rows'[r].tp_oid /\ NoStop(oid)
      BY <1>1, <2>4, <3>1 DEF LedgerInv, TargetsNoStops
    <3> QED BY <2>3, <3>2
  <2> QED BY <1>2, <2>1, <2>2, <2>4 DEF OidsGiven, TargetsNoStops, At
<1>10. StopsRecorded'
  BY <1>1, <1>4, <1>5 DEF LedgerInv, StopsRecorded
<1>11. Calm => \E t \in Stops : Placed(t)
  BY <1>1 DEF LedgerInv, StopPlaced
<1>12. pass.oid # NoOid \/ ~Calm
  BY <1>1 DEF LedgerInv, StopPlaced
<1>13. pass.level > Row.sl
  BY <1>1 DEF LedgerInv, StopPlaced
<1>14. ASSUME Calm, NEW t \in Stops, Placed(t)
       PROVE  t \in Stops' /\ Placed(t)' /\ t.oid # Row.sl_oid
  <2>1. t.oid # Row.sl_oid
    BY <1>1, <1>14 DEF Placed, LedgerInv, StopPlaced, At
  <2>2. Large(t, Row.size)'
    BY <1>1, <1>4, <1>14 DEF Placed, Large
  <2>3. Foreign(t.oid, pass.row)'
    <3>1. PICK r : r = pass.row
      OBVIOUS
    <3>2. Foreign(t.oid, r)' /\ r = pass'.row
      BY <1>2, <1>4, <1>14, <3>1 DEF Placed
    <3> QED BY <3>2
  <2> QED BY <1>2, <1>8, <1>14, <2>1, <2>2, <2>3 DEF Placed
<1>15. StopPlaced'
  BY <1>2, <1>4, <1>11, <1>12, <1>13, <1>14 DEF StopPlaced, At
<1>16. SlicePlaced'
  BY <1>2 DEF SlicePlaced
<1>17. AllGuarded'
  <2>1. ASSUME Calm', NEW r \in OpenRows' PROVE Guarded(r)'
    <3>1. CASE r = pass.row
      <4>1. PICK t \in Stops : Placed(t)
        BY <1>4, <1>11, <2>1
      <4>2. t \in Stops' /\ Large(t, Row.size) /\ Foreign(t.oid, r)'
        BY <1>4, <1>14, <2>1, <3>1, <4>1 DEF Placed
      <4>3. t.level >= Row.sl
        <5>1. PICK level, sl \in Int : level = pass.level /\ sl = Row.sl
          BY <1>1 DEF Passes, RowsType
        <5>2. t.level >= sl
          BY <1>13, <4>1, <5>1 DEF Placed
        <5> QED BY <5>1, <5>2
      <4>4. InHand(t.oid, r)'
        BY <1>2, <3>1 DEF InHand
      <4>5. Guards(t, r)'
        BY <1>1, <1>6, <3>1, <4>2, <4>3, <4>4 DEF Guards, Large
      <4> QED BY <4>2, <4>5 DEF Guarded
    <3>2. CASE r # pass.row
      <4>1. PICK t \in Stops : Guards(t, r)
        BY <1>4, <1>5, <2>1 DEF LedgerInv, AllGuarded, Guarded
      <4>2. t.oid # Row.sl_oid
        BY <1>1, <1>6, <3>2, <4>1 DEF Guards, Foreign, Active
      <4>3. t \in Stops'
        BY <1>4, <1>8, <2>1, <4>1, <4>2
      <4>4. InHand(t.oid, r)'
        BY <1>1, <1>2, <3>2, <4>1 DEF Guards, InHand
      <4>5. Guards(t, r)'
        BY <1>1, <1>4, <4>1, <4>4 DEF Guards, Large
      <4> QED BY <4>3, <4>5 DEF Guarded
    <3> QED BY <3>1, <3>2
  <2> QED BY <2>1 DEF AllGuarded
<1> QED BY <1>9, <1>10, <1>15, <1>16, <1>17 DEF LedgerInv

\* Cancelling targets removes no stop.
LEMMA LedgerCancelTake ==
    ASSUME TypeInv, ControlInv, LedgerInv, CancelTake
    PROVE  LedgerInv'
<1> USE DEF Stopping, SliceStages, SliceHeld, Replacing
<1>1. /\ GoneTo("book take oid") /\ pass \in Passes /\ pass.row \in OpenRows
      /\ pass.row \in DOMAIN rows
      /\ UNCHANGED <<rows, past>> /\ pass.at = "cancel take"
      /\ CancelOids(Replaced("take", Row.tp_oid)) \/ UNCHANGED bookVars
  BY CancelTakeEffect DEF CancelTake, CancelOld, At
<1>2. pass'.at = "book take oid" /\ pass'.oid = pass.oid /\ pass'.oid2 = pass.oid2
  BY <1>1 DEF GoneTo, OidsKept
<1>3. oids' = oids /\ triggers' \subseteq triggers
  BY <1>1 DEF CancelOids, bookVars
<1>4. Stops' = Stops
  <2>1. ASSUME NEW t \in Stops PROVE t.oid \notin Replaced("take", Row.tp_oid)
    <3>1. CASE Row.tp_oid # NoOid
      BY <1>1, <2>1, <3>1 DEF LedgerInv, TargetsNoStops, NoStop, Replaced, Row
    <3>2. CASE Row.tp_oid = NoOid
      <4>1. \A u \in triggers : u.kind = "take" => u.oid # t.oid
        BY <2>1 DEF LedgerInv, OidsUnique, Stops
      <4> QED BY <3>2, <4>1 DEF Replaced
    <3> QED BY <3>1, <3>2
  <2> QED BY <1>1, <1>3, <2>1 DEF CancelOids, bookVars, Stops
<1>5. /\ OpenRows' = OpenRows /\ (Calm' <=> Calm)
      /\ \A oid, r : Foreign(oid, r) => Foreign(oid, r)'
  BY <1>1, <1>2, ForeignStays DEF At, Calm
<1>6. \A r : ~Underway(r) /\ ~Underway(r)'
  BY <1>1, <1>2, UnderwayIs
<1>7. OidsUnique' /\ OidsGiven'
  BY <1>1, <1>2, <1>3 DEF LedgerInv, OidsUnique, OidsGiven, At
<1>8. TargetsNoStops'
  <2>1. \A oid : NoStop(oid) => NoStop(oid)'
    BY <1>4 DEF NoStop
  <2>2. ASSUME NEW r \in DOMAIN rows' PROVE NoStop(rows[r].tp_oid)'
    <3>1. PICK oid : oid = rows[r].tp_oid
      OBVIOUS
    <3>2. oid = rows'[r].tp_oid /\ NoStop(oid)
      BY <1>1, <2>2, <3>1 DEF LedgerInv, TargetsNoStops
    <3> QED BY <2>1, <3>2
  <2>3. NoStop(pass.oid)'
    <3>1. NoStop(pass.oid)
      BY <1>1 DEF LedgerInv, TargetsNoStops
    <3> QED BY <1>2, <1>4, <3>1 DEF NoStop
  <2> QED BY <1>2, <2>2, <2>3 DEF TargetsNoStops, At
<1>9. StopsRecorded'
  BY <1>1, <1>5, <1>6 DEF LedgerInv, StopsRecorded
<1>10. StopPlaced' /\ SlicePlaced'
  BY <1>2 DEF StopPlaced, SlicePlaced
<1>11. AllGuarded'
  <2>1. ASSUME Calm', NEW r \in OpenRows' PROVE Guarded(r)'
    <3>1. PICK t \in Stops : Guards(t, r)
      BY <1>5, <1>6, <2>1 DEF LedgerInv, AllGuarded, Guarded
    <3>2. Guards(t, r)'
      BY <1>1, <1>2, <1>5, <3>1 DEF Guards, InHand, Large
    <3> QED BY <1>4, <3>2 DEF Guarded
  <2> QED BY <2>1 DEF AllGuarded
<1> QED BY <1>7, <1>8, <1>9, <1>10, <1>11 DEF LedgerInv

LEMMA LedgerBookClose ==
    ASSUME TypeInv, ControlInv, LedgerInv, BookClose
    PROVE  LedgerInv'
<1> USE DEF Stopping, SliceStages, SliceHeld, Replacing
<1>1. /\ Others(pass.row)
      /\ RowIs(pass.row, Row.sl, Row.size, Row.tp, Row.sl_oid, Row.tp_oid)
      /\ OpenRows' = OpenRows \ {pass.row} /\ GoneTo("cancel row") /\ pass.row \in OpenRows
      /\ pass.row \in DOMAIN rows /\ UNCHANGED <<bookVars, past>> /\ pass.at = "book close"
  BY BookCloseEffect DEF BookClose, Book, At
<1>2. /\ pass'.at = "cancel row" /\ pass'.row = pass.row /\ pass'.oid = pass.oid
      /\ pass'.oid2 = pass.oid2
  BY <1>1 DEF GoneTo, InHandKept, OidsKept
<1>3. /\ UNCHANGED <<triggers, oids>> /\ Stops' = Stops /\ (Calm' <=> Calm)
      /\ DOMAIN rows' = DOMAIN rows /\ OpenRows \subseteq DOMAIN rows
  BY <1>1, RowsFacts DEF bookVars, Stops, Calm, Others
<1>4. \A r \in DOMAIN rows :
          /\ rows'[r].sl = rows[r].sl /\ rows'[r].size = rows[r].size
          /\ rows'[r].sl_oid = rows[r].sl_oid /\ rows'[r].tp_oid = rows[r].tp_oid
  BY <1>1 DEF Others, RowIs, Row
<1>5. \A r : ~Underway(r) /\ ~Underway(r)'
  BY <1>1, <1>2, UnderwayIs
<1>6. Active' = Active /\ Active \subseteq DOMAIN rows
  BY <1>1, <1>2, <1>3 DEF Active, At
<1>7. \A oid, r : Foreign(oid, r) => Foreign(oid, r)'
  BY <1>4, <1>6 DEF Foreign
<1>8. OidsUnique' /\ OidsGiven'
  BY <1>1, <1>2, <1>3, <1>4 DEF LedgerInv, OidsUnique, OidsGiven, At
<1>9. TargetsNoStops'
  <2>1. ASSUME NEW r \in DOMAIN rows' PROVE NoStop(rows[r].tp_oid)'
    <3>1. NoStop(rows'[r].tp_oid)
      BY <1>3, <1>4, <2>1 DEF LedgerInv, TargetsNoStops
    <3> QED BY <1>3, <3>1 DEF NoStop
  <2> QED BY <1>2, <2>1 DEF TargetsNoStops, At
<1>10. StopsRecorded'
  BY <1>1, <1>3, <1>4, <1>5 DEF LedgerInv, StopsRecorded
<1>11. StopPlaced' /\ SlicePlaced'
  BY <1>2 DEF StopPlaced, SlicePlaced
<1>12. AllGuarded'
  <2>1. ASSUME Calm', NEW r \in OpenRows' PROVE Guarded(r)'
    <3>1. r \in OpenRows /\ r \in DOMAIN rows
      BY <1>1, <1>3, <2>1
    <3>2. PICK t \in Stops : Guards(t, r)
      BY <1>3, <1>5, <2>1, <3>1 DEF LedgerInv, AllGuarded, Guarded
    <3>3. Guards(t, r)'
      BY <1>1, <1>2, <1>4, <1>7, <3>1, <3>2 DEF Guards, InHand, Large
    <3> QED BY <1>3, <3>3 DEF Guarded
  <2> QED BY <2>1 DEF AllGuarded
<1> QED BY <1>8, <1>9, <1>10, <1>11, <1>12 DEF LedgerInv

\* The slice is on its way: it need not be guarded, and no trigger is its own yet.
LEMMA LedgerOpenSlice ==
    ASSUME TypeInv, ControlInv, LedgerInv, OpenSlice
    PROVE  LedgerInv'
<1> USE DEF Stopping, SliceStages, SliceHeld, Replacing
<1> DEFINE row == NewRow(pass.mark, pass.level, Row.tp, pass.size, NoOid, NoOid)
<1>1. /\ Grows(row) /\ GoneTo("slice stop") /\ pass.row \in DOMAIN rows
      /\ UNCHANGED <<bookVars, past>> /\ pass.at = "open slice"
  BY OpenSliceEffect DEF OpenSlice, At
<1>2. /\ row.sl = pass.level /\ row.size = pass.size /\ row.tp = Row.tp
      /\ row.sl_oid = NoOid /\ row.tp_oid = NoOid
  BY DEF NewRow
<1> HIDE DEF row
<1>3. /\ pass'.at = "slice stop" /\ pass'.row = pass.row /\ pass'.oid = pass.oid
      /\ pass'.oid2 = pass.oid2 /\ pass'.level = pass.level /\ pass'.size = pass.size
  BY <1>1 DEF GoneTo, InHandKept, OidsKept
<1>4. /\ UNCHANGED <<triggers, oids>> /\ Stops' = Stops /\ (Calm' <=> Calm)
      /\ OpenRows \subseteq DOMAIN rows
  BY <1>1, RowsFacts DEF bookVars, Stops, Calm
<1>5. /\ DOMAIN rows' = DOMAIN rows \cup {Slice'} /\ OpenRows' = OpenRows \cup {Slice'}
      /\ rows'[Slice'] = row /\ \A q \in DOMAIN rows : rows'[q] = rows[q]
      /\ Slice' \notin DOMAIN rows
  BY <1>1 DEF Grows
<1>6. (\A r : ~Underway(r)) /\ \A r : Underway(r)' <=> r = Slice'
  BY <1>1, <1>3, UnderwayIs
<1>7. \A t \in triggers : t.oid \in Nat \ {0} /\ t.oid <= oids
  BY DEF TypeInv, BookTypeOK, Triggers, LedgerInv, OidsGiven
<1>8. oids \in Nat /\ NoOid <= oids
  BY DEF TypeInv, BookTypeOK, NoOid
<1>9. OidsUnique' /\ OidsGiven'
  <2>1. \A r \in DOMAIN rows' : rows'[r].sl_oid <= oids /\ rows'[r].tp_oid <= oids
    BY <1>2, <1>5, <1>8 DEF LedgerInv, OidsGiven
  <2> QED BY <1>1, <1>3, <1>4, <2>1 DEF LedgerInv, OidsUnique, OidsGiven, At
<1>10. TargetsNoStops'
  <2>1. NoStop(NoOid)
    BY <1>7 DEF NoStop, NoOid, Stops
  <2>2. ASSUME NEW r \in DOMAIN rows' PROVE NoStop(rows[r].tp_oid)'
    <3>1. NoStop(rows'[r].tp_oid)
      BY <1>2, <1>5, <2>1, <2>2 DEF LedgerInv, TargetsNoStops
    <3> QED BY <1>4, <3>1 DEF NoStop
  <2> QED BY <1>3, <2>2 DEF TargetsNoStops, At
<1>11. StopsRecorded'
  BY <1>4, <1>5, <1>6 DEF LedgerInv, StopsRecorded
<1>12. StopPlaced'
  BY <1>3 DEF StopPlaced
<1>13. SlicePlaced'
  <2>1. rows'[Slice'].sl = pass'.level /\ rows'[Slice'].size = pass'.size
    BY <1>2, <1>3, <1>5
  <2> QED BY <1>3, <2>1 DEF SlicePlaced
<1>14. Active = OpenRows /\ Active' = OpenRows \cup {Slice'}
  BY <1>1, <1>3, <1>5 DEF Active, At
<1>15. AllGuarded'
  <2>1. ASSUME Calm', NEW r \in OpenRows', ~Underway(r)' PROVE Guarded(r)'
    <3>1. r \in OpenRows /\ r \in DOMAIN rows /\ r # Slice'
      BY <1>4, <1>5, <1>6, <2>1
    <3>2. PICK t \in Stops : Guards(t, r)
      BY <1>4, <1>6, <2>1, <3>1 DEF LedgerInv, AllGuarded, Guarded
    <3>3. t.oid # NoOid
      BY <1>7 DEF Stops, NoOid
    <3>4. Foreign(t.oid, r)'
      BY <1>2, <1>4, <1>5, <1>14, <3>2, <3>3 DEF Guards, Foreign
    <3>5. Guards(t, r)'
      BY <1>1, <1>3, <1>5, <3>1, <3>2, <3>4 DEF Guards, InHand, Large
    <3> QED BY <1>4, <3>5 DEF Guarded
  <2> QED BY <2>1 DEF AllGuarded
<1> QED BY <1>9, <1>10, <1>11, <1>12, <1>13, <1>15 DEF LedgerInv

\* From one step of the slice to the next.
SliceGoesOn ==
    /\ rows' = rows /\ past \subseteq past' /\ pass'.level = pass.level /\ pass'.size = pass.size
    /\ pass.at \in SliceStages /\ pass'.at \in SliceStages
    /\ OidsUnique' /\ OidsGiven' /\ TargetsNoStops'
SiblingsKept ==
    Calm' => \A r \in OpenRows \ {Slice} : \A t \in Stops :
                 Foreign(t.oid, r) /\ InHand(t.oid, r) => t \in Stops' /\ InHand(t.oid, r)'
SliceCovered ==
    Calm /\ pass.at \in {"slice take", "slice oids"} =>
        /\ pass.oid # NoOid
        /\ \E t \in Stops : Covers(t)

LEMMA LedgerSliceGoesOn ==
    ASSUME TypeInv, ControlInv, LedgerInv, SliceGoesOn, SiblingsKept, SliceCovered'
    PROVE  LedgerInv'
<1> USE DEF Stopping, SliceStages, SliceHeld
<1>1. /\ OpenRows' = OpenRows /\ Slice' = Slice
      /\ \A oid, r : Foreign(oid, r) => Foreign(oid, r)'
  BY ForeignStays DEF SliceGoesOn, At
<1>2. (Calm' => Calm) /\ \A t, size : Large(t, size) => Large(t, size)'
  BY CalmBefore DEF SliceGoesOn
<1>3. \A r : (Underway(r) <=> r = Slice) /\ (Underway(r)' <=> r = Slice)
  BY <1>1, UnderwayIs DEF SliceGoesOn
<1>4. StopsRecorded'
  BY <1>1, <1>2, <1>3 DEF LedgerInv, StopsRecorded, SliceGoesOn
<1>5. StopPlaced'
  BY DEF StopPlaced, SliceGoesOn
<1>6. SlicePlaced'
  <2>1. rows'[Slice'].sl = pass'.level /\ rows'[Slice'].size = pass'.size
    BY <1>1 DEF LedgerInv, SlicePlaced, SliceGoesOn
  <2> QED BY <2>1 DEF SlicePlaced, SliceCovered
<1>7. AllGuarded'
  <2>1. ASSUME Calm', NEW r \in OpenRows', ~Underway(r)' PROVE Guarded(r)'
    <3>1. PICK t \in Stops : Guards(t, r)
      BY <1>1, <1>2, <1>3, <2>1 DEF LedgerInv, AllGuarded, Guarded
    <3>2. t \in Stops' /\ InHand(t.oid, r)'
      BY <1>1, <1>3, <2>1, <3>1 DEF SiblingsKept, Guards
    <3>3. Guards(t, r)'
      BY <1>1, <1>2, <3>1, <3>2 DEF Guards, SliceGoesOn
    <3> QED BY <3>2, <3>3 DEF Guarded
  <2> QED BY <2>1 DEF AllGuarded
<1> QED BY <1>4, <1>5, <1>6, <1>7 DEF LedgerInv, SliceGoesOn

LEMMA LedgerSliceStop ==
    ASSUME TypeInv, ControlInv, LedgerInv, SliceStop
    PROVE  LedgerInv'
<1> USE DEF SliceStages, SliceHeld, Replacing
<1>1. /\ pass.at = "slice stop" /\ pass \in Passes /\ rows' = rows /\ past' = past
  BY SliceStopEffect DEF SliceStop, At
<1>2. pass.level \in Int /\ pass.size \in Nat /\ oids \in Nat
  BY <1>1 DEF Passes, ControlInv, Purposeful, TypeInv, BookTypeOK
<1>3. CASE /\ PlaceTrigger("stop", pass.level, pass.size) /\ Noted("slice take")
           /\ pass'.oid = oids + 1 /\ pass'.oid2 = pass.oid2
  <2>1. /\ oids' = oids + 1 /\ OidsUnique' /\ \A t \in triggers' : t.oid <= oids'
        /\ \A r \in DOMAIN rows' : rows'[r].sl_oid <= oids' /\ rows'[r].tp_oid <= oids'
        /\ \A r \in DOMAIN rows' : NoStop(rows[r].tp_oid)'
        /\ \A r : Foreign(oids + 1, r)
        /\ \A t \in triggers : t.oid # oids + 1
    BY <1>1, <1>2, <1>3, PlacedFacts
  <2>2. PICK new \in Triggers : Rests(new, pass.level, pass.size)
    BY <1>2, <1>3, PlacedStop
  <2>3. pass'.at = "slice take" /\ pass'.level = pass.level /\ pass'.size = pass.size
    BY <1>3 DEF Noted, InHandKept
  <2>4. OidsGiven'
    <3>1. pass.oid2 \in Nat /\ pass.oid2 <= oids
      BY <1>1 DEF LedgerInv, OidsGiven, At, Passes
    <3>2. pass.oid2 <= oids + 1 /\ oids + 1 <= oids + 1
      BY <1>2, <3>1
    <3>3. pass'.oid <= oids' /\ pass'.oid2 <= oids'
      BY <1>3, <2>1, <3>2
    <3> QED BY <2>1, <3>3 DEF OidsGiven
  <2>5. SliceGoesOn
    BY <1>1, <2>1, <2>3, <2>4 DEF SliceGoesOn, TargetsNoStops, At
  <2>6. SiblingsKept
    BY <1>3, <2>1, <2>2, <2>3 DEF SiblingsKept, InHand, Rests, Stops
  <2>7. SliceCovered'
    <3>1. Slice' = Slice /\ \A oid, r : Foreign(oid, r) => Foreign(oid, r)'
      BY <1>1, <2>3, ForeignStays DEF At
    <3>2. PICK s, oid : s = Slice' /\ oid = oids + 1
      OBVIOUS
    <3>3. Foreign(oid, s)'
      BY <2>1, <3>1, <3>2
    <3>4. new.oid = oid /\ new \in Stops'
      BY <2>2, <3>2 DEF Rests
    <3>5. Foreign(new.oid, Slice)'
      BY <3>2, <3>3, <3>4
    <3>6. Covers(new)'
      BY <1>3, <2>2, <2>3, <3>5 DEF Covers, Rests
    <3>7. pass'.oid # NoOid
      <4>1. oids + 1 # NoOid
        BY <1>2 DEF NoOid
      <4> QED BY <1>3, <4>1
    <3> QED BY <3>4, <3>6, <3>7 DEF SliceCovered
  <2> QED BY <2>5, <2>6, <2>7, LedgerSliceGoesOn
<1>4. CASE UNCHANGED bookVars /\ Noted("slice close") /\ pass'.oid = NoOid
  <2>1. /\ UNCHANGED <<triggers, oids>> /\ Stops' = Stops
        /\ pass'.at = "slice close" /\ pass'.level = pass.level /\ pass'.size = pass.size
    BY <1>4 DEF Noted, InHandKept, bookVars, Stops
  <2> QED
    <3>1. pass'.oid2 = pass.oid2 /\ pass.oid2 <= oids /\ NoOid <= oids
      <4>1. pass'.oid2 = pass.oid2
        BY <1>1, <1>4, <2>1 DEF SliceStop, Passes
      <4>2. pass.oid2 <= oids
        BY <1>1 DEF LedgerInv, OidsGiven, At
      <4>3. NoOid <= oids
        BY <1>2 DEF NoOid
      <4> QED BY <4>1, <4>2, <4>3
    <3>2. OidsUnique' /\ OidsGiven'
      BY <1>1, <1>4, <2>1, <3>1 DEF LedgerInv, OidsUnique, OidsGiven
    <3>3. TargetsNoStops'
      <4>1. ASSUME NEW r \in DOMAIN rows' PROVE NoStop(rows[r].tp_oid)'
        <5>1. NoStop(rows'[r].tp_oid)
          BY <1>1, <4>1 DEF LedgerInv, TargetsNoStops
        <5> QED BY <2>1, <5>1 DEF NoStop
      <4> QED BY <2>1, <4>1 DEF TargetsNoStops, At
    <3>4. \A t \in Stops : t.oid # NoOid
      BY DEF Stops, TypeInv, BookTypeOK, Triggers, NoOid
    <3>5. SliceGoesOn /\ SiblingsKept /\ SliceCovered'
      BY <1>1, <1>4, <2>1, <3>2, <3>3, <3>4 DEF SliceGoesOn, SiblingsKept, SliceCovered, InHand
    <3> QED BY <3>5, LedgerSliceGoesOn
<1> QED BY <1>3, <1>4, SliceStopEffect

LEMMA LedgerSliceTake ==
    ASSUME TypeInv, ControlInv, LedgerInv, SliceTake
    PROVE  LedgerInv'
<1> USE DEF SliceStages, SliceHeld, Replacing
<1>1. /\ pass.at = "slice take" /\ pass \in Passes /\ rows' = rows /\ past' = past
  BY SliceTakeEffect DEF SliceTake, At
<1>2. /\ pass.size \in Nat /\ oids \in Nat /\ pass.oid \in Nat /\ pass.oid <= oids
      /\ pass.oid2 <= oids
  BY <1>1 DEF Passes, ControlInv, Purposeful, TypeInv, BookTypeOK, LedgerInv, OidsGiven, At
<1>3. rows[Slice].tp \in Int
  BY <1>1, OpenTyped DEF RowsType
<1>4. SliceCovered
  BY DEF LedgerInv, SlicePlaced, SliceCovered
<1>5. CASE /\ PlaceTrigger("take", rows[Slice].tp, pass.size) /\ Noted("slice oids")
           /\ pass'.oid2 = oids + 1 /\ pass'.oid = pass.oid
  <2>1. /\ oids' = oids + 1 /\ OidsUnique' /\ \A t \in triggers' : t.oid <= oids'
        /\ \A r \in DOMAIN rows' : rows'[r].sl_oid <= oids' /\ rows'[r].tp_oid <= oids'
        /\ \A r \in DOMAIN rows' : NoStop(rows[r].tp_oid)'
        /\ \A t \in triggers : t.oid # oids + 1
        /\ Stops' = Stops
    BY <1>1, <1>2, <1>3, <1>5, PlacedFacts
  <2>2. pass'.at = "slice oids" /\ pass'.level = pass.level /\ pass'.size = pass.size
    BY <1>5 DEF Noted, InHandKept
  <2>3. OidsGiven'
    <3>1. pass.oid <= oids + 1 /\ oids + 1 <= oids + 1
      BY <1>2
    <3>2. pass'.oid <= oids' /\ pass'.oid2 <= oids'
      BY <1>5, <2>1, <3>1
    <3> QED BY <2>1, <3>2 DEF OidsGiven
  <2>4. NoStop(pass.oid2)'
    BY <1>5, <2>1 DEF NoStop, Stops
  <2>5. SliceGoesOn
    BY <1>1, <2>1, <2>2, <2>3, <2>4 DEF SliceGoesOn, TargetsNoStops, At
  <2>6. SiblingsKept
    BY <1>1, <1>5, <2>1, <2>2 DEF SiblingsKept, InHand
  <2>7. SliceCovered'
    <3>1. Slice' = Slice /\ \A oid, r : Foreign(oid, r) => Foreign(oid, r)'
      BY <1>1, <2>2, ForeignStays DEF At
    <3>2. PICK s : s = Slice
      OBVIOUS
    <3>3. ASSUME NEW t \in Stops, Covers(t) PROVE Covers(t)'
      <4>1. Foreign(t.oid, s)' /\ s = Slice'
        BY <3>1, <3>2, <3>3 DEF Covers
      <4>2. Foreign(t.oid, Slice)'
        BY <4>1
      <4> QED BY <1>5, <2>2, <3>3, <4>2 DEF Covers
    <3>4. Calm' => Calm
      BY <1>1 DEF Calm
    <3> QED BY <1>1, <1>4, <1>5, <2>1, <3>3, <3>4 DEF SliceCovered
  <2> QED BY <2>5, <2>6, <2>7, LedgerSliceGoesOn
<1>6. CASE UNCHANGED bookVars /\ GoneTo("slice close")
  <2>1. /\ UNCHANGED <<triggers, oids>> /\ Stops' = Stops
        /\ pass'.at = "slice close" /\ pass'.level = pass.level /\ pass'.size = pass.size
        /\ pass'.oid = pass.oid /\ pass'.oid2 = pass.oid2
    BY <1>6 DEF GoneTo, InHandKept, OidsKept, bookVars, Stops
  <2>2. OidsUnique' /\ OidsGiven'
    BY <1>1, <1>2, <2>1 DEF LedgerInv, OidsUnique, OidsGiven
  <2>3. TargetsNoStops'
    <3>1. ASSUME NEW r \in DOMAIN rows' PROVE NoStop(rows[r].tp_oid)'
      <4>1. NoStop(rows'[r].tp_oid)
        BY <1>1, <3>1 DEF LedgerInv, TargetsNoStops
      <4> QED BY <2>1, <4>1 DEF NoStop
    <3> QED BY <2>1, <3>1 DEF TargetsNoStops, At
  <2>4. SliceGoesOn /\ SiblingsKept /\ SliceCovered'
    BY <1>1, <2>1, <2>2, <2>3 DEF SliceGoesOn, SiblingsKept, SliceCovered, InHand
  <2> QED BY <2>4, LedgerSliceGoesOn
<1> QED BY <1>5, <1>6, SliceTakeEffect

\* No sibling is guarded by the stop the slice is about to have or has just lost.
LEMMA LedgerSliceCloses ==
    ASSUME TypeInv, ControlInv, LedgerInv, SliceClose \/ SliceCancel
    PROVE  LedgerInv'
<1> USE DEF SliceStages, SliceHeld, Replacing
<1>1. /\ pass.at \in {"slice close", "slice cancel"} /\ rows' = rows /\ past \subseteq past'
      /\ oids' = oids /\ triggers' \subseteq triggers
      /\ pass'.at \in {"slice cancel", "slice abort"} /\ pass'.level = pass.level
      /\ pass'.size = pass.size /\ pass'.oid = pass.oid /\ pass'.oid2 = pass.oid2
  <2>1. CASE SliceClose
    BY <2>1, UnseenEffect DEF SliceClose, At, GoneTo, InHandKept, OidsKept, Trades
  <2>2. CASE SliceCancel
    BY <2>2, SliceCancelEffect
       DEF SliceCancel, At, GoneTo, InHandKept, OidsKept, CancelOids, bookVars
  <2> QED BY <2>1, <2>2
<1>2. \A t \in triggers : t.oid # pass.oid => t \in triggers'
  <2>1. CASE SliceClose
    BY <2>1, UnseenEffect DEF Trades
  <2>2. CASE SliceCancel
    BY <2>2, SliceCancelEffect DEF CancelOids, bookVars
  <2> QED BY <2>1, <2>2
<1>3. OidsUnique' /\ OidsGiven'
  BY <1>1 DEF LedgerInv, OidsUnique, OidsGiven, At
<1>4. TargetsNoStops'
  <2>1. \A oid : NoStop(oid) => NoStop(oid)'
    BY <1>1 DEF NoStop, Stops
  <2>2. ASSUME NEW r \in DOMAIN rows' PROVE NoStop(rows[r].tp_oid)'
    <3>1. PICK oid : oid = rows[r].tp_oid
      OBVIOUS
    <3>2. oid = rows'[r].tp_oid /\ NoStop(oid)
      BY <1>1, <2>2, <3>1 DEF LedgerInv, TargetsNoStops
    <3> QED BY <2>1, <3>2
  <2> QED BY <1>1, <2>2 DEF TargetsNoStops, At
<1>5. SliceGoesOn /\ SliceCovered'
  BY <1>1, <1>3, <1>4 DEF SliceGoesOn, SliceCovered
<1>6. SiblingsKept
  BY <1>1, <1>2 DEF SiblingsKept, InHand, Stops
<1> QED BY <1>5, <1>6, LedgerSliceGoesOn

LEMMA LedgerSliceAbort ==
    ASSUME TypeInv, ControlInv, LedgerInv, SliceAbort
    PROVE  LedgerInv'
<1> USE DEF Stopping, SliceStages, SliceHeld, Replacing
<1>1. /\ Others(Slice) /\ OpenRows' = OpenRows \ {Slice} /\ GoneOn
      /\ UNCHANGED <<bookVars, past>> /\ pass.at = "slice abort"
      /\ pass \in Passes /\ Slice \in DOMAIN rows
  BY SliceAbortEffect DEF SliceAbort, At
<1>2. pass'.at \in {"manage", "resolve"} /\ pass'.oid = pass.oid /\ pass'.oid2 = pass.oid2
  BY <1>1 DEF GoneOn, GoneTo, OidsKept
<1>3. /\ UNCHANGED <<triggers, oids>> /\ Stops' = Stops /\ (Calm' <=> Calm)
      /\ DOMAIN rows' = DOMAIN rows /\ OpenRows \subseteq DOMAIN rows
  BY <1>1, RowsFacts DEF bookVars, Stops, Calm, Others
<1>4. \A r \in DOMAIN rows :
          /\ rows'[r].sl_oid = rows[r].sl_oid /\ rows'[r].tp_oid = rows[r].tp_oid
  BY <1>1, RowsFacts DEF SliceAbort, RowsType
<1>5. \A r : (Underway(r) <=> r = Slice) /\ ~Underway(r)'
  BY <1>1, <1>2, UnderwayIs
<1>6. \A r \in OpenRows' : rows'[r] = rows[r] /\ r \in OpenRows /\ r # Slice
  BY <1>1, <1>3 DEF Others
<1>7. \A oid, r : Foreign(oid, r) => Foreign(oid, r)'
  BY <1>1, <1>2, <1>6 DEF Foreign, Active, At
<1>8. OidsUnique' /\ OidsGiven'
  BY <1>1, <1>2, <1>3, <1>4 DEF LedgerInv, OidsUnique, OidsGiven, At
<1>9. TargetsNoStops'
  <2>1. ASSUME NEW r \in DOMAIN rows' PROVE NoStop(rows[r].tp_oid)'
    <3>1. NoStop(rows'[r].tp_oid)
      BY <1>3, <1>4, <2>1 DEF LedgerInv, TargetsNoStops
    <3> QED BY <1>3, <3>1 DEF NoStop
  <2> QED BY <1>2, <2>1 DEF TargetsNoStops, At
<1>10. StopsRecorded'
  BY <1>3, <1>5, <1>6 DEF LedgerInv, StopsRecorded
<1>11. StopPlaced' /\ SlicePlaced'
  BY <1>2 DEF StopPlaced, SlicePlaced
<1>12. AllGuarded'
  <2>1. ASSUME Calm', NEW r \in OpenRows' PROVE Guarded(r)'
    <3>1. PICK t \in Stops : Guards(t, r)
      BY <1>3, <1>5, <1>6, <2>1 DEF LedgerInv, AllGuarded, Guarded
    <3>2. Guards(t, r)'
      BY <1>1, <1>2, <1>6, <1>7, <2>1, <3>1 DEF Guards, InHand, Large
    <3> QED BY <1>3, <3>2 DEF Guarded
  <2> QED BY <2>1 DEF AllGuarded
<1> QED BY <1>8, <1>9, <1>10, <1>11, <1>12 DEF LedgerInv

LEMMA LedgerJudge ==
    ASSUME TypeInv, ControlInv, LedgerInv, Judge
    PROVE  LedgerInv'
<1>1. pass.at = "manage" /\ pass \in Passes /\ UNCHANGED <<rows, oids, triggers, past>>
  BY JudgeEffect, InPass DEF At, bookVars
<1>2. PICK r \in pass.todo, level \in Int, size \in Int :
          r \in OpenRows /\ r \in Nat /\ rows[r] \in RowsType /\ Acted(r, level, size)
  BY JudgeEffect
<1>3. ASSUME NEW step \in Stages, NEW for \in Purposes, Does(r, step, level, size, for),
             step \in {"claim", "place take"} \/ (step = "place stop" /\ level > rows[r].sl)
      PROVE  LedgerInv'
  <2>1. pass'.at = step /\ pass'.row = r /\ pass'.level = level /\ OidsKept
    BY <1>1, <1>2, <1>3, DoesIt
  <2>2. pass'.oid <= oids /\ pass'.oid2 <= oids
    BY <1>1, <2>1, OidsStay DEF At
  <2>3. Row' = rows[r]
    BY <1>1, <2>1 DEF Row
  <2>4. Elsewhere
    BY <1>1, <1>3, <2>1, <2>2, <2>3 DEF Elsewhere, Stopping, SliceStages, At
  <2> QED BY <1>1, <2>4, QuietOf, LedgerElsewhere
<1>4. /\ {"claim", "place stop", "place take"} \subseteq Stages
      /\ {"close", "tighten", "add", "scale", "extend"} \subseteq Purposes
  BY DEF Stages, Stopping, Targeting, Ordering, Purposes
<1> QED BY <1>2, <1>3, <1>4 DEF Acted

\* Adoption records what it finds: the farthest stop guards the row it opens.
LEMMA LedgerStart ==
    ASSUME TypeInv, ControlInv, AmbushInv, LedgerInv, StartPass
    PROVE  LedgerInv'
<1> USE DEF Stopping, SliceStages, SliceHeld, Replacing
<1>1. pass.at = "idle" /\ UNCHANGED <<oids, triggers, past, pos>> /\ oids \in Nat
  BY StartPassEffect DEF At, bookVars, TypeInv, BookTypeOK
<1>2. NoOid <= oids
  BY <1>1 DEF NoOid
<1>3. CASE ~Adopts
  <2>1. PICK held : rows' = rows /\ pass' = Manage(OpenRows, held)
    BY <1>3, StartPassEffect
  <2>2. pass'.at = "manage" /\ pass'.oid = NoOid /\ pass'.oid2 = NoOid
    BY <2>1 DEF Manage
  <2>3. Elsewhere
    BY <1>1, <1>2, <2>2 DEF Elsewhere, At
  <2> QED BY <1>1, <2>1, <2>3, QuietOf, LedgerElsewhere
<1>4. CASE Adopts
  <2>1. PICK stop \in Farthest : \E take \in Nearest(stop) :
            /\ Grows(Adopted(stop, take)) /\ OpenRows = {} /\ OpenRows' = {Slice'}
            /\ pass' = Manage({Slice'}, pos)
    BY <1>4, AdoptsEffect
  <2>2. PICK take \in Nearest(stop) :
            /\ Grows(Adopted(stop, take)) /\ OpenRows = {} /\ OpenRows' = {Slice'}
            /\ pass' = Manage({Slice'}, pos)
    BY <2>1
  <2>3. /\ stop \in Triggers /\ stop \in Stops
        /\ take \in Targets \/ take.oid = NoOid
    BY AdoptedTyped
  <2> DEFINE row == Adopted(stop, take)
  <2>4. /\ row.sl = stop.level /\ row.size = pos /\ row.sl_oid = stop.oid /\ row.tp_oid = take.oid
    BY DEF Adopted, NewRow
  <2> HIDE DEF row
  <2>5. /\ DOMAIN rows' = DOMAIN rows \cup {Slice'} /\ rows'[Slice'] = row
        /\ \A q \in DOMAIN rows : rows'[q] = rows[q]
    BY <2>2 DEF Grows, row
  <2>6. pass'.at = "manage" /\ pass'.oid = NoOid /\ pass'.oid2 = NoOid
    BY <2>2 DEF Manage
  <2>7. Stops' = Stops /\ (Calm' <=> Calm)
    BY <1>1 DEF Stops, Calm
  <2>8. stop.oid # NoOid /\ stop.oid <= oids /\ take.oid <= oids
    BY <1>2, <2>3 DEF Triggers, NoOid, Stops, Targets, LedgerInv, OidsGiven
  <2>9. NoStop(take.oid)
    <3>1. CASE take \in Targets
      BY <3>1 DEF NoStop, Stops, Targets, LedgerInv, OidsUnique
    <3>2. CASE take.oid = NoOid
      BY <3>2 DEF NoStop, Stops, TypeInv, BookTypeOK, Triggers, NoOid
    <3> QED BY <2>3, <3>1, <3>2
  <2>10. OidsUnique' /\ OidsGiven'
    <3>1. \A r \in DOMAIN rows' : rows'[r].sl_oid <= oids /\ rows'[r].tp_oid <= oids
      BY <2>4, <2>5, <2>8 DEF LedgerInv, OidsGiven
    <3> QED BY <1>1, <1>2, <2>6, <3>1 DEF LedgerInv, OidsUnique, OidsGiven
  <2>11. TargetsNoStops'
    <3>1. ASSUME NEW r \in DOMAIN rows' PROVE NoStop(rows[r].tp_oid)'
      <4>1. NoStop(rows'[r].tp_oid)
        BY <2>4, <2>5, <2>9, <3>1 DEF LedgerInv, TargetsNoStops
      <4> QED BY <2>7, <4>1 DEF NoStop
    <3> QED BY <2>6, <3>1 DEF TargetsNoStops, At
  <2>12. StopsRecorded'
    BY <2>2, <2>4, <2>5, <2>8 DEF StopsRecorded
  <2>13. StopPlaced' /\ SlicePlaced'
    BY <2>6 DEF StopPlaced, SlicePlaced
  <2>14. Large(stop, pos)'
    <3>1. CASE "unswept" \in past
      BY <1>1, <3>1 DEF Large
    <3>2. CASE "unswept" \notin past
      <4>1. Pristine
        BY <1>1, <2>2, <2>3, <3>2 DEF AmbushInv, Stops
      <4>2. pos = Size /\ stop.size = Size /\ Size \in Nat
        BY <2>3, <4>1, Constants DEF Pristine, Stops
      <4>3. stop.size >= pos
        BY <4>2
      <4> QED BY <1>1, <4>3 DEF Large
    <3> QED BY <3>1, <3>2
  <2>15. AllGuarded'
    <3>1. stop.level >= row.sl
      BY <2>3, <2>4 DEF Triggers
    <3>2. PICK s : s = Slice'
      OBVIOUS
    <3>3. Foreign(stop.oid, s)'
      BY <2>2, <2>6, <3>2 DEF Foreign, Active, At
    <3>4. InHand(stop.oid, s)'
      BY <2>6 DEF InHand
    <3>5. Large(stop, rows[s].size)'
      BY <2>4, <2>5, <2>14, <3>2, <1>1 DEF Large
    <3>6. Guards(stop, s)'
      BY <2>5, <3>1, <3>2, <3>3, <3>4, <3>5 DEF Guards
    <3> QED BY <2>2, <2>3, <2>7, <3>2, <3>6 DEF AllGuarded, Guarded
  <2> QED BY <2>10, <2>11, <2>12, <2>13, <2>15 DEF LedgerInv
<1> QED BY <1>3, <1>4

LEMMA LedgerInit ==
    ASSUME Init
    PROVE  LedgerInv
<1> USE DEF Stopping, SliceStages, SliceHeld, Replacing
<1> DEFINE stop == [oid |-> 1, kind |-> "stop", level |-> InitialStop, size |-> Size]
           take == [oid |-> 2, kind |-> "take", level |-> Target, size |-> Size]
           row == NewRow(Entry, InitialStop, Target, Size, 1, 2)
<1>1. /\ stop.oid = 1 /\ stop.kind = "stop" /\ stop.level = InitialStop /\ stop.size = Size
      /\ take.oid = 2 /\ take.kind = "take"
      /\ row.sl = InitialStop /\ row.size = Size /\ row.sl_oid = 1 /\ row.tp_oid = 2
      /\ InitialStop \in Nat /\ Size \in Nat
  BY Constants DEF NewRow
<1>2. \/ triggers = {stop, take} /\ rows = <<row>>
      \/ triggers = {stop} /\ rows = <<>>
  BY DEF Init
<1>3. oids = 2 /\ pass.at = "idle"
  BY DEF Init, Idle
<1> HIDE DEF stop, take, row
<1>4. Stops = {stop}
  BY <1>1, <1>2 DEF Stops
<1>5. \A r \in DOMAIN rows : r = 1 /\ rows[r] = row
  BY <1>2
<1>6. OidsUnique /\ OidsGiven
  BY <1>1, <1>2, <1>3, <1>5 DEF OidsUnique, OidsGiven, At
<1>7. TargetsNoStops
  BY <1>1, <1>3, <1>4, <1>5 DEF TargetsNoStops, NoStop, At
<1>8. OpenRows \subseteq {1} /\ OpenRows \subseteq DOMAIN rows
  BY <1>5 DEF OpenRows
<1>9. StopsRecorded
  BY <1>1, <1>5, <1>8 DEF StopsRecorded, NoOid
<1>10. StopPlaced /\ SlicePlaced
  BY <1>3 DEF StopPlaced, SlicePlaced
<1>11. ASSUME NEW r \in OpenRows PROVE Guards(stop, r)
  <2>1. r = 1 /\ rows[r] = row
    BY <1>5, <1>8, <1>11
  <2>2. Foreign(stop.oid, r)
    BY <1>3, <1>8, <2>1 DEF Foreign, Active, At
  <2>3. stop.level >= row.sl /\ stop.size >= row.size
    BY <1>1
  <2> QED BY <1>3, <2>1, <2>2, <2>3 DEF Guards, InHand, Large
<1>12. AllGuarded
  BY <1>4, <1>11 DEF AllGuarded, Guarded
<1> QED BY <1>6, <1>7, <1>9, <1>10, <1>12 DEF LedgerInv

LEMMA LedgerNext ==
    ASSUME TypeInv, ControlInv, AmbushInv, LedgerInv, [Next]_vars
    PROVE  LedgerInv'
<1>1. CASE StartPass \/ Judge \/ OpenSlice
  BY <1>1, LedgerStart, LedgerJudge, LedgerOpenSlice
<1>2. CASE PassOver \/ Holds \/ StartResolve \/ Resolve \/ LogAction \/ Claim \/ Release
  BY <1>2, LedgerManage
<1>3. CASE PlaceStop \/ CancelStop \/ BookStopOid \/ BookStop
  BY <1>3, LedgerPlaceStop, LedgerCancelStop, LedgerBookStopOid, LedgerBookStop
<1>4. CASE PlaceTake \/ CancelTake \/ BookTakeOid \/ BookTake \/ BookScale
  BY <1>4, LedgerPlaceTake, LedgerCancelTake, LedgerBookTake
<1>5. CASE OrderScale \/ OrderClose \/ OrderAdd \/ OrderResolve
  BY <1>5, LedgerTrades
<1>6. CASE SliceStop \/ SliceTake \/ SliceClose \/ SliceCancel \/ SliceAbort \/ SliceOids
  BY <1>6, LedgerSliceStop, LedgerSliceTake, LedgerSliceCloses, LedgerSliceAbort, LedgerSliceOids
<1>7. CASE BookClose \/ CancelRow \/ Sweep
  BY <1>7, LedgerBookClose, LedgerSweeps
<1>8. CASE Around \/ UNCHANGED vars
  BY <1>8, LedgerAround
<1> QED BY <1>1, <1>2, <1>3, <1>4, <1>5, <1>6, <1>7, <1>8 DEF Next, Step, Around

\* The ledger never claims protection tighter than what rests: whatever is refused and
\* wherever the process dies between placing, cancelling and booking, while no stop has
\* fired and no add was cut off, each open row but an add on its way has a stop resting no
\* lower than the one it claims, and for its size, but for triggers a sweep left behind.
THEOREM LedgerFollowsTheBook == Spec => []LedgerNeverTighter
<1>1. Init => TypeInv /\ ControlInv /\ AmbushInv /\ LedgerInv
  BY ControlInit, AmbushInit, LedgerInit
<1>2. TypeInv /\ ControlInv /\ AmbushInv /\ LedgerInv /\ [Next]_vars
          => (TypeInv /\ ControlInv /\ AmbushInv /\ LedgerInv)'
  BY TypeInvNext, AmbushNext, LedgerNext
<1>3. TypeInv /\ ControlInv /\ AmbushInv /\ LedgerInv => LedgerNeverTighter
  BY DEF LedgerInv, AllGuarded, Guarded, Guards, Large, Calm, LedgerNeverTighter
<1> QED BY <1>1, <1>2, <1>3, PTL DEF Spec

-----------------------------------------------------------------------------
(* The position is never naked. *)

Unexcused == past \cap {"short close", "cut-off add"} = {}

\* What the stop recorded for a row still has to close: nothing once another rests in its
\* place or the row is closed, and what is left of the row once a part is banked.
Relieved == {"cancel stop", "book stop oid", "book close", "cancel row"}
Share(r) ==
    IF r # pass.row THEN rows[r].size
    ELSE IF pass.at \in Relieved THEN 0
    ELSE IF At("book scale") THEN rows[r].size - pass.size
    ELSE rows[r].size

\* The resting stops back the position, each with no more than its size, the stop of a row
\* with no more than its share, and one about to go with the slice it was for with nothing.
Leaving == {"slice close", "slice cancel"}
Backs(w) ==
    /\ w \in [Stops -> Nat]
    /\ \A t \in Stops :
           /\ w[t] <= t.size
           /\ \A r \in Active : t.oid = rows[r].sl_oid => w[t] <= Share(r)
           /\ pass.at \in Leaving /\ t.oid = pass.oid => w[t] = 0
\* What has filled of an add and has no stop yet.
Bare == IF pass.at \in {"open slice", "slice stop", "slice close"} THEN pass.size ELSE 0
Covered == \E w : Backs(w) /\ pos <= SumFunctionOnSet(w, Stops) + Bare
CoverInv == IsFiniteSet(triggers) /\ (Unexcused => Covered)

\* The stops of the rows are their own.
OwnOids ==
    \A r, q \in Active :
        r # q /\ rows[r].sl_oid = rows[q].sl_oid => rows[r].sl_oid = NoOid
FreshOid ==
    pass.at \in Replacing \cup SliceHeld /\ pass.oid # NoOid =>
        \A q \in Active : rows[q].sl_oid # pass.oid
OidRecorded ==
    /\ Unexcused => \A r \in OpenRows : ~Underway(r) => rows[r].sl_oid # NoOid
    /\ pass.at \in Replacing \cup {"slice take", "slice oids"} => pass.oid # NoOid
\* A stop that was placed for a row, or for a slice, is as large as that.
PlacedSize ==
    /\ pass.at \in Replacing => \A t \in Stops : t.oid = pass.oid => t.size = Row.size
    /\ pass.at \in SliceHeld => \A t \in Stops : t.oid = pass.oid => t.size = pass.size
\* An order to close is for the whole of its row.
CloseWhole ==
    /\ pass.at \in {"claim", "order close"} /\ pass.for = "close" => pass.size = Row.size
    /\ At("order resolve") => pass.size = Row.size
\* Only a resolution goes by a flat position, and then it stays flat.
FlatSeen ==
    /\ ~At("idle") /\ pass.flat => pass.phase = "resolve" /\ pos = 0
    /\ pass.at \in Stopping \cup {"claim", "order add"} => pass.phase = "manage"
OwnInv == OwnOids /\ FreshOid /\ OidRecorded /\ PlacedSize
PlanInv == CloseWhole /\ FlatSeen

\* The open rows add up to the position, less what is filled and not yet booked.
Booked(r) ==
    IF ~Open(r) THEN 0
    ELSE IF r = pass.row /\ At("book close") THEN 0
    ELSE IF r = pass.row /\ At("book scale") THEN rows[r].size - pass.size
    ELSE IF r = Slice /\ pass.at \in {"slice cancel", "slice abort"} THEN 0
    ELSE rows[r].size
BookedRows == [r \in DOMAIN rows |-> Booked(r)]
Unbooked == IF At("open slice") THEN pass.size ELSE 0
BookedInv ==
    Unexcused => Pristine \/ pos <= SumFunctionOnSet(BookedRows, DOMAIN rows) + Unbooked

NakedInv == CoverInv /\ OwnInv /\ PlanInv /\ BookedInv

-----------------------------------------------------------------------------
(* Sums, as the steps need them. *)

LEMMA AsInt == \A a \in Nat : a \in Int /\ 0 <= a /\ a <= a
OBVIOUS
LEMMA AtMostItself == \A a \in Int : a <= a /\ a - a = 0
OBVIOUS
LEMMA NothingLeft == \A a \in Nat : \A b, c : b = 0 /\ c = 0 /\ a <= b + c => a = 0
OBVIOUS
LEMMA NoneBelow == \A a, b \in Nat : a = 0 /\ b <= a => b = 0
OBVIOUS
LEMMA Filling ==
    \A p, s, z \in Int : \A l \in Nat : l <= s /\ s <= z =>
        s - l \in Nat /\ s - l <= z /\ p - (s - l) <= p /\ (l = 0 => s - l = s)
OBVIOUS
LEMMA LeftOpen == \A s \in Int : \A l \in 0..(s - 1) : l \in Nat /\ l <= s /\ s - l \in Nat
OBVIOUS
LEMMA LeftUnseen == \A s \in Int : \A l \in 0..s : l \in Nat /\ l <= s
OBVIOUS
LEMMA OneOrNone == \A a \in Nat : a > 0 \/ a = 0
OBVIOUS
LEMMA Part ==
    \A s, n \in Nat : n <= s => s - n \in Nat /\ s - n <= s - n /\ s <= (s - n) + n
OBVIOUS
LEMMA Within == \A a, s, n \in Nat : a <= s /\ n <= s => a <= (s - n) + n
OBVIOUS
LEMMA Falls ==
    ASSUME NEW p, NEW n, NEW q, NEW b, NEW c, p \in Int, n \in Int, q = p - n, b = 0, c = 0
    PROVE  q + n + b <= p + c
OBVIOUS
LEMMA Rises == \A p, n \in Int : (p + n) + 0 <= p + n
OBVIOUS
-----------------------------------------------------------------------------
(* Sums over the stops. *)

LEMMA StopFacts ==
    ASSUME TypeInv, IsFiniteSet(triggers)
    PROVE  /\ IsFiniteSet(Stops) /\ Stops \subseteq Triggers /\ pos \in Nat
           /\ \A t \in Stops : t.size \in Nat /\ t.oid \in Nat \ {0}
<1>1. Stops \subseteq triggers
  BY DEF Stops
<1> QED BY <1>1, FS_Subset DEF TypeInv, BookTypeOK, Triggers

LEMMA BackingIs ==
    ASSUME TypeInv, IsFiniteSet(triggers), NEW w \in [Stops -> Nat]
    PROVE  IntsOn(w, Stops) /\ SumFunctionOnSet(w, Stops) \in Nat
<1>1. \A t \in Stops : w[t] \in Nat
  OBVIOUS
<1> QED BY <1>1, StopFacts, SumIsNat DEF IntsOn

\* What the one stop of an oid gives up, the sum gives up.
LEMMA Reduced ==
    ASSUME NEW S, IsFiniteSet(S), NEW oid, \A t, u \in S : t.oid = oid /\ u.oid = oid => t = u,
           NEW w \in [S -> Nat], NEW v \in [S -> Nat], NEW n \in Nat,
           \A t \in S : t.oid # oid => v[t] = w[t],
           \A t \in S : t.oid = oid => w[t] <= v[t] + n
    PROVE  SumFunctionOnSet(w, S) <= SumFunctionOnSet(v, S) + n
<1>1. IntsOn(w, S) /\ IntsOn(v, S)
  BY DEF IntsOn
<1>2. SumFunctionOnSet(w, S) \in Int /\ SumFunctionOnSet(v, S) \in Int
  BY <1>1, SumIsInt
<1>3. CASE \E t \in S : t.oid = oid
  <2>1. PICK t \in S : t.oid = oid
    BY <1>3
  <2>2. \A u \in S \ {t} : v[u] = w[u]
    BY <2>1
  <2>3. SumFunctionOnSet(v, S) = SumFunctionOnSet(w, S) - w[t] + v[t]
    BY <1>1, <2>2, SumChanged
  <2>4. w[t] <= v[t] + n /\ w[t] \in Nat /\ v[t] \in Nat
    BY <2>1
  <2> QED BY <1>2, <2>3, <2>4
<1>4. CASE ~ \E t \in S : t.oid = oid
  <2>1. \A t \in S : w[t] = v[t]
    BY <1>4
  <2>2. SumFunctionOnSet(w, S) = SumFunctionOnSet(v, S)
    BY <1>1, <2>1, SumSame
  <2> QED BY <1>2, <2>2
<1> QED BY <1>3, <1>4

LEMMA Removed ==
    ASSUME NEW S, IsFiniteSet(S), NEW oid, \A t, u \in S : t.oid = oid /\ u.oid = oid => t = u,
           NEW w \in [S -> Nat], NEW n \in Nat, \A t \in S : t.oid = oid => w[t] <= n,
           NEW T, T = {t \in S : t.oid # oid}, NEW v, \A t \in T : v[t] = w[t]
    PROVE  SumFunctionOnSet(w, S) <= SumFunctionOnSet(v, T) + n
<1>1. IntsOn(w, S) /\ IsFiniteSet(T) /\ IntsOn(v, T) /\ IntsOn(w, T)
  BY FS_Subset DEF IntsOn
<1>2. SumFunctionOnSet(v, T) = SumFunctionOnSet(w, T)
  BY <1>1, SumSame
<1>3. SumFunctionOnSet(w, T) \in Int
  BY <1>1, SumIsInt
<1>4. CASE \E t \in S : t.oid = oid
  <2>1. PICK t \in S : t.oid = oid
    BY <1>4
  <2>2. T = S \ {t}
    BY <2>1
  <2>3. SumFunctionOnSet(w, S) = w[t] + SumFunctionOnSet(w, T)
    BY <1>1, <2>2, SumWithout
  <2>4. w[t] <= n /\ w[t] \in Nat
    BY <2>1
  <2> QED BY <1>2, <1>3, <2>3, <2>4
<1>5. CASE ~ \E t \in S : t.oid = oid
  <2>1. T = S
    BY <1>5
  <2>2. PICK k \in Int : k = SumFunctionOnSet(w, T)
    BY <1>3
  <2>3. k <= k + n
    OBVIOUS
  <2> QED BY <1>2, <2>1, <2>2, <2>3
<1> QED BY <1>4, <1>5

\* One more stop, and what it backs.
LEMMA Joined ==
    ASSUME NEW S, IsFiniteSet(S), NEW w \in [S -> Nat], NEW t, t \notin S, NEW n \in Nat
    PROVE  SumFunctionOnSet([u \in S \cup {t} |-> IF u = t THEN n ELSE w[u]], S \cup {t})
               = SumFunctionOnSet(w, S) + n
<1> DEFINE v == [u \in S \cup {t} |-> IF u = t THEN n ELSE w[u]]
<1>1. IntsOn(w, S) /\ v[t] = n /\ n \in Int /\ \A u \in S : v[u] = w[u]
  BY DEF IntsOn
<1> HIDE DEF v
<1>2. SumFunctionOnSet(v, S \cup {t}) = SumFunctionOnSet(w, S) + v[t]
  BY <1>1, SumGrown
<1> QED BY <1>1, <1>2 DEF v

-----------------------------------------------------------------------------
(* What may be weakened, and what not. *)

LEMMA SharesAre ==
    TypeInv /\ ControlInv =>
        \A r \in Active : /\ r \in DOMAIN rows /\ rows[r] \in RowsType
                         /\ Share(r) \in Nat /\ Share(r) <= rows[r].size
<1> SUFFICES ASSUME TypeInv, ControlInv, NEW r \in Active
             PROVE  /\ r \in DOMAIN rows /\ rows[r] \in RowsType
                    /\ Share(r) \in Nat /\ Share(r) <= rows[r].size
  OBVIOUS
<1>1. r \in DOMAIN rows /\ rows[r] \in RowsType
  BY RowsFacts DEF Active, ControlInv, RowOwned, At
<1>2. rows[r].size \in Nat
  BY <1>1 DEF RowsType
<1>3. CASE r = pass.row /\ At("book scale")
  <2>1. pass.size \in Nat /\ pass.size <= rows[r].size
    BY <1>3 DEF ControlInv, Purposeful, At, Row
  <2>2. Share(r) = rows[r].size - pass.size
    BY <1>3 DEF Share, Relieved, At
  <2> QED BY <1>1, <1>2, <2>1, <2>2
<1>4. CASE ~(r = pass.row /\ At("book scale"))
  <2>1. Share(r) \in {0, rows[r].size}
    BY <1>4 DEF Share
  <2> QED BY <1>1, <1>2, <2>1
<1> QED BY <1>3, <1>4

LEMMA SharesNext ==
    (TypeInv /\ ControlInv)' => (\A r \in Active : Share(r) \in Nat)'
<1>1. TypeInv /\ ControlInv => \A r \in Active : Share(r) \in Nat
  BY SharesAre
<1> QED BY <1>1, PTL

\* Limits that go up, or that no stop meets, leave a backing what it is; at most the stop of
\* an oid is lowered, to m.
Looser(oid, m) ==
    /\ \A r \in Active' :
           \/ r \in Active /\ rows'[r].sl_oid = rows[r].sl_oid /\ Share(r) <= Share(r)'
           \/ rows'[r].sl_oid = oid /\ m <= Share(r)'
           \/ \A t \in Stops : t.oid = rows'[r].sl_oid => t.size <= Share(r)'
    /\ \A t \in Stops : pass'.at \in Leaving /\ t.oid = pass'.oid =>
           \/ pass.at \in Leaving /\ t.oid = pass.oid
           \/ t.oid = oid /\ m = 0

\* What a stop of the backing keeps to, after the step.
LEMMA LimitsKept ==
    ASSUME TypeInv, ControlInv, TypeInv', ControlInv', IsFiniteSet(triggers),
           NEW oid, NEW m \in Nat, Looser(oid, m), NEW w, Backs(w), NEW t \in Stops,
           NEW k \in Nat, k <= w[t], t.oid = oid => k <= m
    PROVE  /\ k <= t.size
           /\ \A r \in Active' : t.oid = rows'[r].sl_oid => k <= Share(r)'
           /\ pass'.at \in Leaving /\ t.oid = pass'.oid => k = 0
<1>1. w[t] \in Nat /\ t.size \in Nat /\ w[t] <= t.size
  BY StopFacts DEF Backs
<1>2. ASSUME NEW r \in Active', t.oid = rows'[r].sl_oid PROVE k <= Share(r)'
  <2>1. PICK share : share = Share(r)'
    OBVIOUS
  <2>2. share \in Nat
    BY <1>2, <2>1, SharesNext
  <2>3. CASE r \in Active /\ rows'[r].sl_oid = rows[r].sl_oid /\ Share(r) <= share
    <3>1. w[t] <= Share(r) /\ Share(r) \in Nat
      BY <1>2, <2>3, SharesAre DEF Backs
    <3> QED BY <1>1, <2>1, <2>2, <2>3, <3>1
  <2>4. CASE rows'[r].sl_oid = oid /\ m <= share
    BY <1>2, <2>1, <2>2, <2>4
  <2>5. CASE \A u \in Stops : u.oid = rows'[r].sl_oid => u.size <= share
    <3>1. t.size <= share
      BY <1>2, <2>5
    <3> QED BY <1>1, <2>1, <2>2, <3>1
  <2> QED BY <1>2, <2>1, <2>3, <2>4, <2>5 DEF Looser
<1>3. pass'.at \in Leaving /\ t.oid = pass'.oid => k = 0
  BY <1>1 DEF Looser, Backs
<1> QED BY <1>1, <1>2, <1>3

\* A backing without what the stop of an oid is lowered by.
LEMMA Lowered ==
    ASSUME TypeInv, OidsUnique, IsFiniteSet(triggers), NEW w \in [Stops -> Nat],
           NEW oid, NEW m \in Nat, NEW n \in Nat,
           \A t \in Stops : t.oid = oid => w[t] <= m + n
    PROVE  \E v \in [Stops -> Nat] :
               /\ \A t \in Stops : v[t] <= w[t] /\ (t.oid = oid => v[t] <= m)
               /\ SumFunctionOnSet(w, Stops) <= SumFunctionOnSet(v, Stops) + n
<1> DEFINE v == [t \in Stops |-> IF t.oid = oid /\ w[t] > m THEN m ELSE w[t]]
<1>1. v \in [Stops -> Nat]
  OBVIOUS
<1>2. \A t \in Stops : v[t] <= w[t] /\ (t.oid = oid => v[t] <= m)
  OBVIOUS
<1>3. /\ \A t \in Stops : t.oid # oid => v[t] = w[t]
      /\ \A t \in Stops : t.oid = oid => w[t] <= v[t] + n
  OBVIOUS
<1>4. \A t, u \in Stops : t.oid = oid /\ u.oid = oid => t = u
  BY DEF OidsUnique, Stops
<1> HIDE DEF v
<1>5. SumFunctionOnSet(w, Stops) <= SumFunctionOnSet(v, Stops) + n
  BY <1>1, <1>3, <1>4, StopFacts, Reduced
<1> QED BY <1>1, <1>2, <1>5

\* The stops stay, one of them lowered by no more than the position falls.
LEMMA CoverLess ==
    ASSUME TypeInv, ControlInv, TypeInv', ControlInv', OidsUnique, CoverInv,
           IsFiniteSet(triggers'), Stops' = Stops, past \subseteq past',
           NEW oid, NEW m \in Nat, NEW n \in Nat, Bare \in Nat, Bare' \in Nat,
           Unexcused' =>
               /\ Looser(oid, m) /\ pos' + n + Bare <= pos + Bare'
               /\ \A w : Backs(w) => \A t \in Stops : t.oid = oid => w[t] <= m + n
    PROVE  CoverInv'
<1> SUFFICES ASSUME Unexcused' PROVE Covered'
  BY DEF CoverInv
<1>1. Unexcused
  BY DEF Unexcused
<1>2. PICK w : Backs(w) /\ pos <= SumFunctionOnSet(w, Stops) + Bare
  BY <1>1 DEF CoverInv, Covered
<1>3. w \in [Stops -> Nat] /\ IsFiniteSet(triggers)
  BY <1>2 DEF Backs, CoverInv
<1>4. PICK v \in [Stops -> Nat] :
        /\ \A t \in Stops : v[t] <= w[t] /\ (t.oid = oid => v[t] <= m)
        /\ SumFunctionOnSet(w, Stops) <= SumFunctionOnSet(v, Stops) + n
  BY <1>2, <1>3, Lowered
<1>5. Backs(v)'
  <2>1. \A t \in Stops : v[t] \in Nat
    OBVIOUS
  <2>2. \A t \in Stops :
          /\ v[t] <= t.size
          /\ \A r \in Active' : t.oid = rows'[r].sl_oid => v[t] <= Share(r)'
          /\ pass'.at \in Leaving /\ t.oid = pass'.oid => v[t] = 0
    BY <1>2, <1>3, <1>4, <2>1, LimitsKept
  <2> QED BY <2>2 DEF Backs
<1>6. /\ SumFunctionOnSet(w, Stops) \in Nat /\ SumFunctionOnSet(v, Stops) \in Nat
      /\ pos \in Nat /\ pos' \in Nat
  BY <1>3, BackingIs DEF TypeInv, BookTypeOK
<1>7. pos' <= SumFunctionOnSet(v, Stops) + Bare'
  BY <1>2, <1>4, <1>6
<1> QED BY <1>5, <1>7 DEF Covered

\* A step that lowers none.
LEMMA CoverKept ==
    ASSUME TypeInv, ControlInv, TypeInv', ControlInv', OidsUnique, CoverInv,
           IsFiniteSet(triggers'), Stops' = Stops, past \subseteq past', Bare \in Nat, Bare' \in Nat,
           Unexcused' => Looser(NoOid, 0) /\ pos' + Bare <= pos + Bare'
    PROVE  CoverInv'
<1>1. \A t \in Stops : t.oid # NoOid
  BY StopFacts DEF CoverInv, NoOid
<1>2. pos \in Int /\ pos' \in Int
  BY DEF TypeInv, BookTypeOK
<1>3. ASSUME Unexcused' PROVE pos' + 0 + Bare <= pos + Bare'
  <2>1. PICK p \in Int, q \in Int, b \in Int, c \in Int :
          p = pos /\ q = pos' /\ b = Bare /\ c = Bare'
    BY <1>2
  <2>2. q + b <= p + c
    BY <1>3, <2>1
  <2>3. q + 0 + b <= p + c
    BY <2>2
  <2> QED BY <2>1, <2>3
<1>4. Unexcused' =>
          /\ Looser(NoOid, 0) /\ pos' + 0 + Bare <= pos + Bare'
          /\ \A w : Backs(w) => \A t \in Stops : t.oid = NoOid => w[t] <= 0 + 0
  BY <1>1, <1>3
<1> QED BY <1>4, CoverLess

\* A stop goes that had no more to back than the position falls by.
LEMMA CoverGone ==
    ASSUME TypeInv, ControlInv, TypeInv', ControlInv', OidsUnique, CoverInv,
           IsFiniteSet(triggers'), past \subseteq past', Bare \in Nat, Bare' \in Nat,
           NEW oid, NEW n \in Nat,
           Unexcused' =>
               /\ Stops' = {t \in Stops : t.oid # oid}
               /\ Looser(NoOid, 0) /\ pos' + n + Bare <= pos + Bare'
               /\ \A w : Backs(w) => \A t \in Stops : t.oid = oid => w[t] <= n
    PROVE  CoverInv'
<1> SUFFICES ASSUME Unexcused' PROVE Covered'
  BY DEF CoverInv
<1>1. Unexcused
  BY DEF Unexcused
<1>2. PICK w : Backs(w) /\ pos <= SumFunctionOnSet(w, Stops) + Bare
  BY <1>1 DEF CoverInv, Covered
<1>3. w \in [Stops -> Nat] /\ IsFiniteSet(triggers) /\ IsFiniteSet(Stops)
  BY <1>2, StopFacts DEF Backs, CoverInv
<1>4. PICK T : T = Stops'
  OBVIOUS
<1> DEFINE v == [t \in T |-> w[t]]
<1>5. T = {t \in Stops : t.oid # oid}
  BY <1>4
<1>6. v \in [T -> Nat] /\ \A t \in T : v[t] = w[t] /\ t \in Stops
  BY <1>3, <1>5
<1>7. SumFunctionOnSet(w, Stops) <= SumFunctionOnSet(v, T) + n
  <2>1. \A t, u \in Stops : t.oid = oid /\ u.oid = oid => t = u
    BY DEF OidsUnique, Stops
  <2>2. \A t \in Stops : t.oid = oid => w[t] <= n
    BY <1>2
  <2>3. PICK S : S = Stops
    OBVIOUS
  <2>4. /\ IsFiniteSet(S) /\ w \in [S -> Nat] /\ T = {t \in S : t.oid # oid}
        /\ \A t, u \in S : t.oid = oid /\ u.oid = oid => t = u
        /\ \A t \in S : t.oid = oid => w[t] <= n
    BY <1>3, <1>5, <2>1, <2>2, <2>3
  <2> HIDE DEF v
  <2>5. SumFunctionOnSet(w, S) <= SumFunctionOnSet(v, T) + n
    BY <1>6, <2>4, Removed
  <2> QED BY <2>3, <2>5
<1>8. SumFunctionOnSet(v, T) \in Int
  <2>1. IsFiniteSet(T) /\ IntsOn(v, T)
    BY <1>3, <1>5, <1>6, FS_Subset DEF IntsOn
  <2> QED BY <2>1, SumIsInt
<1> HIDE DEF v
<1>9. Backs(v)'
  <2>1. \A t \in Stops : t.oid # NoOid
    BY StopFacts DEF CoverInv, NoOid
  <2>2. \A t \in T : v[t] \in Nat /\ v[t] <= w[t]
    BY <1>6
  <2>3. \A t \in T :
          /\ v[t] <= t.size
          /\ \A r \in Active' : t.oid = rows'[r].sl_oid => v[t] <= Share(r)'
          /\ pass'.at \in Leaving /\ t.oid = pass'.oid => v[t] = 0
    BY <1>2, <1>3, <1>6, <2>1, <2>2, LimitsKept
  <2> QED BY <1>4, <1>6, <2>3 DEF Backs
<1>10. pos \in Nat /\ pos' \in Nat /\ SumFunctionOnSet(w, Stops) \in Nat
  BY <1>3, BackingIs DEF TypeInv, BookTypeOK
<1>11. pos' <= SumFunctionOnSet(v, T) + Bare'
  <2>1. PICK p \in Int, q \in Int, b \in Int, c \in Int :
          p = pos /\ q = pos' /\ b = Bare /\ c = Bare'
    BY <1>10
  <2>2. PICK k \in Int, l \in Int : k = SumFunctionOnSet(w, Stops) /\ l = SumFunctionOnSet(v, T)
    BY <1>8, <1>10
  <2>3. q + n + b <= p + c
    BY <2>1
  <2>4. p <= k + b /\ k <= l + n
    BY <1>2, <1>7, <2>1, <2>2
  <2>5. q <= l + c
    BY <2>3, <2>4
  <2> QED BY <2>1, <2>2, <2>5
<1> QED BY <1>4, <1>9, <1>11 DEF Covered

\* A stop is placed, and one may be lowered for it.
LEMMA CoverMore ==
    ASSUME TypeInv, ControlInv, TypeInv', ControlInv', OidsUnique, CoverInv,
           past \subseteq past', Bare \in Nat, Bare' \in Nat,
           NEW level, NEW size \in Nat, PlaceTrigger("stop", level, size),
           \A t \in Stops : t.oid # oids + 1,
           NEW oid, NEW m \in Nat, NEW n \in Nat,
           Unexcused' =>
               /\ Looser(oid, m) /\ pos' + n + Bare <= pos + size + Bare'
               /\ \A w : Backs(w) => \A t \in Stops : t.oid = oid => w[t] <= m + n
               /\ \A r \in Active' : rows'[r].sl_oid # oids + 1
               /\ pass'.at \notin Leaving
    PROVE  CoverInv'
<1>a. PICK new : new = [oid |-> oids + 1, kind |-> "stop", level |-> level, size |-> size]
  OBVIOUS
<1>0. /\ new.oid = oids + 1 /\ new.size = size /\ new.kind = "stop"
      /\ triggers' = triggers \cup {new}
  BY <1>a DEF PlaceTrigger
<1>1. IsFiniteSet(triggers') /\ Stops' = Stops \cup {new} /\ new \notin Stops
  BY <1>0, FS_AddElement DEF CoverInv, Stops
<1> SUFFICES ASSUME Unexcused' PROVE Covered'
  BY <1>1 DEF CoverInv
<1>2. PICK w : Backs(w) /\ pos <= SumFunctionOnSet(w, Stops) + Bare
  BY DEF CoverInv, Covered, Unexcused
<1>3. w \in [Stops -> Nat] /\ IsFiniteSet(triggers) /\ IsFiniteSet(Stops)
  BY <1>2, StopFacts DEF Backs, CoverInv
<1>4. PICK v \in [Stops -> Nat] :
        /\ \A t \in Stops : v[t] <= w[t] /\ (t.oid = oid => v[t] <= m)
        /\ SumFunctionOnSet(w, Stops) <= SumFunctionOnSet(v, Stops) + n
  BY <1>2, <1>3, Lowered
<1>b. PICK x : x = [t \in Stops \cup {new} |-> IF t = new THEN size ELSE v[t]]
  OBVIOUS
<1>5. SumFunctionOnSet(x, Stops \cup {new}) = SumFunctionOnSet(v, Stops) + size
  <2>1. PICK S : S = Stops
    OBVIOUS
  <2>2. IsFiniteSet(S) /\ v \in [S -> Nat] /\ new \notin S
    BY <1>1, <1>3, <2>1
  <2>3. SumFunctionOnSet([u \in S \cup {new} |-> IF u = new THEN size ELSE v[u]], S \cup {new})
            = SumFunctionOnSet(v, S) + size
    BY <2>2, Joined
  <2> QED BY <1>b, <2>1, <2>3
<1>6. x \in [Stops \cup {new} -> Nat] /\ x[new] = size /\ \A t \in Stops : x[t] = v[t]
  BY <1>1, <1>b
<1>7. \A t \in Stops :
          /\ x[t] <= t.size
          /\ \A r \in Active' : t.oid = rows'[r].sl_oid => x[t] <= Share(r)'
          /\ pass'.at \in Leaving /\ t.oid = pass'.oid => x[t] = 0
  <2>1. \A t \in Stops : v[t] \in Nat
    OBVIOUS
  <2> QED BY <1>2, <1>3, <1>4, <1>6, <2>1, LimitsKept
<1>8. Backs(x)'
  <2>1. PICK S : S = Stops'
    OBVIOUS
  <2>2. S = Stops \cup {new}
    BY <1>1, <2>1
  <2>3. \A t \in S :
          /\ x[t] <= t.size
          /\ \A r \in Active' : t.oid = rows'[r].sl_oid => x[t] <= Share(r)'
          /\ pass'.at \in Leaving /\ t.oid = pass'.oid => x[t] = 0
    <3> TAKE t \in S
    <3>1. CASE t = new
      <4>1. t.oid = oids + 1 /\ t.size = size /\ x[t] = size
        BY <1>0, <1>6, <3>1
      <4>2. \A r \in Active' : rows'[r].sl_oid # oids + 1
        OBVIOUS
      <4>3. pass'.at \notin Leaving
        OBVIOUS
      <4> QED BY <4>1, <4>2, <4>3
    <3>2. CASE t \in Stops
      BY <1>7, <3>2
    <3> QED BY <2>2, <3>1, <3>2
  <2>4. x \in [S -> Nat]
    BY <1>6, <2>2
  <2> QED BY <2>1, <2>3, <2>4 DEF Backs
<1>9. /\ SumFunctionOnSet(w, Stops) \in Nat /\ SumFunctionOnSet(v, Stops) \in Nat
      /\ pos \in Nat /\ pos' \in Nat
  BY <1>3, BackingIs DEF TypeInv, BookTypeOK
<1>10. pos' <= SumFunctionOnSet(x, Stops \cup {new}) + Bare'
  <2>1. PICK p \in Int, q \in Int, b \in Int, c \in Int :
          p = pos /\ q = pos' /\ b = Bare /\ c = Bare'
    BY <1>9
  <2>2. PICK k \in Int, l \in Int :
          k = SumFunctionOnSet(w, Stops) /\ l = SumFunctionOnSet(v, Stops)
    BY <1>9
  <2>3. q + n + b <= p + size + c
    BY <2>1
  <2>4. p <= k + b /\ k <= l + n
    BY <1>2, <1>4, <2>1, <2>2
  <2>5. q <= l + size + c
    BY <2>3, <2>4
  <2>6. SumFunctionOnSet(x, Stops \cup {new}) = l + size
    BY <1>5, <2>2
  <2>7. PICK m1 \in Int : m1 = SumFunctionOnSet(x, Stops \cup {new})
    BY <2>6
  <2>8. q <= m1 + c
    BY <2>5, <2>6, <2>7
  <2>9. pos' <= m1 + Bare'
    BY <2>1, <2>8
  <2> QED BY <2>7, <2>9
<1> QED BY <1>1, <1>8, <1>10 DEF Covered

\* Where nothing is held there is nothing to back.
LEMMA NothingHeld ==
    ASSUME TypeInv', ControlInv', IsFiniteSet(triggers'), pos' = 0, Bare' \in Nat
    PROVE  CoverInv'
<1>1. PICK S : S = Stops'
  OBVIOUS
<1> DEFINE w == [t \in S |-> 0]
<1>2. IsFiniteSet(S)
  BY <1>1, FS_Subset DEF Stops
<1>3. \A t \in S : w[t] = 0 /\ t.size \in Nat
  BY <1>1 DEF TypeInv, BookTypeOK, Triggers, Stops
<1>4. w \in [S -> Nat]
  OBVIOUS
<1>5. SumFunctionOnSet(w, S) = 0
  BY <1>2, <1>3, SumIsZero
<1> HIDE DEF w
<1>6. Backs(w)'
  BY <1>1, <1>3, <1>4, SharesNext DEF Backs
<1> QED BY <1>1, <1>5, <1>6 DEF CoverInv, Covered

-----------------------------------------------------------------------------
(* What is booked. *)

LEMMA BookedFacts ==
    ASSUME TypeInv, ControlInv
    PROVE  /\ IsFiniteSet(DOMAIN rows) /\ \A r \in DOMAIN rows : Booked(r) \in Nat
           /\ \A r \in OpenRows : Booked(r) <= rows[r].size
           /\ \A r \in DOMAIN rows \ OpenRows : Booked(r) = 0
           /\ Unbooked \in Nat /\ Bare \in Nat
<1> USE DEF SliceStages, Stopping, Ordering
<1>1. IsFiniteSet(DOMAIN rows) /\ \A r \in DOMAIN rows : rows[r].size \in Nat
  BY RowsFacts, FS_Interval, Zero DEF RowsType
<1>2. At("book scale") => pass.size \in Nat /\ pass.size <= Row.size
  BY DEF ControlInv, Purposeful, At
<1>3. pass.at \in {"open slice", "slice stop", "slice close"} => pass.size \in Nat
  BY DEF ControlInv, Purposeful, At
<1>4. ASSUME NEW r \in DOMAIN rows
      PROVE  /\ Booked(r) \in Nat /\ (r \in OpenRows => Booked(r) <= rows[r].size)
             /\ (r \notin OpenRows => Booked(r) = 0)
  <2>1. CASE r = pass.row /\ At("book scale")
    <3>1. PICK k \in Nat, l \in Nat : k = rows[r].size /\ l = pass.size
      BY <1>1, <1>2, <2>1
    <3>2. l <= k
      BY <1>2, <2>1, <3>1 DEF Row
    <3>3. k - l \in Nat /\ k - l <= k
      BY <3>2
    <3>4. Booked(r) = IF Open(r) THEN k - l ELSE 0
      BY <2>1, <3>1 DEF Booked, At
    <3>5. r \in OpenRows <=> Open(r)
      BY DEF OpenRows
    <3> QED BY <3>1, <3>3, <3>4, <3>5
  <2>2. CASE ~(r = pass.row /\ At("book scale"))
    <3>1. Booked(r) \in {0, rows[r].size} /\ (r \notin OpenRows => Booked(r) = 0)
      BY <2>2 DEF Booked, OpenRows
    <3> QED BY <1>1, <3>1
  <2> QED BY <2>1, <2>2
<1>5. Unbooked \in Nat /\ Bare \in Nat
  <2>1. Bare \in Nat
    BY <1>3 DEF Bare
  <2>2. Unbooked \in Nat
    BY <1>3 DEF Unbooked, At
  <2> QED BY <2>1, <2>2
<1>6. OpenRows \subseteq DOMAIN rows
  BY DEF OpenRows
<1>7. /\ \A r \in DOMAIN rows : Booked(r) \in Nat
      /\ \A r \in OpenRows : Booked(r) <= rows[r].size
      /\ \A r \in DOMAIN rows \ OpenRows : Booked(r) = 0
  BY <1>4, <1>6
<1> QED BY <1>1, <1>5, <1>7

LEMMA BookedAfter ==
    (TypeInv /\ ControlInv)' =>
        (/\ IsFiniteSet(DOMAIN rows) /\ \A r \in DOMAIN rows : Booked(r) \in Nat
         /\ Unbooked \in Nat /\ Bare \in Nat)'
<1>1. TypeInv /\ ControlInv =>
        (/\ IsFiniteSet(DOMAIN rows) /\ \A r \in DOMAIN rows : Booked(r) \in Nat
         /\ Unbooked \in Nat /\ Bare \in Nat)
  BY BookedFacts
<1> QED BY <1>1, PTL

LEMMA BookedNext ==
    ASSUME TypeInv', ControlInv'
    PROVE  /\ IsFiniteSet(DOMAIN rows') /\ \A r \in DOMAIN rows' : Booked(r)' \in Nat
           /\ Unbooked' \in Nat /\ Bare' \in Nat
BY BookedAfter

\* What the rows book in all.
InAll == SumFunctionOnSet(BookedRows, DOMAIN rows)

LEMMA InAllIs ==
    ASSUME TypeInv, ControlInv
    PROVE  /\ IntsOn(BookedRows, DOMAIN rows) /\ InAll \in Nat
           /\ \A r \in DOMAIN rows : BookedRows[r] = Booked(r)
<1>1. \A r \in DOMAIN rows : BookedRows[r] = Booked(r)
  BY DEF BookedRows
<1>2. \A r \in DOMAIN rows : BookedRows[r] \in Nat
  BY <1>1, BookedFacts
<1> QED BY <1>1, <1>2, BookedFacts, SumIsNat DEF IntsOn, InAll

\* One row books less by no more than the position falls.
LEMMA BookedLess ==
    ASSUME TypeInv, ControlInv, TypeInv', ControlInv', BookedInv, past \subseteq past',
           DOMAIN rows' = DOMAIN rows, NEW r \in DOMAIN rows, NEW n \in Nat,
           Unexcused' =>
               /\ ~Pristine
               /\ \A q \in DOMAIN rows : q # r => Booked(q) <= Booked(q)'
               /\ Booked(r) <= Booked(r)' + n
               /\ pos' + n + Unbooked <= pos + Unbooked'
    PROVE  BookedInv'
<1> SUFFICES ASSUME Unexcused' PROVE pos' <= InAll' + Unbooked'
  BY DEF BookedInv, InAll
<1>1. pos <= InAll + Unbooked
  BY DEF BookedInv, Unexcused, InAll
<1> DEFINE b == [q \in DOMAIN rows |-> IF q = r THEN Booked(r)' + n ELSE Booked(q)']
           a == [q \in DOMAIN rows |-> Booked(q)']
<1>2. IsFiniteSet(DOMAIN rows) /\ \A q \in DOMAIN rows : Booked(q)' \in Nat
  BY BookedNext
<1>3. IntsOn(BookedRows, DOMAIN rows) /\ InAll \in Nat
      /\ \A q \in DOMAIN rows : BookedRows[q] = Booked(q)
  BY InAllIs
<1>4. IntsOn(b, DOMAIN rows) /\ IntsOn(a, DOMAIN rows)
  BY <1>2 DEF IntsOn
<1>5. \A q \in DOMAIN rows : BookedRows[q] <= b[q]
  BY <1>3
<1>6. \A q \in DOMAIN rows \ {r} : b[q] = a[q]
  OBVIOUS
<1>7. b[r] = a[r] + n /\ a[r] \in Nat
  BY <1>2
<1>8. InAll' = SumFunctionOnSet(a, DOMAIN rows)
  BY DEF InAll, BookedRows
<1> HIDE DEF a, b
<1>9. InAll <= SumFunctionOnSet(b, DOMAIN rows)
  BY <1>2, <1>3, <1>4, <1>5, SumAtMost DEF InAll
<1>10. SumFunctionOnSet(b, DOMAIN rows) = SumFunctionOnSet(a, DOMAIN rows) - a[r] + b[r]
  BY <1>2, <1>4, <1>6, SumChanged
<1>11. SumFunctionOnSet(a, DOMAIN rows) \in Int
  BY <1>2, <1>4, SumIsInt
<1>12. InAll <= InAll' + n /\ InAll' \in Int
  BY <1>3, <1>7, <1>8, <1>9, <1>10, <1>11
<1>13. pos \in Int /\ pos' \in Int /\ Unbooked \in Int /\ Unbooked' \in Int
  BY BookedFacts, BookedNext DEF TypeInv, BookTypeOK
<1>14. pos' <= InAll' + Unbooked'
  <2>1. PICK p \in Int, q \in Int, d \in Int, e \in Int :
          p = pos /\ q = pos' /\ d = Unbooked /\ e = Unbooked'
    BY <1>13
  <2>2. PICK k \in Int, l \in Int : k = InAll /\ l = InAll'
    BY <1>3, <1>12
  <2>3. q + n + d <= p + e
    BY <2>1
  <2>4. p <= k + d /\ k <= l + n
    BY <1>1, <1>12, <2>1, <2>2
  <2>5. q <= l + e
    BY <2>3, <2>4
  <2> QED BY <2>1, <2>2, <2>5
<1> QED BY <1>14

\* No row books less.
LEMMA BookedKept ==
    ASSUME TypeInv, ControlInv, TypeInv', ControlInv', BookedInv, past \subseteq past',
           DOMAIN rows' = DOMAIN rows,
           Unexcused' =>
               /\ ~Pristine
               /\ \A q \in DOMAIN rows : Booked(q) <= Booked(q)'
               /\ pos' + Unbooked <= pos + Unbooked'
    PROVE  BookedInv'
<1> SUFFICES ASSUME Unexcused' PROVE pos' <= InAll' + Unbooked'
  BY DEF BookedInv, InAll
<1>1. pos <= InAll + Unbooked
  BY DEF BookedInv, Unexcused, InAll
<1> DEFINE a == [q \in DOMAIN rows |-> Booked(q)']
<1>2. IsFiniteSet(DOMAIN rows) /\ \A q \in DOMAIN rows : Booked(q)' \in Nat
  BY BookedNext
<1>3. IntsOn(BookedRows, DOMAIN rows) /\ InAll \in Nat
      /\ \A q \in DOMAIN rows : BookedRows[q] = Booked(q)
  BY InAllIs
<1>4. IntsOn(a, DOMAIN rows) /\ \A q \in DOMAIN rows : BookedRows[q] <= a[q]
  BY <1>2, <1>3 DEF IntsOn
<1>8. InAll' = SumFunctionOnSet(a, DOMAIN rows)
  BY DEF InAll, BookedRows
<1> HIDE DEF a
<1>9. InAll <= SumFunctionOnSet(a, DOMAIN rows) /\ SumFunctionOnSet(a, DOMAIN rows) \in Int
  BY <1>2, <1>3, <1>4, SumAtMost, SumIsInt DEF InAll
<1>12. InAll <= InAll' /\ InAll' \in Int
  BY <1>3, <1>8, <1>9
<1>13. pos \in Int /\ pos' \in Int /\ Unbooked \in Int /\ Unbooked' \in Int
  BY BookedFacts, BookedNext DEF TypeInv, BookTypeOK
<1>14. pos' <= InAll' + Unbooked'
  <2>1. PICK p \in Int, q \in Int, d \in Int, e \in Int :
          p = pos /\ q = pos' /\ d = Unbooked /\ e = Unbooked'
    BY <1>13
  <2>2. PICK k \in Int, l \in Int : k = InAll /\ l = InAll'
    BY <1>3, <1>12
  <2>3. q + d <= p + e
    BY <2>1
  <2>4. p <= k + d /\ k <= l
    BY <1>1, <1>12, <2>1, <2>2
  <2>5. q <= l + e
    BY <2>3, <2>4
  <2> QED BY <2>1, <2>2, <2>5
<1> QED BY <1>14

\* Where nothing is held there is nothing to book.
LEMMA NothingIsBooked == TypeInv /\ ControlInv /\ pos = 0 => BookedInv
<1> SUFFICES ASSUME TypeInv, ControlInv, pos = 0 PROVE BookedInv
  OBVIOUS
<1>1. PICK k \in Nat, l \in Nat : k = InAll /\ l = Unbooked
  BY InAllIs, BookedFacts
<1>2. 0 <= k + l
  BY <1>1
<1> QED BY <1>1, <1>2 DEF BookedInv, InAll

LEMMA NothingBooked ==
    (TypeInv /\ ControlInv /\ pos = 0)' => BookedInv'
BY NothingIsBooked, PTL

\* What no open row books, and no add brings, is not held.
LEMMA NoRowsNothingHeld ==
    ASSUME TypeInv, ControlInv, BookedInv, Unexcused, OpenRows = {}, ~At("open slice")
    PROVE  pos = 0 \/ Pristine
<1>1. \A r \in DOMAIN rows : Booked(r) = 0
  BY BookedFacts
<1>2. InAll = 0
  BY <1>1, InAllIs, BookedFacts, SumIsZero DEF InAll
<1>3. Unbooked = 0
  BY DEF Unbooked
<1>4. pos <= InAll + Unbooked \/ Pristine
  BY DEF BookedInv, InAll
<1>5. pos \in Nat /\ InAll \in Nat
  BY InAllIs DEF TypeInv, BookTypeOK
<1> QED BY <1>2, <1>3, <1>4, <1>5, NothingLeft
-----------------------------------------------------------------------------
(* Steps after which nothing is on its way, and steps the pass has no part in. *)

OnItsWay == Relieved \cup {"book scale", "open slice"} \cup SliceStages

LEMMA AtHome ==
    pass.at \notin OnItsWay =>
        /\ Active = OpenRows /\ Bare = 0 /\ Unbooked = 0
        /\ \A r \in DOMAIN rows : Share(r) = rows[r].size /\ ~Underway(r)
        /\ \A r \in OpenRows : Booked(r) = rows[r].size
        /\ pass.at \notin Leaving \cup Replacing \cup SliceHeld
<1> SUFFICES ASSUME pass.at \notin OnItsWay
             PROVE  /\ Active = OpenRows /\ Bare = 0 /\ Unbooked = 0
                    /\ \A r \in DOMAIN rows : Share(r) = rows[r].size /\ ~Underway(r)
                    /\ \A r \in OpenRows : Booked(r) = rows[r].size
                    /\ pass.at \notin Leaving \cup Replacing \cup SliceHeld
  OBVIOUS
<1> USE DEF OnItsWay, Relieved, SliceStages
<1>1. Active = OpenRows /\ Bare = 0 /\ Unbooked = 0
  BY DEF Active, Bare, Unbooked, At
<1>2. \A r \in DOMAIN rows : Share(r) = rows[r].size /\ ~Underway(r)
  BY UnderwayIs DEF Share, At
<1>3. \A r \in OpenRows : Booked(r) = rows[r].size
  BY DEF Booked, OpenRows, At
<1>4. pass.at \notin Leaving \cup Replacing \cup SliceHeld
  BY DEF Leaving, Replacing, SliceHeld
<1> QED BY <1>1, <1>2, <1>3, <1>4

LEMMA AtHomeAfter ==
    (pass.at \notin OnItsWay)' =>
        (/\ Active = OpenRows /\ Bare = 0 /\ Unbooked = 0
         /\ \A r \in DOMAIN rows : Share(r) = rows[r].size /\ ~Underway(r)
         /\ \A r \in OpenRows : Booked(r) = rows[r].size
         /\ pass.at \notin Leaving \cup Replacing \cup SliceHeld)'
BY AtHome, PTL

LEMMA AtHomeNext ==
    ASSUME pass'.at \notin OnItsWay
    PROVE  /\ Active' = OpenRows' /\ Bare' = 0 /\ Unbooked' = 0
           /\ \A r \in DOMAIN rows' : Share(r)' = rows'[r].size /\ ~Underway(r)'
           /\ \A r \in OpenRows' : Booked(r)' = rows'[r].size
           /\ pass'.at \notin Leaving \cup Replacing \cup SliceHeld
BY AtHomeAfter DEF OnItsWay, Relieved, SliceStages, Leaving, Replacing, SliceHeld

Settles ==
    /\ pass'.at \notin OnItsWay
    /\ DOMAIN rows' = DOMAIN rows /\ OpenRows' \subseteq OpenRows
    /\ past \subseteq past' /\ \A r \in OpenRows' : rows'[r].sl_oid = rows[r].sl_oid
    /\ Unexcused' =>
           /\ ~Pristine /\ Bare = 0 /\ Unbooked = 0
           /\ \A r \in OpenRows' :
                  ~Underway(r) /\ Share(r) <= rows'[r].size /\ Booked(r) <= rows'[r].size
           /\ \A r \in DOMAIN rows \ OpenRows' : Booked(r) = 0

LEMMA SettlesFrom ==
    ASSUME TypeInv, ControlInv, rows' = rows, past \subseteq past', pass'.at \notin OnItsWay,
           Unexcused' => ~Pristine /\ pass.at \notin {"open slice"} \cup SliceStages
    PROVE  Settles
<1> SUFFICES ASSUME Unexcused'
             PROVE  /\ Bare = 0 /\ Unbooked = 0
                    /\ \A r \in OpenRows : /\ ~Underway(r) /\ Share(r) <= rows[r].size
                                           /\ Booked(r) <= rows[r].size
                    /\ \A r \in DOMAIN rows \ OpenRows : Booked(r) = 0
  BY OpenAtRest DEF Settles
<1>1. Bare = 0 /\ Unbooked = 0
  BY DEF Bare, Unbooked, At, SliceStages
<1>2. \A r \in OpenRows : ~Underway(r)
  BY UnderwayIs
<1>3. \A r \in OpenRows : Share(r) <= rows[r].size
  BY SharesAre DEF Active
<1> QED BY <1>1, <1>2, <1>3, BookedFacts

LEMMA SettledLooser ==
    ASSUME TypeInv, TypeInv', Settles, Unexcused'
    PROVE  Looser(NoOid, 0) /\ Bare = 0 /\ Bare' = 0 /\ Active' \subseteq Active
<1>1. OpenRows' \subseteq DOMAIN rows' /\ DOMAIN rows' = DOMAIN rows /\ OpenRows' \subseteq OpenRows
  BY DEF Settles, OpenRows
<1>2. Active' = OpenRows' /\ Bare' = 0 /\ pass'.at \notin Leaving
      /\ \A r \in OpenRows' : Share(r)' = rows'[r].size
  BY <1>1, AtHomeNext DEF Settles
<1>3. ASSUME NEW r \in Active'
      PROVE  r \in Active /\ rows'[r].sl_oid = rows[r].sl_oid /\ Share(r) <= Share(r)'
  <2>1. PICK share : share = Share(r)'
    OBVIOUS
  <2>2. share = rows'[r].size /\ r \in OpenRows' /\ r \in OpenRows
    BY <1>1, <1>2, <1>3, <2>1
  <2>3. rows'[r].sl_oid = rows[r].sl_oid /\ Share(r) <= rows'[r].size
    BY <2>2 DEF Settles
  <2> QED BY <2>1, <2>2, <2>3 DEF Active
<1>4. Looser(NoOid, 0)
  BY <1>2, <1>3 DEF Looser
<1> QED BY <1>2, <1>3, <1>4 DEF Settles

LEMMA SettledCover ==
    ASSUME TypeInv, ControlInv, TypeInv', ControlInv', OidsUnique, CoverInv, Settles,
           IsFiniteSet(triggers'), Stops' = Stops, pos' <= pos
    PROVE  CoverInv'
<1>1. Bare \in Nat /\ Bare' \in Nat /\ pos \in Nat /\ pos' \in Nat
  BY BookedFacts, BookedNext DEF TypeInv, BookTypeOK
<1>2. ASSUME Unexcused' PROVE Looser(NoOid, 0) /\ pos' + Bare <= pos + Bare'
  <2>1. Looser(NoOid, 0) /\ Bare = 0 /\ Bare' = 0
    BY <1>2, SettledLooser
  <2>2. PICK p \in Nat, q \in Nat : p = pos /\ q = pos'
    BY <1>1
  <2>4. q <= p
    BY <2>2
  <2>5. p \in Nat /\ q \in Nat
    BY <2>2
  <2>3. q + 0 <= p + 0
    BY <2>4, <2>5
  <2> QED BY <2>1, <2>2, <2>3
<1> QED BY <1>1, <1>2, CoverKept DEF Settles

LEMMA SettledOwn ==
    ASSUME TypeInv, TypeInv', OwnInv, Settles
    PROVE  OwnInv'
<1>1. OpenRows' \subseteq DOMAIN rows' /\ DOMAIN rows' = DOMAIN rows /\ OpenRows' \subseteq OpenRows
  BY DEF Settles, OpenRows
<1>2. pass'.at \notin Replacing \cup SliceHeld
  BY AtHomeNext DEF Settles
<1>3. FreshOid' /\ PlacedSize'
  BY <1>2 DEF FreshOid, PlacedSize
<1>4. ASSUME Unexcused' PROVE \A r \in OpenRows' : rows'[r].sl_oid # NoOid
  BY <1>1, <1>4 DEF OwnInv, OidRecorded, Settles, Unexcused
<1>5. OidRecorded'
  BY <1>2, <1>4 DEF OidRecorded, SliceHeld
<1>6. OwnOids'
  <2>1. Active' \subseteq Active /\ Active' = OpenRows'
    BY <1>1, AtHomeNext DEF Settles, Active
  <2> QED BY <2>1 DEF OwnInv, OwnOids, Settles
<1> QED BY <1>3, <1>5, <1>6 DEF OwnInv

LEMMA SettledBooked ==
    ASSUME TypeInv, ControlInv, TypeInv', ControlInv', BookedInv, Settles, pos' <= pos
    PROVE  BookedInv'
<1>1. pos \in Int /\ pos' \in Int
  BY DEF TypeInv, BookTypeOK
<1>2. ASSUME Unexcused'
      PROVE  /\ \A q \in DOMAIN rows : Booked(q) <= Booked(q)'
             /\ pos' + Unbooked <= pos + Unbooked'
  <2>1. Unbooked = 0 /\ Unbooked' = 0 /\ \A r \in OpenRows' : Booked(r)' = rows'[r].size
    BY <1>2, AtHomeNext DEF Settles
  <2>2. ASSUME NEW q \in DOMAIN rows PROVE Booked(q) <= Booked(q)'
    <3>1. CASE q \in OpenRows'
      BY <1>2, <2>1, <3>1 DEF Settles
    <3>2. CASE q \notin OpenRows'
      <4>1. Booked(q) = 0
        BY <1>2, <3>2 DEF Settles
      <4>2. Booked(q)' \in Nat
        BY BookedNext DEF Settles
      <4> QED BY <4>1, <4>2
    <3> QED BY <3>1, <3>2
  <2>3. PICK p \in Int, q \in Int : p = pos /\ q = pos'
    BY <1>1
  <2>6. q <= p
    BY <2>3
  <2>4. q + 0 <= p + 0
    BY <2>6
  <2>5. pos' + Unbooked <= pos + Unbooked'
    BY <2>1, <2>3, <2>4
  <2> QED BY <2>2, <2>5
<1>3. Unexcused' => ~Pristine
  BY DEF Settles
<1> QED BY <1>2, <1>3, BookedKept DEF Settles

\* The pass and the rows stay as they are.
LEMMA StandingLooser ==
    ASSUME TypeInv, ControlInv, rows' = rows, pass' = pass
    PROVE  Looser(NoOid, 0) /\ Bare' = Bare
<1>1. Active' = Active /\ Bare' = Bare
  BY DEF Active, OpenRows, Open, At, Bare
<1>2. \A r \in Active : Share(r)' = Share(r)
  BY DEF Share, Row, At
<1>3. \A r \in Active : Share(r) \in Nat
  BY SharesAre
<1> QED BY <1>1, <1>2, <1>3 DEF Looser

LEMMA StandingOwn ==
    ASSUME OwnInv, rows' = rows, pass' = pass, Stops' \subseteq Stops, past \subseteq past'
    PROVE  OwnInv'
<1>1. Active' = Active /\ OpenRows' = OpenRows /\ Slice' = Slice /\ Row' = Row
  BY DEF Active, OpenRows, Open, At, Row, Slice
<1>2. (\A r \in OpenRows : Underway(r)' = Underway(r)) /\ (Unexcused' => Unexcused)
  BY <1>1 DEF Underway, CutOff, At, Unexcused
<1>3. OwnOids' /\ FreshOid'
  BY <1>1 DEF OwnInv, OwnOids, FreshOid
<1>4. OidRecorded'
  BY <1>1, <1>2 DEF OwnInv, OidRecorded
<1>5. PlacedSize'
  BY <1>1 DEF OwnInv, PlacedSize
<1> QED BY <1>3, <1>4, <1>5 DEF OwnInv

LEMMA StandingPlan ==
    ASSUME TypeInv, TypeInv', PlanInv, rows' = rows, pass' = pass, pos' <= pos
    PROVE  PlanInv'
<1>1. Row' = Row /\ pos \in Nat /\ pos' \in Nat
  BY DEF Row, TypeInv, BookTypeOK
<1>2. CloseWhole'
  BY <1>1 DEF PlanInv, CloseWhole, At
<1>3. PICK p \in Nat, q \in Nat : p = pos /\ q = pos'
  BY <1>1
<1>4. pos = 0 => pos' = 0
  <2>1. p = 0 => q = 0
    BY <1>3
  <2> QED BY <1>3, <2>1
<1>5. FlatSeen'
  BY <1>4 DEF PlanInv, FlatSeen, At
<1> QED BY <1>2, <1>5 DEF PlanInv

LEMMA StandingBooked ==
    ASSUME TypeInv, ControlInv, TypeInv', ControlInv', BookedInv, rows' = rows, pass' = pass,
           past \subseteq past', pos' <= pos, Pristine => Pristine' \/ pos' = 0
    PROVE  BookedInv'
<1>1. CASE Pristine
  BY <1>1, NothingBooked DEF BookedInv
<1>2. CASE ~Pristine
  <2>1. Unbooked' = Unbooked
    BY DEF Unbooked, At
  <2>2. \A q \in DOMAIN rows : Booked(q)' = Booked(q)
    BY DEF Booked, Open, At, Slice
  <2>3. pos \in Int /\ pos' \in Int /\ Unbooked \in Int /\ \A q \in DOMAIN rows : Booked(q) \in Nat
    BY BookedFacts DEF TypeInv, BookTypeOK
  <2>4. \A q \in DOMAIN rows : Booked(q) <= Booked(q)'
    BY <2>2, <2>3
  <2>5. pos' + Unbooked <= pos + Unbooked'
    <3>1. PICK p \in Int, q \in Int, d \in Int : p = pos /\ q = pos' /\ d = Unbooked
      BY <2>3
    <3>2. q <= p
      BY <3>1
    <3>3. q + d <= p + d
      BY <3>2
    <3> QED BY <2>1, <3>1, <3>3
  <2> QED BY <1>2, <2>4, <2>5, BookedKept
<1> QED BY <1>1, <1>2

\* The plan of the pass goes on.
LEMMA PlanGoes ==
    ASSUME TypeInv, TypeInv', PlanInv, ~At("idle"), InHandKept, pos' <= pos \/ At("order add"),
           pass'.at # "order resolve",
           pass'.at \in {"claim", "order close"} /\ pass.for = "close" =>
               At("claim") /\ pass'.size = pass.size /\ rows' = rows,
           pass'.at \in Stopping \cup {"claim", "order add"} => pass.at \in Stopping \cup {"claim"}
    PROVE  PlanInv'
<1>1. pos \in Nat /\ pos' \in Nat
  BY DEF TypeInv, BookTypeOK
<1>2. /\ pass'.row = pass.row /\ pass'.for = pass.for /\ pass'.flat = pass.flat
      /\ pass'.phase = pass.phase
  BY DEF InHandKept, Kept
<1>3. CloseWhole'
  BY <1>2 DEF PlanInv, CloseWhole, At, Row
<1>4. FlatSeen'
  <2>1. pass.flat => pass.phase = "resolve" /\ pos = 0
    BY DEF PlanInv, FlatSeen
  <2>2. At("order add") => pass.phase = "manage"
    BY DEF PlanInv, FlatSeen, At
  <2>3. pass'.at \in Stopping \cup {"claim", "order add"} => pass.phase = "manage"
    BY DEF PlanInv, FlatSeen
  <2>4. pos = 0 /\ pos' <= pos => pos' = 0
    BY <1>1, NoneBelow
  <2>5. pass'.flat => pass'.phase = "resolve" /\ pos' = 0
    BY <1>2, <2>1, <2>2, <2>4
  <2> QED BY <1>2, <2>3, <2>5 DEF FlatSeen, At
<1> QED BY <1>3, <1>4 DEF PlanInv

LEMMA PlanIdle ==
    ASSUME pass' = Idle
    PROVE  PlanInv'
BY DEF Idle, PlanInv, CloseWhole, FlatSeen, At, Stopping
-----------------------------------------------------------------------------
(* What the steps of the pass do to it that leave stops and position alone. *)

Base == TypeInv /\ ControlInv /\ TypeInv' /\ ControlInv' /\ LedgerInv /\ NakedInv

LEMMA NoneToCome ==
    ASSUME NakedInv, triggers' \subseteq triggers
    PROVE  IsFiniteSet(triggers')
BY FS_Subset DEF NakedInv, CoverInv

LEMMA Busy ==
    ASSUME ~At("idle")
    PROVE  ~Pristine
BY DEF Pristine

LEMMA SettledNaked ==
    ASSUME Base, Settles, Stops' = Stops, IsFiniteSet(triggers'), pos' <= pos, PlanInv'
    PROVE  NakedInv'
<1>1. CoverInv'
  BY SettledCover DEF Base, NakedInv, LedgerInv
<1>2. OwnInv'
  BY SettledOwn DEF Base, NakedInv
<1>3. BookedInv'
  BY SettledBooked DEF Base, NakedInv
<1> QED BY <1>1, <1>2, <1>3 DEF NakedInv

LEMMA StandingNaked ==
    ASSUME Base, rows' = rows, pass' = pass, Stops' = Stops, IsFiniteSet(triggers'),
           pos' <= pos, past \subseteq past', Pristine => Pristine' \/ pos' = 0
    PROVE  NakedInv'
<1>1. Looser(NoOid, 0) /\ Bare' = Bare
  BY StandingLooser DEF Base
<1>2. Bare \in Nat /\ pos \in Int /\ pos' \in Int /\ Bare' \in Nat
  BY <1>1, BookedFacts DEF Base, TypeInv, BookTypeOK
<1>3. pos' + Bare <= pos + Bare'
  <2>1. PICK p \in Int, q \in Int, b \in Int : p = pos /\ q = pos' /\ b = Bare
    BY <1>2
  <2>2. q <= p
    BY <2>1
  <2>3. q + b <= p + b
    BY <2>2
  <2> QED BY <1>1, <2>1, <2>3
<1>4. CoverInv'
  BY <1>1, <1>2, <1>3, CoverKept DEF Base, NakedInv, LedgerInv
<1>5. OwnInv'
  BY StandingOwn DEF Base, NakedInv
<1>6. PlanInv'
  BY StandingPlan DEF Base, NakedInv
<1>7. BookedInv'
  BY StandingBooked DEF Base, NakedInv
<1> QED BY <1>4, <1>5, <1>6, <1>7 DEF NakedInv

LEMMA PosStays ==
    ASSUME TypeInv, UNCHANGED bookVars
    PROVE  pos' = pos /\ pos' <= pos /\ triggers' = triggers
<1>1. PICK p \in Nat : p = pos
  BY DEF TypeInv, BookTypeOK
<1>2. p <= p
  OBVIOUS
<1> QED BY <1>1, <1>2 DEF bookVars

LEMMA QuietNaked ==
    ASSUME Base, UNCHANGED <<rows, bookVars>>, past \subseteq past', pass'.at \notin OnItsWay,
           Unexcused' => ~Pristine /\ pass.at \notin {"open slice"} \cup SliceStages, PlanInv'
    PROVE  NakedInv'
<1>1. /\ rows' = rows /\ triggers' = triggers /\ pos' = pos /\ Stops' = Stops
      /\ IsFiniteSet(triggers') /\ pos' <= pos
  BY PosStays, NoneToCome DEF Stops, Base
<1>2. Settles
  BY <1>1, SettlesFrom DEF Base
<1> QED BY <1>1, <1>2, SettledNaked

LEMMA NakedManage ==
    ASSUME Base, PassOver \/ Holds \/ LogAction \/ Claim \/ Release
    PROVE  NakedInv'
<1> USE DEF OnItsWay, Relieved, SliceStages, Stopping
<1>0. TypeInv /\ ControlInv /\ TypeInv' /\ PlanInv
  BY DEF Base, NakedInv
<1>1. CASE PassOver \/ Holds
  <2>1. /\ LessToDo /\ At("manage")
        /\ UNCHANGED <<bookVars, rows, past>>
    BY <1>0, <1>1, PassOverEffect
  <2>2. pass'.at = "manage" /\ InHandKept /\ ~At("idle") /\ pos' <= pos
    BY <1>0, <2>1, PosStays DEF LessToDo, At
  <2>3. PlanInv'
    BY <1>0, <2>2, PlanGoes
  <2> QED BY <2>1, <2>2, <2>3, Busy, QuietNaked DEF At
<1>2. CASE LogAction \/ Release
  <2>1. GoneOn /\ UNCHANGED <<bookVars, rows, past>> /\ pass.at \in {"log", "release"}
    BY <1>0, <1>2, LogActionEffect, ReleaseEffect DEF LogAction, Release, At
  <2>2. pass'.at \in {"manage", "resolve"} /\ InHandKept /\ ~At("idle") /\ pos' <= pos
    BY <1>0, <2>1, PosStays DEF GoneOn, GoneTo, At
  <2>3. PlanInv'
    BY <1>0, <2>2, PlanGoes
  <2> QED BY <2>1, <2>2, <2>3, Busy, QuietNaked DEF At
<1>3. CASE Claim
  <2>1. /\ UNCHANGED <<bookVars, rows, past>> /\ At("claim")
        /\ InHandKept /\ pass'.size = pass.size
        /\ \/ pass'.at \in {"manage", "resolve"}
           \/ pass.for = "close" /\ pass'.at = "order close"
           \/ pass.for = "scale" /\ pass'.at = "order scale"
           \/ pass.for = "add" /\ pass'.at = "order add"
    BY <1>0, <1>3, ClaimEffect DEF Claim, GoneOn, GoneTo
  <2>2. ~At("idle") /\ pos' <= pos
    BY <1>0, <2>1, PosStays DEF At
  <2>3. PlanInv'
    BY <1>0, <2>1, <2>2, PlanGoes DEF At
  <2> QED BY <2>1, <2>2, <2>3, Busy, QuietNaked DEF At
<1> QED BY <1>1, <1>2, <1>3

LEMMA NakedJudge ==
    ASSUME Base, Judge
    PROVE  NakedInv'
<1>0. TypeInv /\ ControlInv /\ PlanInv /\ At("manage") /\ pass \in Passes
      /\ pass.phase = "manage"
  BY InPass DEF Base, NakedInv, Judge, At, ControlInv, Purposeful
<1>1. \E r \in pass.todo : \E step \in {"claim", "place stop", "place take"} :
      \E level, size, for :
          Does(r, step, level, size, for) /\ (for = "close" => size = rows[r].size)
  <2>1. PICK r \in pass.todo :
          \/ Does(r, "claim", pass.mark, rows[r].size, "close")
          \/ \E level, size, for :
                 \E step \in {"claim", "place stop", "place take"} :
                     Does(r, step, level, size, for) /\ for # "close"
    <3>1. PICK r \in pass.todo :
            \/ Does(r, "claim", pass.mark, rows[r].size, "close")
            \/ \E level \in StopLevels : Does(r, "place stop", level, 0, "tighten")
            \/ \E level \in StopLevels : \E size \in 1..Room : Does(r, "place stop", level, size, "add")
            \/ \E size \in ReduceShares : Does(r, "claim", 0, size, "scale")
            \/ \E level \in TargetLevels : Does(r, "place take", level, 0, "extend")
      BY DEF Judge
    <3> QED BY <3>1
  <2> QED BY <2>1
<1>a. PICK r \in pass.todo, step \in {"claim", "place stop", "place take"} :
        \E level, size, for :
            Does(r, step, level, size, for) /\ (for = "close" => size = rows[r].size)
  BY <1>1
<1>b. PICK level, size, for :
        Does(r, step, level, size, for) /\ (for = "close" => size = rows[r].size)
  BY <1>a
<1>2. /\ pass'.at = step /\ pass'.row = r /\ pass'.size = size /\ pass'.for = for
      /\ pass'.flat = pass.flat /\ pass'.phase = pass.phase
  BY <1>0, <1>b DEF Does, Passes
<1>3. UNCHANGED <<bookVars, rows, past>> /\ pos' = pos
  BY DEF Judge, Books, bookVars
<1>4. CloseWhole'
  BY <1>b, <1>2, <1>3 DEF CloseWhole, At, Row
<1>5. FlatSeen'
  BY <1>0, <1>2, <1>3 DEF PlanInv, FlatSeen, At, Stopping
<1>6. PlanInv'
  BY <1>4, <1>5 DEF PlanInv
<1> QED BY <1>0, <1>a, <1>2, <1>3, <1>6, Busy, QuietNaked
    DEF At, OnItsWay, Relieved, SliceStages

LEMMA NakedStartResolve ==
    ASSUME Base, StartResolve
    PROVE  NakedInv'
<1>0. TypeInv /\ At("manage") /\ pass \in Passes
  BY InPass DEF Base, StartResolve, At
<1>1. pass'.at = "resolve" /\ pass'.phase = "resolve" /\ pass'.flat = (pos = 0)
  BY <1>0 DEF StartResolve, Passes
<1>2. UNCHANGED <<bookVars, rows, past>> /\ pos' = pos
  BY DEF StartResolve, Books, bookVars
<1>3. PlanInv'
  BY <1>1, <1>2 DEF PlanInv, CloseWhole, FlatSeen, At, Stopping
<1> QED BY <1>0, <1>1, <1>2, <1>3, Busy, QuietNaked
    DEF At, OnItsWay, Relieved, SliceStages

\* The stops of the rows stay whose they are.
LEMMA RestingOwn ==
    ASSUME OwnInv, rows' = rows, past \subseteq past',
           pass'.at \notin Replacing \cup SliceStages \cup {"cancel row"},
           Unexcused' => pass.at \notin SliceStages
    PROVE  OwnInv'
<1>1. OpenRows' = OpenRows /\ Active' = OpenRows /\ OpenRows \subseteq Active
  BY OpenAtRest DEF Active, At
<1>2. pass'.at \notin Replacing \cup SliceHeld
  BY DEF SliceHeld, SliceStages
<1>3. FreshOid' /\ PlacedSize'
  BY <1>2 DEF FreshOid, PlacedSize
<1>4. Unexcused' => Unexcused /\ \A r \in OpenRows : ~Underway(r)
  BY UnderwayIs DEF Unexcused
<1>5. OidRecorded'
  BY <1>1, <1>2, <1>4 DEF OwnInv, OidRecorded, SliceHeld
<1>6. OwnOids'
  BY <1>1 DEF OwnInv, OwnOids
<1> QED BY <1>3, <1>5, <1>6 DEF OwnInv

LEMMA NakedResolve ==
    ASSUME Base, Resolve
    PROVE  NakedInv'
<1> USE DEF OnItsWay, Relieved, SliceStages, Stopping
<1>0. TypeInv /\ ControlInv /\ PlanInv /\ At("resolve") /\ pass \in Passes
      /\ pass.phase = "resolve" /\ TypeInv' /\ ControlInv' /\ ~At("idle")
  BY InPass DEF Base, NakedInv, Resolve, At, ControlInv, Purposeful
<1>1. UNCHANGED <<bookVars, rows, past>> /\ pos' = pos /\ pos \in Nat
  BY <1>0 DEF Resolve, Books, bookVars, TypeInv, BookTypeOK
<1>2. PICK r \in pass.todo :
        \/ pass.flat /\ Does(r, "book close", 0, 0, "resolve")
        \/ Does(r, "order resolve", 0, rows[r].size, "resolve")
        \/ Skip(r)
  BY DEF Resolve
<1>3. CASE Skip(r)
  <2>1. pass'.at = "resolve" /\ InHandKept
    BY <1>0, <1>3, Skips DEF At
  <2>2. PlanInv'
    BY <1>0, <1>1, <2>1, PlanGoes
  <2> QED BY <1>0, <1>1, <2>1, <2>2, Busy, QuietNaked DEF At
<1>4. CASE Does(r, "order resolve", 0, rows[r].size, "resolve")
  <2>1. /\ pass'.at = "order resolve" /\ pass'.row = r /\ pass'.size = rows[r].size
        /\ pass'.flat = pass.flat /\ pass'.phase = pass.phase
    BY <1>0, <1>4 DEF Does, Passes
  <2>2. PlanInv'
    BY <1>0, <1>1, <2>1 DEF PlanInv, CloseWhole, FlatSeen, At, Row
  <2> QED BY <1>0, <1>1, <2>1, <2>2, Busy, QuietNaked DEF At
<1>5. CASE pass.flat /\ Does(r, "book close", 0, 0, "resolve")
  <2>1. /\ pass'.at = "book close" /\ pass'.flat = pass.flat /\ pass'.phase = pass.phase
    BY <1>0, <1>5 DEF Does, Passes
  <2>2. pos' = 0
    BY <1>0, <1>1, <1>5 DEF PlanInv, FlatSeen
  <2>3. PlanInv'
    BY <1>0, <2>1, <2>2 DEF PlanInv, CloseWhole, FlatSeen, At
  <2>4. IsFiniteSet(triggers') /\ Bare' = 0
    BY <1>1, <2>1, NoneToCome DEF Base, bookVars, Bare
  <2>5. CoverInv' /\ BookedInv'
    BY <1>0, <2>2, <2>4, NothingHeld, NothingBooked
  <2>6. OwnInv'
    BY <1>0, <1>1, <2>1, RestingOwn DEF Base, NakedInv, At, Replacing
  <2> QED BY <2>3, <2>5, <2>6 DEF NakedInv
<1> QED BY <1>2, <1>3, <1>4, <1>5

LEMMA NakedAround ==
    ASSUME Base, EndPass \/ Dies \/ IntervalPasses \/ Reconcile \/ Clears \/ Moves
    PROVE  NakedInv'
<1>0. TypeInv /\ PlanInv /\ pos \in Nat
  BY DEF Base, NakedInv, TypeInv, BookTypeOK
<1>1. CASE EndPass \/ Dies
  <2>1. /\ UNCHANGED <<rows, bookVars>> /\ past \subseteq past' /\ pass' = Idle /\ ~At("idle")
        /\ Unexcused' => pass.at \notin {"open slice"} \cup SliceStages
    BY <1>1 DEF EndPass, Dies, CutOff, Unexcused, SliceStages, At, Books
  <2>2. pass'.at \notin OnItsWay
    BY <2>1 DEF Idle, OnItsWay, Relieved, SliceStages
  <2> QED BY <2>1, <2>2, Busy, PlanIdle, QuietNaked
<1>2. CASE IntervalPasses \/ Reconcile \/ Clears \/ Moves
  <2>1. /\ UNCHANGED <<rows, pass, past, pos, triggers>> /\ pos' <= pos
        /\ triggers' \subseteq triggers /\ Stops' = Stops
    BY <1>0, <1>2
    DEF IntervalPasses, Reconcile, Clears, Moves, MarkMoves, deskVars, bookVars, Stops
  <2>2. Pristine => Pristine'
    BY <2>1 DEF Pristine, At
  <2> QED BY <2>1, <2>2, NoneToCome, StandingNaked DEF Base
<1> QED BY <1>1, <1>2

LEMMA NakedStart ==
    ASSUME Base, StartPass, ~Adopts
    PROVE  NakedInv'
<1>1. PICK held : pass' = Manage(OpenRows, held)
  BY StartPassEffect DEF Base
<1>2. UNCHANGED <<rows, bookVars, past>> /\ At("idle")
  BY StartPassEffect DEF Base
<1>3. pass'.at = "manage" /\ pass'.phase = "manage" /\ pass'.flat = FALSE
  BY <1>1 DEF Manage
<1>4. PlanInv'
  BY <1>3 DEF PlanInv, CloseWhole, FlatSeen, At, Stopping
<1>5. ~Pristine
  <2> SUFFICES ASSUME Pristine PROVE FALSE
    OBVIOUS
  <2>1. PICK t \in triggers : triggers = {t} /\ t.kind = "stop" /\ t.size = Size
    BY DEF Pristine
  <2>2. OpenRows = {}
    BY DEF Pristine, OpenRows
  <2>3. pos > 0
    BY Constants DEF Pristine
  <2>4. t \in Stops
    BY <2>1 DEF Stops
  <2> QED BY <2>2, <2>3, <2>4 DEF Adopts
<1> QED BY <1>2, <1>3, <1>4, <1>5, QuietNaked
    DEF At, OnItsWay, Relieved, SliceStages

\* A target is moved: no stop is.
LEMMA NakedTakes ==
    ASSUME Base, PlaceTake \/ CancelTake
    PROVE  NakedInv'
<1> USE DEF OnItsWay, Relieved, SliceStages, Stopping
<1>0. TypeInv /\ ControlInv /\ PlanInv /\ TypeInv' /\ pos \in Nat /\ IsFiniteSet(triggers)
  BY DEF Base, NakedInv, CoverInv, TypeInv, BookTypeOK
<1>1. /\ rows' = rows /\ past' = past /\ pass.at \in {"place take", "cancel take"}
      /\ pass'.at \in {"cancel take", "book take oid", "manage", "resolve"} /\ InHandKept
  <2>1. CASE PlaceTake
    BY <1>0, <2>1, PlaceTakeEffect DEF PlaceTake, PlaceNew, At, Noted, GoneOn, GoneTo
  <2>2. CASE CancelTake
    BY <1>0, <2>2, CancelTakeEffect DEF CancelTake, CancelOld, At, GoneTo
  <2> QED BY <2>1, <2>2
<1>2. Stops' = Stops /\ pos' = pos /\ IsFiniteSet(triggers')
  <2>1. CASE PlaceTake
    <3>1. PlaceTrigger("take", pass.level, Row.size) \/ UNCHANGED bookVars
      BY <1>0, <2>1, PlaceTakeEffect
    <3>2. CASE PlaceTrigger("take", pass.level, Row.size)
      <4>1. PICK new : new = [oid |-> oids + 1, kind |-> "take", level |-> pass.level, size |-> Row.size]
        OBVIOUS
      <4>2. new.kind = "take" /\ triggers' = triggers \cup {new} /\ pos' = pos
        BY <3>2, <4>1 DEF PlaceTrigger
      <4> QED BY <1>0, <4>2, FS_AddElement DEF Stops
    <3>3. CASE UNCHANGED bookVars
      BY <1>0, <3>3, PosStays DEF Stops
    <3> QED BY <3>1, <3>2, <3>3
  <2>2. CASE CancelTake
    <3>1. /\ CancelOids(Replaced("take", Row.tp_oid)) \/ UNCHANGED bookVars
          /\ pass.row \in DOMAIN rows
      BY <1>0, <2>2, CancelTakeEffect
    <3>2. CASE CancelOids(Replaced("take", Row.tp_oid))
      <4>1. \A t \in Stops : t.oid \notin Replaced("take", Row.tp_oid)
        <5>1. CASE Row.tp_oid # NoOid
          BY <3>1, <5>1 DEF Replaced, Base, LedgerInv, TargetsNoStops, NoStop, Row
        <5>2. CASE Row.tp_oid = NoOid
          BY <5>2 DEF Replaced, Base, LedgerInv, OidsUnique, Stops
        <5> QED BY <5>1, <5>2
      <4>2. triggers' \subseteq triggers /\ Stops' = Stops /\ pos' = pos
        BY <3>2, <4>1 DEF CancelOids, Stops
      <4> QED BY <4>2, NoneToCome DEF Base
    <3>3. CASE UNCHANGED bookVars
      BY <1>0, <3>3, PosStays DEF Stops
    <3> QED BY <3>1, <3>2, <3>3
  <2> QED BY <2>1, <2>2
<1>3. pos' <= pos /\ ~At("idle") /\ pass'.at \notin OnItsWay /\ past \subseteq past'
      /\ pass.at \notin {"open slice"} \cup SliceStages
  <2>1. PICK p \in Int : p = pos
    BY <1>0
  <2>2. p <= p
    OBVIOUS
  <2> QED BY <1>1, <1>2, <2>1, <2>2 DEF At
<1>4. PlanInv'
  BY <1>0, <1>1, <1>3, PlanGoes
<1>5. Settles
  BY <1>1, <1>3, SettlesFrom, Busy DEF Base
<1> QED BY <1>2, <1>3, <1>4, <1>5, SettledNaked

\* What is booked of a row in hand, its size and its stop apart.
LEMMA NakedRebooked ==
    ASSUME Base, BookStop \/ BookTake \/ BookTakeOid \/ BookScale
    PROVE  NakedInv'
<1> USE DEF OnItsWay, Relieved, SliceStages, Stopping, Replacing
<1>0. TypeInv /\ ControlInv /\ PlanInv /\ TypeInv' /\ pos \in Nat
  BY DEF Base, NakedInv, TypeInv, BookTypeOK
<1>1. /\ Others(pass.row) /\ OpenRows' = OpenRows /\ pass.row \in OpenRows
      /\ pass.row \in DOMAIN rows /\ Row \in RowsType /\ UNCHANGED <<bookVars, past>>
      /\ rows'[pass.row].sl_oid = Row.sl_oid
      /\ \/ BookScale /\ rows'[pass.row].size = Row.size - pass.size
         \/ ~BookScale /\ rows'[pass.row].size = Row.size
  <2>1. CASE BookStop
    BY <1>0, <2>1, BookStopEffect DEF RowIs, BookStop, BookScale, Book, At
  <2>2. CASE BookTake
    BY <1>0, <2>2, BookTakeEffect DEF RowIs, BookTake, BookScale, Book, At
  <2>3. CASE BookTakeOid
    BY <1>0, <2>3, BookTakeOidEffect DEF RowIs, BookTakeOid, BookScale, Book, At
  <2>4. CASE BookScale
    BY <1>0, <2>4, BookScaleEffect DEF RowIs
  <2> QED BY <2>1, <2>2, <2>3, <2>4
<1>2. /\ pass.at \in {"book stop", "book take", "book take oid", "book scale"}
      /\ pass'.at \in {"claim", "log", "book take"} /\ InHandKept
      /\ pass'.at = "claim" => pass.at = "book stop" /\ pass.for = "add"
      /\ BookScale => At("book scale")
      /\ ~BookScale => ~At("book scale")
  <2>1. CASE BookStop
    BY <1>0, <2>1, BookStopEffect DEF GoneTo, BookStop, Book, BookScale, At
  <2>2. CASE BookTake
    BY <1>0, <2>2, BookTakeEffect DEF GoneTo, BookTake, Book, BookScale, At
  <2>3. CASE BookTakeOid
    BY <1>0, <2>3, BookTakeOidEffect DEF GoneTo, BookTakeOid, Book, BookScale, At
  <2>4. CASE BookScale
    BY <1>0, <2>4, BookScaleEffect DEF GoneTo, BookScale, Book, At
  <2> QED BY <2>1, <2>2, <2>3, <2>4
<1>3. /\ triggers' = triggers /\ pos' = pos /\ Stops' = Stops /\ pos' <= pos
      /\ IsFiniteSet(triggers') /\ ~At("idle")
  BY <1>0, <1>1, <1>2, NoneToCome, PosStays DEF Stops, Base, At
<1>4. PlanInv'
  BY <1>0, <1>2, <1>3, PlanGoes DEF At
<1>5. ASSUME NEW r \in OpenRows
      PROVE  /\ ~Underway(r) /\ rows'[r].sl_oid = rows[r].sl_oid
             /\ Share(r) <= rows'[r].size /\ Booked(r) <= rows'[r].size
  <2>1. ~Underway(r)
    BY <1>2, UnderwayIs
  <2>2. r \in DOMAIN rows /\ rows[r].size \in Nat /\ Open(r)
    BY <1>0, RowsFacts DEF RowsType, OpenRows
  <2>3. CASE r = pass.row /\ BookScale
    <3>1. Share(r) = rows'[r].size /\ Booked(r) = rows'[r].size
      BY <1>1, <1>2, <2>2, <2>3 DEF Share, Booked, At, Row
    <3>2. Share(r) \in Nat
      BY <1>0, SharesAre DEF Active
    <3> QED BY <1>1, <2>1, <2>3, <3>1, <3>2 DEF Row
  <2>4. CASE ~(r = pass.row /\ BookScale)
    <3>1. rows'[r].size = rows[r].size /\ rows'[r].sl_oid = rows[r].sl_oid
      BY <1>1, <2>2, <2>4 DEF Others, Row
    <3>2. Share(r) <= rows[r].size /\ Booked(r) <= rows[r].size
      BY <1>0, SharesAre, BookedFacts DEF Active
    <3> QED BY <2>1, <3>1, <3>2
  <2> QED BY <2>3, <2>4
<1>6. \A r \in DOMAIN rows \ OpenRows : Booked(r) = 0
  BY <1>0, BookedFacts
<1>7. Bare = 0 /\ Unbooked = 0
  BY <1>2 DEF Bare, Unbooked, At
<1>8. Settles
  BY <1>1, <1>2, <1>3, <1>5, <1>6, <1>7, Busy DEF Settles, Others
<1> QED BY <1>3, <1>4, <1>8, SettledNaked

\* The slice is given up.
LEMMA NakedSliceAbort ==
    ASSUME Base, SliceAbort
    PROVE  NakedInv'
<1> USE DEF OnItsWay, Relieved, SliceStages, Stopping
<1>0. TypeInv /\ ControlInv /\ PlanInv /\ TypeInv' /\ pos \in Nat /\ At("slice abort")
  BY DEF Base, NakedInv, TypeInv, BookTypeOK, SliceAbort
<1>1. /\ Others(Slice) /\ OpenRows' = OpenRows \ {Slice} /\ GoneOn /\ UNCHANGED <<bookVars, past>>
      /\ Slice \in DOMAIN rows
  BY <1>0, SliceAbortEffect
<1>2. pass'.at \in {"manage", "resolve"} /\ InHandKept
  BY <1>1 DEF GoneOn, GoneTo
<1>3. /\ triggers' = triggers /\ pos' = pos /\ Stops' = Stops /\ pos' <= pos
      /\ IsFiniteSet(triggers') /\ ~At("idle")
  BY <1>0, <1>1, NoneToCome, PosStays DEF Stops, Base, At
<1>4. PlanInv'
  BY <1>0, <1>2, <1>3, PlanGoes
<1>5. ASSUME NEW r \in OpenRows'
      PROVE  /\ ~Underway(r) /\ rows'[r].sl_oid = rows[r].sl_oid
             /\ Share(r) <= rows'[r].size /\ Booked(r) <= rows'[r].size
  <2>1. r \in OpenRows /\ r # Slice /\ r \in DOMAIN rows
    BY <1>0, <1>1, RowsFacts
  <2>2. rows'[r] = rows[r] /\ ~Underway(r)
    BY <1>1, <2>1, UnderwayIs DEF Others
  <2>3. Share(r) <= rows[r].size /\ Booked(r) <= rows[r].size
    BY <1>0, <2>1, SharesAre, BookedFacts DEF Active
  <2> QED BY <2>2, <2>3
<1>6. ASSUME NEW r \in DOMAIN rows \ OpenRows' PROVE Booked(r) = 0
  <2>1. CASE r = Slice
    BY <1>0, <2>1 DEF Booked, At
  <2>2. CASE r # Slice
    BY <1>0, <1>1, <2>2, BookedFacts
  <2> QED BY <2>1, <2>2
<1>7. Bare = 0 /\ Unbooked = 0
  BY <1>0 DEF Bare, Unbooked, At
<1>8. Settles
  BY <1>1, <1>2, <1>3, <1>5, <1>6, <1>7, Busy DEF Settles, Others
<1> QED BY <1>3, <1>4, <1>8, SettledNaked
-----------------------------------------------------------------------------
(* Orders. *)

\* What of an order to close is filled.
LEMMA Fills ==
    ASSUME TypeInv, NEW size \in Int, NEW left \in Nat, left <= Smaller(size, pos),
           MarketClose(size, left)
    PROVE  /\ Closed(size, left) \in Nat /\ Closed(size, left) <= size
           /\ pos' = pos - Closed(size, left) /\ pos' <= pos
           /\ left = 0 => pos' = 0 \/ pos' = pos - size
<1>1. pos \in Int
  BY DEF TypeInv, BookTypeOK
<1>2. /\ Smaller(size, pos) \in Int /\ Smaller(size, pos) <= size
      /\ Smaller(size, pos) = size \/ Smaller(size, pos) = pos
  BY <1>1, SmallerOf
<1>3. PICK s : s = Smaller(size, pos)
  OBVIOUS
<1>4. Closed(size, left) = s - left /\ pos' = pos - (s - left)
  BY <1>3 DEF Closed, MarketClose
<1>5. s \in Int /\ left <= s /\ s <= size /\ (s = size \/ s = pos)
  BY <1>2, <1>3
<1>6. /\ s - left \in Nat /\ s - left <= size /\ pos - (s - left) <= pos
      /\ left = 0 => s - left = s
  BY <1>1, <1>5, Filling
<1>7. pos - pos = 0
  BY <1>1, AtMostItself
<1>8. left = 0 => pos' = 0 \/ pos' = pos - size
  BY <1>4, <1>5, <1>6, <1>7
<1> QED BY <1>4, <1>6, <1>8

\* A row in hand for an order is open, and nothing is on its way.
LEMMA InHandOf ==
    ASSUME Base, pass.at \in {"order scale", "order close", "order resolve", "order add"}
    PROVE  /\ TypeInv /\ ControlInv /\ TypeInv' /\ ControlInv' /\ PlanInv /\ OwnInv /\ BookedInv
           /\ CoverInv /\ OidsUnique
           /\ pass \in Passes /\ pass.row \in OpenRows /\ pass.row \in DOMAIN rows /\ Row.size \in Nat
           /\ ~At("idle") /\ ~Pristine /\ pos \in Nat /\ pos' \in Nat /\ Active = OpenRows
           /\ Bare = 0 /\ Unbooked = 0
           /\ \A r \in DOMAIN rows : Share(r) = rows[r].size
           /\ \A r \in OpenRows : Booked(r) = rows[r].size
<1>1. TypeInv /\ ControlInv /\ TypeInv' /\ ControlInv' /\ PlanInv /\ OwnInv /\ BookedInv
      /\ CoverInv /\ OidsUnique /\ ~At("idle")
  BY DEF Base, NakedInv, LedgerInv, At
<1>2. pass \in Passes /\ pass.row \in OpenRows
  BY <1>1, InPass DEF ControlInv, RowOwned, Owning, Ordering, Closing
<1>3. pass.row \in DOMAIN rows /\ Row.size \in Nat
  BY <1>1, <1>2, RowsFacts DEF Row, RowsType
<1>4. pass.at \notin OnItsWay
  BY DEF OnItsWay, Relieved, SliceStages
<1>5. pos \in Nat /\ pos' \in Nat
  BY <1>1 DEF TypeInv, BookTypeOK
<1> QED BY <1>1, <1>2, <1>3, <1>4, <1>5, AtHome, Busy

\* An order that reached nothing.
LEMMA NakedRefused ==
    ASSUME Base, pass.at \in {"order scale", "order close", "order add"}, Go("release"),
           UNCHANGED <<rows, bookVars, past>>
    PROVE  NakedInv'
<1>0. /\ TypeInv /\ TypeInv' /\ PlanInv /\ pass \in Passes /\ ~At("idle") /\ pos \in Nat
      /\ ~Pristine
  BY InHandOf
<1>1. pass'.at = "release" /\ InHandKept
  BY <1>0, Goes DEF Stages, Ordering
<1>2. pos' <= pos
  BY <1>0, PosStays
<1>3. PlanInv'
  BY <1>0, <1>1, <1>2, PlanGoes DEF Stopping
<1> QED BY <1>0, <1>1, <1>3, QuietNaked DEF OnItsWay, Relieved, SliceStages

\* A row is on its way out, with what it was closed for or a part of it.
LEMMA NakedClosing ==
    ASSUME Base, pass.at \in {"order scale", "order close", "order resolve"},
           UNCHANGED <<rows, triggers>>, past \subseteq past',
           InHandKept, pass'.at \in {"book scale", "book close"},
           pos' <= pos, NEW n \in Nat, n <= Row.size,
           pass'.at = "book scale" => n = pass'.size,
           pass'.at = "book close" => n = Row.size,
           Unexcused' => pos' = 0 \/ pos' = pos - n
    PROVE  NakedInv'
<1>0. /\ TypeInv /\ ControlInv /\ TypeInv' /\ ControlInv' /\ PlanInv /\ OwnInv /\ BookedInv
      /\ CoverInv /\ OidsUnique
      /\ pass \in Passes /\ pass.row \in OpenRows /\ pass.row \in DOMAIN rows /\ Row.size \in Nat
      /\ ~At("idle") /\ ~Pristine /\ pos \in Nat /\ pos' \in Nat /\ Active = OpenRows
      /\ Bare = 0 /\ Unbooked = 0
      /\ \A r \in DOMAIN rows : Share(r) = rows[r].size
      /\ \A r \in OpenRows : Booked(r) = rows[r].size
  BY InHandOf
<1>1. /\ OpenRows' = OpenRows /\ Active' = OpenRows /\ pass'.row = pass.row /\ Row' = Row
      /\ Bare' = 0 /\ Unbooked' = 0 /\ pass'.at \notin Leaving /\ Stops' = Stops
  BY OpenAtRest DEF Active, At, InHandKept, Bare, Unbooked, Leaving, Row, Stops
<1>2. /\ Row.size - n \in Nat /\ Row.size - n <= Row.size - n /\ Row.size <= (Row.size - n) + n
      /\ Row.size - Row.size = 0
  BY <1>0, Part, AsInt, AtMostItself
<1>3. PlanInv'
  BY <1>0, PlanGoes DEF Stopping
<1>4. OwnInv'
  BY <1>0, RestingOwn DEF Replacing, SliceStages
<1>5. \A r \in DOMAIN rows : r # pass.row => Share(r)' = rows[r].size
  BY <1>1 DEF Share
<1>6. Share(pass.row)' = Row.size - n
  BY <1>0, <1>1, <1>2 DEF Share, Relieved, At, Row
<1>7. \A r \in OpenRows : r # pass.row => Booked(r)' = rows[r].size
  BY <1>1 DEF Booked, OpenRows, Open, At
<1>8. Booked(pass.row)' = Row.size - n
  BY <1>0, <1>1, <1>2 DEF Booked, OpenRows, Open, At, Row
<1>9. IsFiniteSet(triggers')
  BY <1>0 DEF CoverInv
<1>10. CASE Unexcused' => pos' = pos - n
  <2>1. Looser(Row.sl_oid, Row.size - n)
    <3>1. ASSUME NEW r \in Active'
          PROVE  \/ r \in Active /\ rows'[r].sl_oid = rows[r].sl_oid /\ Share(r) <= Share(r)'
                 \/ rows'[r].sl_oid = Row.sl_oid /\ Row.size - n <= Share(r)'
      <4>1. r \in OpenRows /\ r \in DOMAIN rows /\ rows[r].size \in Nat
        BY <1>0, <1>1, RowsFacts DEF RowsType
      <4>2. CASE r = pass.row
        <5>1. rows'[r].sl_oid = Row.sl_oid
          BY <4>2 DEF Row
        <5>2. Share(r)' = Row.size - n
          BY <1>1, <1>6, <4>2
        <5> QED BY <1>2, <5>1, <5>2
      <4>3. CASE r # pass.row
        <5>1. Share(r)' = rows[r].size /\ Share(r) = rows[r].size
          BY <1>0, <1>5, <4>1, <4>3
        <5>2. rows[r].size <= rows[r].size
          BY <4>1, AsInt
        <5> QED BY <1>0, <4>1, <5>1, <5>2
      <4> QED BY <4>2, <4>3
    <3> QED BY <1>1, <3>1 DEF Looser
  <2>2. ASSUME NEW w, Backs(w), NEW t \in Stops, t.oid = Row.sl_oid
        PROVE  w[t] <= (Row.size - n) + n
    <3>1. w[t] <= Row.size /\ w[t] \in Nat
      BY <1>0, <2>2 DEF Backs, Row
    <3> QED BY <1>0, <3>1, Within
  <2>a. n \in Int /\ pos \in Int
    BY <1>0, AsInt
  <2>3. Unexcused' => pos' + n + Bare <= pos + Bare'
    <3>1. Bare = 0 /\ Bare' = 0 /\ (Unexcused' => pos' = pos - n)
      BY <1>0, <1>1, <1>10
    <3>2. ASSUME pos' = pos - n PROVE pos' + n + Bare <= pos + Bare'
      BY <2>a, <3>1, <3>2, Falls
    <3> QED BY <3>1, <3>2
  <2>4. CoverInv'
    <3>1. PICK m \in Nat : m = Row.size - n
      BY <1>2
    <3>2. Looser(Row.sl_oid, m)
      BY <2>1, <3>1
    <3>3. \A w : Backs(w) => \A t \in Stops : t.oid = Row.sl_oid => w[t] <= m + n
      BY <2>2, <3>1
    <3>4. Bare \in Nat /\ Bare' \in Nat /\ Stops' = Stops
      BY <1>0, <1>1
    <3> QED BY <1>0, <1>9, <2>3, <3>2, <3>3, <3>4, CoverLess
  <2>5. \A q \in DOMAIN rows : q # pass.row => Booked(q) <= Booked(q)'
    <3> SUFFICES ASSUME NEW q \in DOMAIN rows, q # pass.row PROVE Booked(q) <= Booked(q)'
      OBVIOUS
    <3>1. CASE q \in OpenRows
      <4>1. rows[q].size \in Nat
        BY <1>0, RowsFacts DEF RowsType
      <4>2. rows[q].size <= rows[q].size
        BY <4>1, AsInt
      <4> QED BY <1>0, <1>7, <3>1, <4>2
    <3>2. CASE q \notin OpenRows
      <4>1. Booked(q) = 0 /\ Booked(q)' \in Nat
        BY <1>0, <3>2, BookedFacts, BookedNext
      <4> QED BY <4>1, AsInt
    <3> QED BY <3>1, <3>2
  <2>7. Unexcused' => pos' + n + Unbooked <= pos + Unbooked'
    <3>1. Unbooked = 0 /\ Unbooked' = 0 /\ (Unexcused' => pos' = pos - n)
      BY <1>0, <1>1, <1>10
    <3>2. ASSUME pos' = pos - n PROVE pos' + n + Unbooked <= pos + Unbooked'
      BY <2>a, <3>1, <3>2, Falls
    <3> QED BY <3>1, <3>2
  <2>8. BookedInv'
    <3>1. PICK r \in DOMAIN rows : r = pass.row
      BY <1>0
    <3>2. Booked(r)' = Row.size - n /\ Booked(r) = Row.size
      BY <1>0, <1>1, <1>8, <3>1 DEF Row
    <3>3. Booked(r) <= Booked(r)' + n
      BY <1>2, <3>2
    <3>4. \A q \in DOMAIN rows : q # r => Booked(q) <= Booked(q)'
      BY <2>5, <3>1
    <3> QED BY <1>0, <2>7, <3>3, <3>4, BookedLess
  <2> QED BY <1>3, <1>4, <2>4, <2>8 DEF NakedInv
<1>11. CASE pos' = 0
  <2>1. CoverInv' /\ BookedInv'
    BY <1>0, <1>1, <1>9, <1>11, NothingHeld, NothingBooked
  <2> QED BY <1>3, <1>4, <2>1 DEF NakedInv
<1> QED BY <1>10, <1>11

LEMMA Sizing == ASSUME TypeInv, NEW size \in Nat PROVE Smaller(size, pos) \in Int
BY SmallerOf, AsInt DEF TypeInv, BookTypeOK

LEMMA NakedOrderScale ==
    ASSUME Base, OrderScale
    PROVE  NakedInv'
<1>1. At("order scale") /\ UNCHANGED <<rows, past>>
  BY DEF OrderScale, Calls
<1>2. TypeInv /\ ControlInv /\ pass \in Passes /\ pos \in Nat
  BY <1>1, InHandOf DEF At
<1>3. CASE Go("release") /\ UNCHANGED bookVars
  BY <1>1, <1>3, NakedRefused DEF At
<1>4. ASSUME NEW left \in 0..(Smaller(pass.size, pos) - 1), MarketClose(pass.size, left),
             pass' = [pass EXCEPT !.at = "book scale", !.size = Closed(pass.size, left)]
      PROVE  NakedInv'
  <2>1. pass.size \in Nat /\ pass.size <= Row.size /\ Row.size \in Nat
    BY <1>1, InHandOf DEF ControlInv, Purposeful, At
  <2>2. left \in Nat /\ left <= Smaller(pass.size, pos)
    BY <1>2, <2>1, Sizing, LeftOpen
  <2>a. pass.size \in Int
    BY <2>1, AsInt
  <2>3. /\ Closed(pass.size, left) \in Nat /\ Closed(pass.size, left) <= pass.size
        /\ pos' = pos - Closed(pass.size, left) /\ pos' <= pos
    BY <1>2, <1>4, <2>a, <2>2, Fills
  <2>4. triggers' = triggers
    BY <1>4 DEF MarketClose
  <2>5. pass'.at = "book scale" /\ pass'.size = Closed(pass.size, left) /\ InHandKept
    <3>1. "book scale" \in Stages
      BY DEF Stages, Ordering
    <3>2. Closed(pass.size, left) \in Int
      BY <2>3, AsInt
    <3>3. Sized("book scale", Closed(pass.size, left))
      BY <1>2, <1>4, <3>1, <3>2, Sizes
    <3> QED BY <3>3 DEF Sized
  <2>6. Closed(pass.size, left) <= Row.size
    <3>1. \A a, b, c \in Nat : a <= b /\ b <= c => a <= c
      OBVIOUS
    <3> QED BY <2>1, <2>3, <3>1
  <2> QED BY <1>1, <2>3, <2>4, <2>5, <2>6, NakedClosing DEF At
<1> QED BY <1>3, <1>4 DEF OrderScale

LEMMA NakedOrderClose ==
    ASSUME Base, OrderClose
    PROVE  NakedInv'
<1>1. At("order close") /\ rows' = rows
  BY DEF OrderClose, Calls
<1>2. TypeInv /\ ControlInv /\ pass \in Passes /\ pos \in Nat /\ PlanInv /\ Row.size \in Nat
  BY <1>1, InHandOf DEF At
<1>3. pass.size = Row.size
  BY <1>1, <1>2 DEF ControlInv, Purposeful, PlanInv, CloseWhole, At
<1>4. CASE Go("release") /\ UNCHANGED <<bookVars, past>>
  BY <1>1, <1>4, NakedRefused DEF At
<1>5. ASSUME NEW left \in 0..(Smaller(pass.size, pos) - 1), MarketClose(pass.size, left),
             past' = IF left > 0 THEN past \cup {"short close"} ELSE past,
             Go("book close")
      PROVE  NakedInv'
  <2>1. left \in Nat /\ left <= Smaller(pass.size, pos) /\ pass.size \in Int
    BY <1>2, <1>3, Sizing, LeftOpen, AsInt
  <2>2. pos' <= pos /\ (left = 0 => pos' = 0 \/ pos' = pos - Row.size)
    BY <1>2, <1>3, <1>5, <2>1, Fills
  <2>3. triggers' = triggers /\ past \subseteq past'
    BY <1>5 DEF MarketClose
  <2>4. pass'.at = "book close" /\ InHandKept
    BY <1>2, <1>5, Goes DEF Stages, Closing
  <2>5. Unexcused' => left = 0
    BY <1>5, <2>1, OneOrNone DEF Unexcused
  <2>6. Row.size \in Nat /\ Row.size <= Row.size
    BY <1>2, AsInt
  <2> QED BY <1>1, <1>2, <2>2, <2>3, <2>4, <2>5, <2>6, NakedClosing DEF At
<1> QED BY <1>4, <1>5 DEF OrderClose

LEMMA NakedOrderResolve ==
    ASSUME Base, OrderResolve
    PROVE  NakedInv'
<1>1. At("order resolve") /\ rows' = rows /\ Go("book close") /\ ClosesUnseen
  BY DEF OrderResolve, Calls
<1>2. TypeInv /\ ControlInv /\ pass \in Passes /\ pos \in Nat /\ PlanInv /\ Row.size \in Nat
  BY <1>1, InHandOf DEF At
<1>3. pass.size = Row.size
  BY <1>1, <1>2 DEF PlanInv, CloseWhole, At
<1>4. PICK left \in 0..Smaller(pass.size, pos) :
        /\ MarketClose(pass.size, left)
        /\ past' = IF left = 0 THEN past ELSE past \cup {"short close"}
  BY <1>1 DEF ClosesUnseen
<1>5. left \in Nat /\ left <= Smaller(pass.size, pos) /\ pass.size \in Int
  BY <1>2, <1>3, Sizing, LeftUnseen, AsInt
<1>6. pos' <= pos /\ (left = 0 => pos' = 0 \/ pos' = pos - Row.size)
  BY <1>2, <1>3, <1>4, <1>5, Fills
<1>7. triggers' = triggers /\ past \subseteq past'
  BY <1>4 DEF MarketClose
<1>8. pass'.at = "book close" /\ InHandKept
  BY <1>1, <1>2, Goes DEF Stages, Closing
<1>9. Unexcused' => left = 0
  BY <1>4 DEF Unexcused
<1>10. Row.size \in Nat /\ Row.size <= Row.size
  BY <1>2, AsInt
<1> QED BY <1>1, <1>2, <1>6, <1>7, <1>8, <1>9, <1>10, NakedClosing DEF At

LEMMA NakedOrderAdd ==
    ASSUME Base, OrderAdd
    PROVE  NakedInv'
<1>0. /\ TypeInv /\ ControlInv /\ TypeInv' /\ ControlInv' /\ PlanInv /\ OwnInv /\ BookedInv
      /\ CoverInv /\ OidsUnique
      /\ pass \in Passes /\ pass.row \in OpenRows /\ pass.row \in DOMAIN rows /\ Row.size \in Nat
      /\ ~At("idle") /\ ~Pristine /\ pos \in Nat /\ pos' \in Nat /\ Active = OpenRows
      /\ Bare = 0 /\ Unbooked = 0
      /\ \A r \in DOMAIN rows : Share(r) = rows[r].size
      /\ \A r \in OpenRows : Booked(r) = rows[r].size
  BY InHandOf DEF OrderAdd, At
<1>1. At("order add") /\ UNCHANGED <<rows, past>>
  BY DEF OrderAdd
<1>2. CASE Go("release") /\ UNCHANGED bookVars
  BY <1>1, <1>2, NakedRefused DEF At
<1>3. ASSUME NEW left \in 0..(pass.size - 1), MarketOpen(pass.size - left),
             pass' = [pass EXCEPT !.at = "open slice", !.size = @ - left]
      PROVE  NakedInv'
  <2>1. pass.size \in Nat
    BY <1>0, <1>1 DEF ControlInv, Purposeful, Ordering, At
  <2>2. pass.size - left \in Nat /\ pass.size - left \in Int
    BY <2>1, AsInt, LeftOpen
  <2>3. pass'.at = "open slice" /\ pass'.size = pass.size - left /\ InHandKept
    BY <1>0, <1>3, <2>2, Sizes DEF Sized, Stages
  <2>4. pos' = pos + (pass.size - left) /\ triggers' = triggers /\ Stops' = Stops
    BY <1>3 DEF MarketOpen, Stops
  <2>5. Bare' = pass.size - left /\ Unbooked' = pass.size - left
    BY <2>3 DEF Bare, Unbooked, At
  <2>6. OpenRows' = OpenRows /\ Active' = OpenRows /\ pass'.at \notin Leaving
    BY <1>1, <2>3, OpenAtRest DEF Active, At, Leaving
  <2>7. \A r \in DOMAIN rows : Share(r)' = rows[r].size
    BY <1>1, <2>3 DEF Share, Relieved, At
  <2>8. \A r \in OpenRows : Booked(r)' = rows[r].size
    BY <1>1, <2>3 DEF Booked, OpenRows, Open, At
  <2>9. PlanInv'
    BY <1>0, <1>1, <2>3, PlanGoes DEF Stopping
  <2>10. OwnInv'
    BY <1>0, <1>1, <2>3, RestingOwn DEF Replacing, SliceStages, At
  <2>11. Looser(NoOid, 0)
    <3>1. \A r \in OpenRows : rows[r].size \in Nat /\ r \in DOMAIN rows
      BY <1>0, RowsFacts DEF RowsType
    <3>2. \A r \in OpenRows : rows[r].size <= rows[r].size
      BY <3>1, AsInt
    <3> QED BY <1>0, <1>1, <2>6, <2>7, <3>1, <3>2 DEF Looser
  <2>12. pos' + Bare <= pos + Bare' /\ pos' + Unbooked <= pos + Unbooked' /\ Bare' \in Nat
    <3>1. pos \in Int
      BY <1>0, AsInt
    <3>2. (pos + (pass.size - left)) + 0 <= pos + (pass.size - left)
      BY <2>2, <3>1, Rises
    <3> QED BY <1>0, <2>2, <2>4, <2>5, <3>2
  <2>13. CoverInv'
    BY <1>0, <1>1, <2>4, <2>11, <2>12, CoverKept DEF CoverInv
  <2>14. \A q \in DOMAIN rows : Booked(q) <= Booked(q)'
    <3> SUFFICES ASSUME NEW q \in DOMAIN rows PROVE Booked(q) <= Booked(q)'
      OBVIOUS
    <3>1. CASE q \in OpenRows
      <4>1. rows[q].size \in Nat
        BY <1>0, RowsFacts DEF RowsType
      <4>2. rows[q].size <= rows[q].size
        BY <4>1, AsInt
      <4> QED BY <1>0, <2>8, <3>1, <4>2
    <3>2. CASE q \notin OpenRows
      <4>1. Booked(q) = 0 /\ Booked(q)' \in Nat
        BY <1>0, <1>1, <3>2, BookedFacts, BookedNext
      <4> QED BY <4>1, AsInt
    <3> QED BY <3>1, <3>2
  <2>15. BookedInv'
    BY <1>0, <1>1, <2>12, <2>14, BookedKept
  <2> QED BY <2>9, <2>10, <2>13, <2>15 DEF NakedInv
<1> QED BY <1>2, <1>3 DEF OrderAdd
-----------------------------------------------------------------------------
(* Stops placed, cancelled and put on record. *)

\* Steps in which a row books what it did.
Unplain == {"book close", "book scale", "slice cancel", "slice abort", "open slice"}

LEMMA Plainly ==
    pass.at \notin Unplain =>
        Unbooked = 0 /\ \A r \in DOMAIN rows : Booked(r) = IF r \in OpenRows THEN rows[r].size ELSE 0
BY DEF Unplain, Unbooked, Booked, OpenRows, At

LEMMA PlainlyAfter ==
    (pass.at \notin Unplain)' =>
        (Unbooked = 0
         /\ \A r \in DOMAIN rows : Booked(r) = IF r \in OpenRows THEN rows[r].size ELSE 0)'
BY Plainly, PTL

LEMMA BookedSame ==
    ASSUME Base, ~Pristine, DOMAIN rows' = DOMAIN rows, past \subseteq past', pos' = pos,
           Unbooked' = Unbooked, \A q \in DOMAIN rows : Booked(q)' = Booked(q)
    PROVE  BookedInv'
<1>1. TypeInv /\ ControlInv /\ TypeInv' /\ ControlInv' /\ BookedInv
  BY DEF Base, NakedInv
<1>2. \A q \in DOMAIN rows : Booked(q) \in Nat
  BY <1>1, BookedFacts
<1>3. \A q \in DOMAIN rows : Booked(q) <= Booked(q)'
  BY <1>2, AsInt
<1>4. pos \in Int /\ Unbooked \in Int
  BY <1>1, BookedFacts, AsInt DEF TypeInv, BookTypeOK
<1>5. pos + Unbooked <= pos + Unbooked
  <2>1. \A a, b \in Int : a + b <= a + b
    OBVIOUS
  <2> QED BY <1>4, <2>1
<1>6. pos' + Unbooked <= pos + Unbooked'
  BY <1>5
<1> QED BY <1>1, <1>3, <1>6, BookedKept

LEMMA BookedPlain ==
    ASSUME Base, ~At("idle"), pass.at \notin Unplain, pass'.at \notin Unplain,
           DOMAIN rows' = DOMAIN rows, OpenRows' = OpenRows, past \subseteq past', pos' = pos,
           \A r \in DOMAIN rows : rows'[r].size = rows[r].size
    PROVE  BookedInv'
<1>1. Unbooked = 0 /\ \A r \in DOMAIN rows : Booked(r) = IF r \in OpenRows THEN rows[r].size ELSE 0
  BY Plainly
<1>2. /\ Unbooked' = 0
      /\ \A r \in DOMAIN rows' : Booked(r)' = IF r \in OpenRows' THEN rows'[r].size ELSE 0
  BY PlainlyAfter DEF Unplain
<1>3. \A r \in DOMAIN rows : Booked(r)' = Booked(r)
  BY <1>1, <1>2
<1> QED BY <1>1, <1>2, <1>3, Busy, BookedSame

\* Where no row is on its way out, shares are sizes.
LEMMA Whole ==
    pass.at \notin Relieved \cup {"book scale"} =>
        Active = OpenRows /\ \A r \in DOMAIN rows : Share(r) = rows[r].size
BY DEF Active, Share, Relieved, At

LEMMA WholeAfter ==
    (pass.at \notin Relieved \cup {"book scale"})' =>
        (Active = OpenRows /\ \A r \in DOMAIN rows : Share(r) = rows[r].size)'
BY Whole, PTL

LEMMA WholeNext ==
    ASSUME pass'.at \notin Relieved \cup {"book scale"}
    PROVE  Active' = OpenRows' /\ \A r \in DOMAIN rows' : Share(r)' = rows'[r].size
BY WholeAfter DEF Relieved

\* A step to which the rows in hand are the same.
LEMMA SharesSame ==
    ASSUME Base, rows' = rows, pass.at \notin Relieved \cup {"book scale"},
           pass'.at \notin Relieved \cup {"book scale"}
    PROVE  /\ Active' = Active /\ Active = OpenRows /\ OpenRows' = OpenRows /\ Slice' = Slice
           /\ \A r \in Active' : /\ r \in Active /\ rows'[r].sl_oid = rows[r].sl_oid
                                 /\ Share(r) <= Share(r)'
<1>1. OpenRows' = OpenRows /\ Slice' = Slice /\ OpenRows \subseteq DOMAIN rows
  BY OpenAtRest DEF OpenRows
<1>2. Active = OpenRows /\ \A r \in DOMAIN rows : Share(r) = rows[r].size
  BY Whole
<1>3. Active' = OpenRows' /\ \A r \in DOMAIN rows' : Share(r)' = rows'[r].size
  BY WholeNext
<1>4. \A r \in OpenRows : Share(r) \in Nat
  BY <1>2, SharesAre DEF Base
<1>5. \A r \in OpenRows : Share(r) <= Share(r)'
  BY <1>1, <1>2, <1>3, <1>4, AsInt
<1> QED BY <1>1, <1>2, <1>3, <1>5

\* The stop a row or a slice has in hand stays what it is.
LEMMA OwnHeld ==
    ASSUME OwnInv, rows' = rows, past \subseteq past', Stops' \subseteq Stops, Active' = Active,
           pass'.row = pass.row, pass'.oid = pass.oid, pass'.size = pass.size,
           pass'.at \in Replacing => pass.at \in Replacing,
           pass'.at \in SliceHeld => pass.at \in SliceHeld,
           pass'.at \in {"slice take", "slice oids"} => pass.at \in {"slice take", "slice oids"},
           pass.at \in SliceStages => pass'.at \in SliceStages
    PROVE  OwnInv'
<1>1. OpenRows' = OpenRows /\ Slice' = Slice /\ Row' = Row /\ (Unexcused' => Unexcused)
  BY OpenAtRest DEF Row, Unexcused
<1>2. \A r : Underway(r) => Underway(r)'
  BY <1>1, UnderwayIs
<1>3. OwnOids' /\ FreshOid'
  BY <1>1 DEF OwnInv, OwnOids, FreshOid
<1>4. OidRecorded'
  BY <1>1, <1>2 DEF OwnInv, OidRecorded
<1>5. PlacedSize'
  BY <1>1 DEF OwnInv, PlacedSize
<1> QED BY <1>3, <1>4, <1>5 DEF OwnInv

LEMMA NewOid == \A o, a \in Nat : a <= o => a # o + 1
OBVIOUS

\* A stop is placed for what is in hand.
LEMMA OwnPlaced ==
    ASSUME Base, rows' = rows, past' = past, Active' = Active, Active \subseteq DOMAIN rows,
           NEW level, NEW size, PlaceTrigger("stop", level, size), pass'.oid = oids + 1,
           pass'.at \in Replacing => pass'.row = pass.row /\ size = Row.size,
           pass'.at \in SliceHeld => pass'.size = size,
           pass.at \in SliceStages => pass'.at \in SliceStages
    PROVE  /\ OwnInv' /\ \A t \in Stops : t.oid # oids + 1
           /\ \A r \in Active' : rows'[r].sl_oid # oids + 1
<1>1. oids \in Nat /\ OwnInv /\ OidsGiven /\ TypeInv
  BY DEF Base, NakedInv, LedgerInv, TypeInv, BookTypeOK
<1>2. OpenRows' = OpenRows /\ Slice' = Slice /\ Unexcused' = Unexcused
  BY OpenAtRest DEF Unexcused
<1>3. \A t \in triggers : t.oid \in Nat
  BY <1>1 DEF TypeInv, BookTypeOK, Triggers
<1>4. \A t \in triggers : t.oid # oids + 1
  BY <1>1, <1>3, NewOid DEF OidsGiven
<1>5. \A r \in DOMAIN rows : rows[r].sl_oid \in Nat
  BY <1>1, RowsFacts DEF RowsType
<1>6. \A r \in DOMAIN rows : rows[r].sl_oid # oids + 1
  BY <1>1, <1>5, NewOid DEF OidsGiven
<1>7. PICK new : new = [oid |-> oids + 1, kind |-> "stop", level |-> level, size |-> size]
  OBVIOUS
<1>8. new.size = size /\ triggers' = triggers \cup {new}
  BY <1>7 DEF PlaceTrigger
<1>9. \A t \in Stops' : t.oid = pass'.oid => t.size = size
  BY <1>4, <1>8 DEF Stops
<1>10. PlacedSize'
  <2>1. pass'.at \in Replacing => Row' = Row
    BY DEF Row
  <2> QED BY <1>9, <2>1 DEF PlacedSize
<1>11. OwnOids' /\ FreshOid'
  BY <1>1, <1>6 DEF OwnInv, OwnOids, FreshOid
<1>12. OidRecorded'
  <2>1. \A r : Underway(r) => Underway(r)'
    BY <1>2, UnderwayIs
  <2>2. oids + 1 # NoOid
    <3>1. \A a \in Nat : a + 1 # 0
      OBVIOUS
    <3> QED BY <1>1, <3>1 DEF NoOid
  <2> QED BY <1>1, <1>2, <2>1, <2>2 DEF OwnInv, OidRecorded
<1> QED BY <1>4, <1>6, <1>10, <1>11, <1>12 DEF OwnInv, Stops

LEMMA NakedPlaceStop ==
    ASSUME Base, PlaceStop
    PROVE  NakedInv'
<1> USE DEF Relieved, SliceStages, Stopping, Leaving
<1>0. /\ TypeInv /\ ControlInv /\ TypeInv' /\ ControlInv' /\ PlanInv /\ CoverInv /\ OidsUnique
      /\ At("place stop") /\ ~At("idle") /\ pos \in Int
  BY AsInt DEF Base, NakedInv, LedgerInv, PlaceStop, PlaceNew, At, TypeInv, BookTypeOK
<1>1. /\ pass \in Passes /\ pass.row \in OpenRows /\ pass.row \in DOMAIN rows /\ Row \in RowsType
      /\ rows' = rows /\ past' = past
  BY <1>0, PlaceStopEffect
<1>2. CASE UNCHANGED bookVars /\ GoneOn
  <2>1. pass'.at \in {"manage", "resolve"} /\ InHandKept /\ pos' <= pos
    BY <1>0, <1>2, PosStays DEF GoneOn, GoneTo
  <2>2. PlanInv'
    BY <1>0, <2>1, PlanGoes
  <2> QED BY <1>0, <1>1, <1>2, <2>1, <2>2, Busy, QuietNaked DEF OnItsWay, At
<1>3. CASE /\ PlaceTrigger("stop", pass.level, Row.size)
           /\ Noted("cancel stop") /\ pass'.oid = oids + 1
  <2>1. pass'.at = "cancel stop" /\ pass'.row = pass.row /\ InHandKept /\ pos' = pos /\ pos' <= pos
    BY <1>0, <1>3, AtMostItself DEF Noted, InHandKept, PlaceTrigger
  <2>2. PlanInv'
    BY <1>0, <2>1, PlanGoes DEF At
  <2>3. OpenRows' = OpenRows /\ Active = OpenRows /\ Active' = OpenRows /\ OpenRows \subseteq DOMAIN rows
        /\ Bare = 0 /\ Bare' = 0
    BY <1>0, <1>1, <2>1, OpenAtRest DEF OpenRows, Active, Bare, At
  <2>4. /\ \A r \in DOMAIN rows : Share(r) = rows[r].size
        /\ \A r \in DOMAIN rows : Share(r)' = IF r = pass.row THEN 0 ELSE rows[r].size
    BY <1>0, <1>1, <2>1 DEF Share, At
  <2>5. /\ OwnInv' /\ \A t \in Stops : t.oid # oids + 1
        /\ \A r \in Active' : rows'[r].sl_oid # oids + 1
    BY <1>0, <1>1, <1>3, <2>1, <2>3, OwnPlaced DEF At, SliceHeld
  <2>6. BookedInv'
    BY <1>0, <1>1, <2>1, <2>3, BookedPlain DEF Unplain, At
  <2>7. CoverInv'
    <3>1. PICK size \in Nat : size = Row.size
      BY <1>1 DEF RowsType
    <3>2. \A r \in DOMAIN rows : rows[r].size \in Nat /\ rows[r].size <= rows[r].size
      BY <1>0, RowsFacts, AsInt DEF RowsType
    <3>3. Looser(Row.sl_oid, 0)
      <4>1. ASSUME NEW r \in Active'
            PROVE  \/ r \in Active /\ rows'[r].sl_oid = rows[r].sl_oid /\ Share(r) <= Share(r)'
                   \/ rows'[r].sl_oid = Row.sl_oid /\ 0 <= Share(r)'
        <5>1. CASE r = pass.row
          <6>1. Share(r)' = 0 /\ rows'[r].sl_oid = Row.sl_oid
            BY <1>1, <2>4, <5>1 DEF Row
          <6> QED BY <6>1
        <5>2. CASE r # pass.row
          BY <1>1, <2>3, <2>4, <3>2, <5>2
        <5> QED BY <5>1, <5>2
      <4> QED BY <2>1, <4>1 DEF Looser
    <3>4. ASSUME NEW w, Backs(w), NEW t \in Stops, t.oid = Row.sl_oid
          PROVE  w[t] <= 0 + size
      <4>1. w[t] <= Row.size /\ w[t] \in Nat
        BY <1>1, <2>3, <2>4, <3>4 DEF Backs, Row
      <4>2. \A a, b \in Nat : a <= b => a <= 0 + b
        OBVIOUS
      <4> QED BY <3>1, <4>1, <4>2
    <3>5. pos' + size + Bare <= pos + size + Bare'
      <4>1. \A a, b \in Int : \A c, d : c = d => a + b + c <= a + b + 0 \/ c # 0
        OBVIOUS
      <4> QED BY <1>0, <2>1, <2>3, <3>1, <4>1, AsInt
    <3>6. Bare \in Nat /\ Bare' \in Nat /\ pass'.at \notin Leaving
      BY <2>1, <2>3
    <3>7. PlaceTrigger("stop", pass.level, size)
      BY <1>3, <3>1
    <3> QED BY <1>0, <1>1, <2>5, <3>3, <3>4, <3>5, <3>6, <3>7, CoverMore
  <2> QED BY <2>2, <2>5, <2>6, <2>7 DEF NakedInv
<1> QED BY <1>0, <1>2, <1>3, PlaceStopEffect
\* A position that stays, with a bare part that stays.
LEMMA BareSame ==
    ASSUME pos \in Int, Bare \in Int, pos' = pos, Bare' = Bare
    PROVE  pos' + Bare <= pos + Bare' /\ pos' + 0 + Bare <= pos + Bare'
<1>1. \A a, b \in Int : a + b <= a + b /\ a + 0 + b <= a + b
  OBVIOUS
<1> QED BY <1>1

\* What the stop recorded for a row backs, while another rests in its place: nothing.
LEMMA NakedCancelStop ==
    ASSUME Base, CancelStop
    PROVE  NakedInv'
<1> USE DEF Relieved, SliceStages, Stopping, Leaving
<1>0. /\ TypeInv /\ ControlInv /\ TypeInv' /\ ControlInv' /\ PlanInv /\ CoverInv /\ OidsUnique
      /\ OwnInv /\ At("cancel stop") /\ ~At("idle") /\ pos \in Int
  BY AsInt DEF Base, NakedInv, LedgerInv, CancelStop, CancelOld, At, TypeInv, BookTypeOK
<1>1. /\ pass \in Passes /\ pass.row \in OpenRows /\ pass.row \in DOMAIN rows /\ Row \in RowsType
      /\ rows' = rows /\ past' = past /\ GoneTo("book stop oid")
  BY <1>0, CancelStopEffect
<1>2. /\ pos' = pos /\ pos' <= pos /\ triggers' \subseteq triggers /\ Stops' \subseteq Stops
      /\ IsFiniteSet(triggers')
  <2>1. pos' = pos /\ triggers' \subseteq triggers
    BY <1>0, CancelStopEffect DEF CancelOids, bookVars
  <2> QED BY <1>0, <2>1, AtMostItself, NoneToCome DEF Stops, Base
<1>3. /\ pass'.at = "book stop oid" /\ pass'.row = pass.row /\ InHandKept
      /\ pass'.oid = pass.oid /\ pass'.size = pass.size
  BY <1>1 DEF GoneTo, InHandKept, OidsKept
<1>4. PlanInv'
  BY <1>0, <1>2, <1>3, PlanGoes DEF At
<1>5. OpenRows' = OpenRows /\ Active = OpenRows /\ Active' = OpenRows /\ OpenRows \subseteq DOMAIN rows
      /\ Bare = 0 /\ Bare' = 0
  BY <1>0, <1>1, <1>3, OpenAtRest DEF OpenRows, Active, Bare, At
<1>6. OwnInv'
  BY <1>0, <1>1, <1>2, <1>3, <1>5, OwnHeld DEF At, Replacing, SliceHeld
<1>7. BookedInv'
  BY <1>0, <1>1, <1>2, <1>3, <1>5, BookedPlain DEF Unplain, At
<1>8. Looser(NoOid, 0)
  <2>1. \A r \in DOMAIN rows : Share(r)' = Share(r)
    BY <1>0, <1>1, <1>3 DEF Share, At
  <2>2. \A r \in OpenRows : Share(r) \in Nat
    BY <1>0, <1>5, SharesAre
  <2>3. \A r \in OpenRows : Share(r) <= Share(r)'
    BY <1>5, <2>1, <2>2, AsInt
  <2> QED BY <1>1, <1>3, <1>5, <2>3 DEF Looser
<1>9. /\ Bare \in Nat /\ Bare' \in Nat /\ pos' + Bare <= pos + Bare'
      /\ pos' + 0 + Bare <= pos + Bare'
  <2>1. Bare \in Int /\ Bare \in Nat /\ Bare' \in Nat /\ Bare' = Bare
    BY <1>5
  <2> QED BY <1>0, <1>2, <2>1, BareSame
<1>10. CoverInv'
  <2>1. CASE UNCHANGED bookVars
    <3>1. Stops' = Stops
      BY <2>1 DEF bookVars, Stops
    <3> QED BY <1>0, <1>1, <1>2, <1>8, <1>9, <3>1, CoverKept
  <2>2. CASE CancelOids(Replaced("stop", Row.sl_oid))
    <3>1. PICK oid : oid = Row.sl_oid
      OBVIOUS
    <3>2. ASSUME Unexcused' PROVE Stops' = {t \in Stops : t.oid # oid}
      <4>1. oid # NoOid
        <5>1. ~Underway(pass.row) /\ Unexcused
          BY <1>0, <1>1, <3>2, UnderwayIs DEF At, Unexcused
        <5> QED BY <1>0, <1>1, <3>1, <5>1 DEF OwnInv, OidRecorded, Row
      <4>2. Replaced("stop", Row.sl_oid) = {oid}
        BY <3>1, <4>1 DEF Replaced
      <4> QED BY <2>2, <4>2 DEF CancelOids, Stops
    <3>3. \A w : Backs(w) => \A t \in Stops : t.oid = oid => w[t] <= 0
      <4>1. Share(pass.row) = 0
        BY <1>0 DEF Share, At
      <4> QED BY <1>1, <1>5, <3>1, <4>1 DEF Backs, Row
    <3> QED BY <1>0, <1>1, <1>2, <1>8, <1>9, <3>2, <3>3, CoverGone
  <2> QED BY <1>0, <2>1, <2>2, CancelStopEffect
<1> QED BY <1>4, <1>6, <1>7, <1>10 DEF NakedInv

\* The stop that was placed becomes that of its row.
LEMMA NakedBookStopOid ==
    ASSUME Base, BookStopOid
    PROVE  NakedInv'
<1> USE DEF Relieved, SliceStages, Stopping, Leaving
<1>0. /\ TypeInv /\ ControlInv /\ TypeInv' /\ ControlInv' /\ PlanInv /\ CoverInv /\ OidsUnique
      /\ OwnInv /\ At("book stop oid") /\ ~At("idle") /\ pos \in Int
  BY AsInt DEF Base, NakedInv, LedgerInv, BookStopOid, Book, At, TypeInv, BookTypeOK
<1>1. /\ pass \in Passes /\ pass.row \in OpenRows /\ pass.row \in DOMAIN rows /\ Row \in RowsType
      /\ Others(pass.row) /\ OpenRows' = OpenRows /\ past' = past /\ GoneTo("book stop")
      /\ rows'[pass.row].sl_oid = pass.oid /\ rows'[pass.row].size = Row.size
      /\ UNCHANGED bookVars
  BY <1>0, BookStopOidEffect DEF RowIs
<1>2. /\ pos' = pos /\ pos' <= pos /\ triggers' = triggers /\ Stops' = Stops
      /\ IsFiniteSet(triggers')
  <2>1. pos' = pos /\ pos' <= pos /\ triggers' = triggers
    BY <1>0, <1>1, PosStays
  <2> QED BY <1>0, <2>1, NoneToCome DEF Stops, Base
<1>3. pass'.at = "book stop" /\ pass'.row = pass.row /\ InHandKept
  BY <1>1 DEF GoneTo, InHandKept
<1>4. PlanInv'
  BY <1>0, <1>2, <1>3, PlanGoes DEF At
<1>5. /\ Active = OpenRows /\ Active' = OpenRows /\ OpenRows \subseteq DOMAIN rows
      /\ Bare = 0 /\ Bare' = 0
  BY <1>0, <1>1, <1>3, OpenAtRest DEF OpenRows, Active, Bare, At
<1>a. \A r \in DOMAIN rows : rows'[r].size = rows[r].size
                            /\ (r # pass.row => rows'[r].sl_oid = rows[r].sl_oid)
  BY <1>1 DEF Others, Row
<1>b. DOMAIN rows' = DOMAIN rows
  BY <1>1 DEF Others
<1>6. OwnInv'
  <2>1. PlacedSize' /\ FreshOid'
    BY <1>3 DEF PlacedSize, FreshOid, Replacing, SliceHeld
  <2>2. OwnOids'
    <3>1. pass.oid # NoOid => \A q \in Active : rows[q].sl_oid # pass.oid
      BY <1>0 DEF OwnInv, FreshOid, Replacing, At
    <3>2. ASSUME NEW r \in OpenRows, NEW q \in OpenRows, r # q, rows'[r].sl_oid = rows'[q].sl_oid
          PROVE  rows'[r].sl_oid = NoOid
      <4>1. CASE r = pass.row
        BY <1>1, <1>5, <1>a, <3>1, <3>2, <4>1
      <4>2. CASE q = pass.row
        BY <1>1, <1>5, <1>a, <3>1, <3>2, <4>2
      <4>3. CASE r # pass.row /\ q # pass.row
        BY <1>0, <1>5, <1>a, <3>2, <4>3 DEF OwnInv, OwnOids
      <4> QED BY <4>1, <4>2, <4>3
    <3> QED BY <1>5, <3>2 DEF OwnOids
  <2>3. OidRecorded'
    <3>1. pass.oid # NoOid
      BY <1>0 DEF OwnInv, OidRecorded, Replacing, At
    <3>2. ASSUME Unexcused', NEW r \in OpenRows PROVE rows'[r].sl_oid # NoOid
      <4>1. CASE r = pass.row
        BY <1>1, <3>1, <4>1
      <4>2. CASE r # pass.row
        <5>1. ~Underway(r) /\ Unexcused
          BY <1>0, <1>1, <3>2, UnderwayIs DEF At, Unexcused
        <5> QED BY <1>0, <1>5, <1>a, <4>2, <5>1 DEF OwnInv, OidRecorded
      <4> QED BY <4>1, <4>2
    <3> QED BY <1>1, <1>3, <3>2 DEF OidRecorded, Replacing
  <2> QED BY <2>1, <2>2, <2>3 DEF OwnInv
<1>7. BookedInv'
  BY <1>0, <1>1, <1>2, <1>3, <1>a, <1>b, BookedPlain DEF Unplain, At
<1>8. Looser(NoOid, 0)
  <2>1. \A r \in DOMAIN rows : r # pass.row => Share(r) = rows[r].size
    BY <1>0 DEF Share, At
  <2>2. \A r \in DOMAIN rows : Share(r)' = rows[r].size
    BY <1>3, <1>a, <1>b, WholeNext
  <2>3. \A r \in DOMAIN rows : rows[r].size \in Nat /\ rows[r].size <= rows[r].size
    BY <1>0, RowsFacts, AsInt DEF RowsType
  <2>4. \A t \in Stops : t.oid = pass.oid => t.size = Row.size
    BY <1>0 DEF OwnInv, PlacedSize, Replacing, At
  <2>5. ASSUME NEW r \in Active'
        PROVE  \/ r \in Active /\ rows'[r].sl_oid = rows[r].sl_oid /\ Share(r) <= Share(r)'
               \/ \A t \in Stops : t.oid = rows'[r].sl_oid => t.size <= Share(r)'
    <3>1. CASE r = pass.row
      <4>1. rows'[r].sl_oid = pass.oid /\ Share(r)' = Row.size /\ Row.size <= Row.size
        BY <1>1, <2>2, <2>3, <3>1 DEF Row
      <4> QED BY <2>4, <4>1
    <3>2. CASE r # pass.row
      BY <1>5, <1>a, <2>1, <2>2, <2>3, <3>2
    <3> QED BY <3>1, <3>2
  <2> QED BY <1>3, <2>5 DEF Looser
<1>9. Bare \in Nat /\ Bare' \in Nat /\ pos' + Bare <= pos + Bare'
  <2>1. Bare \in Int /\ Bare \in Nat /\ Bare' \in Nat /\ Bare' = Bare
    BY <1>5
  <2> QED BY <1>0, <1>2, <2>1, BareSame
<1>10. CoverInv'
  BY <1>0, <1>1, <1>2, <1>8, <1>9, CoverKept
<1> QED BY <1>4, <1>6, <1>7, <1>10 DEF NakedInv
-----------------------------------------------------------------------------
(* The slice of an add. *)

LEMMA InSlice ==
    ASSUME Base, pass.at \in SliceStages
    PROVE  /\ TypeInv /\ ControlInv /\ TypeInv' /\ ControlInv' /\ PlanInv /\ OwnInv /\ BookedInv
           /\ CoverInv /\ OidsUnique
           /\ ~At("idle") /\ ~Pristine /\ pos \in Nat /\ pos \in Int /\ pass \in Passes
           /\ Slice \in OpenRows /\ OpenRows \subseteq DOMAIN rows /\ Active = OpenRows
           /\ rows[Slice].size = pass.size /\ pass.size \in Nat /\ pass.size \in Int
           /\ Slice # pass.row
           /\ Bare = (IF pass.at \in {"slice stop", "slice close"} THEN pass.size ELSE 0)
           /\ Unbooked = 0 /\ \A t \in Stops : t.oid # NoOid
<1>1. TypeInv /\ ControlInv /\ TypeInv' /\ ControlInv' /\ PlanInv /\ OwnInv /\ BookedInv
      /\ CoverInv /\ OidsUnique /\ SlicePlaced /\ ~At("idle")
  BY DEF Base, NakedInv, LedgerInv, At, SliceStages
<1>2. pass \in Passes /\ Slice \in OpenRows /\ pass.row < Slice /\ OpenRows \subseteq DOMAIN rows
  BY <1>1, InPass DEF ControlInv, RowOwned, OpenRows
<1>3. Slice # pass.row
  <2>1. pass.row \in Nat
    BY <1>2 DEF Passes
  <2>2. \A a \in Nat : ~(a < a)
    OBVIOUS
  <2> QED BY <1>2, <2>1, <2>2
<1>4. rows[Slice].size = pass.size /\ pass.size \in Nat /\ pass.size \in Int
  <2>1. rows[Slice].size = pass.size /\ rows[Slice].size \in Nat
    BY <1>1, <1>2, RowsFacts DEF SlicePlaced, RowsType
  <2> QED BY <2>1, AsInt
<1>5. Active = OpenRows /\ Unbooked = 0
  BY DEF Active, Unbooked, At, SliceStages
<1>6. Bare = (IF pass.at \in {"slice stop", "slice close"} THEN pass.size ELSE 0)
  BY DEF Bare, SliceStages
<1>7. \A t \in Stops : t.oid # NoOid
  BY <1>1, StopFacts DEF CoverInv, NoOid
<1>8. pos \in Nat /\ pos \in Int
  BY <1>1, AsInt DEF TypeInv, BookTypeOK
<1> QED BY <1>1, <1>2, <1>3, <1>4, <1>5, <1>6, <1>7, <1>8, Busy

LEMMA PlanOfSlice ==
    ASSUME Base, pass.at \in SliceStages, InHandKept, pos' <= pos,
           pass'.at \in SliceStages \cup {"log"}
    PROVE  PlanInv'
BY InSlice, PlanGoes DEF SliceStages, Stopping

LEMMA BareMoves ==
    \A p, s \in Int :
        /\ p + 0 + s <= p + s + 0 /\ p + s + 0 <= p + s /\ p + s <= p + s /\ p + 0 <= p + 0
        /\ p + 0 + 0 <= p + 0 /\ (p - s) + s <= p + 0 /\ (p - s) + s + 0 <= p + 0
OBVIOUS

LEMMA NakedSliceStop ==
    ASSUME Base, SliceStop
    PROVE  NakedInv'
<1> USE DEF Relieved, SliceStages, Stopping, Leaving
<1>0. At("slice stop")
  BY DEF SliceStop
<1>1. /\ TypeInv /\ ControlInv /\ TypeInv' /\ ControlInv' /\ PlanInv /\ OwnInv
      /\ CoverInv /\ OidsUnique /\ ~At("idle") /\ pos \in Int
      /\ Slice \in OpenRows /\ OpenRows \subseteq DOMAIN rows /\ Active = OpenRows
      /\ pass.size \in Nat /\ pass.size \in Int /\ Bare = pass.size
      /\ \A t \in Stops : t.oid # NoOid
  BY <1>0, InSlice DEF At
<1>2. rows' = rows /\ past' = past
  BY <1>1, SliceStopEffect
<1>3. /\ pass'.at \in {"slice take", "slice close"} /\ InHandKept /\ pass'.size = pass.size
      /\ pass'.row = pass.row
  BY <1>1, SliceStopEffect DEF Noted, InHandKept
<1>4. pos' = pos /\ pos' <= pos
  BY <1>1, SliceStopEffect, PosStays, AtMostItself DEF PlaceTrigger
<1>5. PlanInv'
  BY <1>0, <1>3, <1>4, PlanOfSlice DEF At
<1>6. /\ Active' = Active /\ OpenRows' = OpenRows /\ Slice' = Slice
      /\ \A r \in Active' : /\ r \in Active /\ rows'[r].sl_oid = rows[r].sl_oid
                            /\ Share(r) <= Share(r)'
  BY <1>0, <1>2, <1>3, SharesSame DEF At
<1>7. BookedInv'
  BY <1>0, <1>1, <1>2, <1>3, <1>4, <1>6, BookedPlain DEF Unplain, At
<1>8. CASE /\ PlaceTrigger("stop", pass.level, pass.size)
           /\ Noted("slice take") /\ pass'.oid = oids + 1
  <2>1. /\ OwnInv' /\ \A t \in Stops : t.oid # oids + 1
        /\ \A r \in Active' : rows'[r].sl_oid # oids + 1
    <3>1. pass'.at \notin Replacing
      BY <1>3 DEF Replacing
    <3> QED BY <1>1, <1>2, <1>3, <1>6, <1>8, <3>1, OwnPlaced
  <2>2. pass'.at = "slice take" /\ Bare' = 0
    BY <1>8 DEF Noted, Bare
  <2>3. Looser(NoOid, 0)
    BY <1>6, <2>2 DEF Looser
  <2>4. CoverInv'
    <3>1. PICK size \in Nat : size = pass.size
      BY <1>1
    <3>2. pos' + 0 + Bare <= pos + size + Bare'
      BY <1>1, <1>4, <2>2, <3>1, BareMoves
    <3>3. PlaceTrigger("stop", pass.level, size) /\ Bare \in Nat /\ Bare' \in Nat
      BY <1>1, <1>8, <2>2, <3>1
    <3>4. \A w : Backs(w) => \A t \in Stops : t.oid = NoOid => w[t] <= 0 + 0
      BY <1>1
    <3>5. pass'.at \notin Leaving
      BY <2>2
    <3> QED BY <1>1, <1>2, <2>1, <2>3, <3>2, <3>3, <3>4, <3>5, CoverMore
  <2> QED BY <1>5, <1>7, <2>1, <2>4 DEF NakedInv
<1>9. CASE UNCHANGED bookVars /\ Noted("slice close") /\ pass'.oid = NoOid
  <2>1. pass'.at = "slice close" /\ Bare' = Bare
    BY <1>1, <1>3, <1>9 DEF Noted, Bare
  <2>2. triggers' = triggers /\ Stops' = Stops /\ IsFiniteSet(triggers')
    BY <1>1, <1>9 DEF bookVars, Stops, CoverInv
  <2>3. OwnInv'
    <3>1. FreshOid' /\ PlacedSize'
      BY <1>1, <1>9, <2>1, <2>2 DEF FreshOid, PlacedSize, Replacing
    <3>2. OwnOids'
      BY <1>1, <1>2, <1>6 DEF OwnInv, OwnOids
    <3>3. OidRecorded'
      <4>1. \A r : Underway(r) => Underway(r)'
        BY <1>3, <1>6, UnderwayIs
      <4>2. Unexcused' => Unexcused
        BY <1>2 DEF Unexcused
      <4> QED BY <1>1, <1>2, <1>6, <2>1, <4>1, <4>2 DEF OwnInv, OidRecorded, Replacing
    <3> QED BY <3>1, <3>2, <3>3 DEF OwnInv
  <2>4. Looser(NoOid, 0)
    BY <1>1, <1>6, <1>9 DEF Looser
  <2>5. pos' + Bare <= pos + Bare' /\ Bare \in Nat /\ Bare' \in Nat
    BY <1>1, <1>4, <2>1, BareSame
  <2>6. CoverInv'
    BY <1>1, <1>2, <2>2, <2>4, <2>5, CoverKept
  <2> QED BY <1>5, <1>7, <2>3, <2>6 DEF NakedInv
<1> QED BY <1>1, <1>8, <1>9, SliceStopEffect

LEMMA NakedSliceTake ==
    ASSUME Base, SliceTake
    PROVE  NakedInv'
<1> USE DEF Relieved, SliceStages, Stopping, Leaving
<1>0. At("slice take")
  BY DEF SliceTake
<1>1. /\ TypeInv /\ ControlInv /\ TypeInv' /\ ControlInv' /\ PlanInv /\ OwnInv
      /\ CoverInv /\ OidsUnique /\ ~At("idle") /\ pos \in Int
      /\ Slice \in OpenRows /\ OpenRows \subseteq DOMAIN rows /\ Active = OpenRows
      /\ pass.size \in Nat /\ pass.size \in Int /\ Bare = 0
      /\ \A t \in Stops : t.oid # NoOid
  BY <1>0, InSlice DEF At
<1>2. rows' = rows /\ past' = past
  BY <1>1, SliceTakeEffect
<1>3. /\ pass'.at \in {"slice oids", "slice close"} /\ InHandKept /\ pass'.size = pass.size
      /\ pass'.row = pass.row /\ pass'.oid = pass.oid
  BY <1>1, SliceTakeEffect DEF Noted, GoneTo, InHandKept, OidsKept
<1>4. pos' = pos /\ pos' <= pos
  BY <1>1, SliceTakeEffect, PosStays, AtMostItself DEF PlaceTrigger
<1>5. PlanInv'
  BY <1>0, <1>3, <1>4, PlanOfSlice DEF At
<1>6. /\ Active' = Active /\ OpenRows' = OpenRows /\ Slice' = Slice
      /\ \A r \in Active' : /\ r \in Active /\ rows'[r].sl_oid = rows[r].sl_oid
                            /\ Share(r) <= Share(r)'
  BY <1>0, <1>2, <1>3, SharesSame DEF At
<1>7. BookedInv'
  BY <1>0, <1>1, <1>2, <1>3, <1>4, <1>6, BookedPlain DEF Unplain, At
<1>8. Stops' = Stops /\ IsFiniteSet(triggers')
  <2>1. CASE PlaceTrigger("take", rows[Slice].tp, pass.size)
    <3>1. PICK new : new = [oid |-> oids + 1, kind |-> "take", level |-> rows[Slice].tp, size |-> pass.size]
      OBVIOUS
    <3>2. new.kind = "take" /\ triggers' = triggers \cup {new}
      BY <2>1, <3>1 DEF PlaceTrigger
    <3> QED BY <1>1, <3>2, FS_AddElement DEF Stops, CoverInv
  <2>2. CASE UNCHANGED bookVars
    BY <1>1, <2>2 DEF bookVars, Stops, CoverInv
  <2> QED BY <1>1, <2>1, <2>2, SliceTakeEffect
<1>9. OwnInv'
  BY <1>0, <1>1, <1>2, <1>3, <1>6, <1>8, OwnHeld DEF At, Replacing, SliceHeld
<1>10. CoverInv'
  <2>1. CASE pass'.at = "slice oids"
    <3>1. Bare' = 0
      BY <2>1 DEF Bare
    <3>2. Looser(NoOid, 0)
      BY <1>6, <2>1 DEF Looser
    <3>3. pos' + Bare <= pos + Bare' /\ Bare \in Nat /\ Bare' \in Nat
      BY <1>1, <1>4, <3>1, BareMoves
    <3> QED BY <1>1, <1>2, <1>8, <3>2, <3>3, CoverKept
  <2>2. CASE pass'.at = "slice close"
    <3>1. PICK size \in Nat : size = pass.size
      BY <1>1
    <3>2. Bare' = size
      BY <1>3, <2>2, <3>1 DEF Bare
    <3>3. Looser(pass.oid, 0)
      BY <1>3, <1>6 DEF Looser
    <3>4. ASSUME NEW w, Backs(w), NEW t \in Stops, t.oid = pass.oid PROVE w[t] <= 0 + size
      <4>1. t.size = size /\ w[t] <= t.size /\ w[t] \in Nat
        BY <1>0, <3>1, <3>4, <1>1 DEF OwnInv, PlacedSize, SliceHeld, At, Backs
      <4>2. \A a, b \in Nat : a <= b => a <= 0 + b
        OBVIOUS
      <4> QED BY <4>1, <4>2
    <3>5. pos' + size + Bare <= pos + Bare' /\ Bare \in Nat /\ Bare' \in Nat
      BY <1>1, <1>4, <3>1, <3>2, BareMoves
    <3> QED BY <1>1, <1>2, <1>8, <3>3, <3>4, <3>5, CoverLess
  <2> QED BY <1>3, <2>1, <2>2
<1> QED BY <1>5, <1>7, <1>9, <1>10 DEF NakedInv
\* The slice is closed for what it was to be; what that leaves is a short close.
LEMMA NakedSliceClose ==
    ASSUME Base, SliceClose
    PROVE  NakedInv'
<1> USE DEF Relieved, SliceStages, Stopping, Leaving
<1>0. At("slice close")
  BY DEF SliceClose
<1>1. /\ TypeInv /\ ControlInv /\ TypeInv' /\ ControlInv' /\ PlanInv /\ OwnInv /\ BookedInv
      /\ CoverInv /\ OidsUnique /\ ~At("idle") /\ ~Pristine /\ pos \in Int /\ pass \in Passes
      /\ Slice \in OpenRows /\ OpenRows \subseteq DOMAIN rows /\ Active = OpenRows
      /\ rows[Slice].size = pass.size /\ Unbooked = 0
      /\ pass.size \in Nat /\ pass.size \in Int /\ Bare = pass.size
      /\ \A t \in Stops : t.oid # NoOid
  BY <1>0, InSlice DEF At
<1>2. PICK left \in 0..Smaller(pass.size, pos) :
        /\ MarketClose(pass.size, left)
        /\ past' = IF left = 0 THEN past ELSE past \cup {"short close"}
  BY DEF SliceClose, ClosesUnseen
<1>3. rows' = rows /\ past \subseteq past' /\ triggers' = triggers /\ Stops' = Stops
      /\ IsFiniteSet(triggers') /\ (Unexcused' => left = 0)
  BY <1>1, <1>2 DEF SliceClose, Calls, MarketClose, Stops, CoverInv, Unexcused
<1>4. /\ pass'.at = "slice cancel" /\ InHandKept /\ pass'.size = pass.size
      /\ pass'.row = pass.row /\ pass'.oid = pass.oid
  BY <1>1, UnseenEffect DEF GoneTo, InHandKept, OidsKept
<1>5. pos' <= pos /\ (left = 0 => pos' = 0 \/ pos' = pos - pass.size)
  <2>1. left \in Nat /\ left <= Smaller(pass.size, pos)
    BY <1>1, Sizing, LeftUnseen
  <2> QED BY <1>1, <1>2, <2>1, Fills
<1>6. PlanInv'
  BY <1>0, <1>4, <1>5, PlanOfSlice DEF At
<1>7. /\ Active' = Active /\ OpenRows' = OpenRows /\ Slice' = Slice
      /\ \A r \in Active' : /\ r \in Active /\ rows'[r].sl_oid = rows[r].sl_oid
                            /\ Share(r) <= Share(r)'
  BY <1>0, <1>3, <1>4, SharesSame DEF At
<1>8. OwnInv'
  BY <1>0, <1>1, <1>3, <1>4, <1>7, OwnHeld DEF At, Replacing, SliceHeld
<1>9. Bare' = 0 /\ Unbooked' = 0
  BY <1>4 DEF Bare, Unbooked, At
<1>10. CASE pos' = 0
  <2>1. CoverInv' /\ BookedInv'
    BY <1>1, <1>3, <1>9, <1>10, NothingHeld, NothingBooked
  <2> QED BY <1>6, <1>8, <2>1 DEF NakedInv
<1>11. CASE Unexcused' => pos' = pos - pass.size
  <2>1. CoverInv'
    <3>1. Looser(NoOid, 0)
      BY <1>0, <1>4, <1>7 DEF Looser, At
    <3>2. Unexcused' => pos' + Bare <= pos + Bare'
      BY <1>1, <1>9, <1>11, BareMoves
    <3>3. Bare \in Nat /\ Bare' \in Nat
      BY <1>1, <1>9
    <3> QED BY <1>1, <1>3, <3>1, <3>2, <3>3, CoverKept
  <2>2. BookedInv'
    <3>1. PICK n \in Nat : n = pass.size
      BY <1>1
    <3>2. PICK r \in DOMAIN rows : r = Slice
      BY <1>1
    <3>3. \A q \in DOMAIN rows : q # r => Booked(q)' = Booked(q)
      BY <1>0, <1>3, <1>4, <1>7, <3>2 DEF Booked, Open, At
    <3>4. Booked(r) = n /\ Booked(r)' = 0
      BY <1>0, <1>1, <1>4, <1>7, <3>1, <3>2 DEF Booked, OpenRows, Open, At
    <3>5. \A q \in DOMAIN rows : Booked(q) \in Nat
      BY <1>1, BookedFacts
    <3>6. \A q \in DOMAIN rows : q # r => Booked(q) <= Booked(q)'
      BY <3>3, <3>5, AsInt
    <3>7. Booked(r) <= Booked(r)' + n
      BY <3>4
    <3>8. Unexcused' => pos' + n + Unbooked <= pos + Unbooked'
      BY <1>1, <1>9, <1>11, <3>1, BareMoves
    <3> QED BY <1>1, <1>3, <3>6, <3>7, <3>8, BookedLess
  <2> QED BY <1>6, <1>8, <2>1, <2>2 DEF NakedInv
<1> QED BY <1>3, <1>5, <1>10, <1>11

LEMMA NakedSliceCancel ==
    ASSUME Base, SliceCancel
    PROVE  NakedInv'
<1> USE DEF Relieved, SliceStages, Stopping, Leaving
<1>0. At("slice cancel")
  BY DEF SliceCancel
<1>1. /\ TypeInv /\ ControlInv /\ TypeInv' /\ ControlInv' /\ PlanInv /\ OwnInv /\ BookedInv
      /\ CoverInv /\ OidsUnique /\ ~At("idle") /\ ~Pristine /\ pos \in Int /\ pass \in Passes
      /\ Slice \in OpenRows /\ OpenRows \subseteq DOMAIN rows /\ Active = OpenRows
      /\ Unbooked = 0 /\ Bare = 0
  BY <1>0, InSlice DEF At
<1>2. rows' = rows /\ past' = past
  BY <1>1, SliceCancelEffect
<1>3. /\ pass'.at = "slice abort" /\ InHandKept /\ pass'.size = pass.size
      /\ pass'.row = pass.row /\ pass'.oid = pass.oid
  BY <1>1, SliceCancelEffect DEF GoneTo, InHandKept, OidsKept
<1>4. /\ pos' = pos /\ pos' <= pos /\ Stops' \subseteq Stops /\ IsFiniteSet(triggers')
  <2>1. pos' = pos /\ triggers' \subseteq triggers
    BY <1>1, SliceCancelEffect DEF CancelOids, bookVars
  <2> QED BY <1>1, <2>1, AtMostItself, NoneToCome DEF Stops, Base
<1>5. PlanInv'
  BY <1>0, <1>3, <1>4, PlanOfSlice DEF At
<1>6. /\ Active' = Active /\ OpenRows' = OpenRows /\ Slice' = Slice
      /\ \A r \in Active' : /\ r \in Active /\ rows'[r].sl_oid = rows[r].sl_oid
                            /\ Share(r) <= Share(r)'
  BY <1>0, <1>2, <1>3, SharesSame DEF At
<1>7. OwnInv'
  BY <1>0, <1>1, <1>2, <1>3, <1>4, <1>6, OwnHeld DEF At, Replacing, SliceHeld
<1>8. Bare' = 0 /\ Unbooked' = 0
  BY <1>3 DEF Bare, Unbooked, At
<1>9. BookedInv'
  <2>1. \A q \in DOMAIN rows : Booked(q)' = Booked(q)
    BY <1>0, <1>2, <1>3, <1>6 DEF Booked, Open, At
  <2> QED BY <1>1, <1>2, <1>4, <1>8, <2>1, BookedSame
<1>10. Looser(NoOid, 0)
  BY <1>3, <1>6 DEF Looser
<1>11. /\ Bare \in Nat /\ Bare' \in Nat /\ pos' + Bare <= pos + Bare'
       /\ pos' + 0 + Bare <= pos + Bare'
  BY <1>1, <1>4, <1>8, BareMoves
<1>12. CoverInv'
  <2>1. CASE UNCHANGED bookVars
    <3>1. Stops' = Stops
      BY <2>1 DEF bookVars, Stops
    <3> QED BY <1>1, <1>2, <1>4, <1>10, <1>11, <3>1, CoverKept
  <2>2. CASE CancelOids({pass.oid})
    <3>1. PICK oid : oid = pass.oid
      OBVIOUS
    <3>2. Stops' = {t \in Stops : t.oid # oid}
      BY <2>2, <3>1 DEF CancelOids, Stops
    <3>3. \A w : Backs(w) => \A t \in Stops : t.oid = oid => w[t] <= 0
      <4>1. \A w : Backs(w) => \A t \in Stops : t.oid = oid => w[t] = 0
        BY <1>0, <3>1 DEF Backs, At
      <4>2. 0 <= 0
        OBVIOUS
      <4> QED BY <4>1, <4>2
    <3> QED BY <1>1, <1>2, <1>4, <1>10, <1>11, <3>2, <3>3, CoverGone
  <2> QED BY <1>1, <2>1, <2>2, SliceCancelEffect
<1> QED BY <1>5, <1>7, <1>9, <1>12 DEF NakedInv

LEMMA NakedSliceOids ==
    ASSUME Base, SliceOids
    PROVE  NakedInv'
<1> USE DEF Relieved, SliceStages, Stopping, Leaving
<1>0. At("slice oids")
  BY DEF SliceOids
<1>1. /\ TypeInv /\ ControlInv /\ TypeInv' /\ ControlInv' /\ PlanInv /\ OwnInv /\ BookedInv
      /\ CoverInv /\ OidsUnique /\ ~At("idle") /\ pos \in Int /\ pass \in Passes
      /\ Slice \in OpenRows /\ OpenRows \subseteq DOMAIN rows /\ Active = OpenRows
      /\ rows[Slice].size = pass.size /\ pass.size \in Nat /\ Bare = 0
      /\ \A t \in Stops : t.oid # NoOid
  BY <1>0, InSlice DEF At
<1>2. /\ Others(Slice) /\ OpenRows' = OpenRows /\ past' = past /\ UNCHANGED bookVars
      /\ rows'[Slice].sl_oid = pass.oid /\ rows'[Slice].size = pass.size
  BY <1>1, SliceOidsEffect DEF RowIs
<1>3. pass'.at = "log" /\ InHandKept
  BY <1>1, SliceOidsEffect DEF GoneTo
<1>4. /\ pos' = pos /\ pos' <= pos /\ Stops' = Stops /\ IsFiniteSet(triggers')
  BY <1>1, <1>2, PosStays DEF Stops, CoverInv
<1>5. PlanInv'
  BY <1>0, <1>3, <1>4, PlanOfSlice DEF At
<1>6. /\ DOMAIN rows' = DOMAIN rows
      /\ \A r \in DOMAIN rows : rows'[r].size = rows[r].size
                               /\ (r # Slice => rows'[r].sl_oid = rows[r].sl_oid)
  BY <1>1, <1>2 DEF Others
<1>7. Active' = OpenRows /\ Bare' = 0
  BY <1>2, <1>3 DEF Active, Bare, At
<1>8. OwnInv'
  <2>1. PlacedSize' /\ FreshOid'
    BY <1>3 DEF PlacedSize, FreshOid, Replacing, SliceHeld
  <2>2. OwnOids'
    <3>1. pass.oid # NoOid => \A q \in Active : rows[q].sl_oid # pass.oid
      BY <1>0, <1>1 DEF OwnInv, FreshOid, SliceHeld, At
    <3>2. ASSUME NEW r \in OpenRows, NEW q \in OpenRows, r # q, rows'[r].sl_oid = rows'[q].sl_oid
          PROVE  rows'[r].sl_oid = NoOid
      <4>1. CASE r = Slice
        BY <1>1, <1>2, <1>6, <3>1, <3>2, <4>1
      <4>2. CASE q = Slice
        BY <1>1, <1>2, <1>6, <3>1, <3>2, <4>2
      <4>3. CASE r # Slice /\ q # Slice
        BY <1>1, <1>6, <3>2, <4>3 DEF OwnInv, OwnOids
      <4> QED BY <4>1, <4>2, <4>3
    <3> QED BY <1>7, <3>2 DEF OwnOids
  <2>3. OidRecorded'
    <3>1. pass.oid # NoOid
      BY <1>0, <1>1 DEF OwnInv, OidRecorded, At
    <3>2. ASSUME Unexcused', NEW r \in OpenRows PROVE rows'[r].sl_oid # NoOid
      <4>1. CASE r = Slice
        BY <1>2, <3>1, <4>1
      <4>2. CASE r # Slice
        <5>1. ~Underway(r) /\ Unexcused
          BY <1>2, <3>2, <4>2, UnderwayIs DEF Unexcused
        <5> QED BY <1>1, <1>6, <4>2, <5>1 DEF OwnInv, OidRecorded
      <4> QED BY <4>1, <4>2
    <3> QED BY <1>2, <1>3, <3>2 DEF OidRecorded, Replacing
  <2> QED BY <2>1, <2>2, <2>3 DEF OwnInv
<1>9. BookedInv'
  BY <1>0, <1>1, <1>2, <1>3, <1>4, <1>6, BookedPlain DEF Unplain, At
<1>10. Looser(NoOid, 0)
  <2>1. \A r \in DOMAIN rows : Share(r) = rows[r].size
    BY <1>0, Whole DEF At
  <2>2. \A r \in DOMAIN rows : Share(r)' = rows[r].size
    BY <1>3, <1>6, WholeNext
  <2>3. \A r \in DOMAIN rows : rows[r].size \in Nat /\ rows[r].size <= rows[r].size
    BY <1>1, RowsFacts, AsInt DEF RowsType
  <2>4. \A t \in Stops : t.oid = pass.oid => t.size = pass.size
    BY <1>0, <1>1 DEF OwnInv, PlacedSize, SliceHeld, At
  <2>5. ASSUME NEW r \in Active'
        PROVE  \/ r \in Active /\ rows'[r].sl_oid = rows[r].sl_oid /\ Share(r) <= Share(r)'
               \/ \A t \in Stops : t.oid = rows'[r].sl_oid => t.size <= Share(r)'
    <3>1. CASE r = Slice
      <4>1. rows'[r].sl_oid = pass.oid /\ Share(r)' = pass.size /\ pass.size <= pass.size
        BY <1>1, <1>2, <2>2, <2>3, <3>1
      <4> QED BY <2>4, <4>1
    <3>2. CASE r # Slice
      BY <1>1, <1>6, <1>7, <2>1, <2>2, <2>3, <3>2
    <3> QED BY <3>1, <3>2
  <2> QED BY <1>3, <2>5 DEF Looser
<1>11. Bare \in Nat /\ Bare' \in Nat /\ pos' + Bare <= pos + Bare'
  BY <1>1, <1>4, <1>7, BareMoves
<1>12. CoverInv'
  BY <1>1, <1>2, <1>4, <1>10, <1>11, CoverKept
<1> QED BY <1>5, <1>8, <1>9, <1>12 DEF NakedInv
-----------------------------------------------------------------------------
(* A row is closed. *)

LEMMA NakedBookClose ==
    ASSUME Base, BookClose
    PROVE  NakedInv'
<1> USE DEF Relieved, SliceStages, Stopping, Leaving
<1>0. At("book close")
  BY DEF BookClose, Book
<1>1. /\ TypeInv /\ ControlInv /\ TypeInv' /\ ControlInv' /\ PlanInv /\ OwnInv
      /\ CoverInv /\ OidsUnique /\ ~At("idle") /\ ~Pristine /\ pos \in Int
  BY <1>0, Busy, AsInt DEF Base, NakedInv, LedgerInv, TypeInv, BookTypeOK, At
<1>2. /\ Others(pass.row) /\ OpenRows' = OpenRows \ {pass.row} /\ past' = past
      /\ pass.row \in OpenRows /\ pass.row \in DOMAIN rows /\ UNCHANGED bookVars
      /\ rows'[pass.row].sl_oid = Row.sl_oid
  BY <1>1, BookCloseEffect DEF RowIs
<1>3. pass'.at = "cancel row" /\ InHandKept /\ pass'.row = pass.row
  BY <1>1, BookCloseEffect DEF GoneTo, InHandKept
<1>4. /\ pos' = pos /\ pos' <= pos /\ Stops' = Stops /\ IsFiniteSet(triggers')
  BY <1>1, <1>2, PosStays DEF Stops, CoverInv
<1>5. PlanInv'
  BY <1>0, <1>1, <1>3, <1>4, PlanGoes DEF At
<1>6. /\ Active = OpenRows /\ Active' = OpenRows /\ OpenRows \subseteq DOMAIN rows
      /\ Bare = 0 /\ Bare' = 0 /\ Unbooked = 0 /\ Unbooked' = 0
  BY <1>0, <1>2, <1>3 DEF Active, OpenRows, Bare, Unbooked, At
<1>7. DOMAIN rows' = DOMAIN rows /\ \A r \in DOMAIN rows : rows'[r].sl_oid = rows[r].sl_oid
  BY <1>2 DEF Others, Row
<1>8. OwnInv'
  <2>1. PlacedSize' /\ FreshOid'
    BY <1>3 DEF PlacedSize, FreshOid, Replacing, SliceHeld
  <2>2. OwnOids'
    BY <1>1, <1>6, <1>7 DEF OwnInv, OwnOids
  <2>3. OidRecorded'
    <3>1. ASSUME Unexcused', NEW r \in OpenRows' PROVE rows'[r].sl_oid # NoOid
      <4>1. ~Underway(r) /\ Unexcused /\ r \in OpenRows
        BY <1>0, <1>2, <3>1, UnderwayIs DEF At, Unexcused
      <4> QED BY <1>1, <1>6, <1>7, <4>1 DEF OwnInv, OidRecorded
    <3> QED BY <1>3, <3>1 DEF OidRecorded, Replacing
  <2> QED BY <2>1, <2>2, <2>3 DEF OwnInv
<1>9. BookedInv'
  <2>1. ASSUME NEW q \in DOMAIN rows PROVE Booked(q)' = Booked(q)
    <3>1. CASE q = pass.row
      <4>1. Booked(q) = 0
        BY <1>0, <3>1 DEF Booked, At
      <4>2. Booked(q)' = 0
        BY <1>2, <1>7, <3>1 DEF Booked, OpenRows
      <4> QED BY <4>1, <4>2
    <3>2. CASE q # pass.row
      BY <1>0, <1>2, <1>3, <3>2 DEF Booked, Open, Others, At
    <3> QED BY <3>1, <3>2
  <2> QED BY <1>1, <1>2, <1>4, <1>6, <1>7, <2>1, BookedSame
<1>10. Looser(NoOid, 0)
  <2>1. ASSUME NEW r \in OpenRows PROVE Share(r) <= Share(r)'
    <3>1. CASE r = pass.row
      <4>1. Share(r) = 0
        BY <1>0, <3>1 DEF Share, At
      <4>2. Share(r)' = 0
        BY <1>3, <3>1 DEF Share, At
      <4>3. 0 <= 0
        OBVIOUS
      <4> QED BY <4>1, <4>2, <4>3
    <3>2. CASE r # pass.row
      <4>1. Share(r) = rows[r].size /\ Share(r)' = rows[r].size
        BY <1>2, <1>3, <1>6, <3>2 DEF Share, Others
      <4>2. Share(r) \in Nat
        BY <1>1, <1>6, SharesAre
      <4> QED BY <4>1, <4>2, AsInt
    <3> QED BY <3>1, <3>2
  <2> QED BY <1>3, <1>6, <1>7, <2>1 DEF Looser
<1>11. Bare \in Nat /\ Bare' \in Nat /\ pos' + Bare <= pos + Bare'
  BY <1>1, <1>4, <1>6, BareMoves
<1>12. CoverInv'
  BY <1>1, <1>2, <1>4, <1>10, <1>11, CoverKept
<1> QED BY <1>5, <1>8, <1>9, <1>12 DEF NakedInv

\* Its stop goes: it backs nothing any more.
LEMMA NakedCancelRow ==
    ASSUME Base, CancelRow
    PROVE  NakedInv'
<1> USE DEF Relieved, SliceStages, Stopping, Leaving
<1>0. At("cancel row")
  BY DEF CancelRow
<1>1. /\ TypeInv /\ ControlInv /\ TypeInv' /\ ControlInv' /\ PlanInv /\ OwnInv /\ BookedInv
      /\ CoverInv /\ OidsUnique /\ TargetsNoStops /\ ~At("idle") /\ ~Pristine /\ pos \in Int
  BY <1>0, Busy, AsInt DEF Base, NakedInv, LedgerInv, TypeInv, BookTypeOK, At
<1>2. rows' = rows /\ past' = past /\ pass.row \in DOMAIN rows
  BY <1>1, CancelRowEffect
<1>3. pass'.at \in {"sweep", "log", "manage", "resolve"} /\ InHandKept
  BY <1>1, CancelRowEffect DEF GoneOn, GoneTo
<1>4. /\ pos' = pos /\ pos' <= pos /\ IsFiniteSet(triggers')
  <2>1. pos' = pos /\ triggers' \subseteq triggers
    BY <1>1, CancelRowEffect DEF CancelOids, bookVars
  <2> QED BY <1>1, <2>1, AtMostItself, NoneToCome DEF Base
<1>5. PlanInv'
  BY <1>0, <1>1, <1>3, <1>4, PlanGoes DEF At
<1>6. Settles
  BY <1>0, <1>1, <1>2, <1>3, SettlesFrom DEF OnItsWay, At
<1>7. OwnInv' /\ BookedInv'
  BY <1>1, <1>4, <1>6, SettledOwn, SettledBooked
<1>8. CoverInv'
  <2>1. CASE UNCHANGED bookVars
    <3>1. Stops' = Stops
      BY <2>1 DEF bookVars, Stops
    <3> QED BY <1>1, <1>4, <1>6, <3>1, SettledCover
  <2>2. CASE CancelOids({Row.sl_oid, Row.tp_oid})
    <3>1. PICK oid : oid = Row.sl_oid
      OBVIOUS
    <3>2. \A t \in Stops : t.oid # Row.tp_oid
      BY <1>1, <1>2 DEF TargetsNoStops, NoStop, Row
    <3>3. Stops' = {t \in Stops : t.oid # oid}
      BY <2>2, <3>1, <3>2 DEF CancelOids, Stops
    <3>4. \A w : Backs(w) => \A t \in Stops : t.oid = oid => w[t] <= 0
      <4>1. Share(pass.row) = 0 /\ pass.row \in Active
        BY <1>0 DEF Share, Active, At
      <4> QED BY <3>1, <4>1 DEF Backs, Row
    <3>5. Bare \in Nat /\ Bare' \in Nat
      BY <1>1, BookedFacts, BookedNext
    <3>6. Unexcused' => Looser(NoOid, 0) /\ pos' + 0 + Bare <= pos + Bare'
      <4>1. Unexcused' => Looser(NoOid, 0) /\ Bare = 0 /\ Bare' = 0
        BY <1>1, <1>6, SettledLooser
      <4>2. pos + 0 + 0 <= pos + 0
        BY <1>1, BareMoves
      <4> QED BY <1>4, <4>1, <4>2
    <3> QED BY <1>1, <1>2, <1>4, <3>3, <3>4, <3>5, <3>6, CoverGone
  <2> QED BY <1>1, <2>1, <2>2, CancelRowEffect
<1> QED BY <1>5, <1>7, <1>8 DEF NakedInv

\* The last of a coin's triggers go: nothing is held by then.
LEMMA NakedSweep ==
    ASSUME Base, Sweep
    PROVE  NakedInv'
<1> USE DEF Relieved, SliceStages, Stopping
<1>0. At("sweep")
  BY DEF Sweep
<1>1. /\ TypeInv /\ ControlInv /\ TypeInv' /\ ControlInv' /\ PlanInv /\ OwnInv /\ BookedInv
      /\ CoverInv /\ OidsUnique /\ ~At("idle") /\ ~Pristine /\ pos \in Int
  BY <1>0, Busy, AsInt DEF Base, NakedInv, LedgerInv, TypeInv, BookTypeOK, At
<1>2. rows' = rows /\ past \subseteq past' /\ OpenRows = {}
  BY <1>1, SweepEffect
<1>3. pass'.at \in {"log", "manage", "resolve"} /\ InHandKept
  BY <1>1, SweepEffect DEF GoneOn, GoneTo
<1>4. /\ pos' = pos /\ pos' <= pos /\ IsFiniteSet(triggers')
  <2>1. pos' = pos /\ triggers' \subseteq triggers
    BY <1>1, SweepEffect DEF CancelOids, bookVars
  <2> QED BY <1>1, <2>1, AtMostItself, NoneToCome DEF Base
<1>5. PlanInv'
  BY <1>0, <1>1, <1>3, <1>4, PlanGoes DEF At
<1>6. Settles
  BY <1>0, <1>1, <1>2, <1>3, SettlesFrom DEF OnItsWay, At
<1>7. OwnInv' /\ BookedInv'
  BY <1>1, <1>4, <1>6, SettledOwn, SettledBooked
<1>8. CASE Unexcused'
  <2>1. pos = 0
    BY <1>0, <1>1, <1>2, <1>8, NoRowsNothingHeld DEF Unexcused, At
  <2>2. Bare' \in Nat
    BY <1>1, BookedNext
  <2>3. CoverInv'
    BY <1>1, <1>4, <2>1, <2>2, NothingHeld
  <2> QED BY <1>5, <1>7, <2>3 DEF NakedInv
<1>9. CASE ~Unexcused'
  <2>1. CoverInv'
    BY <1>4, <1>9 DEF CoverInv
  <2> QED BY <1>5, <1>7, <2>1 DEF NakedInv
<1> QED BY <1>8, <1>9
-----------------------------------------------------------------------------
(* The exchange's own step, and rows that are opened. *)

LEMMA Paying ==
    \A p, s, z \in Int : 0 <= s /\ s <= z /\ s <= p /\ (s = z \/ s = p) =>
        p - s <= p /\ (p - s = 0 \/ p - s = p - z)
OBVIOUS
LEMMA Paid == \A p, n, b \in Int : (p - n) + n + b <= p + b
OBVIOUS
LEMMA Between ==
    \A p \in Int : \A a, b, n \in Nat : \A z : a + n <= b /\ p <= a + n /\ z = 0 => p <= b + z
OBVIOUS
LEMMA LeastOf == \A s, a, b : a \in Nat /\ b \in Nat /\ (s = a \/ s = b) => 0 <= s
OBVIOUS

\* A trigger fires: the position falls by what a stop was for.
LEMMA NakedFires ==
    ASSUME Base, TriggerFires
    PROVE  NakedInv'
<1>0. /\ TypeInv /\ ControlInv /\ TypeInv' /\ ControlInv' /\ PlanInv /\ OwnInv /\ BookedInv
      /\ CoverInv /\ OidsUnique /\ IsFiniteSet(triggers) /\ pos \in Int /\ pos' \in Int
  BY DEF Base, NakedInv, LedgerInv, CoverInv, TypeInv, BookTypeOK
<1>1. PICK t \in triggers : Fires(t) /\ past \subseteq past'
  BY DEF TriggerFires
<1>2. rows' = rows /\ pass' = pass
  BY DEF TriggerFires
<1>3. /\ triggers' = triggers \ {t} /\ pos' = pos - Smaller(t.size, pos)
      /\ t.size \in Nat /\ t.size \in Int
  BY <1>0, <1>1, AsInt DEF Fires, TypeInv, BookTypeOK, Triggers
<1>4. IsFiniteSet(triggers') /\ Stops' \subseteq Stops
  BY <1>3, NoneToCome DEF Base, Stops
<1>5. pos' <= pos /\ (pos' = 0 \/ pos' = pos - t.size)
  <2>2. PICK s : s = Smaller(t.size, pos)
    OBVIOUS
  <2>3. s \in Int /\ s <= t.size /\ s <= pos /\ (s = t.size \/ s = pos)
    BY <1>0, <1>3, <2>2, SmallerOf
  <2>4. 0 <= s
    <3>1. pos \in Nat
      BY <1>0 DEF TypeInv, BookTypeOK
    <3> QED BY <1>3, <2>3, <3>1, LeastOf
  <2>5. pos' = pos - s
    BY <1>3, <2>2
  <2> QED BY <1>0, <2>3, <2>4, <2>5, Paying
<1>6. PlanInv'
  BY <1>0, <1>2, <1>5, StandingPlan
<1>7. OwnInv'
  BY <1>0, <1>1, <1>2, <1>4, StandingOwn
<1>8. CASE pos' = 0
  <2>1. Bare' \in Nat
    BY <1>0, BookedNext
  <2>2. CoverInv' /\ BookedInv'
    BY <1>0, <1>4, <1>8, <2>1, NothingHeld, NothingBooked
  <2> QED BY <1>6, <1>7, <2>2 DEF NakedInv
<1>9. CASE pos' # 0 /\ t.kind = "stop"
  <2>1. ~Pristine
    <3> SUFFICES ASSUME Pristine PROVE FALSE
      OBVIOUS
    <3>1. t.size = Size /\ pos = Size
      BY <1>1 DEF Pristine
    <3>2. pos' = pos - pos
      BY <1>5, <1>9, <3>1
    <3> QED BY <1>0, <1>9, <3>2, AtMostItself
  <2>2. pos' = pos - t.size
    BY <1>5, <1>9
  <2>3. Looser(NoOid, 0) /\ Bare' = Bare /\ Bare \in Nat /\ Bare' \in Nat /\ Bare \in Int
    BY <1>0, <1>2, StandingLooser, BookedFacts, BookedNext, AsInt
  <2>4. Stops' = {u \in Stops : u.oid # t.oid}
    BY <1>0, <1>1, <1>3 DEF Stops, OidsUnique
  <2>5. PICK n \in Nat : n = t.size
    BY <1>3
  <2>6. pos' + n + Bare <= pos + Bare'
    BY <1>0, <1>3, <2>2, <2>3, <2>5, Paid
  <2>7. \A w : Backs(w) => \A u \in Stops : u.oid = t.oid => w[u] <= n
    BY <1>0, <1>1, <2>5 DEF Backs, OidsUnique, Stops
  <2>8. CoverInv'
    BY <1>0, <1>1, <1>4, <2>3, <2>4, <2>6, <2>7, CoverGone
  <2>9. BookedInv'
    BY <1>0, <1>1, <1>2, <1>5, <2>1, StandingBooked
  <2> QED BY <1>6, <1>7, <2>8, <2>9 DEF NakedInv
<1>10. CASE t.kind # "stop"
  <2>1. Stops' = Stops
    BY <1>3, <1>10 DEF Stops
  <2>2. ~Pristine
    BY <1>1, <1>10 DEF Pristine
  <2> QED BY <1>1, <1>2, <1>4, <1>5, <2>1, <2>2, StandingNaked
<1> QED BY <1>8, <1>9, <1>10

\* A row more books what it is for.
LEMMA BookedGrown ==
    ASSUME TypeInv, ControlInv, TypeInv', ControlInv', NEW row, Grows(row),
           \A q \in DOMAIN rows : Booked(q) <= Booked(q)',
           NEW s, s = Slice', NEW n \in Nat, Booked(s)' = n
    PROVE  InAll + n <= InAll' /\ InAll \in Nat /\ InAll' \in Nat
<1>1. PICK D : D = DOMAIN rows
  OBVIOUS
<1>2. PICK E : E = DOMAIN rows'
  OBVIOUS
<1>3. E = D \cup {s} /\ s \notin D
  BY <1>1, <1>2 DEF Grows
<1> DEFINE a == [q \in E |-> Booked(q)']
<1>4. IsFiniteSet(D) /\ \A q \in E : Booked(q)' \in Nat
  BY <1>1, <1>2, BookedFacts, BookedNext
<1>5. IntsOn(BookedRows, D) /\ InAll \in Nat /\ \A q \in D : BookedRows[q] = Booked(q)
  BY <1>1, InAllIs
<1>6. IntsOn(a, D \cup {s}) /\ IntsOn(a, D) /\ a[s] = n /\ \A q \in D : BookedRows[q] <= a[q]
  BY <1>1, <1>3, <1>4, <1>5 DEF IntsOn
<1>7. InAll' = SumFunctionOnSet(a, D \cup {s})
  BY <1>2, <1>3 DEF InAll, BookedRows
<1>8. \A q \in D \cup {s} : a[q] \in Nat
  BY <1>3, <1>4
<1> HIDE DEF a
<1>9. SumFunctionOnSet(a, D \cup {s}) = n + SumFunctionOnSet(a, D)
  BY <1>3, <1>4, <1>6, SumWith
<1>10. InAll <= SumFunctionOnSet(a, D) /\ SumFunctionOnSet(a, D) \in Int
  BY <1>1, <1>4, <1>5, <1>6, SumAtMost, SumIsInt DEF InAll
<1>11. IsFiniteSet(D \cup {s})
  BY <1>4, FS_AddElement
<1>12. InAll' \in Nat
  BY <1>7, <1>8, <1>11, SumIsNat
<1>13. InAll + n <= n + SumFunctionOnSet(a, D)
  BY <1>5, <1>10
<1> QED BY <1>5, <1>7, <1>9, <1>12, <1>13

\* The row of an add: what had filled of it is booked now, and has no stop yet.
LEMMA NakedOpenSlice ==
    ASSUME Base, OpenSlice
    PROVE  NakedInv'
<1> USE DEF Relieved, SliceStages, Stopping, Leaving
<1>0. At("open slice")
  BY DEF OpenSlice
<1>1. /\ TypeInv /\ ControlInv /\ TypeInv' /\ ControlInv' /\ PlanInv /\ OwnInv /\ BookedInv
      /\ CoverInv /\ OidsUnique /\ ~At("idle") /\ ~Pristine /\ pos \in Int
      /\ OpenRows \subseteq DOMAIN rows
  BY <1>0, Busy, AsInt DEF Base, NakedInv, LedgerInv, TypeInv, BookTypeOK, At, OpenRows
<1>2. PICK row : /\ row = NewRow(pass.mark, pass.level, Row.tp, pass.size, NoOid, NoOid)
                 /\ Grows(row)
  BY <1>1, OpenSliceEffect
<1>3. row.size = pass.size /\ row.sl_oid = NoOid /\ row.status = "open"
  BY <1>2 DEF NewRow
<1>4. UNCHANGED bookVars /\ past' = past /\ GoneTo("slice stop")
  BY <1>1, OpenSliceEffect
<1>5. pass'.at = "slice stop" /\ pass'.size = pass.size /\ InHandKept /\ pass.size \in Nat
  BY <1>0, <1>1, <1>4 DEF GoneTo, ControlInv, Purposeful, At
<1>6. pos' = pos /\ pos' <= pos /\ Stops' = Stops /\ IsFiniteSet(triggers')
  BY <1>1, <1>4, PosStays DEF Stops, CoverInv
<1>7. PlanInv'
  BY <1>0, <1>1, <1>5, <1>6, PlanGoes DEF At
<1>a. PICK s : s = Slice'
  OBVIOUS
<1>8. /\ DOMAIN rows' = DOMAIN rows \cup {s} /\ OpenRows' = OpenRows \cup {s}
      /\ rows'[s] = row /\ s \notin DOMAIN rows /\ \A q \in DOMAIN rows : rows'[q] = rows[q]
  BY <1>2, <1>a DEF Grows
<1>9. /\ Active = OpenRows /\ Active' = OpenRows \cup {s} /\ Bare = pass.size /\ Bare' = pass.size
      /\ Unbooked = pass.size /\ Unbooked' = 0
  BY <1>0, <1>5, <1>8 DEF Active, Bare, Unbooked, At
<1>10. OwnInv'
  <2>1. FreshOid' /\ PlacedSize'
    BY <1>5 DEF FreshOid, PlacedSize, Replacing, SliceHeld
  <2>2. OwnOids'
    BY <1>1, <1>3, <1>8, <1>9 DEF OwnInv, OwnOids
  <2>3. (\A r : ~Underway(r)) /\ \A r : Underway(r)' <=> r = s
    BY <1>0, <1>5, <1>a, UnderwayIs DEF At
  <2>4. OidRecorded'
    BY <1>1, <1>4, <1>5, <1>8, <2>3 DEF OwnInv, OidRecorded, Unexcused, Replacing
  <2> QED BY <2>1, <2>2, <2>4 DEF OwnInv
<1>11. Looser(NoOid, 0)
  <2>1. \A r \in DOMAIN rows : Share(r) = rows[r].size
    BY <1>0, Whole DEF At
  <2>2. \A r \in DOMAIN rows' : Share(r)' = rows'[r].size
    BY <1>5, WholeNext
  <2>3. pass.size \in Nat /\ \A r \in OpenRows : Share(r) \in Nat
    BY <1>1, <1>5, <1>9, SharesAre
  <2>4. ASSUME NEW r \in Active'
        PROVE  \/ r \in Active /\ rows'[r].sl_oid = rows[r].sl_oid /\ Share(r) <= Share(r)'
               \/ rows'[r].sl_oid = NoOid /\ 0 <= Share(r)'
    <3>1. CASE r = s
      <4>1. rows'[r].sl_oid = NoOid /\ Share(r)' = pass.size
        BY <1>3, <1>8, <2>2, <3>1
      <4>2. 0 <= pass.size
        BY <2>3, AsInt
      <4> QED BY <4>1, <4>2
    <3>2. CASE r # s
      <4>1. r \in OpenRows /\ r \in DOMAIN rows
        BY <1>1, <1>9, <3>2
      <4>2. Share(r)' = rows[r].size /\ Share(r) = rows[r].size
        BY <1>8, <2>1, <2>2, <4>1
      <4>3. Share(r) <= Share(r)
        BY <2>3, <4>1, AsInt
      <4> QED BY <1>8, <1>9, <4>1, <4>2, <4>3
    <3> QED BY <3>1, <3>2
  <2> QED BY <1>5, <2>4 DEF Looser
<1>12. Bare \in Nat /\ Bare' \in Nat /\ pass.size \in Int /\ pos' + Bare <= pos + Bare'
  <2>1. pass.size \in Int
    BY <1>5, AsInt
  <2>2. pos + pass.size <= pos + pass.size
    BY <1>1, <2>1, BareMoves
  <2> QED BY <1>5, <1>6, <1>9, <2>1, <2>2
<1>13. CoverInv'
  BY <1>1, <1>4, <1>6, <1>11, <1>12, CoverKept
<1>14. BookedInv'
  <2>1. PICK n \in Nat : n = pass.size
    BY <1>5
  <2>2. Booked(s)' = n
    BY <1>3, <1>5, <1>8, <2>1 DEF Booked, Open, At
  <2>3. ASSUME NEW q \in DOMAIN rows PROVE Booked(q) <= Booked(q)'
    <3>1. Booked(q) = IF Open(q) THEN rows[q].size ELSE 0
      BY <1>0 DEF Booked, At
    <3>2. Booked(q)' = IF Open(q) THEN rows[q].size ELSE 0
      BY <1>5, <1>8 DEF Booked, Open, At
    <3>3. Booked(q) \in Nat
      BY <1>1, BookedFacts
    <3> QED BY <3>1, <3>2, <3>3, AsInt
  <2>4. InAll + n <= InAll' /\ InAll \in Nat /\ InAll' \in Nat
    BY <1>1, <1>2, <1>a, <2>1, <2>2, <2>3, BookedGrown
  <2>5. Unexcused' => pos <= InAll + n
    BY <1>1, <1>4, <1>9, <2>1 DEF BookedInv, Unexcused, InAll
  <2>6. Unexcused' => pos' <= InAll' + Unbooked'
    BY <1>1, <1>6, <1>9, <2>4, <2>5, Between
  <2> QED BY <2>6 DEF BookedInv, InAll
<1> QED BY <1>7, <1>10, <1>13, <1>14 DEF NakedInv
LEMMA AtLeast == \A p, a \in Nat : p <= a + p
OBVIOUS

\* Adoption books what is held at the stop it finds: with nothing to excuse it that is the
\* position the run began with, which its one stop was for.
LEMMA NakedAdopts ==
    ASSUME Base, StartPass, Adopts
    PROVE  NakedInv'
<1>1. /\ TypeInv /\ ControlInv /\ TypeInv' /\ ControlInv' /\ PlanInv /\ OwnInv /\ BookedInv
      /\ CoverInv /\ OidsUnique /\ pos \in Nat /\ pos \in Int /\ IsFiniteSet(triggers)
  BY AsInt DEF Base, NakedInv, LedgerInv, CoverInv, TypeInv, BookTypeOK
<1>2. At("idle") /\ UNCHANGED <<bookVars, past>>
  BY <1>1, StartPassEffect
<1>3. PICK stop \in Farthest : \E take \in Nearest(stop) :
          /\ Grows(Adopted(stop, take)) /\ OpenRows = {} /\ OpenRows' = {Slice'}
          /\ pass' = Manage({Slice'}, pos)
  BY <1>1, AdoptsEffect
<1>4. PICK take \in Nearest(stop) :
          /\ Grows(Adopted(stop, take)) /\ OpenRows = {} /\ OpenRows' = {Slice'}
          /\ pass' = Manage({Slice'}, pos)
  BY <1>3
<1>5. PICK row : row = Adopted(stop, take) /\ Grows(row)
  BY <1>4
<1>6. stop \in Stops /\ stop.oid # NoOid
  BY <1>1, AdoptedTyped, StopFacts DEF NoOid
<1>7. row.size = pos /\ row.sl_oid = stop.oid /\ row.status = "open"
  BY <1>5 DEF Adopted, NewRow
<1>8. pass'.at = "manage" /\ pass'.phase = "manage" /\ pass'.flat = FALSE
  BY <1>4 DEF Manage
<1>9. PICK s : s = Slice'
  OBVIOUS
<1>10. /\ DOMAIN rows' = DOMAIN rows \cup {s} /\ rows'[s] = row /\ OpenRows' = {s} /\ OpenRows = {}
  BY <1>4, <1>5, <1>9 DEF Grows
<1>11. /\ Active' = {s} /\ Share(s)' = pos /\ Booked(s)' = pos
       /\ Bare' = 0 /\ Unbooked' = 0 /\ Bare = 0
       /\ pass'.at \notin Leaving \cup Replacing \cup SliceHeld
  <2>1. pass'.at \notin OnItsWay
    BY <1>8 DEF OnItsWay, Relieved, SliceStages
  <2>2. Bare = 0
    BY <1>2 DEF Bare, At
  <2> QED BY <1>7, <1>10, <2>1, <2>2, AtHomeNext
<1>12. PlanInv'
  BY <1>8 DEF PlanInv, CloseWhole, FlatSeen, At, Stopping
<1>13. OwnInv'
  <2>1. FreshOid' /\ PlacedSize'
    BY <1>11 DEF FreshOid, PlacedSize
  <2>2. OwnOids'
    BY <1>11 DEF OwnOids
  <2>3. OidRecorded'
    BY <1>6, <1>7, <1>10, <1>11, <1>8 DEF OidRecorded
  <2> QED BY <2>1, <2>2, <2>3 DEF OwnInv
<1>14. pos' = pos /\ Stops' = Stops /\ IsFiniteSet(triggers')
  BY <1>1, <1>2, PosStays DEF Stops
<1>15. CoverInv'
  <2>1. ASSUME Unexcused' PROVE Looser(NoOid, 0)
    <3>1. pos = 0 \/ Pristine
      BY <1>1, <1>2, <1>10, <2>1, NoRowsNothingHeld DEF At, Unexcused
    <3>2. pos # 0
      <4>1. pos > 0
        BY DEF Adopts
      <4>2. \A n \in Nat : n > 0 => n # 0
        OBVIOUS
      <4> QED BY <1>1, <4>1, <4>2
    <3>3. \A t \in Stops : t.size = pos
      BY <3>1, <3>2 DEF Pristine, Stops
    <3>4. \A t \in Stops : t.size <= Share(s)'
      BY <1>1, <1>11, <3>3, AsInt
    <3> QED BY <1>11, <3>4 DEF Looser
  <2>2. pos' + Bare <= pos + Bare' /\ Bare \in Nat /\ Bare' \in Nat
    BY <1>1, <1>11, <1>14, BareMoves
  <2> QED BY <1>1, <1>2, <1>14, <2>1, <2>2, CoverKept
<1>16. BookedInv'
  <2>1. PICK n \in Nat : n = pos
    BY <1>1
  <2>2. \A q \in DOMAIN rows : Booked(q) = 0 /\ Booked(q)' \in Nat
    BY <1>1, <1>10, BookedFacts, BookedNext
  <2>3. \A q \in DOMAIN rows : Booked(q) <= Booked(q)'
    BY <2>2, AsInt
  <2>4. InAll + n <= InAll' /\ InAll \in Nat /\ InAll' \in Nat
    BY <1>1, <1>5, <1>9, <1>11, <2>1, <2>3, BookedGrown
  <2>5. pos' <= InAll + n
    BY <1>1, <1>14, <2>1, <2>4, AtLeast
  <2>6. pos' <= InAll' + Unbooked'
    BY <1>1, <1>11, <1>14, <2>4, <2>5, Between
  <2> QED BY <2>6 DEF BookedInv, InAll
<1> QED BY <1>12, <1>13, <1>15, <1>16 DEF NakedInv

LEMMA NakedStays ==
    ASSUME Base, UNCHANGED vars
    PROVE  NakedInv'
<1>1. UNCHANGED <<rows, pass, past, pos, triggers>> /\ UNCHANGED bookVars
  BY DEF vars, deskVars, bookVars
<1>2. pos' <= pos /\ Stops' = Stops /\ IsFiniteSet(triggers')
  BY <1>1, PosStays, NoneToCome DEF Base, Stops
<1>3. Pristine => Pristine'
  BY <1>1 DEF Pristine, At
<1> QED BY <1>1, <1>2, <1>3, StandingNaked

LEMMA NakedNext ==
    ASSUME Base, [Next]_vars
    PROVE  NakedInv'
<1>1. CASE StartPass
  BY <1>1, NakedStart, NakedAdopts
<1>2. CASE PassOver \/ Holds \/ LogAction \/ Claim \/ Release
  BY <1>2, NakedManage
<1>3. CASE Judge \/ StartResolve \/ Resolve
  BY <1>3, NakedJudge, NakedStartResolve, NakedResolve
<1>4. CASE PlaceStop \/ CancelStop \/ BookStopOid
  BY <1>4, NakedPlaceStop, NakedCancelStop, NakedBookStopOid
<1>5. CASE PlaceTake \/ CancelTake
  BY <1>5, NakedTakes
<1>6. CASE BookStop \/ BookTake \/ BookTakeOid \/ BookScale
  BY <1>6, NakedRebooked
<1>7. CASE OrderScale \/ OrderClose \/ OrderAdd \/ OrderResolve
  BY <1>7, NakedOrderScale, NakedOrderClose, NakedOrderAdd, NakedOrderResolve
<1>8. CASE OpenSlice \/ SliceStop \/ SliceTake \/ SliceOids
  BY <1>8, NakedOpenSlice, NakedSliceStop, NakedSliceTake, NakedSliceOids
<1>9. CASE SliceClose \/ SliceCancel \/ SliceAbort
  BY <1>9, NakedSliceClose, NakedSliceCancel, NakedSliceAbort
<1>10. CASE BookClose \/ CancelRow \/ Sweep
  BY <1>10, NakedBookClose, NakedCancelRow, NakedSweep
<1>11. CASE EndPass \/ Dies \/ IntervalPasses \/ Reconcile \/ Clears \/ Moves
  BY <1>11, NakedAround
<1>12. CASE TriggerFires
  BY <1>12, NakedFires
<1>13. CASE UNCHANGED vars
  BY <1>13, NakedStays
<1> QED BY <1>1, <1>2, <1>3, <1>4, <1>5, <1>6, <1>7, <1>8, <1>9, <1>10, <1>11, <1>12, <1>13
    DEF Next, Step

LEMMA NakedInit ==
    ASSUME Init
    PROVE  NakedInv
<1> DEFINE stop == [oid |-> 1, kind |-> "stop", level |-> InitialStop, size |-> Size]
           take == [oid |-> 2, kind |-> "take", level |-> Target, size |-> Size]
           row == NewRow(Entry, InitialStop, Target, Size, 1, 2)
<1>0. /\ stop.oid = 1 /\ stop.kind = "stop" /\ stop.size = Size /\ take.kind = "take"
      /\ row.size = Size /\ row.sl_oid = 1 /\ row.status = "open"
  BY DEF NewRow
<1>1. TypeInv /\ ControlInv /\ Size \in Nat /\ pos = Size
  BY ControlInit, Constants DEF Init
<1>2. \/ triggers = {stop, take} /\ rows = <<row>>
      \/ triggers = {stop} /\ rows = <<>>
  BY DEF Init
<1>3. At("idle") /\ pass = Idle
  BY DEF Init, At, Idle
<1> HIDE DEF stop, take, row
<1>4. Stops = {stop} /\ IsFiniteSet(triggers)
  <2>1. IsFiniteSet({stop, take}) /\ IsFiniteSet({stop})
    BY FS_EmptySet, FS_AddElement, FS_Singleton, FS_Union
  <2> QED BY <1>0, <1>2, <2>1 DEF Stops
<1>5. \A r \in DOMAIN rows : r = 1 /\ rows[r] = row
  BY <1>2
<1>6. Active = OpenRows /\ OpenRows \subseteq DOMAIN rows /\ Bare = 0 /\ Unbooked = 0
  BY <1>3 DEF Active, OpenRows, Bare, Unbooked, At
<1>7. \A r \in DOMAIN rows : Share(r) = Size
  BY <1>0, <1>3, <1>5 DEF Share, Relieved, At
<1>8. CoverInv
  <2> DEFINE w == [t \in Stops |-> Size]
  <2>1. w \in [Stops -> Nat] /\ \A t \in Stops : w[t] = Size
    BY <1>1
  <2>2. w[stop] = Size
    BY <1>4
  <2>3. IntsOn(w, {stop}) /\ IsFiniteSet({stop}) /\ stop \in {stop} /\ \A t \in {stop} : w[t] >= 0
    <3>1. Size \in Int /\ Size >= 0
      BY <1>1
    <3>2. \A t \in {stop} : w[t] = Size
      BY <1>4, <2>1
    <3> QED BY <3>1, <3>2, FS_Singleton DEF IntsOn
  <2> HIDE DEF w
  <2>4. SumFunctionOnSet(w, {stop}) >= Size /\ SumFunctionOnSet(w, {stop}) \in Int
    BY <2>2, <2>3, SumReaches, SumIsInt
  <2>5. Backs(w)
    <3>1. Size <= Size
      BY <1>1, AsInt
    <3>2. ASSUME NEW t \in Stops
          PROVE  /\ w[t] <= t.size
                 /\ \A r \in Active : t.oid = rows[r].sl_oid => w[t] <= Share(r)
                 /\ pass.at \in Leaving /\ t.oid = pass.oid => w[t] = 0
      <4>1. w[t] = Size /\ t.size = Size
        BY <1>0, <1>4, <2>1
      <4> QED BY <1>3, <1>6, <1>7, <3>1, <4>1 DEF Leaving, At
    <3> QED BY <2>1, <3>2 DEF Backs
  <2>6. Size <= SumFunctionOnSet(w, {stop}) + 0
    BY <1>1, <2>4
  <2>7. pos <= SumFunctionOnSet(w, Stops) + Bare
    BY <1>1, <1>4, <1>6, <2>6
  <2> QED BY <1>4, <2>5, <2>7 DEF CoverInv, Covered
<1>9. OwnInv
  <2>1. OwnOids
    BY <1>5, <1>6 DEF OwnOids
  <2>2. FreshOid /\ PlacedSize
    BY <1>3 DEF FreshOid, PlacedSize, Replacing, SliceHeld, At
  <2>3. OidRecorded
    BY <1>0, <1>3, <1>5, <1>6 DEF OidRecorded, Replacing, NoOid, At
  <2> QED BY <2>1, <2>2, <2>3 DEF OwnInv
<1>10. PlanInv
  BY <1>3 DEF PlanInv, CloseWhole, FlatSeen, Stopping, At
<1>11. BookedInv
  <2>1. CASE rows = <<>>
    <3>1. triggers = {stop}
      BY <1>2, <2>1
    <3> QED BY <1>0, <1>1, <1>3, <2>1, <3>1 DEF BookedInv, Pristine
  <2>2. CASE rows = <<row>>
    <3>1. 1 \in DOMAIN rows /\ rows[1] = row
      BY <2>2
    <3>2. Booked(1) = Size
      BY <1>0, <1>3, <3>1 DEF Booked, Open, At
    <3>3. IsFiniteSet(DOMAIN rows) /\ IntsOn(BookedRows, DOMAIN rows) /\ BookedRows[1] = Size
          /\ \A q \in DOMAIN rows : BookedRows[q] \in Nat
      BY <1>1, <3>1, <3>2, InAllIs, BookedFacts
    <3>4. \A q \in DOMAIN rows : BookedRows[q] >= 0
      BY <3>3
    <3>5. InAll >= Size /\ InAll \in Int
      BY <3>1, <3>3, <3>4, SumReaches, SumIsInt DEF InAll
    <3>6. Size <= InAll + 0
      BY <1>1, <3>5
    <3>7. pos <= InAll + Unbooked
      BY <1>1, <1>6, <3>6
    <3> QED BY <3>7 DEF BookedInv, InAll
  <2> QED BY <1>2, <2>1, <2>2
<1> QED BY <1>8, <1>9, <1>10, <1>11 DEF NakedInv

\* What backs the position is no more than what the resting stops close.
LEMMA NakedHolds ==
    ASSUME TypeInv, ControlInv, NakedInv
    PROVE  NeverNaked
<1> SUFFICES ASSUME ~CutOff, Unexcused PROVE Stopped = pos
  BY DEF NeverNaked, Unexcused
<1>1. IsFiniteSet(triggers) /\ pos \in Nat /\ Bare = 0
  BY DEF NakedInv, CoverInv, TypeInv, BookTypeOK, CutOff, Bare, At
<1>2. PICK w : Backs(w) /\ pos <= SumFunctionOnSet(w, Stops) + 0
  BY <1>1 DEF NakedInv, CoverInv, Covered
<1> DEFINE sizes == [t \in Stops |-> t.size]
<1>3. w \in [Stops -> Nat] /\ \A t \in Stops : w[t] <= t.size
  BY <1>2 DEF Backs
<1>4. \A t \in Stops : sizes[t] = t.size /\ t.size \in Nat
  BY <1>1, StopFacts
<1>5. SumFunction(sizes) = SumFunctionOnSet(sizes, Stops)
  BY DEF SumFunction
<1>6. Stopped = Smaller(pos, SumFunction(sizes))
  BY DEF Stopped
<1> HIDE DEF sizes
<1>7. IsFiniteSet(Stops) /\ IntsOn(w, Stops) /\ IntsOn(sizes, Stops)
  BY <1>1, <1>3, <1>4, StopFacts DEF IntsOn
<1>8. /\ SumFunctionOnSet(w, Stops) <= SumFunctionOnSet(sizes, Stops)
      /\ SumFunctionOnSet(w, Stops) \in Int /\ SumFunctionOnSet(sizes, Stops) \in Int
  BY <1>3, <1>4, <1>7, SumAtMost, SumIsInt
<1>9. pos <= SumFunctionOnSet(sizes, Stops)
  BY <1>1, <1>2, <1>8
<1> QED BY <1>5, <1>6, <1>9 DEF Smaller

\* The position is never naked: at every step of every pass the resting stops close the whole
\* of it, whatever is refused and wherever the process dies, but for an add on its way to its
\* own stop or cut off on it, and a close that was booked for more than it filled.
THEOREM PositionIsCovered == Spec => []NeverNaked
<1> DEFINE Inv == TypeInv /\ ControlInv /\ AmbushInv /\ LedgerInv /\ NakedInv
<1>1. Init => Inv
  BY ControlInit, AmbushInit, LedgerInit, NakedInit
<1>2. Inv /\ [Next]_vars => Inv'
  <2> SUFFICES ASSUME Inv, [Next]_vars PROVE Inv'
    OBVIOUS
  <2>1. TypeInv' /\ ControlInv' /\ AmbushInv' /\ LedgerInv'
    BY TypeInvNext, AmbushNext, LedgerNext
  <2>2. NakedInv'
    BY <2>1, NakedNext DEF Base
  <2> QED BY <2>1, <2>2
<1>3. Inv => NeverNaked
  BY NakedHolds
<1> QED BY <1>1, <1>2, <1>3, PTL DEF Spec

=============================================================================
