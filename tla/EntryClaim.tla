----------------------------- MODULE EntryClaim -----------------------------
(***************************************************************************)
(* What the executor promises about entries (hlcli/executor/execute.py,    *)
(* hlcli/state/store.py): a candidate is claimed before its entry is sent, *)
(* a claim is given back only if nothing reached the book, and a candidate *)
(* that has entered never enters again.  How many processes there are, how *)
(* often they look, and when they die is none of this module's business.   *)
(***************************************************************************)
CONSTANT Cands

VARIABLE fate   \* "free", "claimed" or "entered", per candidate

Init == fate = [c \in Cands |-> "free"]

Moves(c, from, to) ==
    /\ fate[c] = from
    /\ fate' = [fate EXCEPT ![c] = to]

ClaimIt(c) == Moves(c, "free", "claimed")
GiveBack(c) == Moves(c, "claimed", "free")
Enter(c) == Moves(c, "claimed", "entered")

Next == \E c \in Cands : ClaimIt(c) \/ GiveBack(c) \/ Enter(c)

Spec == Init /\ [][Next]_fate
=============================================================================
