------------------------------ MODULE LiveBook ------------------------------
(***************************************************************************)
(* The exchange as the executor meets it on a live network                 *)
(* (hlcli/exchange/hyperliquid.py and the exchange behind it).  An entry is *)
(* addressed by its candidate, because its cloid is derived from the       *)
(* candidate id.  A candidate's slice is the position its entry opened:    *)
(* flat, naked (no stop rests for it) or covered (its SL and TP rest).     *)
(*                                                                         *)
(* The exchange itself is external: what each call may answer is what the  *)
(* code in hlcli handles or leaves unhandled, never more.                  *)
(***************************************************************************)
EXTENDS Candidates, Integers, FiniteSets

CONSTANT
    RestingMayFill   \* may an entry found resting fill before it is cancelled?

ASSUME BookAssumption == RestingMayFill \in BOOLEAN

VARIABLES
    entry,    \* the entry order under the candidate's cloid
    entered,  \* how many entry orders of the candidate have filled
    slice     \* the position those fills left

bookVars == <<entry, entered, slice>>

BookTypeOK ==
    /\ entry \in [Cands -> {"none", "resting", "filled"}]
    /\ entered \in [Cands -> Nat]
    /\ slice \in [Cands -> {"flat", "naked", "covered"}]

BookInit ==
    /\ entry = [c \in Cands |-> "none"]
    /\ entered = [c \in Cands |-> 0]
    /\ slice = [c \in Cands |-> "flat"]

\* get_positions, reduced to the coins held.
Live == {c \in Cands : slice[c] # "flat"}
LiveCoins == {CoinOf[c] : c \in Live}

-----------------------------------------------------------------------------
\* The entry fills, wholly or in part: a naked position appears.
Fill(c) ==
    /\ entry' = [entry EXCEPT ![c] = "filled"]
    /\ entered' = [entered EXCEPT ![c] = @ + 1]
    /\ slice' = [slice EXCEPT ![c] = "naked"]

\* The entry is on the book unfilled; an earlier fill under the same cloid
\* stays what the status query reports.
Rest(c) ==
    /\ entry' = [entry EXCEPT ![c] = IF @ = "filled" THEN @ ELSE "resting"]
    /\ UNCHANGED <<entered, slice>>

\* A resting entry fills on its own.
RestingFills(c) ==
    /\ RestingMayFill
    /\ entry[c] = "resting"
    /\ Fill(c)

\* cancel: a resting order goes; one that filled is past cancelling, and the
\* call reports that in a result, not by raising.
CancelEntry(c) ==
    /\ entry' = [entry EXCEPT ![c] = IF @ = "resting" THEN "none" ELSE @]
    /\ UNCHANGED <<entered, slice>>

\* A position closes without the executor: a native trigger fires, it is
\* liquidated, or someone flattens it by hand.
ExternalClose(c) ==
    /\ c \in Live
    /\ slice' = [slice EXCEPT ![c] = "flat"]
    /\ UNCHANGED <<entry, entered>>

\* Both protective triggers rest on the book.
Cover(c) ==
    /\ slice' = [slice EXCEPT ![c] = IF @ = "naked" THEN "covered" ELSE @]
    /\ UNCHANGED <<entry, entered>>

\* Triggers of these slices are cancelled: what is still held is naked.
Uncover(S) ==
    /\ slice' = [c \in Cands |->
                   IF c \in S /\ slice[c] = "covered" THEN "naked" ELSE slice[c]]
    /\ UNCHANGED <<entry, entered>>

\* A reduce-only market order of the slice's size fills in full.  The exchange
\* knows one position per coin: if the slice is gone already, the order eats
\* into another slice of the coin.
Eaten(c) == IF c \in Live THEN {c} ELSE Live \cap SameCoin(c)

Flatten(c) ==
    /\ \E d \in Eaten(c) : slice' = [slice EXCEPT ![d] = "flat"]
    /\ UNCHANGED <<entry, entered>>
=============================================================================
