----------------------------- MODULE Candidates -----------------------------
(***************************************************************************)
(* What the modules share: the candidates (hlcli/core/types.py Candidate), *)
(* known by their content id, and the coin each one trades.                *)
(***************************************************************************)
EXTENDS FiniteSets

CONSTANTS
    Cands,    \* candidates, by id
    Coins,
    CoinOf    \* Candidate.coin

ASSUME CandidatesAssumption ==
    /\ IsFiniteSet(Cands)
    /\ CoinOf \in [Cands -> Coins]

SameCoin(c) == {d \in Cands : CoinOf[d] = CoinOf[c]}
=============================================================================
