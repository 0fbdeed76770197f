----------------------------- MODULE Promotion -----------------------------
(***************************************************************************)
(* Proposals of the tuner and what becomes of them (hlcli/tuner/promote.py *)
(* ): a proposal file, the active file beside it and the append-only audit *)
(* trail.  `promote` runs in the agent's daily job on paper and as         *)
(* `hl tune promote` by hand; each file operation is a step of its own.    *)
(* One kind of proposal is modelled, the config and the prompt being       *)
(* treated alike.  A version is the number of the tuner run that wrote it, *)
(* 0 the hand-made first one.                                              *)
(***************************************************************************)
EXTENDS Integers, Sequences

CONSTANT Promoters   \* those who run promote

VARIABLES
    written,    \* number of the newest version any tuner run wrote
    proposed,   \* the version in the proposal file, or NoFile
    active,     \* the version in the active file
    promo,      \* what each promoter has read and has to do next
    audit       \* versions in the audit trail

promotionVars == <<written, proposed, active, promo, audit>>

NoFile == 0
Idle == [next |-> "idle", version |-> NoFile]

PromotionTypeOK ==
    /\ written \in Nat
    /\ proposed \in Nat
    /\ active \in Nat
    /\ promo \in [Promoters -> [next    : {"idle", "live", "unlink", "record"},
                                version : Nat]]
    /\ audit \in Seq(Nat)

PromotionInit ==
    /\ written = 0
    /\ proposed = NoFile
    /\ active = 0
    /\ promo = [p \in Promoters |-> Idle]
    /\ audit = <<>>

\* write_proposed_config: whatever was proposed before is overwritten.
WriteProposal ==
    /\ written' = written + 1
    /\ proposed' = written'
    /\ UNCHANGED <<active, promo, audit>>

ReadProposal(p) ==
    /\ promo[p].next = "idle"
    /\ proposed # NoFile
    /\ promo' = [promo EXCEPT ![p] = [next |-> "live", version |-> proposed]]
    /\ UNCHANGED <<written, proposed, active, audit>>

GoLive(p) ==
    /\ promo[p].next = "live"
    /\ active' = promo[p].version
    /\ promo' = [promo EXCEPT ![p].next = "unlink"]
    /\ UNCHANGED <<written, proposed, audit>>

\* Slip: the proposal is left where it was.
ConsumeNothing(p) ==
    /\ promo[p].next = "unlink"
    /\ proposed # NoFile
    /\ promo' = [promo EXCEPT ![p].next = "record"]
    /\ UNCHANGED <<written, proposed, active, audit>>

\* unlink takes whatever file is there.
Consume(p) ==
    /\ promo[p].next = "unlink"
    /\ proposed # NoFile
    /\ proposed' = NoFile
    /\ promo' = [promo EXCEPT ![p].next = "record"]
    /\ UNCHANGED <<written, active, audit>>

\* Another promoter was faster: unlink raises, before the audit row.
ConsumeRaises(p) ==
    /\ promo[p].next = "unlink"
    /\ proposed = NoFile
    /\ promo' = [promo EXCEPT ![p] = Idle]
    /\ UNCHANGED <<written, proposed, active, audit>>

Record(p) ==
    /\ promo[p].next = "record"
    /\ audit' = Append(audit, promo[p].version)
    /\ promo' = [promo EXCEPT ![p] = Idle]
    /\ UNCHANGED <<written, proposed, active>>

\* A promoter dies, or a file operation raises: what it knew is gone.
Forget(p) ==
    /\ promo' = [promo EXCEPT ![p] = Idle]
    /\ UNCHANGED <<written, proposed, active, audit>>
=============================================================================
