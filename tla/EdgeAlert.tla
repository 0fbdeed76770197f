------------------------------ MODULE EdgeAlert ------------------------------
(***************************************************************************)
(* Alerts on a change of state (hlcli/executor/runner.py, _alert_halt,     *)
(* _alert_unmanaged, _alert_liquidation_near): what a condition looked     *)
(* like when it was last seen is a row of the meta table; a pass that sees *)
(* something else first alerts and then records it, so that a lingering    *)
(* danger pages once.  A fingerprint is the set of what is wrong.          *)
(***************************************************************************)
EXTENDS Integers

CONSTANT Conditions   \* what is watched

VARIABLES
    known,   \* the recorded fingerprint of each condition
    told,    \* what the operator was last told of it
    unrecorded,   \* conditions whose last alert is not recorded: history
    pages    \* how often the operator was paged: history

alertVars == <<known, told, unrecorded, pages>>

AlertInit ==
    /\ known = [c \in Conditions |-> {}]
    /\ told = [c \in Conditions |-> {}]
    /\ unrecorded = {}
    /\ pages = 0

IsNews(c, seen) == seen # known[c]

Page(c, seen) ==
    /\ told' = [told EXCEPT ![c] = seen]
    /\ unrecorded' = unrecorded \cup {c}
    /\ pages' = pages + 1
    /\ UNCHANGED known

\* What is recorded as over re-arms the alert: the operator's picture is void.
Remember(c, seen) ==
    /\ known' = [known EXCEPT ![c] = seen]
    /\ told' = IF seen = {} THEN [told EXCEPT ![c] = {}] ELSE told
    /\ unrecorded' = unrecorded \ {c}
    /\ UNCHANGED pages
=============================================================================
