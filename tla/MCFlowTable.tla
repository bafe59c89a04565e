---------------------------- MODULE MCFlowTable ----------------------------
(* Instances of FlowTable for TLC: one stripe, where every key competes for *)
(* the budget of the sweep.                                                 *)
EXTENDS FlowTable
CONSTANTS k1, k2, stripe
OneStripe == [k \in {k1, k2} |-> stripe]
=============================================================================
