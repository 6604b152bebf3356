------------------------------ MODULE MCMitigation ----------------------------
(* Instances of Mitigation for TLC: one attacker and one target. *)
EXTENDS Mitigation

OneFlow == {[src |-> "s", dst |-> "t"]}

DecisionTo(action, cat) == [action |-> action, cat |-> cat, src |-> "s", dst |-> "t"]

\* A DoS limit: one rule by handle, which nft may refuse.
MCDos == {DecisionTo("rate_limit", "dos")}
===============================================================================
