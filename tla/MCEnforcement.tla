---------------------------- MODULE MCEnforcement -----------------------------
(* Instances of Enforcement for TLC: one attacker, one target. *)
EXTENDS Enforcement

\* One decision of each kind of effect: a set element that expires, one rule
\* by handle, two rules by handle.
MCDecision ==
    {[action |-> a[1], cat |-> a[2], src |-> "attacker", dst |-> "target"] :
        a \in {<<"temp_block", "dos">>, <<"rate_limit", "dos">>, <<"ddos", "ddos">>}}
===============================================================================
