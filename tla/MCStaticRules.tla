---------------------------- MODULE MCStaticRules ----------------------------
(* Instances of StaticRules for TLC: two static rules and a NAT rule. *)
EXTENDS StaticRules, TLC

CONSTANTS r1, r2, n, nobody, a, b

InTheirTables == [d \in Doc |-> IF d = n THEN "nk_nat" ELSE "filter"]

Interchangeable == Permutations({r1, r2}) \cup Permutations(Slot)
==============================================================================
