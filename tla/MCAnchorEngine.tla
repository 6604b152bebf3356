---------------------------- MODULE MCAnchorEngine -----------------------------
(* An instance of AnchorEngine for TLC: two sources, a target and a trusted *)
(* address.                                                                 *)
EXTENDS AnchorEngine

Syn(src, dst, port) ==
    [src |-> src, dst |-> dst, port |-> port, rate |-> 2, syn |-> TRUE,
     resp |-> FALSE]

\* Floods from two sources, one of which also scans, a flow from a trusted
\* address, and an answer of the victim.
MCFlows ==
    {Syn("a", "v", 1), Syn("a", "v", 2), Syn("b", "v", 1), Syn("cdn", "v", 1),
     [src |-> "v", dst |-> "a", port |-> 3, rate |-> 1, syn |-> FALSE,
      resp |-> TRUE]}
===============================================================================
