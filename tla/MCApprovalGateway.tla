-------------------------- MODULE MCApprovalGateway ---------------------------
(* Instances of ApprovalGateway for TLC. *)
EXTENDS ApprovalGateway

From(s) == [src |-> s, dst |-> "t"]

DecisionOn(f, action, cat) == [action |-> action, cat |-> cat, src |-> f.src, dst |-> f.dst]

\* Two sources of one DDoS; one of them also runs a DoS.
MCFlow == {From("s1"), From("s2")}

MCDecision ==
    {DecisionOn(From("s1"), "ddos", "ddos"), DecisionOn(From("s2"), "ddos", "ddos"),
     DecisionOn(From("s1"), "temp_block", "dos")}
===============================================================================
