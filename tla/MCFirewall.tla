------------------------------ MODULE MCFirewall ------------------------------
(* An instance of StaticRules and PermBlocks for TLC: what both keep in     *)
(* files and in the kernel.  The two share no state: a behaviour takes the  *)
(* steps of one of them.                                                    *)
EXTENDS MCStaticRules, MCPermBlocks

AgentInit == StaticInit /\ Init

AgentNext ==
    \/ Init /\ StaticNext /\ UNCHANGED vars
    \/ StaticInit /\ Next /\ UNCHANGED svars

FirewallSpec == AgentInit /\ [][AgentNext]_<<svars, vars>>
===============================================================================
