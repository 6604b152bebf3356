-------------------------------- MODULE MCNode --------------------------------
(* An instance of AutoApprove, Accounts and Dashboard for TLC.  The three   *)
(* share no state: a behaviour takes the steps of one of them.             *)
EXTENDS AutoApprove, Accounts, Dashboard

NodeInit == AutoInit /\ AccountsInit /\ DashInit

AutoRests == autoVars = <<FALSE, <<>>, [c \in Caller |-> NoRequest], FALSE>>
AccountsRest ==
    accountVars = <<[u \in User |-> Unused], [h \in Handler |-> NoHandler]>>
DashRests ==
    dashVars = <<0, 0, 0, [x \in Fetch |-> NotFetching], Nothing, Nothing, 0>>

NodeNext ==
    \/ AutoNext /\ AccountsRest /\ DashRests /\ UNCHANGED <<accountVars, dashVars>>
    \/ AccountsNext /\ AutoRests /\ DashRests /\ UNCHANGED <<autoVars, dashVars>>
    \/ DashNext /\ AutoRests /\ AccountsRest /\ UNCHANGED <<autoVars, accountVars>>

NodeSpec == NodeInit /\ [][NodeNext]_<<autoVars, accountVars, dashVars>>
===============================================================================
