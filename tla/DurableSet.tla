------------------------------ MODULE DurableSet ------------------------------
(***************************************************************************)
(* What the permanent block list promises to the rest of the agent: a set  *)
(* of addresses that grows by one when a block is recorded, shrinks by one *)
(* when a block is deleted, and that a crash leaves alone or, at worst,    *)
(* loses as a whole.  No step may lose or add some other part of the list. *)
(***************************************************************************)
CONSTANT IP

VARIABLE blocked

Init == blocked = {}

Record(ip) == blocked' = blocked \cup {ip}

Forget(ip) == blocked' = blocked \ {ip}

LoseAll == blocked' = {}

Next ==
    \/ \E ip \in IP : Record(ip) \/ Forget(ip)
    \/ LoseAll

Spec == Init /\ [][Next]_blocked
===============================================================================
