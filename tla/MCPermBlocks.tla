----------------------------- MODULE MCPermBlocks -----------------------------
(* Instances of PermBlocks for TLC. *)
EXTENDS PermBlocks

MCIP == {"10.0.0.1", "10.0.0.10", "10.0.0.7"}

\* 10.0.0.1 is part of the text of 10.0.0.10.
MCTextIn == {<<ip, ip>> : ip \in IP} \cup {<<"10.0.0.1", "10.0.0.10">>}
===============================================================================
