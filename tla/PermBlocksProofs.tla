--------------------------- MODULE PermBlocksProofs ---------------------------
(***************************************************************************)
(* What holds of the permanent block list for every set of addresses,      *)
(* every textual overlap between them and every way nft may fail.          *)
(***************************************************************************)
EXTENDS PermBlocks, TLAPS

(* The steps of the operation under way and what they have written so far: *)
(* an address being blocked is in the list about to be dumped, and only an *)
(* unblock drops an acknowledged address from that list.                   *)
OpInv ==
    /\ pc \in {"idle", "down"} => op = NoOp
    /\ pc \in {"truncate", "dump"} => op # NoOp
    /\ pc \in {"truncate", "dump"} /\ op.kind = "block" => op.ip \in buf

(* The rewrite under way moves the file's list by the one address at hand, *)
(* and between truncation and dump the file is empty.                      *)
RewriteInv ==
    /\ pc = "truncate" /\ op.kind = "block" => buf = file \cup {op.ip}
    /\ pc = "truncate" /\ op.kind = "unblock" => buf = file \ {op.ip}
    /\ pc = "dump" => file = {}

(* The list about to be dumped carries every acknowledged block but the    *)
(* one being deleted, and so does the file as long as it is intact.        *)
ListInv ==
    ~torn =>
        /\ pc # "dump" => acked \subseteq file
        /\ pc \in {"truncate", "dump"} =>
            \A ip \in acked : ip \in buf \/ op = [kind |-> "unblock", ip |-> ip]

IInv == TypeOK /\ OpInv /\ RewriteInv /\ ListInv

-------------------------------------------------------------------------------
(* The state the program starts from satisfies the strengthening.          *)
LEMMA InitEstablishes == Init => IInv
<1> SUFFICES ASSUME Init PROVE IInv
  OBVIOUS
<1>1. PICK t \in BootRuleset : table = t /\ bootFile = [table |-> t, kern |-> {}]
  BY DEF Init
<1>2. t \in TableState
  BY BootAssumption DEF TableState
<1>3. bootFile \in [table : TableState, kern : SUBSET IP]
  BY <1>1, <1>2
<1>4. TypeOK
  BY <1>1, <1>2, <1>3 DEF Init, TypeOK, PC, NoOp
<1>5. OpInv /\ RewriteInv /\ ListInv
  BY DEF Init, OpInv, RewriteInv, ListInv
<1> QED BY <1>4, <1>5 DEF IInv

(* No step leaves the types: nft's failures and a crash included.          *)
LEMMA TypeStep == TypeOK /\ [Next]_vars => TypeOK'
<1> SUFFICES ASSUME TypeOK, [Next]_vars PROVE TypeOK'
  OBVIOUS
<1> USE DEF TypeOK, TableState, PC, NoOp
<1>1. ASSUME NEW ip \in IP, AddPermBlock(ip) PROVE TypeOK'
  BY <1>1 DEF AddPermBlock, AddToSet, ListWith
<1>2. ASSUME NEW ip \in IP, DeletePermBlock(ip) PROVE TypeOK'
  BY <1>2 DEF DeletePermBlock, ListWithout
<1>3. CASE Truncate
  BY <1>3 DEF Truncate
<1>4. CASE Dump
  BY <1>4 DEF Dump
<1>5. CASE StartAgent
  BY <1>5 DEF StartAgent, RestoreIntoTable, RestoreIntoBareTable, CreatePermTable, Restored
<1>6. CASE Crash
  BY <1>6 DEF Crash
<1>7. CASE Reboot
  BY <1>7 DEF Reboot
<1>8. CASE SaveRules
  BY <1>8 DEF SaveRules
<1>9. CASE UNCHANGED vars
  BY <1>9 DEF vars
<1> QED BY <1>1, <1>2, <1>3, <1>4, <1>5, <1>6, <1>7, <1>8, <1>9 DEF Next

(* The strengthening is inductive: only Truncate empties the file, and it  *)
(* does so with the whole list already in memory.                          *)
LEMMA ListStep == IInv /\ [Next]_vars => OpInv' /\ RewriteInv' /\ ListInv'
<1> SUFFICES ASSUME IInv, [Next]_vars PROVE OpInv' /\ RewriteInv' /\ ListInv'
  OBVIOUS
<1> USE DEF IInv, TypeOK, OpInv, RewriteInv, ListInv, PC, NoOp
<1>1. ASSUME NEW ip \in IP, AddPermBlock(ip) PROVE OpInv' /\ RewriteInv' /\ ListInv'
  BY <1>1 DEF AddPermBlock, ListWith
<1>2. ASSUME NEW ip \in IP, DeletePermBlock(ip) PROVE OpInv' /\ RewriteInv' /\ ListInv'
  BY <1>2 DEF DeletePermBlock, ListWithout
<1>3. CASE Truncate
  BY <1>3 DEF Truncate
<1>4. CASE Dump
  BY <1>4 DEF Dump
<1>5. CASE StartAgent
  BY <1>5 DEF StartAgent
<1>6. CASE Crash
  BY <1>6 DEF Crash
<1>7. CASE Reboot
  BY <1>7 DEF Reboot
<1>8. CASE SaveRules
  BY <1>8 DEF SaveRules
<1>9. CASE UNCHANGED vars
  BY <1>9 DEF vars
<1> QED BY <1>1, <1>2, <1>3, <1>4, <1>5, <1>6, <1>7, <1>8, <1>9 DEF Next

(* The strengthening is an invariant of the specification.                 *)
LEMMA Inductive == Spec => []IInv
<1>1. IInv /\ [Next]_vars => IInv'
  BY TypeStep, ListStep DEF IInv
<1> QED BY InitEstablishes, <1>1, PTL DEF Spec

(* Type correctness of the permanent block list.                           *)
THEOREM TypeCorrect == Spec => []TypeOK
<1>1. IInv => TypeOK
  BY DEF IInv
<1> QED BY Inductive, <1>1, PTL

(* The restart's part of the argument: while the agent runs on its own sets *)
(* the block under way and every acknowledged one is in the kernel.        *)
ForceInv ==
    pc # "down" /\ table = "full" /\ ~torn /\ ~nftFailed =>
        /\ op # NoOp /\ op.kind = "block" => op.ip \in kern
        /\ \A ip \in acked : Alone(ip) => InForce(ip)

(* An address whose text is part of no other one's is listed only if it is *)
(* there: the restart adds it when the file holds it and the kernel does   *)
(* not.                                                                    *)
LEMMA RestoredHoldsAlone ==
    ASSUME TypeOK, NEW ip \in file, Alone(ip) PROVE ip \in Restored
  BY DEF Alone, TypeOK, Restored, Listed

(* No step takes an acknowledged block out of force while the agent runs.  *)
LEMMA ForceStep == IInv /\ ForceInv /\ [Next]_vars => ForceInv'
<1> SUFFICES ASSUME IInv, ForceInv, [Next]_vars PROVE ForceInv'
  OBVIOUS
<1> USE DEF IInv, TypeOK, OpInv, ListInv, ForceInv, InForce, PC, NoOp
<1>1. ASSUME NEW ip \in IP, AddPermBlock(ip) PROVE ForceInv'
  BY <1>1 DEF AddPermBlock, AddToSet
<1>2. ASSUME NEW ip \in IP, DeletePermBlock(ip) PROVE ForceInv'
  BY <1>2 DEF DeletePermBlock
<1>3. CASE Truncate
  BY <1>3 DEF Truncate
<1>4. CASE Dump
  BY <1>4 DEF Dump
<1>5. CASE StartAgent
  BY <1>5, RestoredHoldsAlone
     DEF StartAgent, RestoreIntoTable, RestoreIntoBareTable, CreatePermTable
<1>6. CASE Crash
  BY <1>6 DEF Crash
<1>7. CASE Reboot
  BY <1>7 DEF Reboot
<1>8. CASE SaveRules
  BY <1>8 DEF SaveRules
<1>9. CASE UNCHANGED vars
  BY <1>9 DEF vars
<1> QED BY <1>1, <1>2, <1>3, <1>4, <1>5, <1>6, <1>7, <1>8, <1>9 DEF Next

(* add_perm_block's answer can be relied on: every acknowledged block is in *)
(* the file, or in the list about to be dumped into it, unless a crash fell *)
(* in the one window where the file is empty.                              *)
THEOREM AckedRecorded == Spec => []AckedIsRecorded
<1>1. IInv => AckedIsRecorded
  BY DEF IInv, TypeOK, PC, ListInv, AckedIsRecorded, Promised
<1> QED BY Inductive, <1>1, PTL

(* Every acknowledged block whose text is part of no other address's is in  *)
(* force whenever the agent runs on its own sets, whatever other addresses  *)
(* overlap: nothing is assumed of TextIn but that a text contains itself.   *)
THEOREM AckedEnforced == Spec => []AckedIsEnforced
<1>1. Init => ForceInv
  BY DEF Init, ForceInv
<1>2. IInv /\ ForceInv /\ [Next]_vars => ForceInv'
  BY ForceStep
<1>3. ForceInv => AckedIsEnforced
  BY DEF ForceInv, AckedIsEnforced
<1> QED BY Inductive, <1>1, <1>2, <1>3, PTL DEF Spec

-------------------------------------------------------------------------------
(* Every step of the code moves the promised list by one address, loses it *)
(* whole, or leaves it alone.                                              *)
LEMMA StepRefines == IInv /\ [Next]_vars => [Durable!Next]_Promised
<1> SUFFICES ASSUME IInv, [Next]_vars PROVE [Durable!Next]_Promised
  OBVIOUS
<1> USE DEF IInv, TypeOK, OpInv, RewriteInv, PC, NoOp, Promised, Durable!Next,
            Durable!Record, Durable!Forget, Durable!LoseAll
<1>1. ASSUME NEW ip \in IP, AddPermBlock(ip) PROVE [Durable!Next]_Promised
  BY <1>1 DEF AddPermBlock
<1>2. ASSUME NEW ip \in IP, DeletePermBlock(ip) PROVE [Durable!Next]_Promised
  BY <1>2 DEF DeletePermBlock
<1>3. CASE Truncate
  BY <1>3 DEF Truncate
<1>4. CASE Dump
  BY <1>4 DEF Dump
<1>5. CASE StartAgent
  BY <1>5 DEF StartAgent
<1>6. CASE Crash
  BY <1>6 DEF Crash
<1>7. CASE Reboot
  BY <1>7 DEF Reboot
<1>8. CASE SaveRules
  BY <1>8 DEF SaveRules
<1>9. CASE UNCHANGED vars
  BY <1>9 DEF vars
<1> QED BY <1>1, <1>2, <1>3, <1>4, <1>5, <1>6, <1>7, <1>8, <1>9 DEF Next

(* perm_blocks.json, written by truncate-and-dump, is a durable set that a  *)
(* crash leaves alone or loses whole.                                      *)
THEOREM RefinesDurableSet == Spec => ImplementsDurableSet
<1>1. Init => Durable!Init
  BY DEF Init, Durable!Init, Promised
<1> QED BY <1>1, StepRefines, Inductive, PTL
        DEF Spec, ImplementsDurableSet, Durable!Spec
===============================================================================
