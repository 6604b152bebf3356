------------------------------ MODULE PermBlocks ------------------------------
(***************************************************************************)
(* The agent's permanent blocks (A3): the nftables set nk_perm_block, the  *)
(* file perm_blocks.json that must outlive a reboot, and the code of       *)
(* enforcement/nft_rules.py that keeps the two together.                   *)
(*                                                                         *)
(* Every operation runs on the agent's event loop without an await, so two *)
(* operations never interleave; what may fall between two of their writes  *)
(* is a crash of the agent, a reboot of the host, or a save of the static  *)
(* ruleset by a thread of the Flask pool.  Rewriting the file truncates it *)
(* (open(path, "w")) before the new content is dumped, and a truncated or  *)
(* half-written file is read back as the empty list, so `file` is the list *)
(* the next read returns.                                                  *)
(***************************************************************************)
EXTENDS FiniteSets

CONSTANTS
    IP,             \* addresses that may be blocked
    TextIn,         \* pairs <<a, b>>: the text of a occurs in the text of b
    BootRuleset,    \* states of table inet filter that /etc/nftables.conf
                    \* may hold before anything was saved
    AddMayFail      \* whether `nft add/delete element` may fail

ASSUME TextInAssumption ==
    /\ TextIn \subseteq IP \X IP
    /\ \A ip \in IP : <<ip, ip>> \in TextIn

ASSUME BootAssumption == BootRuleset \subseteq {"absent", "bare"}

ASSUME FailAssumption == AddMayFail \in BOOLEAN

VARIABLES
    table,      \* table inet filter: "absent", "bare" (without the agent's
                \* sets) or "full"
    kern,       \* elements of the kernel set nk_perm_block
    file,       \* what reading perm_blocks.json returns
    bootFile,   \* what /etc/nftables.conf restores at boot: [table, kern]
    pc,         \* where the agent is in the operation it is executing
    buf,        \* the list about to be dumped
    op,         \* the operation being executed: [kind, ip]
    acked,      \* history: addresses whose block was acknowledged last
    torn,       \* history: a crash fell between truncation and dump
    nftFailed   \* history: nft refused an addition the set could take

vars == <<table, kern, file, bootFile, pc, buf, op, acked, torn, nftFailed>>

TableState == {"absent", "bare", "full"}
PC == {"down", "idle", "truncate", "dump"}

TypeOK ==
    /\ table \in TableState
    /\ kern \subseteq IP
    /\ file \subseteq IP
    /\ bootFile \in [table : TableState, kern : SUBSET IP]
    /\ pc \in PC
    /\ buf \subseteq IP
    /\ op \in [kind : {"none"}] \cup [kind : {"block", "unblock"}, ip : IP]
    /\ acked \subseteq IP
    /\ torn \in BOOLEAN
    /\ nftFailed \in BOOLEAN

NoOp == [kind |-> "none"]

Init ==
    /\ \E t \in BootRuleset :
        /\ table = t
        /\ bootFile = [table |-> t, kern |-> {}]
    /\ kern = {}
    /\ file = {}
    /\ pc = "down"
    /\ buf = {}
    /\ op = NoOp
    /\ acked = {}
    /\ torn = FALSE
    /\ nftFailed = FALSE

-------------------------------------------------------------------------------
(* `nft add element` on the permanent set: it needs the set, adding what is *)
(* already there changes nothing, and the code ignores a failure.           *)
AddToSet(ip) ==
    \/ /\ table = "full"
       /\ kern' = kern \cup {ip}
       /\ UNCHANGED nftFailed
    \/ table # "full" /\ UNCHANGED <<kern, nftFailed>>
    \/ AddMayFail /\ nftFailed' = TRUE /\ UNCHANGED kern

\* The list add_perm_block writes back: what it read, and the address.
ListWith_Overwrites(ip) == {ip}
ListWith(ip) == file \cup {ip}

\* add_perm_block up to the point where the file is opened for writing.
AddPermBlock(ip) ==
    /\ pc = "idle"
    /\ AddToSet(ip)
    /\ buf' = ListWith(ip)
    /\ op' = [kind |-> "block", ip |-> ip]
    /\ pc' = "truncate"
    /\ UNCHANGED <<table, file, bootFile, acked, torn>>

\* The list delete_rule writes back: what it read, less the address.
ListWithout_FromKernel(ip) == kern \ {ip}
ListWithout(ip) == file \ {ip}

\* delete_rule on an element of the permanent set: nothing is rewritten when
\* nft refuses the deletion (element unknown, or nft failed).
DeletePermBlock(ip) ==
    /\ pc = "idle"
    /\ ip \in kern
    /\ kern' = kern \ {ip}
    /\ buf' = ListWithout(ip)
    /\ op' = [kind |-> "unblock", ip |-> ip]
    /\ pc' = "truncate"
    /\ UNCHANGED <<table, file, bootFile, acked, torn, nftFailed>>

\* open(path, "w") in _write_perm_blocks_state.
Truncate ==
    /\ pc = "truncate"
    /\ file' = {}
    /\ pc' = "dump"
    /\ UNCHANGED <<table, kern, bootFile, buf, op, acked, torn, nftFailed>>

\* json.dump and close; the operation then returns to its caller.
Dump ==
    /\ pc = "dump"
    /\ file' = buf
    /\ acked' = IF op.kind = "block" THEN acked \cup {op.ip}
                                     ELSE acked \ {op.ip}
    /\ buf' = {}
    /\ op' = NoOp
    /\ pc' = "idle"
    /\ UNCHANGED <<table, kern, bootFile, torn, nftFailed>>

-------------------------------------------------------------------------------
(* _restore_permanent_blocks: the listing of the set is read once, and an   *)
(* address whose text occurs anywhere in it counts as present.              *)
Listed(ip) == \E shown \in kern : <<ip, shown>> \in TextIn

Restored_Nothing == kern
Restored == kern \cup {ip \in file : ~Listed(ip)}

RestoreIntoTable ==
    /\ table = "full"
    /\ \/ kern' = Restored /\ UNCHANGED nftFailed
       \/ /\ AddMayFail
          /\ kern' \in SUBSET Restored
          /\ kern \subseteq kern'
          /\ nftFailed' = TRUE
    /\ table' = table

\* The agent's sets are missing from an existing table: every add fails.
RestoreIntoBareTable == table = "bare" /\ UNCHANGED <<table, kern, nftFailed>>

\* nft -f of the generated script: all of it or nothing.
CreatePermTable ==
    /\ table = "absent"
    /\ \/ table' = "full" /\ kern' = file
       \/ AddMayFail /\ UNCHANGED <<table, kern>>
    /\ UNCHANGED nftFailed

\* ensure_base_structures, at the start of async_main: an existing table is
\* taken as it is, and a missing one is created with the recorded blocks.
StartAgent ==
    /\ pc = "down"
    /\ pc' = "idle"
    /\ RestoreIntoTable \/ RestoreIntoBareTable \/ CreatePermTable
    /\ UNCHANGED <<file, bootFile, buf, op, acked, torn>>

\* The agent's process dies.  A deletion whose element is gone from the
\* kernel is withdrawn from the promises: its caller got no answer.
Crash ==
    /\ pc # "down"
    /\ pc' = "down"
    /\ torn' = (torn \/ pc = "dump")
    /\ acked' = IF op.kind = "unblock" THEN acked \ {op.ip} ELSE acked
    /\ buf' = {}
    /\ op' = NoOp
    /\ UNCHANGED <<table, kern, file, bootFile, nftFailed>>

\* The host reboots with the agent down: the kernel's tables are gone and
\* nftables.service loads what /etc/nftables.conf holds.
Reboot ==
    /\ pc = "down"
    /\ table' = bootFile.table
    /\ kern' = bootFile.kern
    /\ UNCHANGED <<file, bootFile, pc, buf, op, acked, torn, nftFailed>>

\* save_rules, called by the static firewall in a Flask thread: the table is
\* in the dump when an admin registered it, absent otherwise.
SaveRules ==
    /\ pc # "down"
    /\ bootFile' \in {[table |-> table, kern |-> kern],
                   [table |-> "absent", kern |-> {}]}
    /\ UNCHANGED <<table, kern, file, pc, buf, op, acked, torn, nftFailed>>

Next ==
    \/ \E ip \in IP : AddPermBlock(ip) \/ DeletePermBlock(ip)
    \/ Truncate
    \/ Dump
    \/ StartAgent
    \/ Crash
    \/ Reboot
    \/ SaveRules

Spec == Init /\ [][Next]_vars

-------------------------------------------------------------------------------
(* The list the file promises: once it is truncated, the list about to be   *)
(* dumped into it.                                                         *)
Promised == IF pc = "dump" THEN buf ELSE file

(* Every block whose admin got an answer, and that was not deleted since,  *)
(* is recorded in perm_blocks.json or in the rewrite under way, unless a   *)
(* crash fell between the truncation of the file and its dump.             *)
AckedIsRecorded ==
    torn \/ \A ip \in acked :
                \/ ip \in Promised
                \/ op = [kind |-> "unblock", ip |-> ip]

InForce(ip) == ip \in kern \/ op = [kind |-> "unblock", ip |-> ip]

\* The text of ip is part of no other address's.
Alone(ip) == \A shown \in IP : <<ip, shown>> \in TextIn => shown = ip

(* While the agent runs on a table with its own sets, every acknowledged   *)
(* block is in force: after a crash, a reboot into an older saved ruleset, *)
(* or a reboot into none.  What excuses a missing one is a torn file, an   *)
(* addition that nft refused, or a text that occurs in another address's,  *)
(* which the restart takes for the address itself (nft_rules.py:135).      *)
AckedIsEnforced ==
    pc # "down" /\ table = "full" /\ ~torn /\ ~nftFailed =>
        \A ip \in acked : Alone(ip) => InForce(ip)

(* What the comment at nft_rules.py:180 promises of any permanent block:   *)
(* it is saved at once so that it survives any reboot.  No exception is    *)
(* made for its text.                                                      *)
BlocksSurviveReboots ==
    pc # "down" /\ table = "full" /\ ~torn /\ ~nftFailed =>
        \A ip \in acked : InForce(ip)

(* The file's list, seen as one value, is a durable set: recording and     *)
(* deleting move one address, and a crash loses nothing or everything.     *)
Durable == INSTANCE DurableSet WITH blocked <- Promised

ImplementsDurableSet == Durable!Spec
===============================================================================
