----------------------------- MODULE Enforcement ------------------------------
(***************************************************************************)
(* How the agent puts a decision into force and takes it back: the action  *)
(* executor, the dynamic rules of nft_rules.py and the RuleScheduler, on   *)
(* the part of the kernel's nftables state they use.                       *)
(*                                                                         *)
(* A decision becomes either an element of a named set, which the kernel   *)
(* itself expires, or one or two rules known by a handle, which stay until *)
(* somebody deletes them: the RuleScheduler thread, whose heap is only in  *)
(* memory, or an admin through /rules/delete.  Handles grow within a boot  *)
(* and start again after it.  Permanent blocks are in "perm"; that they    *)
(* outlive a reboot is the subject of PermBlocks and taken as given here.  *)
(***************************************************************************)
EXTENDS Naturals, FiniteSets

CONSTANTS
    IP,
    Decision,       \* the decisions considered: [action, cat, src, dst]
    RuleTime,       \* lifetime of a rate limit or DDoS rule
    BlockTime,      \* lifetime of a temporary block
    NftMayFail,     \* whether an nft command may fail, or print no handle
    Registered,     \* whether the static firewall saves table inet filter
    MaxTime,        \* bound: the clock stops here
    MaxHandle       \* bound: largest handle given out

Action == {"monitor", "rate_limit", "temp_block", "perm_block", "ddos"}

Category == {"dos", "ddos", "brute_force", "password", "scanning",
             "injection", "xss", "anomaly", "normal"}

ASSUME DecisionAssumption ==
    Decision \subseteq [action : Action, cat : Category, src : IP, dst : IP]

ASSUME TimeAssumption ==
    /\ RuleTime \in Nat \ {0}
    /\ BlockTime \in Nat \ {0}
    /\ MaxTime \in Nat
    /\ MaxHandle \in Nat

ASSUME FlagAssumption == NftMayFail \in BOOLEAN /\ Registered \in BOOLEAN

VARIABLES
    now,        \* the clock
    up,         \* whether the agent's process runs
    elem,       \* elem[e]: when element e of a set expires (0: absent)
    rules,      \* rules known by handle: [h, kind, ip]
    nextHandle, \* the handle the kernel gives to the next rule
    heap,       \* RuleScheduler._heap: [at, rule], in memory
    doomed,     \* the deletion popped and not yet run: {} or {rule}
    saved,      \* the table as save_rules dumped it last: [left, rules]
    ours        \* history: handles the agent learnt since it started and not
                \* yet given to a deletion of the scheduler

evars == <<now, up, elem, rules, nextHandle, heap, doomed, saved, ours>>

FixedLimit == {"anomaly", "scanning", "brute_force"}

Element == (FixedLimit \cup {"temp", "perm"}) \X IP

Rule == [h : Nat, kind : {"dos", "meter", "syn"}, ip : IP]

Forever == MaxTime + RuleTime + BlockTime + 1

EnforcementTypeOK ==
    /\ now \in 0..MaxTime
    /\ up \in BOOLEAN
    /\ elem \in [Element -> Nat]
    /\ rules \subseteq Rule
    /\ nextHandle \in Nat
    /\ heap \subseteq [at : Nat, rule : Rule]
    /\ doomed \subseteq Rule
    /\ saved \in [left : [Element -> Nat], rules : SUBSET Rule]
    /\ ours \subseteq Nat

NothingSaved == [left |-> [e \in Element |-> 0], rules |-> {}]

EnforcementInit ==
    /\ now = 0
    /\ up = TRUE
    /\ elem = [e \in Element |-> 0]
    /\ rules = {}
    /\ nextHandle = 1
    /\ heap = {}
    /\ doomed = {}
    /\ saved = NothingSaved
    /\ ours = {}

-------------------------------------------------------------------------------
(* What a decision asks for.                                               *)

InForce(e) == elem[e] > now

\* The set elements of a decision, with the lifetime nft is given.
Elements(d) ==
    {e \in Element :
        /\ e[2] = d.src
        /\ \/ d.action = "temp_block" /\ e[1] = "temp"
           \/ d.action = "perm_block" /\ e[1] = "perm"
           \/ d.action = "rate_limit" /\ d.cat \in FixedLimit /\ e[1] = d.cat}

Expiry(e) ==
    IF e[1] = "perm" THEN Forever
    ELSE now + (IF e[1] = "temp" THEN BlockTime ELSE RuleTime)

\* The rules by handle: one for a DoS rate limit, two against a DDoS.
RuleKinds(d) ==
    {k \in {"dos", "meter", "syn"} :
        \/ d.action = "ddos" /\ k # "dos"
        \/ d.action = "rate_limit" /\ d.cat \notin FixedLimit /\ k = "dos"}

Target(d) == IF d.action = "ddos" THEN d.dst ELSE d.src

\* The meter is added before the SYN limit.
HandleOf(kind, added) ==
    IF kind = "syn" /\ "meter" \in added THEN nextHandle + 1 ELSE nextHandle

NewRules(d, added) ==
    {[h |-> HandleOf(k, added), kind |-> k, ip |-> Target(d)] : k \in added}

\* add_dynamic_rule answers None for a rule that nft added when the output has
\* no handle that can be read: the agent knows the others only.
KnownRules(d, added, read) == {r \in NewRules(d, added) : r.kind \in read}

\* What undoes a decision: a set element, or the handle of a rule.
Deletion == [h : Nat, el : Element \cup {<<>>}]

DeletionOf(r) == [h |-> r.h, el |-> <<>>]

\* The deletions of an alert payload: none unless the result has a primary
\* one, which for a DDoS response is the meter's.
PayloadDeletions(d, added, read) ==
    IF d.action = "ddos" /\ "meter" \notin read THEN {}
    ELSE {[h |-> 0, el |-> e] : e \in Elements(d)}
           \cup {DeletionOf(r) : r \in KnownRules(d, added, read)}

\* The result's duration_sec: 0 when nothing is applied or nothing expires.
\* A DoS limit without a handle yields no result at all.
ResultDuration(d, read) ==
    IF d.action = "temp_block" THEN BlockTime
    ELSE IF \/ d.action = "ddos"
            \/ d.action = "rate_limit" /\ (d.cat \in FixedLimit \/ read # {})
         THEN RuleTime
         ELSE 0

-------------------------------------------------------------------------------
(* ActionExecutor.execute for decision d, nft having accepted the rules in *)
(* `added` and printed the handles of those in `read`.  Adding an element  *)
(* that is already there leaves its expiry as it is or renews it,          *)
(* depending on the kernel; a failed `add element` is ignored by           *)
(* add_to_set.  Every rule whose handle was read is scheduled; one whose   *)
(* handle was not stays in the kernel, and nothing ever deletes it.        *)
Schedule_NoSyn(d, added, read) ==
    {[at |-> now + RuleTime, rule |-> r] : r \in KnownRules(d, added, read \ {"syn"})}

Schedule(d, added, read) ==
    {[at |-> now + RuleTime, rule |-> r] : r \in KnownRules(d, added, read)}

Execute(d, added, read) ==
    /\ read \subseteq added /\ added \subseteq RuleKinds(d)
    /\ read # RuleKinds(d) => NftMayFail
    /\ \E renewed \in SUBSET Elements(d) :
        /\ \A e \in Elements(d) \ renewed : InForce(e) \/ NftMayFail
        /\ elem' = [e \in Element |-> IF e \in renewed THEN Expiry(e) ELSE elem[e]]
    /\ rules' = rules \cup NewRules(d, added)
    /\ nextHandle' = nextHandle + Cardinality(added)
    /\ heap' = heap \cup Schedule(d, added, read)
    /\ ours' = ours \cup {r.h : r \in KnownRules(d, added, read)}
    /\ UNCHANGED <<now, up, doomed, saved>>

(* nft_rules.delete_rule by handle and by set element: both report failure *)
(* when nothing is there to delete.                                        *)
DeleteHandle(h) ==
    /\ rules' = {r \in rules : r.h # h}
    /\ UNCHANGED elem

DeleteElement(e) ==
    /\ elem' = [elem EXCEPT ![e] = 0]
    /\ UNCHANGED rules

KnownHandle(h) == \E r \in rules : r.h = h

-------------------------------------------------------------------------------
(* RuleScheduler._loop: a due deletion is popped under the lock, and run   *)
(* after the lock is released; a failed deletion is logged and forgotten.  *)
PopDue ==
    /\ up /\ doomed = {}
    /\ \E entry \in heap :
        /\ entry.at <= now
        /\ \A other \in heap : entry.at <= other.at
        /\ doomed' = {entry.rule}
        /\ heap' = heap \ {entry}
    /\ UNCHANGED <<now, up, elem, rules, nextHandle, saved, ours>>

RunDeletion ==
    /\ up
    /\ \E r \in doomed : DeleteHandle(r.h) \/ (NftMayFail /\ UNCHANGED <<elem, rules>>)
    /\ doomed' = {}
    /\ ours' = ours \ {r.h : r \in doomed}
    /\ UNCHANGED <<now, up, nextHandle, heap, saved>>

\* The agent's process dies: heap and popped deletion are lost, the kernel's
\* state is not.
Crash_KeepsHeap ==
    /\ up
    /\ up' = FALSE
    /\ doomed' = {}
    /\ ours' = {}
    /\ UNCHANGED <<now, elem, rules, nextHandle, heap, saved>>

Crash ==
    /\ up
    /\ up' = FALSE
    /\ heap' = {}
    /\ doomed' = {}
    /\ ours' = {}
    /\ UNCHANGED <<now, elem, rules, nextHandle, saved>>

\* A new process: the table is there or is created without dynamic rules.
Start ==
    /\ ~up
    /\ up' = TRUE
    /\ UNCHANGED <<now, elem, rules, nextHandle, heap, doomed, saved, ours>>

\* save_rules dumps the table, remaining lifetimes and dynamic rules included.
SaveRules ==
    /\ up /\ Registered
    /\ saved' = [left |-> [e \in Element |-> IF InForce(e) THEN elem[e] - now ELSE 0],
                 rules |-> rules]
    /\ UNCHANGED <<now, up, elem, rules, nextHandle, heap, doomed, ours>>

\* The host reboots with the agent down; a saved table is loaded again, its
\* rules numbered from the start.
Rank(r) == Cardinality({s \in saved.rules : s.h <= r.h})

Reboot ==
    /\ ~up
    /\ elem' = [e \in Element |->
                    IF e[1] = "perm" THEN elem[e]
                    ELSE IF saved.left[e] > 0 THEN now + saved.left[e] ELSE 0]
    /\ rules' = {[r EXCEPT !.h = Rank(r)] : r \in saved.rules}
    /\ nextHandle' = Cardinality(saved.rules) + 1
    /\ UNCHANGED <<now, up, heap, doomed, saved, ours>>

Tick ==
    /\ now < MaxTime
    /\ now' = now + 1
    /\ UNCHANGED <<up, elem, rules, nextHandle, heap, doomed, saved, ours>>

-------------------------------------------------------------------------------
(* The enforcement layer alone: any decision of the gateway, any deletion  *)
(* asked for by an admin.  Bounds: a decision's rules get handles up to     *)
(* MaxHandle, and what it applies ends within MaxTime.                     *)
Fits(d) == nextHandle + Cardinality(RuleKinds(d)) <= MaxHandle + 1

Enforce ==
    /\ up
    /\ now + RuleTime <= MaxTime /\ now + BlockTime <= MaxTime
    /\ \E d \in Decision :
        /\ Fits(d)
        /\ \E added \in SUBSET RuleKinds(d) : \E read \in SUBSET added :
              Execute(d, added, read)

AdminDelete ==
    /\ up
    /\ \/ \E r \in rules : DeleteHandle(r.h)
       \/ \E e \in Element : InForce(e) /\ DeleteElement(e)
    /\ UNCHANGED <<now, up, nextHandle, heap, doomed, saved, ours>>

EnforcementNext ==
    \/ Enforce
    \/ AdminDelete
    \/ PopDue
    \/ RunDeletion
    \/ Crash
    \/ Start
    \/ SaveRules
    \/ Reboot
    \/ Tick

(* The scheduler thread loops for ever with waits of at most five seconds, *)
(* and the clock runs; nothing is assumed of crashes, admins or restarts.  *)
SchedulerFairness == WF_evars(PopDue) /\ WF_evars(RunDeletion) /\ WF_evars(Tick)

EnforcementSpec == EnforcementInit /\ [][EnforcementNext]_evars /\ SchedulerFairness

-------------------------------------------------------------------------------
(* No rule whose handle the running agent learnt is without an owner:      *)
(* until it is gone from the kernel the scheduler holds its deletion, due  *)
(* no later than the rule's lifetime from now.  Both rules of a DDoS       *)
(* response count, and so does the one that has a handle when the other    *)
(* was refused or its handle could not be read (nft_rules.py:215-218).     *)
OwnRulesScheduled ==
    \A r \in rules : r.h \in ours =>
        \/ r \in doomed
        \/ \E entry \in heap : entry.rule = r /\ entry.at <= now + RuleTime

(* A deletion the scheduler holds can only hit the rule it was made for:   *)
(* handles are not reused while a heap that names them is alive, whatever  *)
(* admins delete, and a reboot that numbers rules afresh finds no heap.    *)
DeletionHitsItsRule ==
    \A d \in {entry.rule : entry \in heap} \cup doomed :
        \A r \in rules : r.h = d.h => r = d

(* Every rule whose handle the agent learnt is eventually gone from the    *)
(* kernel, unless the agent goes down before (and its heap with it) or nft *)
(* refuses the one deletion the scheduler tries.                           *)
OwnRulesEnd ==
    \A h \in 1..MaxHandle :
        (h \in ours /\ KnownHandle(h)) ~> (~KnownHandle(h) \/ ~up \/ h \notin ours)
===============================================================================
