----------------------------- MODULE StaticProofs -----------------------------
(***************************************************************************)
(* Proofs about StaticFirewall and StaticRules: for any tables, documents, *)
(* threads and bounds, with nft failing or not, and whatever is given up,  *)
(* repeated or restarted, handles are their document's own, documents and  *)
(* kernel agree, and what was acknowledged is in the saved file, with the  *)
(* exceptions the properties name.                                         *)
(***************************************************************************)
EXTENDS StaticRules, FiniteSetTheorems, WellFoundedInduction, TLAPS

Adding == {"add_rule", "add_nat"}

Live == {th \in Thread : th.pc # "idle" /\ th.next # "idle" /\ IsFiniteSet(th.text.rules)}

StateOK ==
    /\ tables \subseteq Table
    /\ rules \subseteq Rule /\ IsFiniteSet(rules)
    /\ nextHandle \in [Table -> Nat]
    /\ registry \subseteq Table
    /\ saved \in Ruleset /\ IsFiniteSet(saved.rules)
    /\ thr \in [Slot -> Live \cup {NoThread}]
    /\ clean \in BOOLEAN

DocsOK ==
    /\ docs \in [Doc -> [st : {"none", "active", "inactive", "deleted"}, h : Nat]]
    /\ stamp \in [Doc -> 0..MaxStamp]
    /\ known \subseteq Table
    /\ calls \in 0..MaxCalls
    /\ hnd \in [Slot -> Kind]
    /\ rough \subseteq Doc
    /\ booted \in BOOLEAN

(* What a thread does follows from its operation: where it may be, what    *)
(* comes after the dump of the registry, and that `ok` is set by save_rules.*)
OnItsWay(th) ==
    /\ th.pc = "lookup" => th.op \in Adding
    /\ th.pc = "ensure" => th.op = "add_nat"
    /\ th.pc = "register" => th.op \in {"create_table", "add_nat"}
    /\ th.pc \in {"ensure", "register", "nft", "lookup", "collect"} => ~th.ok
    /\ th.pc \in {"list", "write"} => th.ok
    /\ th.pc \in {"truncate", "dump"} =>
        IF th.ok THEN th.next = "list"
        ELSE /\ th.op \in {"create_table", "add_nat"}
             /\ th.next = IF th.op = "create_table" THEN "collect" ELSE "nft"

(* It is for a document that has its comment, or makes a table.            *)
Purposeful(th, stamps) ==
    IF th.op = "create_table" THEN th.rule.of = Nobody
    ELSE /\ th.rule.of \in Doc
         /\ th.rule.t = TableOf[th.rule.of]
         /\ th.rule.comment = stamps[th.rule.of]
         /\ stamps[th.rule.of] # 0
         /\ th.op = "add_nat" => th.rule.t = NatTable

(* A handler waits for the operation it asked for.                         *)
Awaited(k) ==
    /\ hnd[k] = "table" => ~Idle(k) /\ thr[k].op = "create_table"
    /\ hnd[k] \in {"add", "enable"} => ~Idle(k) /\ thr[k].op \in Adding
    /\ hnd[k] \in {"disable", "delete"} => ~Idle(k) /\ thr[k].op = "delete"

Fresh(d) == stamp[d] = 0 => docs[d] = [st |-> "none", h |-> 0]

ThreadsOK ==
    /\ \A k \in Slot : ~Idle(k) => OnItsWay(thr[k]) /\ Purposeful(thr[k], stamp)
    /\ \A k \in Slot : Awaited(k)
    /\ \A d \in Doc : Fresh(d)

TypeInv == StateOK /\ DocsOK /\ ThreadsOK

(* Until the host boots, a rule has its document's table and comment, a    *)
(* handle of its own, and whoever holds a handle holds one of a rule with  *)
(* the same comment.                                                       *)
RulesOfDocs ==
    \A s \in rules : /\ s.of \in Doc /\ s.t = TableOf[s.of]
                     /\ s.comment = stamp[s.of] /\ s.comment # 0
                     /\ 0 < s.h /\ s.h < nextHandle[s.t]

OneRulePerHandle == \A r, s \in rules : r.t = s.t /\ r.h = s.h => r = s

Held(r) == r.h < nextHandle[r.t] /\ Hit(r) \subseteq Same(r)

HandlesHeld ==
    /\ \A t \in Table : nextHandle[t] > 0
    /\ \A d \in Doc : Held(RuleOf(d, stamp[d]))
    /\ \A k \in Slot : ~Idle(k) /\ thr[k].op # "create_table" => Held(thr[k].rule)

HandleInv == ~booted => RulesOfDocs /\ OneRulePerHandle /\ HandlesHeld

(* Where the request of a thread stands: its change of the kernel is still *)
(* to come, or was refused; or it is made.                                 *)
ToCome(th) ==
    \/ th.pc \in {"ensure", "register", "nft"}
    \/ th.pc \in {"truncate", "dump", "done"} /\ ~th.ok

HandlesOf(d) == {r.h : r \in {s \in rules : s.of = d}}

DocSays(d) == IF docs[d].st = "active" THEN {docs[d].h} ELSE {}

Served(d, k) ==
    LET th == thr[k] IN
    /\ hnd[k] # "none"
    /\ docs[d].st # "deleted"
    /\ th.op \in Adding => docs[d].st # "active"
    /\ th.op = "delete" => docs[d].st = "active" /\ th.rule.h = docs[d].h
    /\ ToCome(th) => HandlesOf(d) = DocSays(d)
    /\ th.pc = "lookup" => \E r \in rules : HandlesOf(d) = {r.h}
    /\ ~ToCome(th) /\ th.pc # "lookup" =>
        IF th.op = "delete" THEN HandlesOf(d) = {}
        ELSE th.rule.h = 0 \/ HandlesOf(d) = {th.rule.h}

Alone(d) ==
    /\ \A j, k \in Users(d) : j = k
    /\ Users(d) = {} => HandlesOf(d) = DocSays(d)
    /\ \A k \in Users(d) : Served(d, k)

MatchInv == \A d \in Doc : ~booted /\ d \notin rough /\ Twins(d) = {} => Alone(d)

(* While Flask serves one request at a time.                               *)
InFile == saved.rules = rules
Registered == tables \subseteq registry

Saving(th) ==
    /\ th.pc \in {"ensure", "nft"} => InFile /\ Registered
    /\ th.pc = "register" => InFile /\ tables \subseteq registry \cup {th.rule.t}
    /\ th.pc \in {"truncate", "dump"} => tables \subseteq th.list
    /\ th.pc \in {"truncate", "dump"} /\ ~th.ok => InFile
    /\ th.pc \in {"lookup", "collect", "list", "write"} => Registered
    /\ th.ok => /\ th.text.rules \subseteq rules
                /\ \A r \in rules : r \in th.text.rules \/ r.t \in th.todo
    /\ th.pc \in {"dump", "write"} => ~th.over
    /\ th.pc = "write" => th.todo = {}

SaveInv ==
    ~booted /\ clean =>
        /\ \A j, k \in Slot : Busy(j) /\ Busy(k) => j = k
        /\ Quiet => InFile /\ Registered
        /\ \A k \in Slot : Busy(k) => Saving(thr[k])
        /\ \A s \in rules : s.t \in tables

-------------------------------------------------------------------------------
(* Arithmetic and records.                                                 *)

(* Of numbers there is a least one: the interval below it has no smaller   *)
(* one in it, and intervals are ordered by inclusion.                      *)
LEMMA Least ==
    ASSUME NEW T \in SUBSET Nat, T # {}
    PROVE  \E m \in T : \A x \in T : m <= x
<1> DEFINE Below == {0..x : x \in T}
<1>1. Below \subseteq FiniteSubsetsOf(Nat) /\ Below # {}
  <2>1. \A x \in T : 0..x \subseteq Nat /\ IsFiniteSet(0..x)
    BY FS_Interval
  <2> QED BY <2>1 DEF FiniteSubsetsOf
<1> HIDE DEF Below
<1>2. PICK I \in Below : \A J \in Below : <<J, I>> \notin StrictSubsetOrdering(Nat)
  BY <1>1, FS_StrictSubsetOrderingWellFounded, WFMin
<1>3. PICK m \in T : I = 0..m
  BY DEF Below
<1>4. ASSUME NEW x \in T, x < m PROVE FALSE
  <2>1. 0..x \in Below
    BY DEF Below
  <2>2. 0..x \subseteq 0..m /\ m \in 0..m /\ m \notin 0..x
    BY <1>4
  <2>3. <<0..x, I>> \in StrictSubsetOrdering(Nat)
    BY <1>3, <2>2 DEF StrictSubsetOrdering
  <2> QED BY <1>2, <2>1, <2>3
<1> QED BY <1>4

LEMMA FirstIsThere ==
    ASSUME NEW R \in SUBSET Rule, R # {}
    PROVE  \E s \in R : FirstOf(R) = s.h
<1>1. {s.h : s \in R} \in SUBSET Nat /\ {s.h : s \in R} # {}
  BY DEF Rule
<1>2. PICK h \in {s.h : s \in R} : \A x \in {s.h : s \in R} : h <= x
  BY <1>1, Least
<1>3. FirstOf(R) \in {s.h : s \in R}
  BY <1>2 DEF FirstOf
<1> QED BY <1>3

LEMMA LiveFields ==
    ASSUME NEW th \in Live
    PROVE  /\ th.pc \in Step \ {"idle"} /\ th.op \in Op /\ th.rule \in Rule
           /\ th.ok \in BOOLEAN /\ th.list \in SUBSET Table /\ th.next \in Step \ {"idle"}
           /\ th.todo \in SUBSET Table /\ th.text \in Ruleset /\ th.over \in BOOLEAN
           /\ IsFiniteSet(th.text.rules)
BY DEF Live, Thread

LEMMA RuleFields ==
    ASSUME NEW r \in Rule
    PROVE  r.t \in Table /\ r.h \in Nat /\ r.comment \in Nat /\ r.of \in Owner
BY DEF Rule

LEMMA AtWork ==
    ASSUME TypeInv, NEW k \in Slot, thr[k].pc # "idle"
    PROVE  thr[k] \in Live /\ thr[k] # NoThread
BY DEF TypeInv, StateOK, NoThread

-------------------------------------------------------------------------------
(* The steps of a thread.                                                  *)

(* It keeps its operation and, but for the handle, its rule; to the others *)
(* it does nothing but write over a file.                                  *)
OthersKeep(k) ==
    \A j \in Slot \ {k} :
        \/ thr'[j] = thr[j]
        \/ thr[j] \in Live /\ thr'[j] = [thr[j] EXCEPT !.over = TRUE]

Goes(k, th) ==
    /\ th \in Live /\ OnItsWay(th)
    /\ th.op = thr[k].op
    /\ th.rule = [thr[k].rule EXCEPT !.h = th.rule.h]
    /\ thr' \in [Slot -> Live \cup {NoThread}]
    /\ thr'[k] = th
    /\ OthersKeep(k)

LEMMA ThreadGoes ==
    ASSUME TypeInv, NEW k \in Slot, NEW th \in Live, OnItsWay(th),
           thr[k].pc # "idle", th.op = thr[k].op, th.rule = thr[k].rule,
           thr' = [thr EXCEPT ![k] = th]
    PROVE  Goes(k, th)
<1>1. thr[k] \in Live
  BY AtWork
<1>2. thr[k].rule = [thr[k].rule EXCEPT !.h = thr[k].rule.h]
  BY <1>1, LiveFields DEF Rule
<1> QED BY <1>2 DEF Goes, OthersKeep, TypeInv, StateOK

LEMMA GotoGoes ==
    ASSUME TypeInv, NEW k \in Slot, NEW pc \in Step \ {"idle"}, thr[k].pc # "idle",
           Goto(k, pc), OnItsWay([thr[k] EXCEPT !.pc = pc])
    PROVE  Goes(k, [thr[k] EXCEPT !.pc = pc])
<1>1. thr[k] \in Live
  BY AtWork
<1>2. [thr[k] EXCEPT !.pc = pc] \in Live
  BY <1>1 DEF Live, Thread
<1>3. thr' = [thr EXCEPT ![k] = [thr[k] EXCEPT !.pc = pc]]
  BY DEF Goto, TypeInv, StateOK
<1> QED BY <1>1, <1>2, <1>3, ThreadGoes DEF Live, Thread

LEMMA OpenedGoes ==
    ASSUME TypeInv, NEW k \in Slot, NEW pc \in Step \ {"idle"}, thr[k].pc # "idle",
           Opened(k, pc), OnItsWay([thr[k] EXCEPT !.pc = pc, !.over = FALSE])
    PROVE  Goes(k, [thr[k] EXCEPT !.pc = pc, !.over = FALSE])
<1>1. thr[k] \in Live
  BY AtWork
<1>2. [thr[k] EXCEPT !.pc = pc, !.over = FALSE] \in Live
  BY <1>1 DEF Live, Thread
<1>3. thr' = [thr EXCEPT ![k] = [thr[k] EXCEPT !.pc = pc, !.over = FALSE]]
  BY DEF Opened, TypeInv, StateOK
<1> QED BY <1>1, <1>2, <1>3, ThreadGoes DEF Live, Thread

LEMMA WrittenGoes ==
    ASSUME TypeInv, NEW k \in Slot, NEW pc \in Step, NEW next \in Step \ {"idle"},
           thr[k].pc = pc, pc # "idle",
           Written(k, pc, next), OnItsWay([thr[k] EXCEPT !.pc = next])
    PROVE  Goes(k, [thr[k] EXCEPT !.pc = next])
<1> DEFINE th == [thr[k] EXCEPT !.pc = next]
<1>1. thr[k] \in Live
  BY AtWork
<1>2. th \in Live /\ th.op = thr[k].op /\ th.rule = thr[k].rule
  BY <1>1 DEF Live, Thread
<1>3. thr[k].rule = [thr[k].rule EXCEPT !.h = thr[k].rule.h]
  BY <1>1, LiveFields DEF Rule
<1>4. thr'[k] = th
  BY DEF Written
<1>5. OthersKeep(k)
  <2>1. ASSUME NEW j \in Slot \ {k}, thr[j].pc = pc
        PROVE  thr[j] \in Live /\ thr'[j] = [thr[j] EXCEPT !.over = TRUE]
    BY <2>1, AtWork DEF Written
  <2>2. ASSUME NEW j \in Slot \ {k}, thr[j].pc # pc
        PROVE  thr'[j] = thr[j]
    BY <2>2 DEF Written
  <2> QED BY <2>1, <2>2 DEF OthersKeep
<1>6. thr' \in [Slot -> Live \cup {NoThread}]
  <2>1. ASSUME NEW j \in Slot \ {k}
        PROVE  thr'[j] \in Live \cup {NoThread}
    <3>1. CASE thr'[j] = thr[j]
      BY <3>1 DEF TypeInv, StateOK
    <3>2. CASE thr[j] \in Live /\ thr'[j] = [thr[j] EXCEPT !.over = TRUE]
      BY <3>2 DEF Live, Thread
    <3> QED BY <1>5, <3>1, <3>2 DEF OthersKeep
  <2>2. thr' = [j \in Slot |-> thr'[j]]
    BY DEF Written
  <2> QED BY <1>2, <1>4, <2>1, <2>2
<1> QED BY <1>2, <1>3, <1>4, <1>5, <1>6 DEF Goes

(* One lemma for each step: what the thread becomes, and what it leaves.   *)
LEMMA EnsureNatGoes ==
    ASSUME TypeInv, NEW k \in Slot, EnsureNat(k)
    PROVE  StateOK' /\ Goes(k, [thr[k] EXCEPT !.pc = "register"])
<1>1. thr[k] \in Live /\ OnItsWay(thr[k])
  BY AtWork DEF EnsureNat, TypeInv, ThreadsOK, Idle
<1>2. OnItsWay([thr[k] EXCEPT !.pc = "register"])
  BY <1>1, LiveFields DEF EnsureNat, OnItsWay, Live, Thread
<1>3. Goes(k, [thr[k] EXCEPT !.pc = "register"])
  BY <1>2, GotoGoes DEF EnsureNat, Step
<1> QED BY <1>3, StaticAssumption DEF Goes, EnsureNat, TypeInv, StateOK

LEMMA CreateTableGoes ==
    ASSUME TypeInv, NEW k \in Slot, CreateTable(k)
    PROVE  StateOK' /\ Goes(k, [thr[k] EXCEPT !.pc = "register"])
<1>1. thr[k] \in Live /\ OnItsWay(thr[k])
  BY AtWork DEF CreateTable, TypeInv, ThreadsOK, Idle
<1>2. OnItsWay([thr[k] EXCEPT !.pc = "register"])
  BY <1>1, LiveFields DEF CreateTable, OnItsWay, Live, Thread
<1>3. Goes(k, [thr[k] EXCEPT !.pc = "register"])
  BY <1>2, GotoGoes DEF CreateTable, Step
<1> QED BY <1>1, <1>3, LiveFields, RuleFields DEF Goes, CreateTable, TypeInv, StateOK

LEMMA AddRuleGoes ==
    ASSUME TypeInv, NEW k \in Slot, AddRule(k)
    PROVE  StateOK' /\ Goes(k, [thr[k] EXCEPT !.pc = "lookup"])
<1>1. thr[k] \in Live /\ OnItsWay(thr[k])
  BY AtWork DEF AddRule, TypeInv, ThreadsOK, Idle
<1>2. OnItsWay([thr[k] EXCEPT !.pc = "lookup"])
  BY <1>1, LiveFields DEF AddRule, OnItsWay, Live, Thread, Adding
<1>3. Goes(k, [thr[k] EXCEPT !.pc = "lookup"])
  BY <1>2, GotoGoes DEF AddRule, Step
<1> DEFINE r == thr[k].rule
<1> DEFINE new == [r EXCEPT !.h = nextHandle[r.t]]
<1>4. r \in Rule /\ r.t \in Table /\ nextHandle[r.t] \in Nat
  BY <1>1, LiveFields, RuleFields DEF TypeInv, StateOK
<1>5. new \in Rule
  BY <1>4 DEF Rule
<1>6. rules' \subseteq Rule /\ IsFiniteSet(rules')
  BY <1>5, FS_AddElement DEF AddRule, TypeInv, StateOK
<1>7. nextHandle' \in [Table -> Nat]
  BY <1>4 DEF AddRule, TypeInv, StateOK
<1> QED BY <1>3, <1>6, <1>7 DEF Goes, AddRule, TypeInv, StateOK

LEMMA DeleteRuleGoes ==
    ASSUME TypeInv, NEW k \in Slot, DeleteRule(k)
    PROVE  StateOK' /\ Goes(k, [thr[k] EXCEPT !.pc = "collect"])
<1>1. thr[k] \in Live /\ OnItsWay(thr[k])
  BY AtWork DEF DeleteRule, TypeInv, ThreadsOK, Idle
<1>2. OnItsWay([thr[k] EXCEPT !.pc = "collect"])
  BY <1>1, LiveFields DEF DeleteRule, OnItsWay, Live, Thread
<1>3. Goes(k, [thr[k] EXCEPT !.pc = "collect"])
  BY <1>2, GotoGoes DEF DeleteRule, Step
<1>4. rules' \subseteq Rule /\ IsFiniteSet(rules')
  <2>1. rules' \in SUBSET rules
    BY DEF DeleteRule
  <2> QED BY <2>1, FS_Subset DEF TypeInv, StateOK
<1> QED BY <1>3, <1>4 DEF Goes, DeleteRule, TypeInv, StateOK

LEMMA RefusedGoes ==
    ASSUME TypeInv, NEW k \in Slot, NftRefuses(k)
    PROVE  StateOK' /\ Goes(k, [thr[k] EXCEPT !.pc = "done"])
<1>1. thr[k] \in Live /\ OnItsWay(thr[k])
  BY AtWork DEF NftRefuses, TypeInv, ThreadsOK, Idle
<1>2. OnItsWay([thr[k] EXCEPT !.pc = "done"])
  BY <1>1, LiveFields DEF NftRefuses, OnItsWay, Live, Thread
<1>3. Goes(k, [thr[k] EXCEPT !.pc = "done"])
  BY <1>2, GotoGoes DEF NftRefuses, Step
<1> QED BY <1>3 DEF Goes, NftRefuses, TypeInv, StateOK

LEMMA LookupGoes ==
    ASSUME TypeInv, NEW k \in Slot, Lookup(k)
    PROVE  /\ StateOK'
           /\ \E h \in Nat :
                /\ Goes(k, [thr[k] EXCEPT !.rule.h = h, !.pc = "collect"])
                /\ h = 0 \/ \E s \in Same(thr[k].rule) : h = s.h
<1>1. thr[k] \in Live /\ OnItsWay(thr[k])
  BY AtWork DEF Lookup, TypeInv, ThreadsOK, Idle
<1> DEFINE R == Same(thr[k].rule)
<1>2. R \in SUBSET Rule
  BY DEF Same, TypeInv, StateOK
<1>3. PICK h : /\ thr' = [thr EXCEPT ![k].rule.h = h, ![k].pc = "collect"]
               /\ h = 0 \/ (R # {} /\ h = FirstOf(R))
  BY DEF Lookup
<1>4. h = 0 \/ \E s \in R : h = s.h
  BY <1>2, <1>3, FirstIsThere
<1>5. h \in Nat
  BY <1>2, <1>4, RuleFields
<1> DEFINE th == [thr[k] EXCEPT !.rule.h = h, !.pc = "collect"]
<1>6. th \in Live
  BY <1>1, <1>5 DEF Live, Thread, Rule, Step
<1>7. /\ th.op = thr[k].op /\ th.ok = thr[k].ok /\ th.pc = "collect"
      /\ th.rule = [thr[k].rule EXCEPT !.h = h] /\ th.rule.h = h
  BY <1>1, LiveFields DEF Live, Thread, Rule
<1>8. OnItsWay(th)
  BY <1>1, <1>7 DEF Lookup, OnItsWay
<1>9. thr' = [thr EXCEPT ![k] = th]
  BY <1>3 DEF TypeInv, StateOK
<1>10. Goes(k, th)
  BY <1>6, <1>7, <1>8, <1>9 DEF Goes, OthersKeep, TypeInv, StateOK
<1>11. StateOK'
  BY <1>10 DEF Goes, Lookup, TypeInv, StateOK
<1> QED BY <1>4, <1>5, <1>10, <1>11

LEMMA RegisterGoes ==
    ASSUME TypeInv, NEW k \in Slot, Register(k)
    PROVE  /\ StateOK'
           /\ \/ /\ thr[k].rule.t \in registry
                 /\ Goes(k, [thr[k] EXCEPT !.pc = AfterRegister(k)])
              \/ Goes(k, [thr[k] EXCEPT !.list = registry \cup {thr[k].rule.t},
                                        !.next = AfterRegister(k), !.pc = "truncate"])
<1>1. thr[k] \in Live /\ OnItsWay(thr[k])
  BY AtWork DEF Register, TypeInv, ThreadsOK, Idle
<1>2. AfterRegister(k) \in {"collect", "nft"}
  BY DEF AfterRegister
<1> DEFINE th == [thr[k] EXCEPT !.list = registry \cup {thr[k].rule.t},
                                !.next = AfterRegister(k), !.pc = "truncate"]
<1>3. CASE thr[k].rule.t \in registry
  <2>1. OnItsWay([thr[k] EXCEPT !.pc = AfterRegister(k)])
    BY <1>1, <1>2, LiveFields DEF Register, OnItsWay, Live, Thread
  <2>2. Goes(k, [thr[k] EXCEPT !.pc = AfterRegister(k)])
    BY <1>2, <1>3, <2>1, GotoGoes DEF Register, Step
  <2> QED BY <1>3, <2>2 DEF Goes, Register, TypeInv, StateOK
<1>4. CASE thr[k].rule.t \notin registry
  <2>1. th \in Live
    <3>1. registry \cup {thr[k].rule.t} \in SUBSET Table
      BY <1>1, LiveFields, RuleFields DEF TypeInv, StateOK
    <3>2. AfterRegister(k) \in Step \ {"idle"} /\ "truncate" \in Step \ {"idle"}
      BY <1>2 DEF Step
    <3> QED BY <1>1, <3>1, <3>2 DEF Live, Thread
  <2>2. /\ th.op = thr[k].op /\ th.ok = thr[k].ok /\ th.pc = "truncate"
        /\ th.rule = thr[k].rule /\ th.next = AfterRegister(k)
    BY <1>1 DEF Live, Thread
  <2>3. OnItsWay(th)
    BY <1>1, <2>2 DEF Register, OnItsWay, AfterRegister
  <2>4. thr' = [thr EXCEPT ![k] = th]
    BY <1>4 DEF Register, TypeInv, StateOK
  <2>5. Goes(k, th)
    BY <2>1, <2>2, <2>3, <2>4, ThreadGoes DEF Register
  <2> QED BY <2>5 DEF Goes, Register, TypeInv, StateOK
<1> QED BY <1>3, <1>4

LEMMA TruncateRegistryGoes ==
    ASSUME TypeInv, NEW k \in Slot, TruncateRegistry(k)
    PROVE  StateOK' /\ Goes(k, [thr[k] EXCEPT !.pc = "dump", !.over = FALSE])
<1>1. thr[k] \in Live /\ OnItsWay(thr[k])
  BY AtWork DEF TruncateRegistry, TypeInv, ThreadsOK, Idle
<1>2. OnItsWay([thr[k] EXCEPT !.pc = "dump", !.over = FALSE])
  BY <1>1, LiveFields DEF TruncateRegistry, OnItsWay, Live, Thread
<1>3. Goes(k, [thr[k] EXCEPT !.pc = "dump", !.over = FALSE])
  BY <1>2, OpenedGoes DEF TruncateRegistry, Step
<1> QED BY <1>3 DEF Goes, TruncateRegistry, TypeInv, StateOK

LEMMA DumpRegistryGoes ==
    ASSUME TypeInv, NEW k \in Slot, DumpRegistry(k)
    PROVE  StateOK' /\ Goes(k, [thr[k] EXCEPT !.pc = thr[k].next])
<1>1. thr[k] \in Live /\ OnItsWay(thr[k])
  BY AtWork DEF DumpRegistry, TypeInv, ThreadsOK, Idle
<1>2. OnItsWay([thr[k] EXCEPT !.pc = thr[k].next])
  BY <1>1, LiveFields DEF DumpRegistry, OnItsWay, Live, Thread
<1>3. Goes(k, [thr[k] EXCEPT !.pc = thr[k].next])
  BY <1>1, <1>2, LiveFields, WrittenGoes DEF DumpRegistry, Step
<1>4. registry' \subseteq Table
  BY <1>1, LiveFields DEF DumpRegistry
<1> QED BY <1>3, <1>4 DEF Goes, DumpRegistry, TypeInv, StateOK

LEMMA CollectGoes ==
    ASSUME TypeInv, NEW k \in Slot, Collect(k)
    PROVE  /\ StateOK'
           /\ Goes(k, [thr[k] EXCEPT !.todo = registry, !.text = NoRules, !.ok = TRUE,
                                     !.pc = "list"])
<1> DEFINE th == [thr[k] EXCEPT !.todo = registry, !.text = NoRules, !.ok = TRUE, !.pc = "list"]
<1>1. thr[k] \in Live /\ OnItsWay(thr[k])
  BY AtWork DEF Collect, TypeInv, ThreadsOK, Idle
<1>2. NoRules \in Ruleset /\ IsFiniteSet(NoRules.rules)
  BY FS_EmptySet DEF NoRules, Ruleset
<1>3. th \in Live
  BY <1>1, <1>2 DEF TypeInv, StateOK, Live, Thread, Step
<1>4. /\ th.op = thr[k].op /\ th.ok /\ th.pc = "list" /\ th.rule = thr[k].rule
  BY <1>1 DEF Live, Thread
<1>5. OnItsWay(th)
  BY <1>4 DEF OnItsWay
<1>6. thr' = [thr EXCEPT ![k] = th]
  BY DEF Collect, TypeInv, StateOK
<1>7. Goes(k, th)
  BY <1>3, <1>4, <1>5, <1>6, ThreadGoes DEF Collect
<1> QED BY <1>7 DEF Goes, Collect, TypeInv, StateOK

Listed(k, t) ==
    [thr[k] EXCEPT !.todo = @ \ {t},
                   !.text = [tables |-> @.tables \cup {t},
                             rules |-> @.rules \cup {r \in rules : r.t = t}]]

LEMMA ListTableGoes ==
    ASSUME TypeInv, NEW k \in Slot, ListTable(k)
    PROVE  StateOK' /\ \E t \in thr[k].todo \cap tables : Goes(k, Listed(k, t))
<1>1. thr[k] \in Live /\ OnItsWay(thr[k])
  BY AtWork DEF ListTable, TypeInv, ThreadsOK, Idle
<1>2. PICK t \in thr[k].todo \cap tables : thr' = [thr EXCEPT
                    ![k].todo = @ \ {t},
                    ![k].text = [tables |-> @.tables \cup {t},
                                 rules |-> @.rules \cup {r \in rules : r.t = t}]]
  BY DEF ListTable
<1> DEFINE th == Listed(k, t)
<1> DEFINE text == [tables |-> thr[k].text.tables \cup {t},
                    rules |-> thr[k].text.rules \cup {r \in rules : r.t = t}]
<1>3. text \in Ruleset /\ IsFiniteSet(text.rules)
  <2>1. {r \in rules : r.t = t} \in SUBSET rules
    OBVIOUS
  <2>2. IsFiniteSet({r \in rules : r.t = t})
    BY <2>1, FS_Subset DEF TypeInv, StateOK
  <2> QED BY <1>1, <2>1, <2>2, LiveFields, FS_Union DEF TypeInv, StateOK, Ruleset
<1>4. th = [thr[k] EXCEPT !.todo = @ \ {t}, !.text = text]
  BY DEF Listed
<1>5. th \in Live
  BY <1>1, <1>3, <1>4 DEF Live, Thread
<1>6. th.op = thr[k].op /\ th.ok = thr[k].ok /\ th.pc = "list" /\ th.rule = thr[k].rule
  BY <1>1, <1>4 DEF Live, Thread, ListTable
<1>7. OnItsWay(th)
  BY <1>1, <1>6 DEF OnItsWay, ListTable
<1>8. thr' = [thr EXCEPT ![k] = th]
  BY <1>2, <1>4 DEF TypeInv, StateOK
<1>9. Goes(k, th)
  BY <1>5, <1>6, <1>7, <1>8, ThreadGoes DEF ListTable
<1> QED BY <1>9 DEF Goes, ListTable, TypeInv, StateOK

LEMMA UnregisterGoes ==
    ASSUME TypeInv, NEW k \in Slot, Unregister(k)
    PROVE  /\ StateOK'
           /\ \E t \in thr[k].todo :
                /\ Goes(k, [thr[k] EXCEPT !.list = registry \ {t}, !.todo = @ \ {t},
                                          !.next = "list", !.pc = "truncate"])
                /\ clean' = (clean /\ t \notin tables)
<1>1. thr[k] \in Live /\ OnItsWay(thr[k])
  BY AtWork DEF Unregister, TypeInv, ThreadsOK, Idle
<1>2. PICK t \in thr[k].todo :
        /\ thr' = [thr EXCEPT ![k].list = registry \ {t}, ![k].todo = @ \ {t},
                              ![k].next = "list", ![k].pc = "truncate"]
        /\ clean' = (clean /\ t \notin tables)
  BY DEF Unregister
<1> DEFINE th == [thr[k] EXCEPT !.list = registry \ {t}, !.todo = @ \ {t},
                                !.next = "list", !.pc = "truncate"]
<1>3. th \in Live
  BY <1>1, LiveFields DEF Live, Thread, TypeInv, StateOK, Step
<1>4. /\ th.op = thr[k].op /\ th.ok = thr[k].ok /\ th.pc = "truncate" /\ th.next = "list"
      /\ th.rule = thr[k].rule
  BY <1>1 DEF Live, Thread
<1>5. OnItsWay(th)
  BY <1>1, <1>4 DEF OnItsWay, Unregister
<1>6. thr' = [thr EXCEPT ![k] = th]
  BY <1>2 DEF TypeInv, StateOK
<1>7. Goes(k, th)
  BY <1>3, <1>4, <1>5, <1>6, ThreadGoes DEF Unregister
<1>8. StateOK'
  BY <1>2, <1>7 DEF Goes, Unregister, TypeInv, StateOK
<1> QED BY <1>2, <1>7, <1>8

LEMMA TruncateFileGoes ==
    ASSUME TypeInv, NEW k \in Slot, TruncateFile(k)
    PROVE  StateOK' /\ Goes(k, [thr[k] EXCEPT !.pc = "write", !.over = FALSE])
<1>1. thr[k] \in Live /\ OnItsWay(thr[k])
  BY AtWork DEF TruncateFile, TypeInv, ThreadsOK, Idle
<1>2. OnItsWay([thr[k] EXCEPT !.pc = "write", !.over = FALSE])
  BY <1>1, LiveFields DEF TruncateFile, OnItsWay, Live, Thread
<1>3. Goes(k, [thr[k] EXCEPT !.pc = "write", !.over = FALSE])
  BY <1>2, OpenedGoes DEF TruncateFile, Step
<1>4. NoRules \in Ruleset /\ IsFiniteSet(NoRules.rules)
  BY FS_EmptySet DEF NoRules, Ruleset
<1> QED BY <1>3, <1>4 DEF Goes, TruncateFile, TypeInv, StateOK

LEMMA WriteFileGoes ==
    ASSUME TypeInv, NEW k \in Slot, WriteFile(k)
    PROVE  StateOK' /\ Goes(k, [thr[k] EXCEPT !.pc = "done"])
<1>1. thr[k] \in Live /\ OnItsWay(thr[k])
  BY AtWork DEF WriteFile, TypeInv, ThreadsOK, Idle
<1>2. OnItsWay([thr[k] EXCEPT !.pc = "done"])
  BY <1>1, LiveFields DEF WriteFile, OnItsWay, Live, Thread
<1>3. Goes(k, [thr[k] EXCEPT !.pc = "done"])
  BY <1>2, WrittenGoes DEF WriteFile, Step
<1>4. NoRules \in Ruleset /\ IsFiniteSet(NoRules.rules)
  BY FS_EmptySet DEF NoRules, Ruleset
<1>5. saved' \in Ruleset /\ IsFiniteSet(saved'.rules)
  BY <1>1, <1>4, LiveFields DEF WriteFile
<1> QED BY <1>3, <1>5 DEF Goes, WriteFile, TypeInv, StateOK

(* All of them together.                                                   *)
LEMMA WorkGoes ==
    ASSUME TypeInv, NEW k \in Slot, Work(k)
    PROVE  StateOK' /\ Goes(k, thr'[k]) /\ thr[k] \in Live
<1>1. Goes(k, thr'[k]) <=> \E th : Goes(k, th)
  BY DEF Goes
<1>2. thr[k].pc # "idle"
  BY DEF Work, EnsureNat, CreateTable, AddRule, DeleteRule, NftRefuses, Lookup, Register,
     TruncateRegistry, DumpRegistry, Collect, ListTable, Unregister, TruncateFile, WriteFile
<1> QED
  BY <1>1, <1>2, AtWork, EnsureNatGoes, CreateTableGoes, AddRuleGoes, DeleteRuleGoes, RefusedGoes,
     LookupGoes, RegisterGoes, TruncateRegistryGoes, DumpRegistryGoes, CollectGoes,
     ListTableGoes, UnregisterGoes, TruncateFileGoes, WriteFileGoes DEF Work

-------------------------------------------------------------------------------
(* TypeInv.                                                                *)

(* The fields of a thread that others leave alone.                         *)
SameBut(th, old) ==
    /\ th.pc = old.pc /\ th.op = old.op /\ th.rule = old.rule /\ th.ok = old.ok
    /\ th.list = old.list /\ th.next = old.next /\ th.todo = old.todo /\ th.text = old.text

LEMMA OthersSame ==
    ASSUME TypeInv, NEW k \in Slot, thr[k] \in Live, Goes(k, thr'[k]), NEW j \in Slot
    PROVE  /\ thr'[j] = NoThread <=> thr[j] = NoThread
           /\ j # k /\ thr[j] # NoThread => SameBut(thr'[j], thr[j])
<1>1. NoThread \notin Live
  BY DEF Live, Thread, NoThread
<1>2. CASE j = k
  BY <1>1, <1>2 DEF Goes
<1>3. CASE j # k /\ thr'[j] = thr[j]
  BY <1>3 DEF SameBut
<1>4. CASE j # k /\ thr[j] \in Live /\ thr'[j] = [thr[j] EXCEPT !.over = TRUE]
  <2>1. SameBut(thr'[j], thr[j])
    BY <1>4 DEF SameBut, Live, Thread
  <2>2. thr'[j] \in Live
    BY <1>4 DEF Live, Thread
  <2> QED BY <1>1, <1>4, <2>1, <2>2
<1> QED BY <1>2, <1>3, <1>4 DEF Goes, OthersKeep

LEMMA WorkTypes ==
    ASSUME TypeInv, NEW k \in Slot, Work(k), UNCHANGED dvars
    PROVE  TypeInv'
<1>1. StateOK' /\ Goes(k, thr'[k]) /\ thr[k] \in Live
  BY WorkGoes
<1>2. DocsOK'
  BY DEF TypeInv, DocsOK, dvars
<1>3. thr[k] # NoThread
  BY <1>1 DEF Live, Thread, NoThread
<1>4. ASSUME NEW j \in Slot, thr'[j] # NoThread
      PROVE  OnItsWay(thr'[j]) /\ Purposeful(thr[j], stamp)' /\ thr'[j].op = thr[j].op
  <2>1. OnItsWay(thr[j]) /\ Purposeful(thr[j], stamp) /\ thr[j] # NoThread
    BY <1>1, <1>4, OthersSame DEF TypeInv, ThreadsOK, Idle
  <2>2. CASE j = k
    <3>1. thr[k].rule \in Rule
      BY <1>1, LiveFields
    <3>2. /\ thr'[k].rule.of = thr[k].rule.of /\ thr'[k].rule.t = thr[k].rule.t
          /\ thr'[k].rule.comment = thr[k].rule.comment
      BY <1>1, <3>1 DEF Goes, Rule
    <3> QED BY <1>1, <2>1, <2>2, <3>2 DEF Goes, Purposeful, dvars
  <2>3. CASE j # k
    <3>1. SameBut(thr'[j], thr[j])
      BY <1>1, <2>1, <2>3, OthersSame
    <3> QED BY <2>1, <3>1 DEF SameBut, Purposeful, OnItsWay, dvars
  <2> QED BY <2>2, <2>3
<1>5. \A j \in Slot : Awaited(j)'
  <2> SUFFICES ASSUME NEW j \in Slot PROVE Awaited(j)'
    OBVIOUS
  <2>1. Awaited(j) /\ hnd' = hnd
    BY DEF TypeInv, ThreadsOK, dvars
  <2> QED BY <1>1, <1>4, <2>1, OthersSame DEF Awaited, Idle
<1>6. \A d \in Doc : Fresh(d)'
  BY DEF TypeInv, ThreadsOK, Fresh, dvars
<1>7. \A j \in Slot : ~Idle(j)' => (OnItsWay(thr[j]) /\ Purposeful(thr[j], stamp))'
  BY <1>4 DEF Idle
<1> QED BY <1>1, <1>2, <1>5, <1>6, <1>7 DEF TypeInv, ThreadsOK

(* A request reaches Flask.                                                *)
Begun(op, rule) ==
    [pc |-> IF op = "add_nat" THEN "ensure" ELSE "nft", op |-> op,
     rule |-> rule, ok |-> FALSE, list |-> {}, next |-> "done",
     todo |-> {}, text |-> NoRules, over |-> FALSE]

LEMMA BegunIsLive ==
    ASSUME NEW op \in Op, NEW rule \in Rule
    PROVE  Begun(op, rule) \in Live /\ OnItsWay(Begun(op, rule))
<1>1. NoRules \in Ruleset /\ IsFiniteSet(NoRules.rules)
  BY FS_EmptySet DEF NoRules, Ruleset
<1> QED BY <1>1 DEF Begun, Live, Thread, Step, OnItsWay

Fits(kind, op) ==
    \/ kind = "table" /\ op = "create_table"
    \/ kind \in {"add", "enable"} /\ op \in Adding
    \/ kind \in {"disable", "delete"} /\ op = "delete"

(* A stamp, once given, stays.                                             *)
StampsStay == \A d \in Doc : stamp[d] # 0 => stamp'[d] = stamp[d]

LEMMA CallTypes ==
    ASSUME TypeInv, NEW k \in Slot, NEW kind, NEW rule \in Rule, NEW op \in Op,
           Call(k, kind, rule, op), Fits(kind, op), Purposeful(Begun(op, rule), stamp'),
           stamp' \in [Doc -> 0..MaxStamp], StampsStay,
           \A d \in Doc : stamp'[d] = 0 => stamp[d] = 0
    PROVE  TypeInv'
<1> DEFINE th == Begun(op, rule)
<1>1. th \in Live /\ OnItsWay(th) /\ th.op = op
  BY BegunIsLive DEF Begun
<1>2. /\ thr[k] = NoThread /\ thr' = [thr EXCEPT ![k] = th]
      /\ clean' = (clean /\ Quiet)
      /\ UNCHANGED <<tables, rules, nextHandle, registry, saved>>
  BY DEF Call, Serve, Begun
<1>3. /\ calls < MaxCalls /\ calls' = calls + 1
      /\ hnd' = [hnd EXCEPT ![k] = kind]
      /\ rough' = IF Users(rule.of) = {} THEN rough ELSE rough \cup ({rule.of} \cap Doc)
      /\ UNCHANGED <<docs, known, booted>>
  BY DEF Call
<1>4. StateOK'
  <2>1. clean' \in BOOLEAN
    BY <1>2 DEF TypeInv, StateOK
  <2> QED BY <1>1, <1>2, <2>1 DEF TypeInv, StateOK
<1>5. DocsOK'
  <2>1. calls' \in 0..MaxCalls
    BY <1>3, DocAssumption DEF TypeInv, DocsOK
  <2>2. kind \in Kind
    BY DEF Fits, Kind
  <2> QED BY <1>3, <2>1, <2>2 DEF TypeInv, DocsOK
<1>6. th # NoThread
  BY <1>1 DEF Live, Thread, NoThread
<1>7. ASSUME NEW j \in Slot, thr'[j] # NoThread
      PROVE  OnItsWay(thr'[j]) /\ Purposeful(thr[j], stamp)'
  <2>1. CASE j = k
    BY <1>1, <1>2, <2>1 DEF TypeInv, StateOK
  <2>2. CASE j # k
    <3>1. thr'[j] = thr[j] /\ OnItsWay(thr[j]) /\ Purposeful(thr[j], stamp)
      BY <1>2, <1>7, <2>2 DEF TypeInv, StateOK, ThreadsOK, Idle
    <3> QED BY <3>1 DEF Purposeful, StampsStay
  <2> QED BY <2>1, <2>2
<1>8. ASSUME NEW j \in Slot PROVE Awaited(j)'
  <2>1. CASE j = k
    <3>1. thr'[k] = th /\ hnd'[k] = kind
      BY <1>2, <1>3 DEF TypeInv, StateOK, DocsOK
    <3> QED BY <1>1, <1>6, <2>1, <3>1 DEF Awaited, Idle, Fits, Adding
  <2>2. CASE j # k
    <3>1. thr'[j] = thr[j] /\ hnd'[j] = hnd[j] /\ Awaited(j)
      BY <1>2, <1>3, <2>2 DEF TypeInv, StateOK, DocsOK, ThreadsOK
    <3> QED BY <3>1 DEF Awaited, Idle
  <2> QED BY <2>1, <2>2
<1>9. \A d \in Doc : Fresh(d)'
  BY <1>3 DEF TypeInv, ThreadsOK, Fresh
<1>10. \A j \in Slot : ~Idle(j)' => (OnItsWay(thr[j]) /\ Purposeful(thr[j], stamp))'
  BY <1>7 DEF Idle
<1> QED BY <1>4, <1>5, <1>8, <1>9, <1>10 DEF TypeInv, ThreadsOK

Asks(k, kind, rule, op) ==
    /\ Call(k, kind, rule, op)
    /\ rule \in Rule /\ op \in Op /\ Fits(kind, op)
    /\ Purposeful(Begun(op, rule), stamp')
    /\ stamp' \in [Doc -> 0..MaxStamp]
    /\ \A d \in Doc : stamp'[d] # stamp[d] => stamp[d] = 0 /\ d = rule.of
    /\ op # "create_table" =>
        /\ rule.of \in Doc
        /\ rule = RuleOf(rule.of, stamp'[rule.of])
        /\ stamp[rule.of] = 0 \/ docs[rule.of].st \in {"active", "inactive"}
        /\ op \in Adding => docs[rule.of].st # "active"
        /\ op = "delete" => docs[rule.of].st = "active"

LEMMA DocHasStamp ==
    ASSUME TypeInv, NEW d \in Doc, docs[d].st # "none"
    PROVE  stamp[d] # 0
BY DEF TypeInv, ThreadsOK, Fresh

LEMMA TypedRuleOf ==
    ASSUME TypeInv, NEW d \in Doc, NEW s \in Nat
    PROVE  /\ RuleOf(d, s) \in Rule
           /\ RuleOf(d, s).of = d /\ RuleOf(d, s).t = TableOf[d] /\ RuleOf(d, s).comment = s
           /\ RuleOf(d, s).h = docs[d].h
BY DocAssumption DEF TypeInv, DocsOK, RuleOf, Rule, Doc

LEMMA TableAsks ==
    ASSUME TypeInv, NEW k \in Slot, BeginTable(k)
    PROVE  \E kind, rule, op : Asks(k, kind, rule, op)
<1>1. PICK t \in Table : 
        /\ Call(k, "table", [t |-> t, h |-> 0, comment |-> 0, of |-> Nobody], "create_table")
        /\ UNCHANGED stamp
  BY DEF BeginTable
<1> DEFINE rule == [t |-> t, h |-> 0, comment |-> 0, of |-> Nobody]
<1>2. rule \in Rule /\ rule.of = Nobody
  BY StaticAssumption DEF Rule
<1>3. Purposeful(Begun("create_table", rule), stamp')
  BY <1>2 DEF Purposeful, Begun
<1>4. Asks(k, "table", rule, "create_table")
  BY <1>1, <1>2, <1>3 DEF Asks, Op, Fits, TypeInv, DocsOK
<1> QED BY <1>4

LEMMA AddAsks ==
    ASSUME TypeInv, NEW k \in Slot, NEW d \in Doc, BeginAdd(k, d)
    PROVE  \E kind, rule, op : Asks(k, kind, rule, op)
<1>1. PICK s \in 1..MaxStamp :
        stamp' = [stamp EXCEPT ![d] = s] /\ Call(k, "add", RuleOf(d, s), AddOp(d))
  BY DEF BeginAdd
<1>2. stamp[d] = 0 /\ docs[d].st = "none"
  BY DEF BeginAdd, TypeInv, ThreadsOK, Fresh
<1> DEFINE rule == RuleOf(d, s)
<1>3. stamp' \in [Doc -> 0..MaxStamp] /\ stamp'[d] = s /\ s # 0 /\ s \in Nat
  BY <1>1, DocAssumption DEF TypeInv, DocsOK
<1>4. rule \in Rule /\ rule.of = d /\ rule.t = TableOf[d] /\ rule.comment = s
  BY <1>3, TypedRuleOf
<1>5. Purposeful(Begun(AddOp(d), rule), stamp')
  BY <1>3, <1>4 DEF Purposeful, Begun, AddOp, IsNat
<1>6. AddOp(d) \in Adding /\ AddOp(d) # "create_table" /\ AddOp(d) \in Op /\ AddOp(d) # "delete"
  BY DEF AddOp, Adding, Op
<1>7. \A e \in Doc : stamp'[e] # stamp[e] => e = d
  BY <1>1 DEF TypeInv, DocsOK
<1>8. rule = RuleOf(rule.of, stamp'[rule.of])
  BY <1>3, <1>4
<1>9. Call(k, "add", rule, AddOp(d))
  BY <1>1
<1> HIDE DEF rule
<1>10. Asks(k, "add", rule, AddOp(d))
  BY <1>2, <1>3, <1>4, <1>5, <1>6, <1>7, <1>8, <1>9 DEF Asks, Fits
<1> QED BY <1>10

LEMMA ChangeAsks ==
    ASSUME TypeInv, NEW k \in Slot, NEW d \in Doc, BeginToggle(k, d) \/ BeginDelete(k, d)
    PROVE  \E kind, rule, op : Asks(k, kind, rule, op)
<1> DEFINE rule == RuleOf(d, stamp[d])
<1>1. stamp' = stamp /\ docs[d].st \in {"active", "inactive"}
  BY DEF BeginToggle, BeginDelete
<1>2. stamp[d] \in Nat /\ stamp[d] # 0 /\ stamp \in [Doc -> 0..MaxStamp]
  BY <1>1, DocHasStamp DEF TypeInv, DocsOK
<1>3. rule \in Rule /\ rule.of = d /\ rule.t = TableOf[d] /\ rule.comment = stamp[d]
  BY <1>2, TypedRuleOf
<1>4. rule = RuleOf(rule.of, stamp'[rule.of])
  BY <1>1, <1>3
<1>5. ASSUME NEW kind \in {"disable", "delete"}, Call(k, kind, rule, "delete"), docs[d].st = "active"
      PROVE  Asks(k, kind, rule, "delete")
  <2>1. Purposeful(Begun("delete", rule), stamp')
    BY <1>1, <1>2, <1>3 DEF Purposeful, Begun
  <2> HIDE DEF rule
  <2> QED BY <1>1, <1>2, <1>3, <1>4, <1>5, <2>1 DEF Asks, Fits, Op, Adding
<1>6. ASSUME Call(k, "enable", rule, AddOp(d)), docs[d].st = "inactive"
      PROVE  Asks(k, "enable", rule, AddOp(d))
  <2>1. Purposeful(Begun(AddOp(d), rule), stamp')
    BY <1>1, <1>2, <1>3 DEF Purposeful, Begun, AddOp, IsNat
  <2>2. AddOp(d) \in Adding /\ AddOp(d) # "create_table" /\ AddOp(d) \in Op /\ AddOp(d) # "delete"
    BY DEF AddOp, Adding, Op
  <2> HIDE DEF rule
  <2> QED BY <1>1, <1>2, <1>3, <1>4, <1>6, <2>1, <2>2 DEF Asks, Fits
<1>7. \/ docs[d].st = "active" /\ \E kind \in {"disable", "delete"} : Call(k, kind, rule, "delete")
      \/ docs[d].st = "inactive" /\ Call(k, "enable", rule, AddOp(d))
  BY DEF BeginToggle, BeginDelete
<1> QED BY <1>5, <1>6, <1>7

LEMMA AskTypes ==
    ASSUME TypeInv, NEW k \in Slot, NEW kind, NEW rule, NEW op, Asks(k, kind, rule, op)
    PROVE  TypeInv'
<1>1. StampsStay
  BY DEF Asks, StampsStay
<1>2. \A d \in Doc : stamp'[d] = 0 => stamp[d] = 0
  BY DEF Asks
<1> QED BY <1>1, <1>2, CallTypes DEF Asks

LEMMA DeleteInactiveTypes ==
    ASSUME TypeInv, NEW d \in Doc, DeleteInactive(d)
    PROVE  TypeInv'
<1>1. /\ UNCHANGED <<fvars, stamp, known, calls, hnd, booted>>
      /\ docs' = [docs EXCEPT ![d].st = "deleted"]
      /\ rough' \subseteq rough \cup {d}
      /\ stamp[d] # 0
  BY DocHasStamp DEF DeleteInactive
<1>2. StateOK'
  BY <1>1 DEF TypeInv, StateOK, fvars
<1>3. DocsOK'
  BY <1>1 DEF TypeInv, DocsOK
<1>4. ThreadsOK'
  BY <1>1 DEF TypeInv, DocsOK, ThreadsOK, fvars, Idle, Purposeful, Awaited, Fresh
<1> QED BY <1>2, <1>3, <1>4 DEF TypeInv

(* What an answer stores.                                                  *)
Writes(k) ==
    LET r == thr[k].rule IN
    \/ docs' = docs
    \/ /\ r.of \in Doc /\ stamp[r.of] # 0 /\ docs[r.of].st # "deleted"
       /\ \E st \in {"active", "inactive", "deleted"} :
            docs' = [docs EXCEPT ![r.of] = [st |-> st, h |-> IF st = "active" THEN r.h ELSE 0]]

LEMMA AnswerWrites ==
    ASSUME TypeInv, NEW k \in Slot, Answer(k) \/ Discard(k)
    PROVE  /\ Answered(k) /\ thr[k] \in Live
           /\ Writes(k)
           /\ known' \subseteq Table
           /\ rough \subseteq rough' /\ rough' \subseteq Doc
<1>1. Answered(k) /\ thr[k].pc = "done" /\ ~Idle(k)
  BY DEF Answer, Discard, Answered
<1>2. thr[k] \in Live
  BY <1>1, AtWork
<1>3. thr[k].rule \in Rule /\ thr[k].rule.t \in Table
  BY <1>2, LiveFields, RuleFields
<1>4. Purposeful(thr[k], stamp) /\ Awaited(k)
  BY <1>1 DEF TypeInv, ThreadsOK
<1>5. CASE Discard(k) \/ (Answer(k) /\ TableAnswered(k))
  BY <1>1, <1>2, <1>3, <1>5 DEF Discard, TableAnswered, Writes, TypeInv, DocsOK
<1>6. CASE hnd[k] \in {"add", "enable", "disable", "delete"} /\ Answer(k)
  <2>1. thr[k].rule.of \in Doc /\ stamp[thr[k].rule.of] # 0
    BY <1>4, <1>6 DEF Awaited, Purposeful, Adding
  <2>2. CASE RuleAdded(k)
    BY <1>1, <1>2, <2>1, <2>2 DEF RuleAdded, Store, Writes, TypeInv, DocsOK
  <2>3. CASE RuleDisabled(k)
    BY <1>1, <1>2, <2>1, <2>3 DEF RuleDisabled, Store, Writes, TypeInv, DocsOK
  <2>4. CASE RuleDeleted(k)
    BY <1>1, <1>2, <2>1, <2>4 DEF RuleDeleted, Store, Writes, TypeInv, DocsOK
  <2> QED BY <1>6, <2>2, <2>3, <2>4 DEF Answer, TableAnswered
<1> QED BY <1>5, <1>6 DEF Answer, TableAnswered, RuleAdded, RuleDisabled, RuleDeleted

LEMMA AnswerTypes ==
    ASSUME TypeInv, NEW k \in Slot, Answer(k) \/ Discard(k)
    PROVE  TypeInv'
<1>1. /\ Answered(k) /\ thr[k] \in Live /\ Writes(k)
      /\ known' \subseteq Table /\ rough' \subseteq Doc
  BY AnswerWrites
<1>2. StateOK'
  BY <1>1 DEF Answered, TypeInv, StateOK
<1>3. docs' \in [Doc -> [st : {"none", "active", "inactive", "deleted"}, h : Nat]]
  <2>1. thr[k].rule.h \in Nat
    BY <1>1, LiveFields, RuleFields
  <2> QED BY <1>1, <2>1 DEF Writes, TypeInv, DocsOK
<1>4. DocsOK'
  BY <1>1, <1>3 DEF Answered, TypeInv, DocsOK, Kind
<1>5. ASSUME NEW j \in Slot PROVE (~Idle(j) => OnItsWay(thr[j]) /\ Purposeful(thr[j], stamp))' /\ Awaited(j)'
  <2>1. CASE j = k
    BY <1>1, <2>1 DEF Answered, TypeInv, StateOK, DocsOK, Idle, Awaited
  <2>2. CASE j # k
    <3>1. thr'[j] = thr[j] /\ hnd'[j] = hnd[j] /\ stamp' = stamp
      BY <1>1, <2>2 DEF Answered, TypeInv, StateOK, DocsOK
    <3>2. (~Idle(j) => OnItsWay(thr[j]) /\ Purposeful(thr[j], stamp)) /\ Awaited(j)
      BY DEF TypeInv, ThreadsOK
    <3> QED BY <3>1, <3>2 DEF Idle, Purposeful, Awaited
  <2> QED BY <2>1, <2>2
<1>6. \A d \in Doc : Fresh(d)'
  BY <1>1 DEF Writes, Answered, Fresh, TypeInv, ThreadsOK, DocsOK
<1> QED BY <1>2, <1>4, <1>5, <1>6 DEF TypeInv, ThreadsOK

LEMMA GiveUpTypes ==
    ASSUME TypeInv, NEW k \in Slot, GiveUp(k)
    PROVE  TypeInv'
<1>1. /\ UNCHANGED <<fvars, docs, stamp, known, calls, booted>>
      /\ hnd' = [hnd EXCEPT ![k] = "none"] /\ rough' \subseteq Doc
  BY DEF GiveUp, TypeInv, DocsOK
<1>2. StateOK'
  BY <1>1 DEF TypeInv, StateOK, fvars
<1>3. DocsOK'
  BY <1>1 DEF TypeInv, DocsOK, Kind
<1>4. ThreadsOK'
  BY <1>1 DEF TypeInv, DocsOK, ThreadsOK, fvars, Idle, Purposeful, Awaited, Fresh
<1> QED BY <1>2, <1>3, <1>4 DEF TypeInv

LEMMA BootState ==
    ASSUME StateOK, Boot
    PROVE  StateOK'
<1> DEFINE loaded == [r \in saved.rules |-> [r EXCEPT !.h = Rank(r)]]
<1>1. saved.rules \subseteq Rule /\ IsFiniteSet(saved.rules) /\ saved.tables \subseteq Table
  BY DEF StateOK, Ruleset
<1>2. ASSUME NEW r \in saved.rules PROVE Rank(r) \in Nat
  <2>1. {s \in saved.rules : s.t = r.t /\ s.h <= r.h} \in SUBSET saved.rules
    OBVIOUS
  <2> QED BY <1>1, <2>1, FS_Subset, FS_CardinalityType DEF Rank
<1>3. rules' = {[r EXCEPT !.h = Rank(r)] : r \in saved.rules}
  BY DEF Boot
<1>4. rules' \subseteq Rule
  BY <1>1, <1>2, <1>3 DEF Rule
<1>5. IsFiniteSet(rules')
  <2>1. loaded \in Surjection(saved.rules, rules')
    BY <1>3 DEF Surjection
  <2> QED BY <1>1, <2>1, FS_Surjection
<1>6. nextHandle' \in [Table -> Nat]
  <2>1. ASSUME NEW t \in Table PROVE Cardinality({r \in saved.rules : r.t = t}) \in Nat
    <3>1. {r \in saved.rules : r.t = t} \in SUBSET saved.rules
      OBVIOUS
    <3> QED BY <1>1, <3>1, FS_Subset, FS_CardinalityType
  <2> QED BY <2>1 DEF Boot
<1>7. clean' \in BOOLEAN /\ tables' \subseteq Table
  BY <1>1 DEF Boot, StateOK
<1>8. thr' \in [Slot -> Live \cup {NoThread}]
  BY DEF Boot
<1> QED BY <1>4, <1>5, <1>6, <1>7, <1>8 DEF Boot, StateOK

LEMMA StopTypes == TypeInv /\ AgentStops => TypeInv'
<1> SUFFICES ASSUME TypeInv, AgentStops PROVE TypeInv'
  OBVIOUS
<1>1. StateOK'
  <2>1. CASE Restart
    BY <2>1 DEF Restart, TypeInv, StateOK
  <2>2. CASE Boot
    BY <2>2, BootState DEF TypeInv
  <2> QED BY <2>1, <2>2 DEF AgentStops
<1>2. /\ thr' = [k \in Slot |-> NoThread] /\ hnd' = [k \in Slot |-> "none"]
      /\ UNCHANGED <<docs, stamp, known, calls>>
      /\ rough' \subseteq Doc /\ booted' \in BOOLEAN
  BY DEF AgentStops, Restart, Boot, TypeInv, DocsOK
<1>3. DocsOK'
  BY <1>2 DEF TypeInv, DocsOK, Kind
<1>4. ThreadsOK'
  BY <1>2 DEF TypeInv, ThreadsOK, Idle, Awaited, Fresh
<1> QED BY <1>1, <1>3, <1>4 DEF TypeInv

LEMMA InitTypes == StaticInit => TypeInv
<1> SUFFICES ASSUME StaticInit PROVE TypeInv
  OBVIOUS
<1>1. StateOK
  BY FS_EmptySet, StaticAssumption DEF StaticInit, FirewallInit, StateOK, Ruleset
<1>2. DocsOK
  <2>1. 0 \in 0..MaxStamp /\ 0 \in 0..MaxCalls
    BY DocAssumption
  <2>2. [st |-> "none", h |-> 0] \in [st : {"none", "active", "inactive", "deleted"}, h : Nat]
    OBVIOUS
  <2>3. docs \in [Doc -> [st : {"none", "active", "inactive", "deleted"}, h : Nat]]
        /\ stamp \in [Doc -> 0..MaxStamp]
    BY <2>1, <2>2 DEF StaticInit
  <2> QED BY <2>1, <2>3, StaticAssumption DEF StaticInit, DocsOK, Kind
<1>3. ThreadsOK
  BY DEF StaticInit, FirewallInit, ThreadsOK, Idle, Awaited, Fresh
<1> QED BY <1>1, <1>2, <1>3 DEF TypeInv

(* The steps, by what they do.                                             *)
LEMMA Steps ==
    ASSUME TypeInv, StaticNext
    PROVE  \/ \E k \in Slot : Work(k) /\ UNCHANGED dvars
           \/ \E k \in Slot : \E kind, rule, op : Asks(k, kind, rule, op)
           \/ \E k \in Slot : Answer(k) \/ Discard(k)
           \/ \E k \in Slot : GiveUp(k)
           \/ \E d \in Doc : DeleteInactive(d)
           \/ AgentStops
<1>1. ASSUME NEW k \in Slot, BeginTable(k) \/ \E d \in Doc : BeginAdd(k, d) \/ BeginToggle(k, d) \/ BeginDelete(k, d)
      PROVE  \E kind, rule, op : Asks(k, kind, rule, op)
  BY <1>1, TableAsks, AddAsks, ChangeAsks
<1> QED BY <1>1 DEF StaticNext

LEMMA Stutter ==
    ASSUME UNCHANGED svars
    PROVE  UNCHANGED <<tables, rules, nextHandle, registry, saved, thr, clean,
                       docs, stamp, known, calls, hnd, rough, booted>>
BY DEF svars

LEMMA TypeStep == TypeInv /\ [StaticNext]_svars => TypeInv'
<1> SUFFICES ASSUME TypeInv, [StaticNext]_svars PROVE TypeInv'
  OBVIOUS
<1>1. CASE UNCHANGED svars
  BY <1>1, Stutter DEF TypeInv, StateOK, DocsOK, ThreadsOK, Idle, Awaited, Fresh
<1>2. CASE StaticNext
  BY <1>2, Steps, WorkTypes, AskTypes, AnswerTypes, GiveUpTypes, DeleteInactiveTypes, StopTypes
<1> QED BY <1>1, <1>2

-------------------------------------------------------------------------------
(* HandleInv.                                                              *)

(* Only three steps of a thread touch a handle.                            *)
LEMMA WorkLeaves ==
    ASSUME TypeInv, NEW k \in Slot, Work(k), ~AddRule(k), ~DeleteRule(k)
    PROVE  UNCHANGED <<rules, nextHandle>>
BY DEF Work, EnsureNat, CreateTable, NftRefuses, Lookup, Register, TruncateRegistry,
   DumpRegistry, Collect, ListTable, Unregister, TruncateFile, WriteFile

LEMMA RuleStays ==
    ASSUME TypeInv, NEW k \in Slot, Work(k), ~Lookup(k)
    PROVE  thr'[k].rule = thr[k].rule
<1>1. thr[k] \in Live
  BY WorkGoes
<1> USE <1>1 DEF Live, Thread
<1>2. CASE EnsureNat(k)
  BY <1>2, EnsureNatGoes DEF Goes
<1>3. CASE CreateTable(k)
  BY <1>3, CreateTableGoes DEF Goes
<1>4. CASE AddRule(k)
  BY <1>4, AddRuleGoes DEF Goes
<1>5. CASE DeleteRule(k)
  BY <1>5, DeleteRuleGoes DEF Goes
<1>6. CASE NftRefuses(k)
  BY <1>6, RefusedGoes DEF Goes
<1>7. CASE Register(k)
  BY <1>7, RegisterGoes DEF Goes
<1>8. CASE TruncateRegistry(k)
  BY <1>8, TruncateRegistryGoes DEF Goes
<1>9. CASE DumpRegistry(k)
  BY <1>9, DumpRegistryGoes DEF Goes
<1>10. CASE Collect(k)
  BY <1>10, CollectGoes DEF Goes
<1>11. CASE ListTable(k)
  BY <1>11, ListTableGoes DEF Goes, Listed
<1>12. CASE Unregister(k)
  BY <1>12, UnregisterGoes DEF Goes
<1>13. CASE TruncateFile(k)
  BY <1>13, TruncateFileGoes DEF Goes
<1>14. CASE WriteFile(k)
  BY <1>14, WriteFileGoes DEF Goes
<1> QED BY <1>2, <1>3, <1>4, <1>5, <1>6, <1>7, <1>8, <1>9, <1>10, <1>11, <1>12, <1>13, <1>14
        DEF Work

(* A handle held stays good while the kernel gives out new numbers only.   *)
NewNumbersOnly ==
    /\ \A t \in Table : nextHandle[t] <= nextHandle'[t]
    /\ \A s \in rules' : s \in rules \/ s.h >= nextHandle[s.t]

LEMMA HeldStays ==
    ASSUME TypeInv, TypeInv', NewNumbersOnly, NEW r \in Rule, Held(r)
    PROVE  r.h < nextHandle'[r.t] /\ \A s \in rules' : s.t = r.t /\ s.h = r.h => s.comment = r.comment
<1>1. r.t \in Table /\ r.h \in Nat /\ nextHandle[r.t] \in Nat /\ nextHandle'[r.t] \in Nat
  BY RuleFields DEF TypeInv, StateOK
<1>2. r.h < nextHandle[r.t] /\ nextHandle[r.t] <= nextHandle'[r.t]
  BY <1>1 DEF Held, NewNumbersOnly
<1>3. ASSUME NEW s \in rules', s.t = r.t, s.h = r.h
      PROVE  s.comment = r.comment
  <2>1. s \in rules
    BY <1>1, <1>2, <1>3 DEF NewNumbersOnly
  <2> QED BY <1>3, <2>1 DEF Held, Hit, Same
<1> QED BY <1>1, <1>2, <1>3

LEMMA HeldIs ==
    ASSUME NEW r
    PROVE  Held(r) <=> /\ r.h < nextHandle[r.t]
                       /\ \A s \in rules : s.t = r.t /\ s.h = r.h => s.comment = r.comment
BY DEF Held, Hit, Same

LEMMA ThreadRule ==
    ASSUME TypeInv, NEW k \in Slot, ~Idle(k)
    PROVE  /\ thr[k] \in Live /\ thr[k].rule \in Rule /\ thr[k].op \in Op
           /\ Purposeful(thr[k], stamp)
<1>1. thr[k] \in Live
  BY DEF TypeInv, StateOK, Idle
<1> QED BY <1>1, LiveFields DEF TypeInv, ThreadsOK

LEMMA DocRule ==
    ASSUME TypeInv, NEW d \in Doc
    PROVE  /\ RuleOf(d, stamp[d]) \in Rule
           /\ RuleOf(d, stamp[d]).t = TableOf[d] /\ RuleOf(d, stamp[d]).h = docs[d].h
           /\ RuleOf(d, stamp[d]).comment = stamp[d] /\ RuleOf(d, stamp[d]).of = d
           /\ TableOf[d] \in Table /\ stamp[d] \in Nat
<1>1. stamp[d] \in Nat /\ TableOf[d] \in Table
  BY DocAssumption DEF TypeInv, DocsOK
<1> QED BY <1>1, TypedRuleOf

(* What is held after a step of a thread.                                  *)
LEMMA HeldByWork ==
    ASSUME TypeInv, TypeInv', HandleInv, ~booted, NEW k \in Slot, Work(k), UNCHANGED dvars,
           NewNumbersOnly,
           thr'[k].op # "create_table" => Held(thr[k].rule)'
    PROVE  HandlesHeld'
<1>0. UNCHANGED <<docs, stamp>> /\ HandlesHeld
  BY DEF dvars, HandleInv
<1>1. \A t \in Table : nextHandle'[t] > 0
  BY <1>0 DEF HandlesHeld, NewNumbersOnly, TypeInv, StateOK
<1>2. ASSUME NEW d \in Doc PROVE Held(RuleOf(d, stamp[d]))'
  <2>1. RuleOf(d, stamp[d])' = RuleOf(d, stamp[d])
    BY <1>0 DEF RuleOf
  <2>2. RuleOf(d, stamp[d]) \in Rule /\ Held(RuleOf(d, stamp[d]))
    BY <1>0, DocRule DEF HandlesHeld
  <2> QED BY <2>1, <2>2, HeldStays DEF Held, Hit, Same
<1>3. ASSUME NEW j \in Slot, ~Idle(j)', thr'[j].op # "create_table"
      PROVE  Held(thr[j].rule)'
  <2>1. CASE j = k
    BY <1>3, <2>1
  <2>2. CASE j # k
    <3>1. /\ thr[j] # NoThread /\ thr'[j].rule = thr[j].rule /\ thr'[j].op = thr[j].op
      BY <1>3, <2>2, WorkGoes, OthersSame DEF Idle, SameBut
    <3>2. thr[j].rule \in Rule /\ Held(thr[j].rule)
      BY <1>0, <1>3, <3>1, ThreadRule DEF HandlesHeld, Idle
    <3> QED BY <3>1, <3>2, HeldStays DEF Held, Hit, Same
  <2> QED BY <2>1, <2>2
<1> QED BY <1>1, <1>2, <1>3 DEF HandlesHeld

LEMMA HandleByAddRule ==
    ASSUME TypeInv, TypeInv', HandleInv, ~booted, NEW k \in Slot, AddRule(k), UNCHANGED dvars
    PROVE  RulesOfDocs' /\ OneRulePerHandle' /\ HandlesHeld'
<1> DEFINE r == thr[k].rule
<1> DEFINE new == [r EXCEPT !.h = nextHandle[r.t]]
<1>1. /\ thr[k].pc = "nft" /\ thr[k].op \in Adding
      /\ rules' = rules \cup {new}
      /\ nextHandle' = [nextHandle EXCEPT ![r.t] = @ + 1]
      /\ UNCHANGED <<docs, stamp>> /\ Work(k)
  BY DEF AddRule, Adding, dvars, Work
<1>2. RulesOfDocs /\ OneRulePerHandle /\ HandlesHeld
  BY DEF HandleInv
<1>3. r \in Rule /\ Purposeful(thr[k], stamp) /\ thr[k] \in Live
  BY <1>1, ThreadRule DEF Idle, NoThread
<1>4. /\ r.of \in Doc /\ r.t = TableOf[r.of] /\ r.comment = stamp[r.of] /\ r.comment # 0
      /\ r.t \in Table
  BY <1>1, <1>3, RuleFields DEF Purposeful, Adding
<1>5. nextHandle \in [Table -> Nat] /\ nextHandle[r.t] \in Nat /\ nextHandle[r.t] > 0
  BY <1>2, <1>4 DEF TypeInv, StateOK, HandlesHeld
<1>6. /\ new.t = r.t /\ new.of = r.of /\ new.comment = r.comment /\ new.h = nextHandle[r.t]
  BY <1>3 DEF Rule
<1>7. /\ nextHandle'[r.t] = nextHandle[r.t] + 1
      /\ \A t \in Table : nextHandle'[t] >= nextHandle[t] /\ nextHandle'[t] \in Nat
  BY <1>1, <1>4, <1>5
<1>8. \A s \in rules : s \in Rule /\ s.h \in Nat /\ s.t \in Table /\ s.h < nextHandle[s.t]
  BY <1>2, RuleFields DEF TypeInv, StateOK, RulesOfDocs
<1> HIDE DEF new
<1>9. RulesOfDocs'
  <2> SUFFICES ASSUME NEW s \in rules'
               PROVE  /\ s.of \in Doc /\ s.t = TableOf[s.of] /\ s.comment = stamp[s.of] /\ s.comment # 0
                      /\ 0 < s.h /\ s.h < nextHandle'[s.t]
    BY <1>1 DEF RulesOfDocs
  <2>1. CASE s \in rules
    <3>1. nextHandle[s.t] \in Nat /\ nextHandle'[s.t] \in Nat /\ nextHandle'[s.t] >= nextHandle[s.t]
      BY <1>5, <1>7, <1>8, <2>1
    <3> QED BY <1>2, <1>8, <2>1, <3>1 DEF RulesOfDocs
  <2>2. CASE s = new
    BY <1>4, <1>5, <1>6, <1>7, <2>2
  <2> QED BY <1>1, <2>1, <2>2
<1>10. OneRulePerHandle'
  <2>1. \A s \in rules : ~(s.t = new.t /\ s.h = new.h)
    BY <1>5, <1>6, <1>8
  <2> QED BY <1>1, <1>2, <2>1 DEF OneRulePerHandle
<1>11. HandlesHeld'
  <2>1. NewNumbersOnly
    BY <1>1, <1>5, <1>6, <1>7 DEF NewNumbersOnly
  <2>2. Held(r)
    BY <1>1, <1>2 DEF HandlesHeld, Idle, Adding, NoThread
  <2>3. thr'[k].rule = r
    BY <1>1, RuleStays DEF Lookup
  <2>4. Held(thr[k].rule)'
    BY <1>3, <2>1, <2>2, <2>3, HeldStays DEF Held, Hit, Same
  <2> QED BY <1>1, <2>1, <2>4, HeldByWork
<1> QED BY <1>9, <1>10, <1>11

LEMMA HandleByOther ==
    ASSUME TypeInv, TypeInv', HandleInv, ~booted, NEW k \in Slot, Work(k), ~AddRule(k), UNCHANGED dvars
    PROVE  RulesOfDocs' /\ OneRulePerHandle' /\ HandlesHeld'
<1>1. RulesOfDocs /\ OneRulePerHandle /\ HandlesHeld /\ UNCHANGED <<docs, stamp>>
  BY DEF HandleInv, dvars
<1>2. nextHandle' = nextHandle /\ rules' \subseteq rules
  <2>1. CASE DeleteRule(k)
    BY <2>1 DEF DeleteRule
  <2>2. CASE ~DeleteRule(k)
    BY <2>2, WorkLeaves
  <2> QED BY <2>1, <2>2
<1>3. NewNumbersOnly
  BY <1>2 DEF NewNumbersOnly, TypeInv, StateOK
<1>4. RulesOfDocs' /\ OneRulePerHandle'
  BY <1>1, <1>2 DEF RulesOfDocs, OneRulePerHandle
<1>5. ~Idle(k) /\ thr[k] \in Live /\ thr'[k].op = thr[k].op
  BY WorkGoes DEF Goes, Idle, Live, Thread, NoThread
<1>6. thr[k].rule \in Rule /\ Purposeful(thr[k], stamp)
  BY <1>5, ThreadRule
<1>7. ASSUME thr'[k].op # "create_table" PROVE Held(thr[k].rule)'
  <2>1. Held(thr[k].rule)
    BY <1>1, <1>5, <1>7 DEF HandlesHeld
  <2>2. CASE ~Lookup(k)
    <3>1. thr'[k].rule = thr[k].rule
      BY <2>2, RuleStays
    <3> QED BY <1>3, <1>6, <2>1, <3>1, HeldStays DEF Held, Hit, Same
  <2>3. CASE Lookup(k)
    <3>1. PICK h \in Nat : /\ thr'[k] = [thr[k] EXCEPT !.rule.h = h, !.pc = "collect"]
                           /\ h = 0 \/ \E s \in Same(thr[k].rule) : h = s.h
      BY <2>3, LookupGoes DEF Goes
    <3>2. /\ thr'[k].rule.t = thr[k].rule.t /\ thr'[k].rule.h = h
          /\ thr'[k].rule.comment = thr[k].rule.comment
      BY <1>5, <1>6, <3>1 DEF Live, Thread, Rule
    <3>3. thr[k].rule.t \in Table /\ nextHandle[thr[k].rule.t] > 0
      BY <1>1, <1>6, RuleFields DEF HandlesHeld
    <3>4. rules' = rules
      BY <2>3 DEF Lookup
    <3>5. h < nextHandle[thr[k].rule.t]
      BY <1>1, <3>1, <3>3 DEF Same, RulesOfDocs
    <3>6. \A s \in rules : s.t = thr[k].rule.t /\ s.h = h => s.comment = thr[k].rule.comment
      BY <1>1, <3>1 DEF Same, OneRulePerHandle, RulesOfDocs
    <3> QED BY <1>2, <3>2, <3>4, <3>5, <3>6 DEF Held, Hit, Same
  <2> QED BY <2>2, <2>3
<1> QED BY <1>3, <1>4, <1>7, HeldByWork

LEMMA HandleByWork ==
    ASSUME TypeInv, TypeInv', HandleInv, NEW k \in Slot, Work(k), UNCHANGED dvars
    PROVE  HandleInv'
<1>1. booted' = booted
  BY DEF dvars
<1> QED BY <1>1, HandleByAddRule, HandleByOther DEF HandleInv

(* A document without a handle holds none.                                 *)
LEMMA NoHandle ==
    ASSUME TypeInv, RulesOfDocs, \A t \in Table : nextHandle[t] > 0, NEW r \in Rule, r.h = 0
    PROVE  Held(r)
<1>1. r.t \in Table
  BY RuleFields
<1> QED BY <1>1 DEF RulesOfDocs, Held, Hit, Same

LEMMA HandleByAsk ==
    ASSUME TypeInv, TypeInv', HandleInv, NEW k \in Slot, NEW kind, NEW rule, NEW op,
           Asks(k, kind, rule, op)
    PROVE  HandleInv'
<1> SUFFICES ASSUME ~booted PROVE RulesOfDocs' /\ OneRulePerHandle' /\ HandlesHeld'
  BY DEF HandleInv, Asks, Call
<1>1. RulesOfDocs /\ OneRulePerHandle /\ HandlesHeld
  BY DEF HandleInv
<1>2. /\ UNCHANGED <<rules, nextHandle, docs>>
      /\ thr' = [thr EXCEPT ![k] = Begun(op, rule)]
      /\ rule \in Rule /\ op \in Op
      /\ \A d \in Doc : stamp'[d] # stamp[d] => stamp[d] = 0
      /\ op # "create_table" => rule.of \in Doc /\ rule = RuleOf(rule.of, stamp'[rule.of])
  BY DEF Asks, Call, Serve, Begun
<1>3. RulesOfDocs' /\ OneRulePerHandle'
  BY <1>1, <1>2 DEF RulesOfDocs, OneRulePerHandle
<1>4. \A x : Held(x) <=> /\ x.h < nextHandle'[x.t]
                         /\ \A s \in rules' : s.t = x.t /\ s.h = x.h => s.comment = x.comment
  BY <1>2 DEF Held, Hit, Same
<1>5. ASSUME NEW d \in Doc PROVE Held(RuleOf(d, stamp'[d]))
  <2>1. CASE stamp'[d] = stamp[d]
    BY <1>1, <2>1 DEF HandlesHeld
  <2>2. CASE stamp[d] = 0
    <3>1. docs[d].h = 0 /\ stamp'[d] \in Nat
      BY <2>2, DocAssumption DEF TypeInv, ThreadsOK, Fresh, DocsOK
    <3>2. RuleOf(d, stamp'[d]) \in Rule /\ RuleOf(d, stamp'[d]).h = 0
      BY <3>1, TypedRuleOf
    <3> QED BY <1>1, <3>2, NoHandle DEF HandlesHeld
  <2> QED BY <1>2, <2>1, <2>2
<1>6. ASSUME NEW d \in Doc PROVE Held(RuleOf(d, stamp[d]))'
  <2>1. RuleOf(d, stamp[d])' = RuleOf(d, stamp'[d])
    BY <1>2 DEF RuleOf
  <2> QED BY <1>4, <1>5, <2>1 DEF Held, Hit, Same
<1>7. ASSUME NEW j \in Slot, ~Idle(j)', thr'[j].op # "create_table" PROVE Held(thr[j].rule)'
  <2>1. CASE j = k
    <3>1. thr'[k].rule = rule /\ thr'[k].op = op
      BY <1>2 DEF TypeInv, StateOK, Begun
    <3>2. Held(rule)
      BY <1>2, <1>5, <1>7, <2>1, <3>1
    <3> QED BY <1>4, <2>1, <3>1, <3>2 DEF Held, Hit, Same
  <2>2. CASE j # k
    <3>1. thr'[j] = thr[j]
      BY <1>2, <2>2 DEF TypeInv, StateOK
    <3>2. Held(thr[j].rule)
      BY <1>1, <1>7, <3>1 DEF HandlesHeld, Idle
    <3> QED BY <1>4, <3>1, <3>2 DEF Held, Hit, Same
  <2> QED BY <2>1, <2>2
<1> QED BY <1>1, <1>2, <1>3, <1>6, <1>7 DEF HandlesHeld

(* The kernel does not change, the threads at most end, and the documents  *)
(* take a handle from a thread or none.                                    *)
LEMMA HandleByWrite ==
    ASSUME TypeInv, TypeInv', HandleInv,
           UNCHANGED <<rules, nextHandle, stamp, booted>>,
           \A j \in Slot : thr'[j] = thr[j] \/ thr'[j] = NoThread,
           \A d \in Doc : \/ docs'[d].h \in {0, docs[d].h}
                          \/ \E k \in Slot : /\ ~Idle(k) /\ thr[k].rule.of = d
                                             /\ docs'[d].h = thr[k].rule.h
    PROVE  HandleInv'
<1> SUFFICES ASSUME ~booted PROVE RulesOfDocs' /\ OneRulePerHandle' /\ HandlesHeld'
  BY DEF HandleInv
<1>1. RulesOfDocs /\ OneRulePerHandle /\ HandlesHeld
  BY DEF HandleInv
<1>2. RulesOfDocs' /\ OneRulePerHandle'
  BY <1>1 DEF RulesOfDocs, OneRulePerHandle
<1>3. \A x : Held(x) <=> /\ x.h < nextHandle'[x.t]
                         /\ \A s \in rules' : s.t = x.t /\ s.h = x.h => s.comment = x.comment
  BY DEF Held, Hit, Same
<1>4. ASSUME NEW d \in Doc PROVE Held(RuleOf(d, stamp[d]))'
  <2> DEFINE new == [t |-> TableOf[d], h |-> docs'[d].h, comment |-> stamp[d], of |-> d]
  <2>1. RuleOf(d, stamp[d])' = new
    BY DEF RuleOf
  <2>2. new \in Rule /\ new.h = docs'[d].h
    BY <2>1, DocAssumption DEF TypeInv, DocsOK, Rule, Doc
  <2>3. CASE docs'[d].h = 0
    <3>1. Held(new)
      BY <1>1, <2>2, <2>3, NoHandle DEF HandlesHeld
    <3> QED BY <1>3, <2>1, <3>1 DEF Held, Hit, Same
  <2>4. CASE docs'[d].h = docs[d].h
    <3>1. new = RuleOf(d, stamp[d])
      BY <2>4 DEF RuleOf
    <3>2. Held(new)
      BY <1>1, <3>1 DEF HandlesHeld
    <3> QED BY <1>3, <2>1, <3>2 DEF Held, Hit, Same
  <2>5. ASSUME NEW k \in Slot, ~Idle(k), thr[k].rule.of = d, docs'[d].h = thr[k].rule.h
        PROVE  Held(RuleOf(d, stamp[d]))'
    <3>1. thr[k].rule \in Rule /\ Purposeful(thr[k], stamp) /\ d # Nobody
      BY <2>5, ThreadRule DEF Doc
    <3>2. thr[k].op # "create_table"
      BY <2>5, <3>1 DEF Purposeful
    <3>3. Held(thr[k].rule)
      BY <1>1, <2>5, <3>2 DEF HandlesHeld
    <3>4. thr[k].rule = new
      BY <2>5, <3>1, <3>2 DEF Purposeful, Rule
    <3> QED BY <1>3, <2>1, <3>3, <3>4 DEF Held, Hit, Same
  <2> QED BY <2>3, <2>4, <2>5
<1>5. ASSUME NEW j \in Slot, ~Idle(j)', thr'[j].op # "create_table" PROVE Held(thr[j].rule)'
  <2>1. thr'[j] = thr[j] /\ ~Idle(j)
    BY <1>5 DEF Idle
  <2>2. Held(thr[j].rule)
    BY <1>1, <1>5, <2>1 DEF HandlesHeld
  <2> QED BY <1>3, <2>1, <2>2 DEF Held, Hit, Same
<1> QED BY <1>1, <1>2, <1>4, <1>5 DEF HandlesHeld

LEMMA HandleByAnswer ==
    ASSUME TypeInv, TypeInv', HandleInv, NEW k \in Slot, Answer(k) \/ Discard(k)
    PROVE  HandleInv'
<1>1. Answered(k) /\ thr[k] \in Live /\ Writes(k)
  BY AnswerWrites
<1>2. UNCHANGED <<rules, nextHandle, stamp, booted>>
  BY <1>1 DEF Answered
<1>3. \A j \in Slot : thr'[j] = thr[j] \/ thr'[j] = NoThread
  BY <1>1 DEF Answered, TypeInv, StateOK
<1>4. ASSUME NEW d \in Doc, docs'[d].h \notin {0, docs[d].h}
      PROVE  ~Idle(k) /\ thr[k].rule.of = d /\ docs'[d].h = thr[k].rule.h
  BY <1>1, <1>4 DEF Writes, Answered, TypeInv, DocsOK
<1> QED BY <1>2, <1>3, <1>4, HandleByWrite

LEMMA HandleByRest ==
    ASSUME TypeInv, TypeInv', HandleInv,
           \/ \E k \in Slot : GiveUp(k)
           \/ \E d \in Doc : DeleteInactive(d)
           \/ AgentStops
    PROVE  HandleInv'
<1>1. CASE \E k \in Slot : GiveUp(k)
  BY <1>1, HandleByWrite DEF GiveUp, fvars
<1>2. CASE \E d \in Doc : DeleteInactive(d)
  <2>1. PICK d \in Doc : DeleteInactive(d)
    BY <1>2
  <2>2. \A e \in Doc : docs'[e].h = docs[e].h
    BY <2>1 DEF DeleteInactive, TypeInv, DocsOK
  <2> QED BY <2>1, <2>2, HandleByWrite DEF DeleteInactive, fvars
<1>3. CASE AgentStops /\ Restart
  <2>1. CASE UNCHANGED booted
    BY <1>3, <2>1, HandleByWrite DEF AgentStops, Restart
  <2>2. CASE booted'
    BY <2>2 DEF HandleInv
  <2> QED BY <1>3, <2>1, <2>2 DEF AgentStops
<1>4. CASE AgentStops /\ ~Restart
  BY <1>4 DEF AgentStops, HandleInv
<1> QED BY <1>1, <1>2, <1>3, <1>4

LEMMA InitHandles == StaticInit => HandleInv
<1> SUFFICES ASSUME StaticInit PROVE HandleInv
  OBVIOUS
<1>1. TypeInv
  BY InitTypes
<1>2. RulesOfDocs /\ OneRulePerHandle
  BY DEF StaticInit, FirewallInit, RulesOfDocs, OneRulePerHandle
<1>3. \A t \in Table : nextHandle[t] > 0
  BY DEF StaticInit, FirewallInit
<1>4. \A d \in Doc : Held(RuleOf(d, stamp[d]))
  BY <1>1, <1>2, <1>3, DocRule, NoHandle DEF StaticInit
<1> QED BY <1>2, <1>3, <1>4 DEF StaticInit, FirewallInit, HandleInv, HandlesHeld, Idle

LEMMA HandleStep == TypeInv /\ HandleInv /\ [StaticNext]_svars => HandleInv'
<1> SUFFICES ASSUME TypeInv, HandleInv, [StaticNext]_svars PROVE HandleInv'
  OBVIOUS
<1>1. TypeInv'
  BY TypeStep
<1>2. CASE UNCHANGED svars
  BY <1>1, <1>2, Stutter, HandleByWrite
<1>3. CASE StaticNext
  BY <1>1, <1>3, Steps, HandleByWork, HandleByAsk, HandleByAnswer, HandleByRest
<1> QED BY <1>2, <1>3

(* Static and NAT rules, Flask's threads and both files stay well typed    *)
(* (firewall.py, helpers.py, firewall.controller.js, NAT.controller.js).   *)
THEOREM StaticTypeCorrect == StaticSpec => []StaticTypeOK
<1>1. TypeInv => StaticTypeOK
  BY DEF TypeInv, StateOK, DocsOK, StaticTypeOK, FirewallTypeOK, Live, NoThread
<1> QED BY <1>1, InitTypes, TypeStep, PTL DEF StaticSpec

(* Whoever deletes by a handle deletes a rule of its own document          *)
(* (get_rule_handle of helpers.py, delete_rule and delete_nat of firewall.py,*)
(* toggleRuleStatus and deleteRule), until the host boots.                 *)
THEOREM HandlesAreOwn == StaticSpec => []HandleIsOwn
<1>1. ASSUME TypeInv, HandleInv PROVE HandleIsOwn
  <2> SUFFICES ASSUME ~booted,
                      NEW r \in {RuleOf(d, stamp[d]) : d \in Doc}
                                \cup {thr[k].rule : k \in {j \in Slot : ~Idle(j)}},
                      NEW s \in Hit(r), r.of \in Doc, Twins(r.of) = {}
               PROVE  s.of = r.of
    BY DEF HandleIsOwn
  <2>1. RulesOfDocs /\ HandlesHeld
    BY <1>1 DEF HandleInv
  <2>2. Held(r) /\ r.t = TableOf[r.of] /\ r.comment = stamp[r.of]
    <3>1. CASE \E d \in Doc : r = RuleOf(d, stamp[d])
      BY <1>1, <2>1, <3>1, DocRule DEF HandlesHeld
    <3>2. CASE \E k \in Slot : ~Idle(k) /\ r = thr[k].rule
      <4>1. PICK k \in Slot : ~Idle(k) /\ r = thr[k].rule
        BY <3>2
      <4>2. Purposeful(thr[k], stamp) /\ r.of # Nobody
        BY <1>1, <4>1, ThreadRule DEF Doc
      <4>3. thr[k].op # "create_table"
        BY <4>1, <4>2 DEF Purposeful
      <4> QED BY <2>1, <4>1, <4>2, <4>3 DEF HandlesHeld, Purposeful
    <3> QED BY <3>1, <3>2
  <2>3. s \in rules /\ s.t = r.t /\ s.comment = r.comment
    BY <2>2 DEF Held, Hit, Same
  <2>4. s.of \in Doc /\ TableOf[s.of] = TableOf[r.of] /\ stamp[s.of] = stamp[r.of]
    BY <2>1, <2>2, <2>3 DEF RulesOfDocs
  <2> QED BY <2>4 DEF Twins
<1>2. TypeInv /\ HandleInv => HandleIsOwn
  BY <1>1
<1> QED BY <1>2, InitTypes, TypeStep, InitHandles, HandleStep, PTL DEF StaticSpec

-------------------------------------------------------------------------------
(* MatchInv.                                                               *)

LEMMA UserRule ==
    ASSUME TypeInv, NEW d \in Doc, NEW k \in Users(d)
    PROVE  /\ k \in Slot /\ ~Idle(k) /\ thr[k] \in Live /\ thr[k].rule \in Rule
           /\ thr[k].op # "create_table" /\ thr[k].op \in Op
           /\ thr[k].rule.of = d /\ thr[k].rule.t = TableOf[d] /\ thr[k].rule.comment = stamp[d]
           /\ OnItsWay(thr[k]) /\ Awaited(k)
<1>1. k \in Slot /\ ~Idle(k) /\ thr[k].rule.of = d /\ d # Nobody
  BY DEF Users, Doc
<1>2. thr[k] \in Live /\ thr[k].rule \in Rule /\ Purposeful(thr[k], stamp) /\ thr[k].op \in Op
  BY <1>1, ThreadRule
<1>3. OnItsWay(thr[k]) /\ Awaited(k)
  BY <1>1 DEF TypeInv, ThreadsOK
<1> QED BY <1>1, <1>2, <1>3 DEF Purposeful

(* A document that was never asked for has nothing.                        *)
LEMMA WasAlone ==
    ASSUME TypeInv, HandleInv, MatchInv, NEW d \in Doc, ~booted, d \notin rough,
           Twins(d) = {} \/ stamp[d] = 0
    PROVE  Alone(d)
<1>1. CASE Twins(d) = {}
  BY <1>1 DEF MatchInv
<1>2. CASE stamp[d] = 0
  <2>1. Users(d) = {}
    <3> SUFFICES ASSUME NEW k \in Users(d) PROVE FALSE
      OBVIOUS
    <3>1. ~Idle(k) /\ k \in Slot /\ thr[k].rule.of = d /\ d # Nobody
      BY DEF Users, Doc
    <3>2. Purposeful(thr[k], stamp)
      BY <3>1, ThreadRule
    <3> QED BY <1>2, <3>1, <3>2 DEF Purposeful
  <2>2. \A s \in rules : s.of # d
    BY <1>2 DEF HandleInv, RulesOfDocs
  <2>3. docs[d].st = "none"
    BY <1>2 DEF TypeInv, ThreadsOK, Fresh
  <2>4. HandlesOf(d) = {} /\ DocSays(d) = {}
    BY <2>2, <2>3 DEF HandlesOf, DocSays
  <2> QED BY <2>1, <2>4 DEF Alone
<1> QED BY <1>1, <1>2

(* A step of a thread leaves the rules of other documents alone.           *)
LEMMA OthersRules ==
    ASSUME TypeInv, HandleInv, ~booted, NEW k \in Slot, Work(k), NEW d \in Doc, Twins(d) = {},
           thr[k].rule.of # d
    PROVE  HandlesOf(d)' = HandlesOf(d)
<1>1. {s \in rules' : s.of = d} = {s \in rules : s.of = d}
  <2>1. CASE AddRule(k)
    <3>1. thr[k].rule \in Rule
      BY WorkGoes, LiveFields
    <3>2. [thr[k].rule EXCEPT !.h = nextHandle[thr[k].rule.t]].of # d
      BY <3>1 DEF Rule
    <3> QED BY <2>1, <3>2 DEF AddRule
  <2>2. CASE DeleteRule(k)
    <3>1. ~Idle(k) /\ thr[k].op = "delete"
      BY <2>2 DEF DeleteRule, Idle, NoThread
    <3>2. Purposeful(thr[k], stamp)
      BY <3>1, ThreadRule
    <3>3. Held(thr[k].rule) /\ RulesOfDocs
      BY <3>1 DEF HandleInv, HandlesHeld
    <3>4. ASSUME NEW s \in Hit(thr[k].rule), s.of = d PROVE FALSE
      <4>1. s \in rules /\ s.t = thr[k].rule.t /\ s.comment = thr[k].rule.comment
        BY <3>3 DEF Held, Hit, Same
      <4>2. thr[k].rule.of \in Twins(d)
        BY <3>1, <3>2, <3>3, <3>4, <4>1 DEF Purposeful, RulesOfDocs, Twins
      <4> QED BY <4>2
    <3> QED BY <2>2, <3>4 DEF DeleteRule
  <2>3. CASE ~AddRule(k) /\ ~DeleteRule(k)
    BY <2>3, WorkLeaves
  <2> QED BY <2>1, <2>2, <2>3
<1> QED BY <1>1 DEF HandlesOf

(* Where a request stands changes in three steps only.                     *)
LEMMA PcGoes ==
    ASSUME NEW k \in Slot, thr[k] \in Live, NEW pc, Goes(k, [thr[k] EXCEPT !.pc = pc])
    PROVE  thr'[k].pc = pc /\ thr'[k].ok = thr[k].ok
<1>1. [thr[k] EXCEPT !.pc = pc].pc = pc /\ [thr[k] EXCEPT !.pc = pc].ok = thr[k].ok
  BY DEF Live, Thread
<1> QED BY <1>1 DEF Goes

LEMMA StageStays ==
    ASSUME TypeInv, NEW k \in Slot, Work(k), thr[k].op # "create_table",
           ~AddRule(k), ~DeleteRule(k), ~Lookup(k)
    PROVE  /\ ToCome(thr'[k]) <=> ToCome(thr[k])
           /\ thr[k].pc # "lookup" /\ thr'[k].pc # "lookup"
<1>1. thr[k] \in Live /\ OnItsWay(thr[k])
  BY WorkGoes DEF TypeInv, ThreadsOK, Idle, Live, Thread, NoThread
<1>2. CASE EnsureNat(k)
  <2>1. thr[k].pc = "ensure" /\ thr'[k].pc = "register"
    BY <1>1, <1>2, EnsureNatGoes, PcGoes DEF EnsureNat
  <2> QED BY <2>1 DEF ToCome
<1>3. CASE CreateTable(k)
  BY <1>3 DEF CreateTable
<1>4. CASE NftRefuses(k)
  <2>1. thr[k].pc = "nft" /\ ~thr[k].ok
    BY <1>1, <1>4 DEF NftRefuses, OnItsWay
  <2>2. thr'[k].pc = "done" /\ thr'[k].ok = thr[k].ok
    BY <1>1, <1>4, RefusedGoes, PcGoes
  <2> QED BY <2>1, <2>2 DEF ToCome
<1>5. CASE Register(k)
  <2>1. thr[k].pc = "register" /\ ~thr[k].ok /\ AfterRegister(k) = "nft"
    BY <1>1, <1>5 DEF Register, AfterRegister, OnItsWay
  <2>2. CASE Goes(k, [thr[k] EXCEPT !.pc = AfterRegister(k)])
    <3>1. thr'[k].pc = "nft" /\ thr'[k].ok = thr[k].ok
      BY <1>1, <2>1, <2>2, PcGoes
    <3> QED BY <2>1, <3>1 DEF ToCome
  <2> DEFINE th == [thr[k] EXCEPT !.list = registry \cup {thr[k].rule.t},
                                  !.next = AfterRegister(k), !.pc = "truncate"]
  <2>3. CASE Goes(k, th)
    <3>1. th.pc = "truncate" /\ th.ok = thr[k].ok
      BY <1>1 DEF Live, Thread
    <3>2. thr'[k] = th
      BY <2>3 DEF Goes
    <3> QED BY <2>1, <3>1, <3>2 DEF ToCome
  <2> QED BY <1>5, <2>2, <2>3, RegisterGoes
<1>6. CASE TruncateRegistry(k)
  <2> DEFINE th == [thr[k] EXCEPT !.pc = "dump", !.over = FALSE]
  <2>1. th.pc = "dump" /\ th.ok = thr[k].ok
    BY <1>1 DEF Live, Thread
  <2>2. thr[k].pc = "truncate" /\ thr'[k] = th
    BY <1>6, TruncateRegistryGoes DEF Goes, TruncateRegistry
  <2> QED BY <2>1, <2>2 DEF ToCome
<1>7. CASE DumpRegistry(k)
  <2>1. thr[k].pc = "dump"
    BY <1>7 DEF DumpRegistry
  <2>2. thr'[k].ok = thr[k].ok /\ thr'[k].pc = thr[k].next
    BY <1>1, <1>7, DumpRegistryGoes, PcGoes
  <2>3. thr[k].next = IF thr[k].ok THEN "list" ELSE "nft"
    BY <1>1, <2>1 DEF OnItsWay
  <2> QED BY <2>1, <2>2, <2>3 DEF ToCome
<1>8. CASE Collect(k)
  <2> DEFINE th == [thr[k] EXCEPT !.todo = registry, !.text = NoRules, !.ok = TRUE,
                                  !.pc = "list"]
  <2>1. th.pc = "list"
    BY <1>1 DEF Live, Thread
  <2>2. thr[k].pc = "collect" /\ thr'[k] = th
    BY <1>8, CollectGoes DEF Goes, Collect
  <2> QED BY <2>1, <2>2 DEF ToCome
<1>9. CASE ListTable(k)
  <2>1. thr[k].pc = "list"
    BY <1>9 DEF ListTable
  <2>2. PICK t : thr'[k] = Listed(k, t)
    BY <1>9, ListTableGoes DEF Goes
  <2>3. Listed(k, t).pc = thr[k].pc
    BY <1>1 DEF Listed, Live, Thread
  <2> QED BY <2>1, <2>2, <2>3 DEF ToCome
<1>10. CASE Unregister(k)
  <2>1. thr[k].pc = "list" /\ thr[k].ok
    BY <1>1, <1>10 DEF Unregister, OnItsWay
  <2>2. PICK t : thr'[k] = [thr[k] EXCEPT !.list = registry \ {t}, !.todo = @ \ {t},
                                          !.next = "list", !.pc = "truncate"]
    BY <1>10, UnregisterGoes DEF Goes
  <2>3. thr'[k].ok = thr[k].ok /\ thr'[k].pc = "truncate"
    BY <1>1, <2>2 DEF Live, Thread
  <2> QED BY <2>1, <2>3 DEF ToCome
<1>11. CASE TruncateFile(k)
  <2> DEFINE th == [thr[k] EXCEPT !.pc = "write", !.over = FALSE]
  <2>1. th.pc = "write"
    BY <1>1 DEF Live, Thread
  <2>2. thr[k].pc = "list" /\ thr'[k] = th
    BY <1>11, TruncateFileGoes DEF Goes, TruncateFile
  <2> QED BY <2>1, <2>2 DEF ToCome
<1>12. CASE WriteFile(k)
  <2>1. thr[k].pc = "write" /\ thr[k].ok
    BY <1>1, <1>12 DEF WriteFile, OnItsWay
  <2>2. thr'[k].pc = "done" /\ thr'[k].ok = thr[k].ok
    BY <1>1, <1>12, WriteFileGoes, PcGoes
  <2> QED BY <2>1, <2>2 DEF ToCome
<1> QED BY <1>2, <1>3, <1>4, <1>5, <1>6, <1>7, <1>8, <1>9, <1>10, <1>11, <1>12 DEF Work

LEMMA SameComment ==
    ASSUME TypeInv, HandleInv, ~booted, NEW d \in Doc, Twins(d) = {}, NEW k \in Users(d)
    PROVE  /\ \A s \in rules : s.of = d => s \in Same(thr[k].rule)
           /\ \A s \in Same(thr[k].rule) : s \in rules /\ s.of = d
<1>1. thr[k].rule.t = TableOf[d] /\ thr[k].rule.comment = stamp[d]
  BY UserRule
<1>2. RulesOfDocs
  BY DEF HandleInv
<1> QED BY <1>1, <1>2 DEF Same, RulesOfDocs, Twins

(* The step of the one thread of a document.                               *)
LEMMA ServedByWork ==
    ASSUME TypeInv, TypeInv', HandleInv, ~booted, NEW d \in Doc, Twins(d) = {}, NEW k \in Users(d),
           Work(k), UNCHANGED dvars, Served(d, k)
    PROVE  Served(d, k)'
<1>1. /\ k \in Slot /\ thr[k] \in Live /\ thr[k].op # "create_table" /\ thr[k].rule \in Rule
      /\ thr[k].rule.of = d /\ thr[k].rule.t = TableOf[d] /\ OnItsWay(thr[k]) /\ thr[k].op \in Op
  BY UserRule
<1>2. hnd' = hnd /\ docs' = docs /\ DocSays(d)' = DocSays(d)
  BY DEF dvars, DocSays
<1>3. thr'[k].op = thr[k].op
  BY <1>1, WorkGoes DEF Goes
<1>4. CASE AddRule(k)
  <2> DEFINE new == [thr[k].rule EXCEPT !.h = nextHandle[thr[k].rule.t]]
  <2>1. thr'[k].pc = "lookup" /\ thr'[k].rule = thr[k].rule
    BY <1>1, <1>4, AddRuleGoes DEF Goes, Live, Thread
  <2>2. thr[k].pc = "nft" /\ thr[k].op \in Adding /\ rules' = rules \cup {new}
    BY <1>4 DEF AddRule, Adding
  <2>3. HandlesOf(d) = {}
    BY <2>2 DEF Served, ToCome, DocSays
  <2>4. new.of = d /\ new \in rules'
    BY <1>1, <2>2 DEF Rule
  <2> HIDE DEF new
  <2>5. HandlesOf(d)' = {new.h}
    BY <2>2, <2>3, <2>4 DEF HandlesOf
  <2> QED BY <1>2, <1>3, <2>1, <2>2, <2>4, <2>5 DEF Served, ToCome, Adding
<1>5. CASE Lookup(k)
  <2>1. PICK h \in Nat : /\ thr'[k] = [thr[k] EXCEPT !.rule.h = h, !.pc = "collect"]
                         /\ h = 0 \/ \E s \in Same(thr[k].rule) : h = s.h
    BY <1>1, <1>5, LookupGoes DEF Goes
  <2>2. thr'[k].pc = "collect" /\ thr'[k].rule.h = h
    BY <1>1, <2>1 DEF Live, Thread, Rule
  <2>3. rules' = rules /\ thr[k].pc = "lookup" /\ thr[k].op \in Adding
    BY <1>1, <1>5 DEF Lookup, OnItsWay
  <2>4. \E r \in rules : HandlesOf(d) = {r.h}
    BY <2>3 DEF Served
  <2>5. h = 0 \/ HandlesOf(d) = {h}
    <3>1. h = 0 \/ h \in HandlesOf(d)
      BY <2>1, SameComment DEF HandlesOf
    <3> QED BY <2>4, <3>1
  <2>6. HandlesOf(d)' = HandlesOf(d)
    BY <2>3 DEF HandlesOf
  <2> QED BY <1>2, <1>3, <2>2, <2>3, <2>5, <2>6 DEF Served, ToCome, Adding
<1>6. CASE DeleteRule(k)
  <2>1. thr'[k].pc = "collect" /\ thr'[k].rule = thr[k].rule
    BY <1>1, <1>6, DeleteRuleGoes DEF Goes, Live, Thread
  <2>2. /\ thr[k].pc = "nft" /\ thr[k].op = "delete" /\ rules' = rules \ Hit(thr[k].rule)
    BY <1>6 DEF DeleteRule
  <2>3. HandlesOf(d) = {docs[d].h} /\ thr[k].rule.h = docs[d].h
    BY <2>2 DEF Served, ToCome, DocSays
  <2>4. \A s \in rules : s.of = d => s.h = docs[d].h /\ s.t = TableOf[d]
    BY <2>3 DEF HandlesOf, HandleInv, RulesOfDocs
  <2>5. \A s \in rules' : s.of # d
    BY <1>1, <2>2, <2>3, <2>4 DEF Hit
  <2>6. HandlesOf(d)' = {}
    BY <2>5 DEF HandlesOf
  <2> QED BY <1>2, <1>3, <2>1, <2>2, <2>6 DEF Served, ToCome, Adding
<1>7. CASE ~AddRule(k) /\ ~Lookup(k) /\ ~DeleteRule(k)
  <2>1. /\ ToCome(thr'[k]) <=> ToCome(thr[k])
        /\ thr[k].pc # "lookup" /\ thr'[k].pc # "lookup"
    BY <1>1, <1>7, StageStays
  <2>2. thr'[k].rule = thr[k].rule
    BY <1>1, <1>7, RuleStays
  <2>3. HandlesOf(d)' = HandlesOf(d)
    BY <1>1, <1>7, WorkLeaves DEF HandlesOf
  <2> QED BY <1>2, <1>3, <2>1, <2>2, <2>3 DEF Served
<1> QED BY <1>4, <1>5, <1>6, <1>7

LEMMA MatchByWork ==
    ASSUME TypeInv, TypeInv', HandleInv, MatchInv, NEW k \in Slot, Work(k), UNCHANGED dvars
    PROVE  MatchInv'
<1> SUFFICES ASSUME NEW d \in Doc, ~booted', d \notin rough', Twins(d)' = {}
             PROVE  Alone(d)'
  BY DEF MatchInv
<1>1. ~booted /\ d \notin rough /\ Twins(d) = {}
  BY DEF dvars, Twins
<1>2. Alone(d)
  BY <1>1 DEF MatchInv
<1>3. Goes(k, thr'[k]) /\ thr[k] \in Live /\ thr[k] # NoThread
  BY WorkGoes DEF Live, Thread, NoThread
<1>4. ASSUME NEW j \in Slot PROVE j \in Users(d)' <=> j \in Users(d)
  <2>1. thr'[j] = NoThread <=> thr[j] = NoThread
    BY <1>3, OthersSame
  <2>2. thr[j] # NoThread => thr'[j].rule.of = thr[j].rule.of
    <3>1. CASE j = k
      <4>1. thr[k].rule \in Rule
        BY <1>3, LiveFields
      <4> QED BY <1>3, <3>1, <4>1 DEF Goes, Rule
    <3>2. CASE j # k
      BY <1>3, <3>2, OthersSame DEF SameBut
    <3> QED BY <3>1, <3>2
  <2> QED BY <2>1, <2>2 DEF Users, Idle
<1>5. Users(d)' = Users(d)
  BY <1>4 DEF Users
<1>6. DocSays(d)' = DocSays(d) /\ UNCHANGED <<docs, hnd>>
  BY DEF DocSays, dvars
<1>7. CASE thr[k].rule.of = d
  <2>1. k \in Users(d)
    BY <1>3, <1>7 DEF Users, Idle
  <2>2. \A j \in Users(d) : j = k
    BY <1>2, <2>1 DEF Alone
  <2>3. Served(d, k)'
    BY <1>1, <1>2, <2>1, ServedByWork DEF Alone
  <2> QED BY <1>2, <1>5, <2>1, <2>2, <2>3 DEF Alone
<1>8. CASE thr[k].rule.of # d
  <2>1. HandlesOf(d)' = HandlesOf(d)
    BY <1>1, <1>8, OthersRules
  <2>2. ASSUME NEW j \in Users(d) PROVE Served(d, j)'
    <3>1. Served(d, j) /\ j \in Slot /\ j # k /\ thr[j] # NoThread
      BY <1>2, <1>8 DEF Alone, Users, Idle
    <3>2. SameBut(thr'[j], thr[j])
      BY <1>3, <3>1, OthersSame
    <3>3. (\E r \in rules : HandlesOf(d) = {r.h}) => \E r \in rules' : HandlesOf(d)' = {r.h}
      <4> SUFFICES ASSUME NEW r \in rules, HandlesOf(d) = {r.h}
                   PROVE  \E s \in rules' : HandlesOf(d)' = {s.h}
        OBVIOUS
      <4>1. r.h \in HandlesOf(d)'
        BY <2>1
      <4>2. PICK s \in rules' : s.h = r.h
        BY <4>1 DEF HandlesOf
      <4> QED BY <2>1, <4>2
    <3> QED BY <1>6, <2>1, <3>1, <3>2, <3>3 DEF Served, SameBut, ToCome
  <2> QED BY <1>2, <1>5, <1>6, <2>1, <2>2 DEF Alone
<1> QED BY <1>7, <1>8

LEMMA MatchByAsk ==
    ASSUME TypeInv, TypeInv', HandleInv, MatchInv, NEW k \in Slot, NEW kind, NEW rule, NEW op,
           Asks(k, kind, rule, op)
    PROVE  MatchInv'
<1> SUFFICES ASSUME NEW d \in Doc, ~booted', d \notin rough', Twins(d)' = {}
             PROVE  Alone(d)'
  BY DEF MatchInv
<1> DEFINE th == Begun(op, rule)
<1>1. /\ UNCHANGED <<rules, docs, booted>>
      /\ thr[k] = NoThread /\ thr' = [thr EXCEPT ![k] = th]
      /\ hnd' = [hnd EXCEPT ![k] = kind]
      /\ rough' = IF Users(rule.of) = {} THEN rough ELSE rough \cup ({rule.of} \cap Doc)
      /\ Fits(kind, op)
      /\ \A e \in Doc : stamp'[e] # stamp[e] => stamp[e] = 0
  BY DEF Asks, Call, Serve, Begun
<1>2. ~booted /\ d \notin rough /\ (rule.of = d => Users(d) = {})
  BY <1>1
<1>3. Twins(d) = {} \/ stamp[d] = 0
  <2> SUFFICES ASSUME stamp[d] # 0, NEW e \in Twins(d) PROVE FALSE
    OBVIOUS
  <2>1. stamp'[d] = stamp[d] /\ e \in Doc /\ stamp'[e] = stamp[e]
    BY <1>1 DEF Twins
  <2>2. e \in Twins(d)'
    BY <2>1 DEF Twins
  <2> QED BY <2>2
<1>4. Alone(d)
  BY <1>2, <1>3, WasAlone
<1>5. DocSays(d)' = DocSays(d) /\ HandlesOf(d)' = HandlesOf(d)
  BY <1>1 DEF DocSays, HandlesOf
<1>6. th # NoThread /\ th.rule = rule /\ th.op = op /\ th.pc \in {"ensure", "nft"} /\ ~th.ok
  BY DEF Begun, NoThread
<1>7. thr'[k] = th /\ hnd'[k] = kind /\ \A j \in Slot \ {k} : thr'[j] = thr[j] /\ hnd'[j] = hnd[j]
  BY <1>1 DEF TypeInv, StateOK, DocsOK
<1> HIDE DEF th
<1>8. CASE rule.of = d
  <2>1. Users(d)' = {k}
    BY <1>2, <1>6, <1>7, <1>8 DEF Users, Idle
  <2>2. op # "create_table"
    BY <1>8 DEF Asks, Purposeful, Begun, Doc
  <2>3. /\ rule.h = docs[d].h
        /\ stamp[d] = 0 \/ docs[d].st \in {"active", "inactive"}
        /\ op \in Adding => docs[d].st # "active"
        /\ op = "delete" => docs[d].st = "active"
    BY <1>8, <2>2 DEF Asks, RuleOf
  <2>4. docs[d].st # "deleted"
    BY <2>3 DEF TypeInv, ThreadsOK, Fresh
  <2>5. HandlesOf(d) = DocSays(d)
    BY <1>2, <1>4, <1>8 DEF Alone
  <2>6. kind # "none"
    BY <1>1 DEF Fits
  <2>7. Served(d, k)'
    BY <1>1, <1>5, <1>6, <1>7, <2>3, <2>4, <2>5, <2>6 DEF Served, ToCome
  <2> QED BY <2>1, <2>7 DEF Alone
<1>9. CASE rule.of # d
  <2>1. Users(d)' = Users(d) /\ k \notin Users(d)
    BY <1>1, <1>6, <1>7, <1>9 DEF Users, Idle
  <2>2. ASSUME NEW j \in Users(d) PROVE Served(d, j)'
    <3>1. thr'[j] = thr[j] /\ hnd'[j] = hnd[j] /\ Served(d, j)
      BY <1>4, <1>7, <2>1 DEF Alone, Users
    <3> QED BY <1>1, <1>5, <3>1 DEF Served
  <2> QED BY <1>4, <1>5, <2>1, <2>2 DEF Alone
<1> QED BY <1>8, <1>9

(* The kernel does not change, and nothing of the document's threads.      *)
LEMMA AloneStays ==
    ASSUME TypeInv, NEW d \in Doc, Alone(d), UNCHANGED rules, docs'[d] = docs[d],
           \A j \in Slot : \/ thr'[j] = thr[j] /\ (j \in Users(d) => hnd'[j] = hnd[j])
                           \/ j \notin Users(d) /\ thr'[j] = NoThread
    PROVE  Alone(d)'
<1>1. Users(d)' = Users(d)
  BY DEF Users, Idle
<1>2. DocSays(d)' = DocSays(d) /\ HandlesOf(d)' = HandlesOf(d)
  BY DEF DocSays, HandlesOf
<1>3. ASSUME NEW j \in Users(d) PROVE Served(d, j)'
  <2>1. thr'[j] = thr[j] /\ hnd'[j] = hnd[j] /\ Served(d, j)
    BY DEF Alone, Users
  <2> QED BY <1>2, <2>1 DEF Served
<1> QED BY <1>1, <1>2, <1>3 DEF Alone

LEMMA MatchByAnswer ==
    ASSUME TypeInv, TypeInv', HandleInv, MatchInv, NEW k \in Slot, Answer(k) \/ Discard(k)
    PROVE  MatchInv'
<1> SUFFICES ASSUME NEW d \in Doc, ~booted', d \notin rough', Twins(d)' = {}
             PROVE  Alone(d)'
  BY DEF MatchInv
<1>1. Answered(k) /\ thr[k] \in Live /\ Writes(k) /\ rough \subseteq rough'
  BY AnswerWrites
<1>2. /\ UNCHANGED <<rules, stamp, booted>> /\ ~Idle(k) /\ thr[k].pc = "done"
      /\ thr'[k] = NoThread /\ \A j \in Slot \ {k} : thr'[j] = thr[j] /\ hnd'[j] = hnd[j]
  BY <1>1 DEF Answered, TypeInv, StateOK, DocsOK
<1>3. ~booted /\ d \notin rough /\ Twins(d) = {}
  BY <1>1, <1>2 DEF Twins
<1>4. Alone(d)
  BY <1>3 DEF MatchInv
<1>5. CASE thr[k].rule.of # d
  <2>1. docs'[d] = docs[d]
    BY <1>1, <1>5 DEF Writes, TypeInv, DocsOK
  <2>2. k \notin Users(d)
    BY <1>5 DEF Users
  <2> QED BY <1>2, <1>4, <2>1, <2>2, AloneStays
<1>6. CASE thr[k].rule.of = d
  <2>1. k \in Users(d)
    BY <1>2, <1>6 DEF Users
  <2>2. Served(d, k) /\ \A j \in Users(d) : j = k
    BY <1>4, <2>1 DEF Alone
  <2>3. Users(d)' = {}
    BY <1>2, <2>2 DEF Users, Idle
  <2>4. thr[k].op # "create_table" /\ Awaited(k) /\ HandlesOf(d)' = HandlesOf(d)
    BY <1>2, <2>1, UserRule DEF HandlesOf
  <2>5. Answer(k) /\ ~TableAnswered(k)
    BY <2>2, <2>4 DEF Served, Discard, TableAnswered, Awaited
  <2>6. ToCome(thr[k]) <=> ~thr[k].ok
    BY <1>2 DEF ToCome
  <2>7. docs \in [Doc -> [st : {"none", "active", "inactive", "deleted"}, h : Nat]]
    BY DEF TypeInv, DocsOK
  <2>8. HandlesOf(d) = DocSays(d)'
    <3>1. CASE RuleAdded(k)
      <4>1. thr[k].op \in Adding
        BY <2>4, <3>1 DEF RuleAdded, Awaited
      <4>2. ~(thr[k].ok /\ thr[k].rule.h = 0)
        BY <1>6, <3>1 DEF RuleAdded
      <4>3. CASE thr[k].ok
        <5>1. docs' = [docs EXCEPT ![d] = [st |-> "active", h |-> thr[k].rule.h]]
          BY <1>6, <2>2, <3>1, <4>2, <4>3 DEF RuleAdded, Store, Served
        <5>2. HandlesOf(d) = {thr[k].rule.h}
          BY <1>2, <2>2, <2>6, <4>1, <4>2, <4>3 DEF Served, Adding
        <5> QED BY <2>7, <5>1, <5>2 DEF DocSays
      <4>4. CASE ~thr[k].ok
        <5>1. docs' = docs /\ HandlesOf(d) = DocSays(d)
          BY <2>2, <2>6, <3>1, <4>4 DEF RuleAdded, Served
        <5> QED BY <5>1 DEF DocSays
      <4> QED BY <4>3, <4>4
    <3>2. CASE RuleDisabled(k)
      <4>1. thr[k].op = "delete"
        BY <2>4, <3>2 DEF RuleDisabled, Awaited
      <4>2. CASE thr[k].ok
        <5>1. docs' = [docs EXCEPT ![d] = [st |-> "inactive", h |-> 0]]
          BY <1>6, <2>2, <3>2, <4>2 DEF RuleDisabled, Store, Served
        <5>2. HandlesOf(d) = {}
          BY <1>2, <2>2, <2>6, <4>1, <4>2 DEF Served
        <5> QED BY <2>7, <5>1, <5>2 DEF DocSays
      <4>3. CASE ~thr[k].ok
        <5>1. docs' = docs /\ HandlesOf(d) = DocSays(d)
          BY <2>2, <2>6, <3>2, <4>3 DEF RuleDisabled, Served
        <5> QED BY <5>1 DEF DocSays
      <4> QED BY <4>2, <4>3
    <3>3. CASE RuleDeleted(k)
      <4>1. thr[k].op = "delete" /\ thr[k].ok
        BY <1>6, <2>4, <3>3 DEF RuleDeleted, Awaited
      <4>2. docs' = [docs EXCEPT ![d] = [st |-> "deleted", h |-> 0]]
        BY <1>6, <2>2, <3>3, <4>1 DEF RuleDeleted, Store, Served
      <4>3. HandlesOf(d) = {}
        BY <1>2, <2>2, <2>6, <4>1 DEF Served
      <4> QED BY <2>7, <4>2, <4>3 DEF DocSays
    <3> QED BY <2>5, <3>1, <3>2, <3>3 DEF Answer
  <2> QED BY <2>3, <2>4, <2>8 DEF Alone
<1> QED BY <1>5, <1>6

(* Nothing but the histories changes, or the threads of everybody end.     *)
LEMMA MatchByRest ==
    ASSUME TypeInv, TypeInv', MatchInv,
           \/ \E k \in Slot : GiveUp(k)
           \/ \E d \in Doc : DeleteInactive(d)
           \/ AgentStops
    PROVE  MatchInv'
<1> SUFFICES ASSUME NEW d \in Doc, ~booted', d \notin rough', Twins(d)' = {}
             PROVE  Alone(d)'
  BY DEF MatchInv
<1>1. CASE \E k \in Slot : GiveUp(k)
  <2>1. PICK k \in Slot : GiveUp(k)
    BY <1>1
  <2>2. UNCHANGED <<rules, thr, docs, stamp, booted>>
    BY <2>1 DEF GiveUp, fvars
  <2>3. rough \subseteq rough' /\ thr[k].rule.of # d /\ \A j \in Slot \ {k} : hnd'[j] = hnd[j]
    BY <2>1 DEF GiveUp, TypeInv, DocsOK
  <2>4. ~booted /\ d \notin rough /\ Twins(d) = {}
    BY <2>2, <2>3 DEF Twins
  <2>5. Alone(d)
    BY <2>4 DEF MatchInv
  <2>6. k \notin Users(d)
    BY <2>3 DEF Users
  <2> QED BY <2>2, <2>3, <2>5, <2>6, AloneStays
<1>2. CASE \E e \in Doc : DeleteInactive(e)
  <2>1. PICK e \in Doc : DeleteInactive(e)
    BY <1>2
  <2>2. /\ UNCHANGED <<rules, thr, hnd, stamp, booted>>
        /\ docs[e].st = "inactive" /\ docs' = [docs EXCEPT ![e].st = "deleted"]
        /\ rough \subseteq rough' /\ (e = d => Users(d) = {})
    BY <2>1 DEF DeleteInactive, fvars
  <2>3. ~booted /\ d \notin rough /\ Twins(d) = {}
    BY <2>2 DEF Twins
  <2>4. Alone(d)
    BY <2>3 DEF MatchInv
  <2>5. CASE e # d
    <3>1. docs'[d] = docs[d]
      BY <2>2, <2>5 DEF TypeInv, DocsOK
    <3> QED BY <2>2, <2>4, <3>1, AloneStays
  <2>6. CASE e = d
    <3>1. Users(d) = {} /\ Users(d)' = {} /\ HandlesOf(d)' = HandlesOf(d)
      BY <2>2, <2>6 DEF Users, Idle, HandlesOf
    <3>2. DocSays(d) = {} /\ DocSays(d)' = {}
      BY <2>2, <2>6 DEF DocSays, TypeInv, DocsOK
    <3> QED BY <2>4, <3>1, <3>2 DEF Alone
  <2> QED BY <2>5, <2>6
<1>3. CASE AgentStops
  <2>1. /\ Restart /\ UNCHANGED <<docs, stamp, booted>>
        /\ rough' = rough \cup {e \in Doc : Users(e) # {}}
    BY <1>3 DEF AgentStops
  <2>2. ~booted /\ d \notin rough /\ Twins(d) = {} /\ Users(d) = {}
    BY <2>1 DEF Twins
  <2>3. Alone(d)
    BY <2>2 DEF MatchInv
  <2>4. UNCHANGED rules /\ \A j \in Slot : thr'[j] = NoThread
    BY <2>1 DEF Restart
  <2> QED BY <2>1, <2>2, <2>3, <2>4, AloneStays
<1> QED BY <1>1, <1>2, <1>3

LEMMA InitMatch == StaticInit => MatchInv
BY DEF StaticInit, FirewallInit, MatchInv, Alone, Users, Idle, HandlesOf, DocSays

LEMMA MatchStep == TypeInv /\ HandleInv /\ MatchInv /\ [StaticNext]_svars => MatchInv'
<1> SUFFICES ASSUME TypeInv, HandleInv, MatchInv, [StaticNext]_svars PROVE MatchInv'
  OBVIOUS
<1>1. TypeInv'
  BY TypeStep
<1>2. CASE UNCHANGED svars
  <2>1. UNCHANGED <<rules, thr, docs, stamp, hnd, rough, booted>>
    BY <1>2, Stutter
  <2> SUFFICES ASSUME NEW d \in Doc, ~booted', d \notin rough', Twins(d)' = {}
               PROVE  Alone(d)'
    BY DEF MatchInv
  <2>2. Alone(d)
    BY <2>1 DEF MatchInv, Twins
  <2> QED BY <2>1, <2>2, AloneStays
<1>3. CASE StaticNext
  BY <1>1, <1>3, Steps, MatchByWork, MatchByAsk, MatchByAnswer, MatchByRest
<1> QED BY <1>2, <1>3

(* An active document's rule is in the kernel, at the handle the document  *)
(* holds, and no other document has one (addRule, toggleRuleStatus,        *)
(* deleteRule and their twins of NAT.controller.js, against firewall.py),  *)
(* however requests for different documents interleave.                    *)
THEOREM DocsAreInKernel == StaticSpec => []DocsMatchKernel
<1>1. MatchInv => DocsMatchKernel
  BY DEF MatchInv, DocsMatchKernel, Smooth, Alone, HandlesOf, DocSays
<1> QED BY <1>1, InitTypes, TypeStep, InitHandles, HandleStep, InitMatch, MatchStep, PTL
        DEF StaticSpec

-------------------------------------------------------------------------------
(* SaveInv.                                                                *)

(* A busy thread took a step, and no other is busy.                        *)
LEMMA SaveAfter ==
    ASSUME TypeInv, SaveInv, NEW k \in Slot, Busy(k), thr[k] \in Live, Goes(k, thr'[k]),
           clean, ~booted, \A s \in rules' : s.t \in tables',
           Busy(k)' => Saving(thr[k])', ~Busy(k)' => (InFile /\ Registered)'
    PROVE  SaveInv'
<1>1. ASSUME NEW j \in Slot, j # k PROVE ~Busy(j)'
  <2>1. ~Busy(j)
    BY <1>1 DEF SaveInv
  <2>2. CASE thr[j] = NoThread
    BY <2>2, OthersSame DEF Busy, NoThread
  <2>3. CASE thr[j] # NoThread
    BY <1>1, <2>1, <2>3, OthersSame DEF Busy, SameBut
  <2> QED BY <2>2, <2>3
<1>2. Quiet' => ~Busy(k)'
  BY DEF Quiet
<1> QED BY <1>1, <1>2 DEF SaveInv

LEMMA SavedByNft ==
    ASSUME TypeInv, NEW k \in Slot, Saving(thr[k]), \A s \in rules : s.t \in tables,
           EnsureNat(k) \/ CreateTable(k) \/ AddRule(k) \/ DeleteRule(k) \/ NftRefuses(k)
    PROVE  /\ \A s \in rules' : s.t \in tables'
           /\ Busy(k)' => Saving(thr[k])'
           /\ ~Busy(k)' => (InFile /\ Registered)'
<1>1. thr[k] \in Live /\ OnItsWay(thr[k]) /\ Purposeful(thr[k], stamp)
  BY AtWork DEF EnsureNat, CreateTable, AddRule, DeleteRule, NftRefuses, TypeInv, ThreadsOK, Idle
<1>2. ~thr[k].ok
  BY <1>1 DEF OnItsWay, EnsureNat, CreateTable, AddRule, DeleteRule, NftRefuses
<1>3. CASE EnsureNat(k)
  <2>1. thr[k].op = "add_nat" /\ thr[k].rule.t = NatTable
    BY <1>1, <1>3 DEF EnsureNat, OnItsWay, Purposeful
  <2>2. thr'[k] = [thr[k] EXCEPT !.pc = "register"]
    BY <1>3, EnsureNatGoes DEF Goes
  <2>3. thr'[k].pc = "register" /\ ~thr'[k].ok /\ thr'[k].rule = thr[k].rule
    BY <1>1, <1>2, <2>2 DEF Live, Thread
  <2>4. InFile /\ Registered
    BY <1>3 DEF EnsureNat, Saving
  <2>5. UNCHANGED <<rules, saved, registry>> /\ tables \subseteq tables'
        /\ tables' \subseteq tables \cup {NatTable}
    BY <1>3 DEF EnsureNat
  <2> QED BY <2>1, <2>3, <2>4, <2>5 DEF Saving, InFile, Registered, Busy
<1>4. CASE CreateTable(k)
  <2>1. thr'[k] = [thr[k] EXCEPT !.pc = "register"]
    BY <1>4, CreateTableGoes DEF Goes
  <2>2. thr'[k].pc = "register" /\ ~thr'[k].ok /\ thr'[k].rule = thr[k].rule
    BY <1>1, <1>2, <2>1 DEF Live, Thread
  <2>3. InFile /\ Registered
    BY <1>4 DEF CreateTable, Saving
  <2> QED BY <1>4, <2>2, <2>3 DEF CreateTable, Saving, InFile, Registered, Busy
<1>5. CASE AddRule(k)
  <2>1. thr'[k] = [thr[k] EXCEPT !.pc = "lookup"]
    BY <1>5, AddRuleGoes DEF Goes
  <2>2. thr'[k].pc = "lookup" /\ ~thr'[k].ok
    BY <1>1, <1>2, <2>1 DEF Live, Thread
  <2>3. Registered /\ UNCHANGED <<tables, registry>> /\ thr[k].rule.t \in tables
    BY <1>5 DEF AddRule, Saving
  <2>4. [thr[k].rule EXCEPT !.h = nextHandle[thr[k].rule.t]].t = thr[k].rule.t
    BY <1>1, LiveFields DEF Rule
  <2> QED BY <1>5, <2>2, <2>3, <2>4 DEF AddRule, Saving, Registered, Busy
<1>6. CASE DeleteRule(k)
  <2>1. thr'[k] = [thr[k] EXCEPT !.pc = "collect"]
    BY <1>6, DeleteRuleGoes DEF Goes
  <2>2. thr'[k].pc = "collect" /\ ~thr'[k].ok
    BY <1>1, <1>2, <2>1 DEF Live, Thread
  <2>3. Registered /\ UNCHANGED <<tables, registry>> /\ rules' \subseteq rules
    BY <1>6 DEF DeleteRule, Saving
  <2> QED BY <2>2, <2>3 DEF Saving, Registered, Busy
<1>7. CASE NftRefuses(k)
  <2>1. thr'[k] = [thr[k] EXCEPT !.pc = "done"]
    BY <1>7, RefusedGoes DEF Goes
  <2>2. thr'[k].pc = "done"
    BY <1>1, <2>1 DEF Live, Thread
  <2>3. InFile /\ Registered /\ UNCHANGED <<tables, rules, saved, registry>>
    BY <1>7 DEF NftRefuses, Saving
  <2> QED BY <2>2, <2>3 DEF InFile, Registered, Busy
<1> QED BY <1>3, <1>4, <1>5, <1>6, <1>7

LEMMA SavedByRegistry ==
    ASSUME TypeInv, NEW k \in Slot, Saving(thr[k]),
           Lookup(k) \/ Register(k) \/ TruncateRegistry(k) \/ DumpRegistry(k)
    PROVE  Busy(k)' /\ Saving(thr[k])'
<1>1. thr[k] \in Live /\ OnItsWay(thr[k])
  BY AtWork DEF Lookup, Register, TruncateRegistry, DumpRegistry, TypeInv, ThreadsOK, Idle
<1>2. UNCHANGED <<tables, rules, saved>>
  BY DEF Lookup, Register, TruncateRegistry, DumpRegistry
<1>3. CASE Lookup(k)
  <2>1. PICK h \in Nat : thr'[k] = [thr[k] EXCEPT !.rule.h = h, !.pc = "collect"]
    BY <1>3, LookupGoes DEF Goes
  <2>2. thr'[k].pc = "collect" /\ thr'[k].ok = thr[k].ok /\ ~thr[k].ok
    BY <1>1, <1>3, <2>1 DEF Live, Thread, Lookup, OnItsWay
  <2>3. Registered /\ UNCHANGED registry
    BY <1>3 DEF Lookup, Saving
  <2> QED BY <1>2, <2>2, <2>3 DEF Saving, Registered, Busy
<1>4. CASE Register(k)
  <2>1. InFile /\ tables \subseteq registry \cup {thr[k].rule.t} /\ UNCHANGED registry /\ ~thr[k].ok
    BY <1>1, <1>4 DEF Register, Saving, OnItsWay
  <2>2. AfterRegister(k) \in {"collect", "nft"}
    BY DEF AfterRegister
  <2>3. CASE thr[k].rule.t \in registry /\ thr'[k] = [thr[k] EXCEPT !.pc = AfterRegister(k)]
    <3>1. thr'[k].pc \in {"collect", "nft"} /\ ~thr'[k].ok
      BY <1>1, <2>1, <2>2, <2>3 DEF Live, Thread
    <3>2. Registered /\ InFile
      BY <2>1, <2>3 DEF Registered
    <3> QED BY <1>2, <2>1, <3>1, <3>2 DEF Saving, Registered, InFile, Busy
  <2>4. CASE thr'[k] = [thr[k] EXCEPT !.list = registry \cup {thr[k].rule.t},
                                      !.next = AfterRegister(k), !.pc = "truncate"]
    <3>1. /\ thr'[k].pc = "truncate" /\ ~thr'[k].ok
          /\ thr'[k].list = registry \cup {thr[k].rule.t}
      BY <1>1, <2>1, <2>4 DEF Live, Thread
    <3> QED BY <1>2, <2>1, <3>1 DEF Saving, InFile, Busy
  <2> QED BY <1>4, <2>3, <2>4, RegisterGoes DEF Goes
<1>5. CASE TruncateRegistry(k)
  <2>1. thr'[k] = [thr[k] EXCEPT !.pc = "dump", !.over = FALSE]
    BY <1>5, TruncateRegistryGoes DEF Goes
  <2>2. /\ thr'[k].pc = "dump" /\ ~thr'[k].over /\ thr'[k].ok = thr[k].ok
        /\ thr'[k].list = thr[k].list /\ thr'[k].todo = thr[k].todo
        /\ thr'[k].text = thr[k].text
    BY <1>1, <2>1 DEF Live, Thread
  <2>3. thr[k].pc = "truncate"
    BY <1>5 DEF TruncateRegistry
  <2> QED BY <1>2, <2>2, <2>3 DEF Saving, InFile, Busy
<1>6. CASE DumpRegistry(k)
  <2>1. thr'[k] = [thr[k] EXCEPT !.pc = thr[k].next]
    BY <1>6, DumpRegistryGoes DEF Goes
  <2>2. /\ thr'[k].pc = thr[k].next /\ thr'[k].ok = thr[k].ok
        /\ thr'[k].todo = thr[k].todo /\ thr'[k].text = thr[k].text
    BY <1>1, <2>1 DEF Live, Thread
  <2>3. thr[k].pc = "dump" /\ ~thr[k].over /\ registry' = thr[k].list
    BY <1>6 DEF DumpRegistry, Saving
  <2>4. tables \subseteq registry' /\ (~thr[k].ok => InFile)
    BY <2>3 DEF Saving
  <2>5. thr[k].next \in {"list", "collect", "nft"} /\ (thr[k].next # "list" => ~thr[k].ok)
    BY <1>1, <2>3 DEF OnItsWay
  <2> QED BY <1>2, <2>2, <2>4, <2>5 DEF Saving, Registered, InFile, Busy
<1> QED BY <1>3, <1>4, <1>5, <1>6

LEMMA SavedByList ==
    ASSUME TypeInv, NEW k \in Slot, Saving(thr[k]), \A s \in rules : s.t \in tables, clean',
           \/ Collect(k) \/ ListTable(k) \/ Unregister(k) \/ TruncateFile(k)
           \/ WriteFile(k)
    PROVE  /\ Busy(k)' => Saving(thr[k])'
           /\ ~Busy(k)' => (InFile /\ Registered)'
<1>1. thr[k] \in Live /\ OnItsWay(thr[k])
  BY AtWork DEF Collect, ListTable, Unregister, TruncateFile, WriteFile, TypeInv, ThreadsOK, Idle
<1>2. UNCHANGED <<tables, rules, registry>> /\ Registered
  BY DEF Collect, ListTable, Unregister, TruncateFile, WriteFile, Saving
<1>3. CASE Collect(k)
  <2>1. thr'[k] = [thr[k] EXCEPT !.todo = registry, !.text = NoRules, !.ok = TRUE, !.pc = "list"]
    BY <1>3, CollectGoes DEF Goes
  <2>2. thr'[k].pc = "list" /\ thr'[k].todo = registry /\ thr'[k].text.rules = {}
    BY <1>1, <2>1 DEF Live, Thread, NoRules
  <2> QED BY <1>2, <2>2 DEF Saving, Registered, Busy
<1>4. CASE ListTable(k)
  <2>1. PICK t \in thr[k].todo \cap tables : thr'[k] = Listed(k, t)
    BY <1>4, ListTableGoes DEF Goes
  <2> DEFINE text == [tables |-> thr[k].text.tables \cup {t},
                      rules |-> thr[k].text.rules \cup {r \in rules : r.t = t}]
  <2> DEFINE todo == thr[k].todo \ {t}
  <2>2. thr'[k] = [thr[k] EXCEPT !.todo = todo, !.text = text] /\ thr[k].pc = "list"
    BY <1>4, <2>1 DEF Listed, ListTable
  <2>3. text.rules = thr[k].text.rules \cup {r \in rules : r.t = t}
    OBVIOUS
  <2> HIDE DEF text, todo
  <2>4. thr'[k].pc = "list" /\ thr'[k].todo = todo /\ thr'[k].text = text
    BY <1>1, <2>2 DEF Live, Thread
  <2>5. /\ thr'[k].pc = "list" /\ thr'[k].todo = thr[k].todo \ {t}
        /\ thr'[k].text.rules = thr[k].text.rules \cup {r \in rules : r.t = t}
    BY <2>3, <2>4 DEF todo
  <2>6. thr[k].ok
    BY <1>1, <1>4 DEF ListTable, OnItsWay
  <2>7. /\ thr'[k].text.rules \subseteq rules
        /\ \A r \in rules : r \in thr'[k].text.rules \/ r.t \in thr'[k].todo
    BY <2>5, <2>6 DEF Saving
  <2> QED BY <1>2, <2>5, <2>7 DEF Saving, Registered, Busy
<1>5. CASE Unregister(k)
  <2>1. PICK t \in thr[k].todo :
          /\ thr'[k] = [thr[k] EXCEPT !.list = registry \ {t}, !.todo = @ \ {t},
                                      !.next = "list", !.pc = "truncate"]
          /\ clean' = (clean /\ t \notin tables)
    BY <1>5, UnregisterGoes DEF Goes
  <2>2. /\ thr'[k].pc = "truncate" /\ thr'[k].ok = thr[k].ok /\ thr'[k].text = thr[k].text
        /\ thr'[k].list = registry \ {t} /\ thr'[k].todo = thr[k].todo \ {t}
    BY <1>1, <2>1 DEF Live, Thread
  <2>3. thr[k].ok
    BY <1>1, <1>5 DEF Unregister, OnItsWay
  <2>4. tables \subseteq thr'[k].list
    BY <1>2, <2>1, <2>2 DEF Registered
  <2>5. /\ thr'[k].text.rules \subseteq rules
        /\ \A r \in rules : r \in thr'[k].text.rules \/ r.t \in thr'[k].todo
    BY <2>1, <2>2, <2>3 DEF Saving
  <2> QED BY <1>2, <2>2, <2>3, <2>4, <2>5 DEF Saving, Busy
<1>6. CASE TruncateFile(k)
  <2>1. thr'[k] = [thr[k] EXCEPT !.pc = "write", !.over = FALSE]
    BY <1>6, TruncateFileGoes DEF Goes
  <2>2. /\ thr'[k].pc = "write" /\ ~thr'[k].over /\ thr'[k].ok = thr[k].ok
        /\ thr'[k].todo = thr[k].todo /\ thr'[k].text = thr[k].text
    BY <1>1, <2>1 DEF Live, Thread
  <2>3. thr[k].todo = {}
    BY <1>6 DEF TruncateFile
  <2> QED BY <1>2, <2>2, <2>3 DEF Saving, Registered, Busy
<1>7. CASE WriteFile(k)
  <2>1. thr'[k] = [thr[k] EXCEPT !.pc = "done"]
    BY <1>7, WriteFileGoes DEF Goes
  <2>2. thr'[k].pc = "done"
    BY <1>1, <2>1 DEF Live, Thread
  <2>3. thr[k].ok /\ thr[k].todo = {} /\ ~thr[k].over
    BY <1>1, <1>7 DEF WriteFile, OnItsWay, Saving
  <2>4. saved' = thr[k].text /\ thr[k].text.rules = rules
    BY <1>7, <2>3 DEF WriteFile, Saving
  <2> QED BY <1>2, <2>2, <2>4 DEF InFile, Registered, Busy
<1> QED BY <1>3, <1>4, <1>5, <1>6, <1>7

LEMMA SaveByWork ==
    ASSUME TypeInv, SaveInv, NEW k \in Slot, Work(k), UNCHANGED dvars
    PROVE  SaveInv'
<1> SUFFICES ASSUME ~booted', clean' PROVE SaveInv'
  BY DEF SaveInv
<1>1. Goes(k, thr'[k]) /\ thr[k] \in Live
  BY WorkGoes
<1>2. Busy(k)
  BY DEF Busy, Work, EnsureNat, CreateTable, AddRule, DeleteRule, NftRefuses, Lookup, Register,
     TruncateRegistry, DumpRegistry, Collect, ListTable, Unregister, TruncateFile, WriteFile
<1>3. clean /\ ~booted
  BY UnregisterGoes DEF dvars, Work, EnsureNat, CreateTable, AddRule, DeleteRule, NftRefuses,
     Lookup, Register, TruncateRegistry, DumpRegistry, Collect, ListTable, TruncateFile, WriteFile
<1>4. Saving(thr[k]) /\ \A s \in rules : s.t \in tables
  BY <1>2, <1>3 DEF SaveInv
<1>5. CASE EnsureNat(k) \/ CreateTable(k) \/ AddRule(k) \/ DeleteRule(k) \/ NftRefuses(k)
  BY <1>1, <1>2, <1>3, <1>4, <1>5, SavedByNft, SaveAfter
<1>6. CASE Lookup(k) \/ Register(k) \/ TruncateRegistry(k) \/ DumpRegistry(k)
  <2>1. UNCHANGED <<rules, tables>>
    BY <1>6 DEF Lookup, Register, TruncateRegistry, DumpRegistry
  <2> QED BY <1>1, <1>2, <1>3, <1>4, <1>6, <2>1, SavedByRegistry, SaveAfter
<1>7. CASE \/ Collect(k) \/ ListTable(k) \/ Unregister(k) \/ TruncateFile(k)
           \/ WriteFile(k)
  <2>1. UNCHANGED <<rules, tables>>
    BY <1>7 DEF Collect, ListTable, Unregister, TruncateFile, WriteFile
  <2> QED BY <1>1, <1>2, <1>3, <1>4, <1>7, <2>1, SavedByList, SaveAfter
<1> QED BY <1>5, <1>6, <1>7 DEF Work

(* Nothing under way starts or changes, nor do kernel and files.           *)
LEMMA SaveStays ==
    ASSUME SaveInv, UNCHANGED <<tables, rules, registry, saved, booted>>, clean' => clean,
           clean' => \A j \in Slot : /\ Busy(j)' <=> Busy(j)
                                     /\ Busy(j) => thr'[j] = thr[j]
    PROVE  SaveInv'
<1> SUFFICES ASSUME ~booted', clean' PROVE SaveInv'
  BY DEF SaveInv
<1>1. /\ \A j, k \in Slot : Busy(j) /\ Busy(k) => j = k
      /\ Quiet => InFile /\ Registered
      /\ \A k \in Slot : Busy(k) => Saving(thr[k])
      /\ \A s \in rules : s.t \in tables
  BY DEF SaveInv
<1>2. (Quiet => InFile /\ Registered)'
  BY <1>1 DEF Quiet, InFile, Registered
<1>3. ASSUME NEW k \in Slot, Busy(k)' PROVE Saving(thr[k])'
  <2>1. Saving(thr[k]) /\ thr'[k] = thr[k]
    BY <1>1, <1>3
  <2> QED BY <2>1 DEF Saving, InFile, Registered
<1> QED BY <1>1, <1>2, <1>3 DEF SaveInv

LEMMA SaveByAsk ==
    ASSUME TypeInv, SaveInv, NEW k \in Slot, NEW kind, NEW rule, NEW op,
           Asks(k, kind, rule, op)
    PROVE  SaveInv'
<1> SUFFICES ASSUME ~booted', clean' PROVE SaveInv'
  BY DEF SaveInv
<1>1. /\ UNCHANGED <<tables, rules, registry, saved, booted>>
      /\ thr' = [thr EXCEPT ![k] = Begun(op, rule)] /\ clean /\ Quiet
  BY DEF Asks, Call, Serve, Begun
<1>2. InFile /\ Registered /\ \A s \in rules : s.t \in tables
  BY <1>1 DEF SaveInv
<1>3. /\ thr'[k].pc \in {"ensure", "nft"} /\ ~thr'[k].ok
      /\ \A j \in Slot \ {k} : thr'[j] = thr[j]
  BY <1>1 DEF Begun, TypeInv, StateOK
<1>4. Busy(k)' /\ \A j \in Slot \ {k} : ~Busy(j)'
  BY <1>1, <1>3 DEF Busy, Quiet
<1>5. Saving(thr[k])'
  BY <1>1, <1>2, <1>3 DEF Saving, InFile, Registered
<1>6. ~Quiet'
  BY <1>4 DEF Quiet
<1> QED BY <1>1, <1>2, <1>4, <1>5, <1>6 DEF SaveInv

LEMMA InitSave == StaticInit => SaveInv
BY DEF StaticInit, FirewallInit, SaveInv, Busy, NoThread, InFile, Registered

LEMMA SaveStep == TypeInv /\ SaveInv /\ [StaticNext]_svars => SaveInv'
<1> SUFFICES ASSUME TypeInv, SaveInv, [StaticNext]_svars PROVE SaveInv'
  OBVIOUS
<1>1. CASE UNCHANGED svars
  BY <1>1, Stutter, SaveStays DEF Busy
<1>2. ASSUME NEW k \in Slot, Answer(k) \/ Discard(k) PROVE SaveInv'
  <2>1. Answered(k)
    BY <1>2 DEF Answer, Discard
  <2>2. UNCHANGED <<tables, rules, registry, saved, clean, booted>> /\ thr[k].pc = "done"
        /\ thr' = [thr EXCEPT ![k] = NoThread]
    BY <2>1 DEF Answered
  <2>3. \A j \in Slot : (Busy(j)' <=> Busy(j)) /\ (Busy(j) => thr'[j] = thr[j])
    BY <2>2 DEF Busy, NoThread, TypeInv, StateOK
  <2> QED BY <2>2, <2>3, SaveStays
<1>3. CASE \E k \in Slot : GiveUp(k)
  <2>1. UNCHANGED <<tables, rules, registry, saved, thr, clean, booted>>
    BY <1>3 DEF GiveUp, fvars
  <2> QED BY <2>1, SaveStays DEF Busy
<1>4. CASE \E d \in Doc : DeleteInactive(d)
  <2>1. UNCHANGED <<tables, rules, registry, saved, thr, clean, booted>>
    BY <1>4 DEF DeleteInactive, fvars
  <2> QED BY <2>1, SaveStays DEF Busy
<1>5. CASE AgentStops /\ booted'
  BY <1>5 DEF SaveInv
<1>6. CASE AgentStops /\ ~booted'
  <2>1. Restart /\ UNCHANGED booted
    BY <1>6 DEF AgentStops
  <2>2. UNCHANGED <<tables, rules, registry, saved>> /\ clean' = (clean /\ Quiet)
        /\ \A j \in Slot : ~Busy(j)'
    BY <2>1 DEF Restart, Busy, NoThread
  <2> QED BY <2>1, <2>2, SaveStays DEF Quiet
<1>7. CASE StaticNext
  BY <1>2, <1>3, <1>4, <1>5, <1>6, <1>7, Steps, SaveByWork, SaveByAsk
<1> QED BY <1>1, <1>7

(* What Node acknowledged is in the file that the host loads when it boots *)
(* (save_rules of helpers.py), and the tables of its rules are registered  *)
(* (register_table), as long as Flask served one request at a time.        *)
THEOREM DocsSurviveBoot == StaticSpec => []DocsPersist
<1>1. ASSUME TypeInv, HandleInv, MatchInv, SaveInv PROVE DocsPersist
  <2> SUFFICES ASSUME clean, \A k \in Slot : Idle(k), NEW d \in Doc, Smooth(d)
               PROVE  /\ (\E r \in saved.rules : r.of = d) <=> docs[d].st = "active"
                      /\ docs[d].st = "active" => TableOf[d] \in registry
    BY DEF DocsPersist
  <2>1. HandlesOf(d) = DocSays(d)
    BY <1>1 DEF MatchInv, Smooth, Alone
  <2>2. Quiet
    BY DEF Quiet, Busy, Idle, NoThread
  <2>3. saved.rules = rules
    BY <1>1, <2>2 DEF SaveInv, InFile, Smooth
  <2>4. (\E r \in rules : r.of = d) <=> HandlesOf(d) # {}
    BY DEF HandlesOf
  <2>5. ASSUME docs[d].st = "active" PROVE TableOf[d] \in registry
    <3>1. PICK r \in rules : r.of = d
      BY <2>1, <2>4, <2>5 DEF DocSays
    <3>2. r.t = TableOf[d] /\ r.t \in tables
      BY <1>1, <3>1 DEF HandleInv, RulesOfDocs, SaveInv, Smooth
    <3>3. tables \subseteq registry
      BY <1>1, <2>2 DEF SaveInv, Registered, Smooth
    <3> QED BY <3>2, <3>3
  <2> QED BY <2>1, <2>3, <2>4, <2>5 DEF DocSays
<1>2. TypeInv /\ HandleInv /\ MatchInv /\ SaveInv => DocsPersist
  BY <1>1
<1> QED BY <1>2, InitTypes, TypeStep, InitHandles, HandleStep, InitMatch, MatchStep, InitSave,
           SaveStep, PTL DEF StaticSpec

===============================================================================
