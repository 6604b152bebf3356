------------------------------ MODULE StaticRules ------------------------------
(***************************************************************************)
(* Static and NAT rules across the two processes: the documents of the     *)
(* Node backend (firewall.controller.js, NAT.controller.js) composed with  *)
(* the agent of StaticFirewall.                                            *)
(*                                                                         *)
(* A document holds the handle of its rule, its comment, which is the      *)
(* millisecond of its request, and whether it is active.  A handler reads  *)
(* the document, calls the agent once and then writes the document.  A     *)
(* call may be given up after eight seconds while Flask goes on with it;   *)
(* so may one whose Node process ends.                                     *)
(***************************************************************************)
EXTENDS StaticFirewall

CONSTANTS
    TableOf,        \* TableOf[d]: the table of document d's rule
    MaxStamp,       \* bound: the milliseconds in which requests arrive
    MaxCalls,       \* bound: the calls Node makes
    AgentMayStop    \* whether Flask may restart and the host boot

Doc == Owner \ {Nobody}

ASSUME DocAssumption ==
    /\ TableOf \in [Doc -> Table]
    /\ MaxStamp \in Nat
    /\ MaxCalls \in Nat
    /\ AgentMayStop \in BOOLEAN

VARIABLES
    docs,       \* docs[d]: [st, h]
    stamp,      \* stamp[d]: the millisecond in d's comment (0: not requested)
    known,      \* tables with a Table document
    calls,      \* the calls made so far
    hnd,        \* hnd[k]: the handler waiting for the answer of request k
    rough,      \* history: documents with overlapping handlers, a call that
                \* was given up or cut off, or a failure nobody noticed
    booted      \* history: whether the host was booted

dvars == <<docs, stamp, known, calls, hnd, rough, booted>>

svars == <<tables, rules, nextHandle, registry, saved, thr, clean,
           docs, stamp, known, calls, hnd, rough, booted>>

Kind == {"none", "table", "add", "enable", "disable", "delete"}

StaticTypeOK ==
    /\ FirewallTypeOK
    /\ docs \in [Doc -> [st : {"none", "active", "inactive", "deleted"}, h : Nat]]
    /\ stamp \in [Doc -> 0..MaxStamp]
    /\ known \subseteq Table
    /\ calls \in 0..MaxCalls
    /\ hnd \in [Slot -> Kind]
    /\ rough \subseteq Doc
    /\ booted \in BOOLEAN

StaticInit ==
    /\ FirewallInit
    /\ docs = [d \in Doc |-> [st |-> "none", h |-> 0]]
    /\ stamp = [d \in Doc |-> 0]
    /\ known = Prepared \ {NatTable}
    /\ calls = 0
    /\ hnd = [k \in Slot |-> "none"]
    /\ rough = {}
    /\ booted = FALSE

IsNat(d) == TableOf[d] = NatTable

Idle(k) == thr[k] = NoThread

\* The slots with something under way for d, in Node or still in Flask.
Users(d) == {k \in Slot : ~Idle(k) /\ thr[k].rule.of = d}

RuleOf(d, s) == [t |-> TableOf[d], h |-> docs[d].h, comment |-> s, of |-> d]

\* Two requests of one millisecond give their rules the same comment.
Twins(d) == {e \in Doc \ {d} : TableOf[e] = TableOf[d] /\ stamp[e] = stamp[d]}

-------------------------------------------------------------------------------
(* A handler starts: what it reads of the document decides its call.       *)
Call(k, kind, rule, op) ==
    /\ calls < MaxCalls
    /\ calls' = calls + 1
    /\ Serve(k, op, rule)
    /\ hnd' = [hnd EXCEPT ![k] = kind]
    /\ rough' = IF Users(rule.of) = {} THEN rough ELSE rough \cup ({rule.of} \cap Doc)
    /\ UNCHANGED <<docs, known, booted>>

AddOp(d) == IF IsNat(d) THEN "add_nat" ELSE "add_rule"

Room(t) ==
    nextHandle[t] + Cardinality({k \in Slot : Busy(k) /\ thr[k].rule.t = t}) <= MaxHandle

BeginTable(k) ==
    \E t \in Table \ {NatTable} :
        /\ Call(k, "table", [t |-> t, h |-> 0, comment |-> 0, of |-> Nobody], "create_table")
        /\ UNCHANGED stamp

\* addRule, addNatRule: the comment is taken from the clock, in milliseconds.
\* A request takes longer than one, so that only requests under way together
\* can have the same.
BeginAdd(k, d) ==
    /\ stamp[d] = 0 /\ Room(TableOf[d])
    /\ IsNat(d) \/ TableOf[d] \in known
    /\ \E s \in 1..MaxStamp :
        /\ \A e \in Doc : stamp[e] <= s /\ (stamp[e] = s => Users(e) # {})
        /\ s = 1 \/ \E e \in Doc : stamp[e] \in {s - 1, s}
        /\ stamp' = [stamp EXCEPT ![d] = s]
        /\ Call(k, "add", RuleOf(d, s), AddOp(d))

\* toggleRuleStatus, toggleNatRuleStatus.
BeginToggle(k, d) ==
    /\ \/ docs[d].st = "active" /\ Call(k, "disable", RuleOf(d, stamp[d]), "delete")
       \/ /\ docs[d].st = "inactive" /\ Room(TableOf[d])
          /\ Call(k, "enable", RuleOf(d, stamp[d]), AddOp(d))
    /\ UNCHANGED stamp

\* deleteRule, deleteNatRule: only an active rule is the agent's business.
BeginDelete(k, d) ==
    /\ docs[d].st = "active"
    /\ Call(k, "delete", RuleOf(d, stamp[d]), "delete")
    /\ UNCHANGED stamp

DeleteInactive_AnyState(d) ==
    /\ docs[d].st \in {"active", "inactive"}
    /\ docs' = [docs EXCEPT ![d].st = "deleted"]
    /\ rough' = IF Users(d) = {} THEN rough ELSE rough \cup {d}
    /\ UNCHANGED <<fvars, stamp, known, calls, hnd, booted>>

DeleteInactive(d) ==
    /\ docs[d].st = "inactive"
    /\ docs' = [docs EXCEPT ![d].st = "deleted"]
    /\ rough' = IF Users(d) = {} THEN rough ELSE rough \cup {d}
    /\ UNCHANGED <<fvars, stamp, known, calls, hnd, booted>>

-------------------------------------------------------------------------------
(* The answer arrives, and the handler writes.  A document that was deleted *)
(* in the meantime stays deleted: save() fails.                            *)
Answered(k) ==
    /\ ~Idle(k) /\ thr[k].pc = "done"
    /\ thr' = [thr EXCEPT ![k] = NoThread]
    /\ hnd' = [hnd EXCEPT ![k] = "none"]
    /\ UNCHANGED <<tables, rules, nextHandle, registry, saved, clean, stamp, calls,
                   booted>>

Store(d, st, h) ==
    docs' = IF docs[d].st = "deleted" THEN docs
            ELSE [docs EXCEPT ![d] = [st |-> st, h |-> h]]

\* The table's document is created whatever the agent answers.
TableAnswered(k) ==
    /\ hnd[k] = "table"
    /\ known' = known \cup {thr[k].rule.t}
    /\ UNCHANGED <<docs, rough>>

\* Without a handle the answer is taken for a failure.
RuleAdded(k) ==
    LET r == thr[k].rule
    IN  /\ hnd[k] \in {"add", "enable"}
        /\ IF thr[k].ok /\ r.h # 0 THEN Store(r.of, "active", r.h) ELSE docs' = docs
        /\ rough' = IF thr[k].ok /\ r.h = 0 THEN rough \cup {r.of} ELSE rough
        /\ UNCHANGED known

RuleDisabled_Word(k) ==
    /\ hnd[k] = "disable"
    /\ IF thr[k].ok THEN Store(thr[k].rule.of, "disabled", 0) ELSE docs' = docs
    /\ UNCHANGED <<known, rough>>

RuleDisabled(k) ==
    /\ hnd[k] = "disable"
    /\ IF thr[k].ok THEN Store(thr[k].rule.of, "inactive", 0) ELSE docs' = docs
    /\ UNCHANGED <<known, rough>>

\* deleteRule does not look at the answer, deleteNatRule does.
RuleDeleted(k) ==
    LET d == thr[k].rule.of
    IN  /\ hnd[k] = "delete"
        /\ IF thr[k].ok \/ ~IsNat(d) THEN Store(d, "deleted", 0) ELSE docs' = docs
        /\ rough' = IF thr[k].ok THEN rough ELSE rough \cup {d}
        /\ UNCHANGED known

Answer(k) ==
    /\ Answered(k)
    /\ TableAnswered(k) \/ RuleAdded(k) \/ RuleDisabled(k) \/ RuleDeleted(k)

\* Nobody waits for the answer any more.
Discard(k) ==
    /\ hnd[k] = "none" /\ Answered(k)
    /\ UNCHANGED <<docs, known, rough>>

\* Eight seconds are over, or Node ends.
GiveUp(k) ==
    /\ hnd[k] # "none"
    /\ hnd' = [hnd EXCEPT ![k] = "none"]
    /\ rough' = rough \cup ({thr[k].rule.of} \cap Doc)
    /\ UNCHANGED <<fvars, docs, stamp, known, calls, booted>>

AgentStops ==
    /\ AgentMayStop
    /\ \/ Restart /\ (\E k \in Slot : ~Idle(k)) /\ UNCHANGED booted
       \/ Boot /\ booted' = TRUE
    /\ hnd' = [k \in Slot |-> "none"]
    /\ rough' = rough \cup {d \in Doc : Users(d) # {}}
    /\ UNCHANGED <<docs, stamp, known, calls>>

StaticNext ==
    \/ \E k \in Slot :
        \/ Idle(k) /\ BeginTable(k)
        \/ Work(k) /\ UNCHANGED dvars
        \/ Answer(k) \/ Discard(k) \/ GiveUp(k)
    \/ \E k \in Slot, d \in Doc : BeginAdd(k, d) \/ BeginToggle(k, d) \/ BeginDelete(k, d)
    \/ \E d \in Doc : DeleteInactive(d)
    \/ AgentStops

StaticSpec == StaticInit /\ [][StaticNext]_svars

-------------------------------------------------------------------------------
\* Nothing happened to document d but one request after the other, each seen
\* through to its answer.
Smooth(d) == d \notin rough /\ Users(d) = {} /\ Twins(d) = {} /\ ~booted

(* A handle that Node or Flask holds for a document belongs to that         *)
(* document's rule and no other, whatever requests of other documents run   *)
(* between the rule's addition and the search for its handle, and whatever  *)
(* is given up or repeated.  Two rules of one millisecond and a boot, which *)
(* renumbers the rules, are the exceptions.                                 *)
HandleIsOwn ==
    ~booted =>
        \A r \in {RuleOf(d, stamp[d]) : d \in Doc} \cup {thr[k].rule : k \in {j \in Slot : ~Idle(j)}} :
            \A s \in Hit(r) : r.of \in Doc /\ Twins(r.of) = {} => s.of = r.of

(* Document and kernel agree: an active document has one rule, at its       *)
(* handle, and any other none, unless requests for the document overlapped, *)
(* were given up or failed unnoticed.  Requests for other documents, and a  *)
(* restart of Flask, may come at any time.                                  *)
DocsMatchKernel ==
    \A d \in Doc : Smooth(d) =>
        {r.h : r \in {s \in rules : s.of = d}} =
            IF docs[d].st = "active" THEN {docs[d].h} ELSE {}

(* What Node acknowledged survives a boot, and the boot after that: as long *)
(* as Flask served one request at a time, the saved file has the rules of   *)
(* the active documents and not those of the others, and their tables are   *)
(* in the registry, from which the next save takes the tables it dumps.     *)
(* Of two requests at once it says nothing: helpers.py has no lock, and the *)
(* file may then miss a rule that was acknowledged.                         *)
DocsPersist ==
    clean /\ (\A k \in Slot : Idle(k)) =>
        \A d \in Doc : Smooth(d) =>
            /\ (\E r \in saved.rules : r.of = d) <=> docs[d].st = "active"
            /\ docs[d].st = "active" => TableOf[d] \in registry

(* firewall.controller.js:249 says of a disabled rule: "Removed from        *)
(* Firewall".  The rule is not there when its document becomes inactive,    *)
(* at least if all that was asked for the document before was answered.     *)
DisabledIsRemoved ==
    [][\A d \in Doc \ rough :
        docs[d].st = "active" /\ docs'[d].st = "inactive" => ~\E r \in rules' : r.of = d]_svars
===============================================================================
