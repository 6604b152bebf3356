---------------------------- MODULE StaticFirewall ----------------------------
(***************************************************************************)
(* The static firewall of the agent: the Flask application of firewall.py  *)
(* with the registry of tables and the saved ruleset of helpers.py.        *)
(*                                                                         *)
(* Flask serves every request in a thread of its own and takes no lock.    *)
(* A request runs nft, finds the handle of its new rule by the comment,    *)
(* and dumps the registered tables to the file that the host loads when    *)
(* it boots.  Both files are rewritten in place: opening one truncates it, *)
(* and a truncated or garbled file reads as an empty one, for the registry *)
(* and for nft -f alike.  A table stands for itself and its chain; the     *)
(* kernel numbers the rules of each table from the table's creation.       *)
(***************************************************************************)
EXTENDS Naturals, FiniteSets

CONSTANTS
    Slot,           \* requests served at a time
    Table,
    NatTable,       \* nk_nat, created by add_nat itself
    Owner,          \* what rules are for: the documents of StaticRules,
    Nobody,         \* or nobody
    Prepared,       \* tables created and saved earlier
    NftMayFail,
    MaxHandle       \* bound: largest handle a table gives out

ASSUME StaticAssumption ==
    /\ NatTable \in Table
    /\ Prepared \subseteq Table
    /\ Nobody \in Owner
    /\ NftMayFail \in BOOLEAN
    /\ MaxHandle \in Nat

VARIABLES
    tables,     \* the tables in the kernel
    rules,      \* the rules in the kernel: [t, h, comment, of]
    nextHandle, \* nextHandle[t]: the handle of table t's next rule
    registry,   \* nft_api_tables.json, as _load_registry reads it
    saved,      \* /etc/nftables.conf, as nft -f loads it: [tables, rules]
    thr,        \* thr[k]: the thread serving request k
    clean       \* history: no two requests overlapped, none was cut off, and
                \* nft never failed to list a table

fvars == <<tables, rules, nextHandle, registry, saved, thr, clean>>

Rule == [t : Table, h : Nat, comment : Nat, of : Owner]

Ruleset == [tables : SUBSET Table, rules : SUBSET Rule]

NoRules == [tables |-> {}, rules |-> {}]

Op == {"create_table", "add_rule", "add_nat", "delete"}

Step == {"idle", "ensure", "nft", "register", "truncate", "dump", "lookup",
         "collect", "list", "write", "done"}

\* rule.h is the handle to delete or the one found; `list` the registry to be
\* dumped and `next` what follows the dump; `todo` the tables still to be
\* listed for `text`; `over`: another thread wrote the file this one has open.
Thread == [pc : Step, op : Op, rule : Rule, ok : BOOLEAN, list : SUBSET Table,
           next : Step, todo : SUBSET Table, text : Ruleset, over : BOOLEAN]

FirewallTypeOK ==
    /\ tables \subseteq Table
    /\ rules \subseteq Rule
    /\ nextHandle \in [Table -> Nat]
    /\ registry \subseteq Table
    /\ saved \in Ruleset
    /\ \A k \in Slot : thr[k].pc = "idle" \/ thr[k] \in Thread
    /\ clean \in BOOLEAN

NoThread == [pc |-> "idle"]

FirewallInit ==
    /\ tables = Prepared
    /\ rules = {}
    /\ nextHandle = [t \in Table |-> 1]
    /\ registry = Prepared
    /\ saved = [tables |-> Prepared, rules |-> {}]
    /\ thr = [k \in Slot |-> NoThread]
    /\ clean = TRUE

Busy(k) == thr[k].pc \notin {"idle", "done"}

Quiet == \A k \in Slot : ~Busy(k)

\* A request reaches Flask.  add_nat starts with _ensure_nat_table.
Serve(k, op, rule) ==
    /\ thr[k] = NoThread
    /\ thr' = [thr EXCEPT ![k] =
          [pc |-> IF op = "add_nat" THEN "ensure" ELSE "nft", op |-> op,
           rule |-> rule, ok |-> FALSE, list |-> {}, next |-> "done",
           todo |-> {}, text |-> NoRules, over |-> FALSE]]
    /\ clean' = (clean /\ Quiet)
    /\ UNCHANGED <<tables, rules, nextHandle, registry, saved>>

Goto(k, pc) == thr' = [thr EXCEPT ![k].pc = pc]

-------------------------------------------------------------------------------
(* The nft commands.  Their failure is answered at once, without a save.    *)

EnsureNat_Unregistered(k) ==
    /\ thr[k].pc = "ensure"
    /\ tables' = tables \cup {NatTable}
    /\ Goto(k, "nft")
    /\ UNCHANGED <<rules, nextHandle, registry, saved, clean>>

EnsureNat(k) ==
    /\ thr[k].pc = "ensure"
    /\ tables' \in {tables \cup {NatTable}} \cup (IF NftMayFail THEN {tables} ELSE {})
    /\ Goto(k, "register")
    /\ UNCHANGED <<rules, nextHandle, registry, saved, clean>>

CreateTable(k) ==
    /\ thr[k].pc = "nft" /\ thr[k].op = "create_table"
    /\ tables' = tables \cup {thr[k].rule.t}
    /\ Goto(k, "register")
    /\ UNCHANGED <<rules, nextHandle, registry, saved, clean>>

AddRule(k) ==
    LET r == thr[k].rule
    IN  /\ thr[k].pc = "nft" /\ thr[k].op \in {"add_rule", "add_nat"}
        /\ r.t \in tables
        /\ rules' = rules \cup {[r EXCEPT !.h = nextHandle[r.t]]}
        /\ nextHandle' = [nextHandle EXCEPT ![r.t] = @ + 1]
        /\ Goto(k, "lookup")
        /\ UNCHANGED <<tables, registry, saved, clean>>

Hit(r) == {s \in rules : s.t = r.t /\ s.h = r.h}

DeleteRule(k) ==
    /\ thr[k].pc = "nft" /\ thr[k].op = "delete"
    /\ Hit(thr[k].rule) # {}
    /\ rules' = rules \ Hit(thr[k].rule)
    /\ Goto(k, "collect")
    /\ UNCHANGED <<tables, nextHandle, registry, saved, clean>>

NftRefuses(k) ==
    LET r == thr[k].rule
    IN  /\ thr[k].pc = "nft"
        /\ \/ NftMayFail
           \/ thr[k].op \in {"add_rule", "add_nat"} /\ r.t \notin tables
           \/ thr[k].op = "delete" /\ Hit(r) = {}
        /\ Goto(k, "done")
        /\ UNCHANGED <<tables, rules, nextHandle, registry, saved, clean>>

\* get_rule_handle: the first rule of the chain with that comment; None (0)
\* when there is none or nft cannot list it.
Same_AnyComment(r) == {s \in rules : s.t = r.t}

Same(r) == {s \in rules : s.t = r.t /\ s.comment = r.comment}

FirstOf(R) == CHOOSE h \in {s.h : s \in R} : \A s \in R : h <= s.h

Lookup(k) ==
    LET R == Same(thr[k].rule)
    IN  /\ thr[k].pc = "lookup"
        /\ \E h \in (IF R = {} THEN {0} ELSE {FirstOf(R)})
                       \cup (IF NftMayFail THEN {0} ELSE {}) :
              thr' = [thr EXCEPT ![k].rule.h = h, ![k].pc = "collect"]
        /\ UNCHANGED <<tables, rules, nextHandle, registry, saved, clean>>

-------------------------------------------------------------------------------
(* Files.  The thread that writes a file another one has open leaves the   *)
(* other to write over the start of its text: the longer one's rest may     *)
(* remain, and the file is then garbled.                                   *)
Opened(k, next) == thr' = [thr EXCEPT ![k].pc = next, ![k].over = FALSE]

Written(k, pc, next) ==
    thr' = [j \in Slot |->
              IF j = k THEN [thr[j] EXCEPT !.pc = next]
              ELSE IF thr[j].pc = pc THEN [thr[j] EXCEPT !.over = TRUE]
              ELSE thr[j]]

\* register_table: the list is changed in memory, and dumped if the table is
\* new.
AfterRegister(k) == IF thr[k].op = "create_table" THEN "collect" ELSE "nft"

Register(k) ==
    /\ thr[k].pc = "register"
    /\ IF thr[k].rule.t \in registry
       THEN Goto(k, AfterRegister(k))
       ELSE thr' = [thr EXCEPT ![k].list = registry \cup {thr[k].rule.t},
                               ![k].next = AfterRegister(k),
                               ![k].pc = "truncate"]
    /\ UNCHANGED <<tables, rules, nextHandle, registry, saved, clean>>

TruncateRegistry(k) ==
    /\ thr[k].pc = "truncate"
    /\ registry' = {}
    /\ Opened(k, "dump")
    /\ UNCHANGED <<tables, rules, nextHandle, saved, clean>>

DumpRegistry(k) ==
    /\ thr[k].pc = "dump"
    /\ registry' \in {thr[k].list} \cup (IF thr[k].over THEN {{}} ELSE {})
    /\ Written(k, "dump", thr[k].next)
    /\ UNCHANGED <<tables, rules, nextHandle, saved, clean>>

-------------------------------------------------------------------------------
(* save_rules: the tables of the registry are listed one after the other,  *)
(* and the file is written once all are.  A table that cannot be listed is *)
(* left out and taken off the registry.                                    *)
Collect(k) ==
    /\ thr[k].pc = "collect"
    /\ thr' = [thr EXCEPT ![k].todo = registry, ![k].text = NoRules,
                          ![k].ok = TRUE, ![k].pc = "list"]
    /\ UNCHANGED <<tables, rules, nextHandle, registry, saved, clean>>

ListTable(k) ==
    /\ thr[k].pc = "list"
    /\ \E t \in thr[k].todo \cap tables :
          thr' = [thr EXCEPT
                    ![k].todo = @ \ {t},
                    ![k].text = [tables |-> @.tables \cup {t},
                                 rules |-> @.rules \cup {r \in rules : r.t = t}]]
    /\ UNCHANGED <<tables, rules, nextHandle, registry, saved, clean>>

Unregister(k) ==
    /\ thr[k].pc = "list"
    /\ \E t \in thr[k].todo :
          /\ t \notin tables \/ NftMayFail
          /\ thr' = [thr EXCEPT ![k].list = registry \ {t}, ![k].todo = @ \ {t},
                                ![k].next = "list", ![k].pc = "truncate"]
          /\ clean' = (clean /\ t \notin tables)
    /\ UNCHANGED <<tables, rules, nextHandle, registry, saved>>

TruncateFile(k) ==
    /\ thr[k].pc = "list" /\ thr[k].todo = {}
    /\ saved' = NoRules
    /\ Opened(k, "write")
    /\ UNCHANGED <<tables, rules, nextHandle, registry, clean>>

WriteFile(k) ==
    /\ thr[k].pc = "write"
    /\ saved' \in {thr[k].text} \cup (IF thr[k].over THEN {NoRules} ELSE {})
    /\ Written(k, "write", "done")
    /\ UNCHANGED <<tables, rules, nextHandle, registry, clean>>

Work(k) ==
    \/ EnsureNat(k) \/ CreateTable(k) \/ AddRule(k) \/ DeleteRule(k)
    \/ NftRefuses(k) \/ Lookup(k)
    \/ Register(k) \/ TruncateRegistry(k) \/ DumpRegistry(k)
    \/ Collect(k) \/ ListTable(k) \/ Unregister(k)
    \/ TruncateFile(k) \/ WriteFile(k)

-------------------------------------------------------------------------------
\* Flask restarts, as its reloader makes it do, or the host boots: the kernel
\* then has what the file says, its rules numbered from the start.
Restart ==
    /\ thr' = [k \in Slot |-> NoThread]
    /\ clean' = (clean /\ Quiet)
    /\ UNCHANGED <<tables, rules, nextHandle, registry, saved>>

Rank(r) == Cardinality({s \in saved.rules : s.t = r.t /\ s.h <= r.h})

Boot ==
    /\ thr' = [k \in Slot |-> NoThread]
    /\ clean' = (clean /\ Quiet)
    /\ tables' = saved.tables
    /\ rules' = {[r EXCEPT !.h = Rank(r)] : r \in saved.rules}
    /\ nextHandle' = [t \in Table |-> Cardinality({r \in saved.rules : r.t = t}) + 1]
    /\ UNCHANGED <<registry, saved>>
===============================================================================
