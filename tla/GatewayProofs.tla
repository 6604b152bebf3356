----------------------------- MODULE GatewayProofs ----------------------------
(***************************************************************************)
(* Proofs about Enforcement, ApprovalGateway and Mitigation, one on top of *)
(* the other.  The scheduler owns every rule the agent adds and hits no    *)
(* other; alerts are spaced and a request has one verdict; the document    *)
(* Node keeps of it says what the agent did and only moves on; while the   *)
(* host is not booted, no two documents name one rule.  For any decisions  *)
(* and addresses, any lifetimes and bounds, any cooldowns within           *)
(* CooldownAssumption, nft failing or not, the table saved or not.         *)
(*                                                                         *)
(* The first part is about Enforcement by itself.  What the scheduler owes *)
(* is untouched by the rest of the agent: its invariant, IInv, is carried  *)
(* along by the second.                                                    *)
(***************************************************************************)
EXTENDS Mitigation, FiniteSetTheorems, SequenceTheorems, TLAPS

-------------------------------------------------------------------------------
(* Enforcement.                                                            *)

(* The rules the scheduler has to delete, waiting or popped.               *)
Scheduled == {entry.rule : entry \in heap} \cup doomed

(* Handles given out stay below the next one, in the kernel and in the     *)
(* agent's memory: the next rule's handle is nobody's.                     *)
HandlesBelow ==
    /\ \A r \in rules \cup Scheduled : r.h < nextHandle
    /\ \A h \in ours : h < nextHandle

(* A process that is down holds nothing in memory.                         *)
DownIsEmpty == ~up => heap = {} /\ doomed = {} /\ ours = {}

(* The kernel and the saved file hold finitely many rules, so that they    *)
(* can be numbered.                                                        *)
FiniteRules == IsFiniteSet(rules) /\ IsFiniteSet(saved.rules)

IInv ==
    /\ EnforcementTypeOK
    /\ HandlesBelow
    /\ DownIsEmpty
    /\ FiniteRules
    /\ OwnRulesScheduled
    /\ DeletionHitsItsRule

-------------------------------------------------------------------------------
(* A decision asks for one rule by handle, or for the two of a DDoS        *)
(* response; however many nft accepts, they are counted.                   *)
LEMMA AddedCount ==
  ASSUME NEW d \in Decision, NEW added \in SUBSET RuleKinds(d)
  PROVE  /\ Cardinality(added) \in Nat
         /\ added # {} => Cardinality(added) >= 1
         /\ "syn" \in added /\ "meter" \in added => Cardinality(added) = 2
         /\ "dos" \in added => added = {"dos"}
<1>1. added \in SUBSET {"dos"} \/ added \in SUBSET {"meter", "syn"}
  BY DEF RuleKinds
<1>2. "dos" \in added => added = {"dos"}
  BY DEF RuleKinds
<1>3. \/ added = {} \/ added = {"dos"} \/ added = {"meter"} \/ added = {"syn"}
      \/ added = {"meter", "syn"}
  BY <1>1
<1>4. Cardinality({}) = 0
  BY FS_EmptySet
<1>5. \A x : Cardinality({x}) = 1 /\ IsFiniteSet({x})
  BY FS_Singleton
<1>6. Cardinality({"meter"} \cup {"syn"}) = 2
  <2>1. Cardinality({"meter"}) = 1 /\ IsFiniteSet({"meter"})
    BY <1>5
  <2>2. Cardinality({"meter"} \cup {"syn"})
          = IF "syn" \in {"meter"} THEN Cardinality({"meter"}) ELSE Cardinality({"meter"}) + 1
    BY <2>1, FS_AddElement
  <2>3. "syn" \notin {"meter"}
    OBVIOUS
  <2> QED BY <2>1, <2>2, <2>3
<1>7. Cardinality({"meter", "syn"}) = 2
  <2>1. {"meter", "syn"} = {"meter"} \cup {"syn"}
    OBVIOUS
  <2> QED BY <2>1, <1>6
<1>8. \/ added = {} /\ Cardinality(added) = 0
      \/ added = {"dos"} /\ Cardinality(added) = 1
      \/ added = {"meter"} /\ Cardinality(added) = 1
      \/ added = {"syn"} /\ Cardinality(added) = 1
      \/ added = {"meter", "syn"} /\ Cardinality(added) = 2
  BY <1>3, <1>4, <1>5, <1>7
<1>9. Cardinality(added) \in Nat /\ (added # {} => Cardinality(added) >= 1)
  BY <1>8
<1>10. "syn" \in added /\ "meter" \in added => Cardinality(added) = 2
  BY <1>8
<1> QED BY <1>2, <1>9, <1>10

(* The rules nft accepted have distinct handles from nextHandle on, and    *)
(* none beyond the next value of the counter.                              *)
LEMMA NewRuleFacts ==
  ASSUME NEW d \in Decision, NEW added \in SUBSET RuleKinds(d), nextHandle \in Nat
  PROVE  /\ NewRules(d, added) \subseteq Rule
         /\ \A r \in NewRules(d, added) :
                nextHandle <= r.h /\ r.h < nextHandle + Cardinality(added)
         /\ \A r, s \in NewRules(d, added) : r.h = s.h => r = s
         /\ IsFiniteSet(NewRules(d, added))
<1> DEFINE new(k) == [h |-> HandleOf(k, added), kind |-> k, ip |-> Target(d)]
<1>1. added \subseteq {"dos", "meter", "syn"}
  BY DEF RuleKinds
<1>2. Target(d) \in IP
  BY DecisionAssumption DEF Target
<1>3. \A k : HandleOf(k, added) \in Nat
  BY DEF HandleOf
<1>4. NewRules(d, added) \subseteq Rule
  BY <1>1, <1>2, <1>3 DEF NewRules, Rule
<1>5. ASSUME NEW k \in added
      PROVE  nextHandle <= HandleOf(k, added) /\ HandleOf(k, added) < nextHandle + Cardinality(added)
  BY AddedCount DEF HandleOf
<1>6. \A j, k \in added : HandleOf(j, added) = HandleOf(k, added) => j = k
  BY <1>1, AddedCount DEF HandleOf
<1>7. IsFiniteSet(NewRules(d, added))
  <2>1. IsFiniteSet({new("dos")})
    BY FS_Singleton
  <2>2. IsFiniteSet({new("dos")} \cup {new("meter")})
    BY <2>1, FS_AddElement
  <2>3. IsFiniteSet(({new("dos")} \cup {new("meter")}) \cup {new("syn")})
    BY <2>2, FS_AddElement
  <2>4. NewRules(d, added) \in SUBSET (({new("dos")} \cup {new("meter")}) \cup {new("syn")})
    BY <1>1 DEF NewRules
  <2> QED BY <2>3, <2>4, FS_Subset
<1> QED BY <1>4, <1>5, <1>6, <1>7 DEF NewRules

(* The agent knows of no rule but the ones nft accepted.                   *)
LEMMA KnownIsNew ==
  ASSUME NEW d, NEW added, NEW read
  PROVE  KnownRules(d, added, read) \subseteq NewRules(d, added)
BY DEF KnownRules

-------------------------------------------------------------------------------
(* The agent starts with nothing and so owes nothing.                      *)
LEMMA InitEstablishes == EnforcementInit => IInv
<1> SUFFICES ASSUME EnforcementInit PROVE IInv
  OBVIOUS
<1> USE DEF EnforcementInit
<1>1. EnforcementTypeOK
  BY TimeAssumption DEF EnforcementTypeOK, NothingSaved
<1>2. IsFiniteSet(rules) /\ IsFiniteSet(saved.rules)
  BY FS_EmptySet DEF NothingSaved
<1>3. HandlesBelow /\ DownIsEmpty /\ OwnRulesScheduled /\ DeletionHitsItsRule
  BY DEF HandlesBelow, Scheduled, DownIsEmpty, OwnRulesScheduled, DeletionHitsItsRule
<1> QED BY <1>1, <1>2, <1>3 DEF IInv, FiniteRules

(* Executing a decision: the new rules' handles are nobody's, and each     *)
(* that is known enters the heap together with its deletion.               *)
LEMMA ExecuteStep ==
  ASSUME IInv, up, NEW d \in Decision, NEW added \in SUBSET RuleKinds(d),
         NEW read, Execute(d, added, read)
  PROVE  IInv'
<1> DEFINE new == NewRules(d, added)
<1> DEFINE known == KnownRules(d, added, read)
<1>1. nextHandle \in Nat /\ now \in Nat
  BY TimeAssumption DEF IInv, EnforcementTypeOK
<1>2. /\ new \subseteq Rule
      /\ \A r \in new : nextHandle <= r.h /\ r.h < nextHandle + Cardinality(added)
      /\ \A r, s \in new : r.h = s.h => r = s
      /\ IsFiniteSet(new)
      /\ known \subseteq new
  BY <1>1, NewRuleFacts, KnownIsNew
<1>3. Cardinality(added) \in Nat
  BY AddedCount
<1>4. /\ rules' = rules \cup new
      /\ nextHandle' = nextHandle + Cardinality(added)
      /\ heap' = heap \cup {[at |-> now + RuleTime, rule |-> r] : r \in known}
      /\ ours' = ours \cup {r.h : r \in known}
      /\ now' = now /\ up' = up /\ doomed' = doomed /\ saved' = saved
  BY DEF Execute, Schedule
<1>5. rules \subseteq Rule /\ heap \subseteq [at : Nat, rule : Rule] /\ doomed \subseteq Rule
  BY DEF IInv, EnforcementTypeOK
<1> HIDE DEF new, known
<1>6. Scheduled' = Scheduled \cup known
  <2>1. ASSUME NEW r \in known PROVE \E entry \in heap' : entry.rule = r
    <3>1. [at |-> now + RuleTime, rule |-> r] \in heap'
      BY <1>4
    <3> QED BY <3>1
  <2>2. \A entry \in heap' : entry \in heap \/ entry.rule \in known
    BY <1>4
  <2>3. heap \subseteq heap'
    BY <1>4
  <2> QED BY <1>4, <2>1, <2>2, <2>3 DEF Scheduled
<1>7. EnforcementTypeOK'
  <2>1. elem' \in [Element -> Nat]
    BY <1>1, TimeAssumption DEF Execute, Expiry, Forever, IInv, EnforcementTypeOK
  <2>2. heap' \subseteq [at : Nat, rule : Rule]
    BY <1>1, <1>2, <1>4, <1>5, TimeAssumption
  <2>3. ours' \subseteq Nat
    <3>1. \A r \in known : r.h \in Nat
      BY <1>2 DEF Rule
    <3> QED BY <1>4, <3>1 DEF IInv, EnforcementTypeOK
  <2> QED BY <1>1, <1>2, <1>3, <1>4, <1>5, <2>1, <2>2, <2>3 DEF IInv, EnforcementTypeOK
<1>8. HandlesBelow'
  BY <1>1, <1>2, <1>3, <1>4, <1>5, <1>6 DEF IInv, HandlesBelow, Scheduled, Rule, EnforcementTypeOK
<1>9. DownIsEmpty'
  BY <1>4 DEF DownIsEmpty
<1>10. FiniteRules'
  BY <1>2, <1>4, FS_Union DEF IInv, FiniteRules
<1>11. OwnRulesScheduled'
  <2> SUFFICES ASSUME NEW r \in rules', r.h \in ours'
               PROVE  r \in doomed' \/ \E entry \in heap' :
                                          entry.rule = r /\ entry.at <= now' + RuleTime
    BY DEF OwnRulesScheduled
  <2>1. ASSUME r \in known
        PROVE  \E entry \in heap' : entry.rule = r /\ entry.at <= now' + RuleTime
    <3>1. [at |-> now + RuleTime, rule |-> r] \in heap'
      BY <1>4, <2>1
    <3>2. now + RuleTime <= now' + RuleTime
      BY <1>1, <1>4, TimeAssumption
    <3> QED BY <3>1, <3>2
  <2>2. ASSUME r \in new \ known PROVE FALSE
    <3>1. r.h \in ours \/ \E s \in known : s.h = r.h
      BY <1>4
    <3>2. r.h \notin ours
      BY <1>1, <1>2, <2>2 DEF IInv, EnforcementTypeOK, HandlesBelow, Rule
    <3>3. \A s \in known : s.h # r.h
      BY <1>2, <2>2
    <3> QED BY <3>1, <3>2, <3>3
  <2>3. ASSUME r \notin new PROVE r \in rules /\ r.h \in ours
    BY <1>1, <1>2, <1>4, <1>5, <2>3 DEF IInv, HandlesBelow, Rule
  <2> QED BY <1>4, <2>1, <2>2, <2>3 DEF IInv, OwnRulesScheduled
<1>12. DeletionHitsItsRule'
  <2> SUFFICES ASSUME NEW s \in Scheduled', NEW r \in rules', r.h = s.h PROVE r = s
    BY DEF DeletionHitsItsRule, Scheduled
  <2>1. s \in Scheduled /\ r \in rules => r = s
    BY DEF IInv, DeletionHitsItsRule, Scheduled
  <2>2. s \in known /\ r \in new => r = s
    BY <1>2
  <2>3. ~(s \in known /\ r \in rules) /\ ~(s \in Scheduled /\ r \in new)
    BY <1>1, <1>2, <1>5 DEF IInv, HandlesBelow, Scheduled, Rule
  <2> QED BY <1>4, <1>6, <2>1, <2>2, <2>3
<1> QED BY <1>7, <1>8, <1>9, <1>10, <1>11, <1>12 DEF IInv

LEMMA EnforceStep == IInv /\ Enforce => IInv'
BY ExecuteStep DEF Enforce

-------------------------------------------------------------------------------
(* The scheduler's two steps: the earliest deletion is taken from the heap *)
(* into the thread's hands, and is out of them only when it was tried.     *)
LEMMA PopStep == IInv /\ PopDue => IInv'
<1> SUFFICES ASSUME IInv, up, NEW entry \in heap,
                    doomed' = {entry.rule}, heap' = heap \ {entry}, doomed = {},
                    UNCHANGED <<now, up, elem, rules, nextHandle, saved, ours>>
             PROVE  IInv'
  BY DEF PopDue
<1>1. EnforcementTypeOK'
  BY DEF IInv, EnforcementTypeOK
<1>2. Scheduled' = Scheduled
  BY DEF Scheduled
<1>3. HandlesBelow' /\ DeletionHitsItsRule'
  BY <1>2 DEF IInv, HandlesBelow, DeletionHitsItsRule, Scheduled
<1>4. DownIsEmpty' /\ FiniteRules'
  BY DEF IInv, DownIsEmpty, FiniteRules
<1>5. OwnRulesScheduled'
  BY DEF IInv, OwnRulesScheduled
<1> QED BY <1>1, <1>3, <1>4, <1>5 DEF IInv

(* Deleting rules and elements leaves what is said of the others.          *)
LEMMA DeletionStep ==
  ASSUME IInv, up,
         rules' \subseteq rules, elem' \in [Element -> Nat],
         doomed' \subseteq doomed, ours' \subseteq ours,
         \A r \in rules' : r.h \in ours' /\ r \in doomed => r \in doomed',
         UNCHANGED <<now, up, nextHandle, heap, saved>>
  PROVE  IInv'
<1>1. EnforcementTypeOK'
  BY DEF IInv, EnforcementTypeOK
<1>2. Scheduled' \subseteq Scheduled
  BY DEF Scheduled
<1>3. HandlesBelow'
  BY <1>2 DEF IInv, HandlesBelow
<1>4. DeletionHitsItsRule'
  BY DEF IInv, DeletionHitsItsRule
<1>5. DownIsEmpty'
  BY DEF IInv, DownIsEmpty
<1>6. FiniteRules'
  <2>1. IsFiniteSet(rules')
    BY FS_Subset DEF IInv, FiniteRules
  <2> QED BY <2>1 DEF IInv, FiniteRules
<1>7. OwnRulesScheduled'
  BY DEF IInv, OwnRulesScheduled
<1> QED BY <1>1, <1>3, <1>4, <1>5, <1>6, <1>7 DEF IInv

LEMMA RunStep == IInv /\ RunDeletion => IInv'
<1> SUFFICES ASSUME IInv, RunDeletion PROVE IInv'
  OBVIOUS
<1>1. rules' \subseteq rules /\ elem' = elem
  BY DEF RunDeletion, DeleteHandle
<1>2. elem' \in [Element -> Nat]
  BY <1>1 DEF IInv, EnforcementTypeOK
<1>3. doomed' = {} /\ ours' = ours \ {r.h : r \in doomed}
  BY DEF RunDeletion
<1>4. \A r \in rules' : r.h \in ours' /\ r \in doomed => r \in doomed'
  BY <1>3
<1>5. up /\ UNCHANGED <<now, up, nextHandle, heap, saved>>
  BY DEF RunDeletion
<1> QED BY <1>1, <1>2, <1>3, <1>4, <1>5, DeletionStep

LEMMA AdminStep == IInv /\ AdminDelete => IInv'
<1> SUFFICES ASSUME IInv, AdminDelete PROVE IInv'
  OBVIOUS
<1>1. rules' \subseteq rules
  BY DEF AdminDelete, DeleteHandle, DeleteElement
<1>2. elem' \in [Element -> Nat]
  BY DEF AdminDelete, DeleteHandle, DeleteElement, IInv, EnforcementTypeOK
<1>3. up /\ UNCHANGED <<now, up, nextHandle, heap, doomed, saved, ours>>
  BY DEF AdminDelete
<1> QED BY <1>1, <1>2, <1>3, DeletionStep

-------------------------------------------------------------------------------
(* Losing the heap is harmless to both properties: what the agent no       *)
(* longer knows it no longer calls its own.                                *)
LEMMA CrashStep == IInv /\ Crash => IInv'
<1> SUFFICES ASSUME IInv, Crash PROVE IInv'
  OBVIOUS
<1> USE DEF Crash
<1>1. EnforcementTypeOK' /\ FiniteRules' /\ DownIsEmpty'
  BY DEF IInv, EnforcementTypeOK, FiniteRules, DownIsEmpty
<1>2. HandlesBelow'
  BY DEF IInv, HandlesBelow, Scheduled
<1>3. OwnRulesScheduled' /\ DeletionHitsItsRule'
  BY DEF OwnRulesScheduled, DeletionHitsItsRule
<1> QED BY <1>1, <1>2, <1>3 DEF IInv

(* Restarting, saving the table and waiting touch neither rules nor heap;  *)
(* as time passes a deletion only comes closer.                            *)
LEMMA QuietStep == IInv /\ (Start \/ SaveRules \/ Tick \/ UNCHANGED evars) => IInv'
<1> SUFFICES ASSUME IInv, Start \/ SaveRules \/ Tick \/ UNCHANGED evars PROVE IInv'
  OBVIOUS
<1>1. UNCHANGED <<elem, rules, nextHandle, heap, doomed, ours>>
  BY DEF Start, SaveRules, Tick, evars
<1>2. now \in Nat /\ now' \in Nat /\ now <= now' /\ now' \in 0..MaxTime
  BY TimeAssumption DEF Start, SaveRules, Tick, evars, IInv, EnforcementTypeOK
<1>3. saved' = saved \/ saved' \in [left : [Element -> Nat], rules : {rules}]
  BY <1>2 DEF Start, SaveRules, Tick, evars, InForce, IInv, EnforcementTypeOK
<1>4. EnforcementTypeOK'
  <2>1. up' \in BOOLEAN
    BY DEF Start, SaveRules, Tick, evars, IInv, EnforcementTypeOK
  <2> QED BY <1>1, <1>2, <1>3, <2>1 DEF IInv, EnforcementTypeOK
<1>5. HandlesBelow'
  BY <1>1 DEF IInv, HandlesBelow, Scheduled
<1>6. DownIsEmpty'
  BY <1>1 DEF Start, SaveRules, Tick, evars, IInv, DownIsEmpty
<1>7. FiniteRules'
  BY <1>1, <1>3 DEF IInv, FiniteRules
<1>8. DeletionHitsItsRule'
  BY <1>1 DEF IInv, DeletionHitsItsRule
<1>9. OwnRulesScheduled'
  <2> SUFFICES ASSUME NEW r \in rules, r.h \in ours, r \notin doomed
               PROVE  \E entry \in heap : entry.rule = r /\ entry.at <= now' + RuleTime
    BY <1>1 DEF OwnRulesScheduled
  <2>1. PICK entry \in heap : entry.rule = r /\ entry.at <= now + RuleTime
    BY DEF IInv, OwnRulesScheduled
  <2>2. entry.at \in Nat
    BY DEF IInv, EnforcementTypeOK
  <2>3. entry.at <= now' + RuleTime
    BY <1>2, <2>1, <2>2, TimeAssumption
  <2> QED BY <2>1, <2>3
<1> QED BY <1>4, <1>5, <1>6, <1>7, <1>8, <1>9 DEF IInv

(* A boot numbers the rules of the file from the start, below the next     *)
(* handle, while no agent runs that could hold an older number.            *)
LEMMA RebootStep == IInv /\ Reboot => IInv'
<1> SUFFICES ASSUME IInv, Reboot PROVE IInv'
  OBVIOUS
<1> DEFINE N == Cardinality(saved.rules)
<1> DEFINE loaded == [r \in saved.rules |-> [r EXCEPT !.h = Rank(r)]]
<1>1. saved.rules \subseteq Rule /\ IsFiniteSet(saved.rules) /\ N \in Nat
  BY FS_CardinalityType DEF IInv, EnforcementTypeOK, FiniteRules
<1>2. ASSUME NEW r \in saved.rules PROVE Rank(r) \in Nat /\ Rank(r) <= N
  <2>1. {s \in saved.rules : s.h <= r.h} \in SUBSET saved.rules
    OBVIOUS
  <2> QED BY <1>1, <2>1, FS_Subset, FS_CardinalityType DEF Rank
<1>3. /\ rules' = {[r EXCEPT !.h = Rank(r)] : r \in saved.rules}
      /\ nextHandle' = N + 1
      /\ UNCHANGED <<now, up, heap, doomed, saved, ours>>
      /\ ~up
  BY DEF Reboot
<1>4. heap = {} /\ doomed = {} /\ ours = {}
  BY <1>3 DEF IInv, DownIsEmpty
<1>5. \A r \in rules' : r \in Rule /\ r.h < nextHandle'
  BY <1>1, <1>2, <1>3 DEF Rule
<1>6. EnforcementTypeOK'
  <2>1. elem' \in [Element -> Nat]
    BY DEF Reboot, IInv, EnforcementTypeOK
  <2>2. rules' \subseteq Rule
    BY <1>5
  <2> QED BY <1>1, <1>3, <2>1, <2>2 DEF IInv, EnforcementTypeOK
<1>7. HandlesBelow' /\ DownIsEmpty'
  BY <1>3, <1>4, <1>5 DEF HandlesBelow, Scheduled, DownIsEmpty
<1>8. FiniteRules'
  <2>1. loaded \in Surjection(saved.rules, rules')
    BY <1>3 DEF Surjection
  <2>2. IsFiniteSet(rules')
    BY <1>1, <2>1, FS_Surjection
  <2> QED BY <1>1, <1>3, <2>2 DEF FiniteRules
<1>9. OwnRulesScheduled' /\ DeletionHitsItsRule'
  BY <1>3, <1>4 DEF OwnRulesScheduled, DeletionHitsItsRule
<1> QED BY <1>6, <1>7, <1>8, <1>9 DEF IInv

-------------------------------------------------------------------------------
LEMMA Inductive == EnforcementSpec => []IInv
<1>1. IInv /\ [EnforcementNext]_evars => IInv'
  BY EnforceStep, AdminStep, PopStep, RunStep, CrashStep, QuietStep, RebootStep
  DEF EnforcementNext
<1> QED BY InitEstablishes, <1>1, PTL DEF EnforcementSpec

(* The state stays well typed, nft failing or not.                         *)
THEOREM EnforcementTypeCorrect == EnforcementSpec => []EnforcementTypeOK
BY Inductive, PTL DEF IInv

(* Every rule whose handle the running agent learnt, half of a DDoS        *)
(* response included, has its deletion scheduled within its lifetime, or   *)
(* in the thread's hands.  A rule whose handle could not be read is        *)
(* nobody's: nft_rules.py:215-218 answers None for it, and it stays.       *)
THEOREM RulesAreOwned == EnforcementSpec => []OwnRulesScheduled
BY Inductive, PTL DEF IInv

(* A deletion the scheduler holds names the rule it was made for, or none: *)
(* across admins' deletions, restarts, and boots that number rules afresh. *)
THEOREM DeletionsAreExact == EnforcementSpec => []DeletionHitsItsRule
BY Inductive, PTL DEF IInv

-------------------------------------------------------------------------------
(* ApprovalGateway.                                                        *)

FlowSeen == [src : IP, dst : IP, shut : SUBSET Category]

AlertSent == [req : Req, key : Key, at : Nat, dels : SUBSET Deletion, timeout : Nat]

GatewayTypeOK ==
    /\ pending \subseteq [req : Req, d : Decision, at : Nat]
    /\ auto \in BOOLEAN
    /\ windows \in [Key -> Nat]
    /\ phase \in {"idle", "sent", "handling"}
    /\ batch \in Seq(FlowSeen)
    /\ handled \subseteq Key
    /\ nextReq \in 1..(MaxReq + 1)
    /\ alerts \subseteq AlertSent
    /\ runs \in [Req -> Nat]
    /\ refused \subseteq Req
    /\ appearances \in [IP -> Nat]
    /\ flaggedAt \in [IP -> Nat]

(* A request an admin may still decide has no verdict yet, and there is    *)
(* one of its number; one that was not raised has none either.             *)
OneVerdict ==
    /\ \A p \in pending : p.req < nextReq /\ runs[p.req] = 0 /\ p.req \notin refused
    /\ \A p, q \in pending : p.req = q.req => p = q
    /\ \A r \in Req : r >= nextReq => runs[r] = 0 /\ r \notin refused
    /\ \A r \in Req : runs[r] <= 1 /\ (runs[r] = 1 => r \notin refused)

(* The window an alert opened is moved by verdicts, but never to an end    *)
(* before the shortest cooldown of the alert is over.                      *)
WindowsCover ==
    \A a \in alerts :
        /\ a.req < nextReq /\ a.at <= now
        /\ a.at + MonitorCooldown <= windows[a.key]

(* The windows the AI engine is told of for a flow.                        *)
Concerns(flow, key) ==
    /\ key[2] \in Windowed
    /\ key[1] = flow.src \/ (key[2] = "ddos" /\ key[1] = flow.dst)

(* What a flow of the batch was not told of is over, or was decided while  *)
(* the reply is handled.                                                   *)
BatchTold ==
    /\ phase # "idle" => batch # <<>>
    /\ \A i \in DOMAIN batch : \A a \in alerts :
        Concerns(batch[i], a.key) /\ a.key[2] \notin batch[i].shut
        => \/ a.at + MonitorCooldown <= now
           \/ phase = "handling" /\ a.key \in handled

(* An alert that reports deletions is of a request executed at once.       *)
AlertsOfRun == \A a \in alerts : a.dels # {} => runs[a.req] = 1 /\ a.req \notin refused

GatewayInv ==
    /\ IInv /\ GatewayTypeOK
    /\ OneVerdict /\ WindowsCover /\ BatchTold /\ AlertsOfRun /\ AlertSpacing

-------------------------------------------------------------------------------
LEMMA Times ==
    /\ MonitorCooldown \in Nat /\ RuleTime \in Nat /\ BlockTime \in Nat
    /\ RejectedCooldown \in Nat /\ PendingCooldown \in Nat /\ PermWindow \in Nat
    /\ RejectedCooldown >= MonitorCooldown /\ PendingCooldown >= MonitorCooldown
    /\ PermWindow >= MonitorCooldown
    /\ RuleTime >= MonitorCooldown /\ BlockTime >= MonitorCooldown
    /\ MaxReq \in Nat \ {0} /\ MaxBatch \in Nat /\ PendingTTL \in Nat /\ MaxTime \in Nat
BY CooldownAssumption, TimeAssumption

LEMMA DecisionShape ==
    ASSUME NEW d \in Decision
    PROVE  /\ d.action \in Action /\ d.cat \in Category /\ d.src \in IP /\ d.dst \in IP
           /\ KeyOf(d) \in Key /\ KeyOf(d)[2] = d.cat
           /\ KeyOf(d)[1] = d.src \/ (d.cat = "ddos" /\ KeyOf(d)[1] = d.dst)
BY DecisionAssumption, DdosAssumption DEF KeyOf, Key

(* Every window is at least as long as the monitor's (_window_ttl_sec).    *)
LEMMA WindowLength ==
    ASSUME NEW d, NEW read
    PROVE  /\ ResultDuration(d, read) \in Nat
           /\ WindowTtl(d, ResultDuration(d, read)) \in Nat
           /\ WindowTtl(d, ResultDuration(d, read)) >= MonitorCooldown
BY Times DEF ResultDuration, WindowTtl

(* The deletions an alert or an answer reports.                            *)
LEMMA DeletionsTyped ==
    ASSUME nextHandle \in Nat, NEW d \in Decision, NEW added \in SUBSET RuleKinds(d), NEW read
    PROVE  PayloadDeletions(d, added, read) \in SUBSET Deletion
<1>1. {[h |-> 0, el |-> e] : e \in Elements(d)} \subseteq Deletion
  BY DEF Elements, Deletion
<1>2. {DeletionOf(r) : r \in KnownRules(d, added, read)} \subseteq Deletion
  <2>1. KnownRules(d, added, read) \subseteq Rule
    BY NewRuleFacts, KnownIsNew
  <2> QED BY <2>1 DEF Rule, Deletion, DeletionOf
<1> QED BY <1>1, <1>2 DEF PayloadDeletions

LEMMA GatewayInitEstablishes == Init => GatewayInv
<1> SUFFICES ASSUME Init PROVE GatewayInv
  OBVIOUS
<1> USE DEF Init
<1>1. IInv
  BY InitEstablishes
<1>2. GatewayTypeOK
  <2>1. <<>> \in Seq(FlowSeen)
    BY EmptySeq
  <2>2. nextReq \in 1..(MaxReq + 1)
    BY Times
  <2>3. runs \in [Req -> Nat] /\ appearances \in [IP -> Nat] /\ flaggedAt \in [IP -> Nat]
        /\ windows \in [Key -> Nat]
    OBVIOUS
  <2> QED BY <2>1, <2>2, <2>3 DEF GatewayTypeOK
<1>3. OneVerdict
  BY DEF OneVerdict
<1>4. WindowsCover /\ BatchTold /\ AlertsOfRun /\ AlertSpacing
  BY DEF WindowsCover, BatchTold, AlertsOfRun, AlertSpacing
<1> QED BY <1>1, <1>2, <1>3, <1>4 DEF GatewayInv

-------------------------------------------------------------------------------
(* Steps of the agent that leave requests, windows and alerts alone.       *)
LEMMA ClockOnly ==
    ASSUME GatewayInv, IInv', now' \in Nat, now <= now',
           auto' \in BOOLEAN, phase' \in {"idle", "sent", "handling"}, handled' \subseteq Key,
           batch' \in Seq(FlowSeen),
           UNCHANGED <<pending, windows, nextReq, alerts, runs, refused, appearances, flaggedAt>>,
           BatchTold'
    PROVE  GatewayInv'
<1>1. GatewayTypeOK'
  BY DEF GatewayInv, GatewayTypeOK
<1>2. OneVerdict' /\ AlertsOfRun' /\ AlertSpacing'
  BY DEF GatewayInv, OneVerdict, AlertsOfRun, AlertSpacing
<1>3. now \in Nat
  BY Times DEF GatewayInv, IInv, EnforcementTypeOK
<1>4. WindowsCover'
  BY <1>3 DEF GatewayInv, WindowsCover, GatewayTypeOK, AlertSent
<1> QED BY <1>1, <1>2, <1>4 DEF GatewayInv

LEMMA ClockTyped ==
    ASSUME GatewayInv PROVE now \in Nat /\ nextHandle \in Nat
BY Times DEF GatewayInv, IInv, EnforcementTypeOK

(* What the scheduler, the clock, the kernel, an admin's deletion or a     *)
(* toggle of the flag do does not concern the pipeline.                    *)
LEMMA OtherStep ==
    ASSUME GatewayInv,
           RuleDelete \/ Background \/ SetAuto \/ UNCHANGED vars
    PROVE  GatewayInv'
<1>1. IInv' /\ now' \in Nat /\ now <= now'
  <2>1. ASSUME RuleDelete PROVE IInv' /\ now' = now
    BY <2>1, AdminStep DEF RuleDelete, AdminDelete, GatewayInv
  <2>2. ASSUME SetAuto \/ UNCHANGED vars PROVE IInv' /\ now' = now
    <3>1. UNCHANGED evars
      BY <2>2 DEF SetAuto, vars, evars
    <3> QED BY <3>1, QuietStep DEF GatewayInv, evars
  <2>3. ASSUME PopDue \/ RunDeletion PROVE IInv' /\ now' = now
    BY <2>3, PopStep, RunStep DEF PopDue, RunDeletion, GatewayInv
  <2>4. ASSUME Start \/ SaveRules PROVE IInv' /\ now' = now
    BY <2>4, QuietStep DEF Start, SaveRules, GatewayInv
  <2>5. ASSUME Reboot PROVE IInv' /\ now' = now
    BY <2>5, RebootStep DEF Reboot, GatewayInv
  <2>6. ASSUME Tick PROVE IInv' /\ now' = now + 1
    BY <2>6, QuietStep DEF Tick, GatewayInv
  <2> QED BY <2>1, <2>2, <2>3, <2>4, <2>5, <2>6, ClockTyped DEF Background
<1>2. /\ UNCHANGED <<pending, windows, phase, batch, handled, nextReq, alerts, runs,
                     refused, appearances, flaggedAt>>
      /\ auto' \in BOOLEAN
  BY DEF RuleDelete, Background, SetAuto, vars, gvars, GatewayInv, GatewayTypeOK
<1>3. BatchTold'
  <2>1. \A a \in alerts : a.at \in Nat
    BY DEF GatewayInv, GatewayTypeOK, AlertSent
  <2> QED BY <1>1, <1>2, <2>1, ClockTyped, Times DEF GatewayInv, BatchTold
<1>4. /\ phase' \in {"idle", "sent", "handling"} /\ handled' \subseteq Key
      /\ batch' \in Seq(FlowSeen)
  BY <1>2 DEF GatewayInv, GatewayTypeOK
<1> QED BY <1>1, <1>2, <1>3, <1>4, ClockOnly

LEMMA AgentCrashStep == GatewayInv /\ AgentCrash => GatewayInv'
<1> SUFFICES ASSUME GatewayInv, AgentCrash PROVE GatewayInv'
  OBVIOUS
<1> USE DEF AgentCrash
<1>1. IInv' /\ now' = now
  BY CrashStep DEF Crash, GatewayInv
<1>2. GatewayTypeOK'
  <2>1. <<>> \in Seq(FlowSeen)
    BY EmptySeq
  <2> QED BY <2>1 DEF GatewayInv, GatewayTypeOK
<1>3. OneVerdict' /\ AlertsOfRun' /\ AlertSpacing' /\ WindowsCover'
  BY <1>1 DEF GatewayInv, OneVerdict, AlertsOfRun, AlertSpacing, WindowsCover
<1>4. BatchTold'
  BY DEF BatchTold
<1> QED BY <1>1, <1>2, <1>3, <1>4 DEF GatewayInv

-------------------------------------------------------------------------------
(* The batch.                                                              *)

(* The flows still to come of a reply.                                     *)
LEMMA TailOfBatch ==
    ASSUME GatewayInv, phase = "handling"
    PROVE  /\ batch \in Seq(FlowSeen) /\ batch # <<>>
           /\ Head(batch) \in FlowSeen /\ Head(batch) = batch[1] /\ 1 \in DOMAIN batch
           /\ Tail(batch) \in Seq(FlowSeen)
           /\ \A i \in DOMAIN Tail(batch) : i + 1 \in DOMAIN batch /\ Tail(batch)[i] = batch[i + 1]
           /\ IF Len(batch) = 1 THEN DOMAIN Tail(batch) = {} ELSE Tail(batch) # <<>>
<1>1. batch \in Seq(FlowSeen) /\ batch # <<>>
  BY DEF GatewayInv, GatewayTypeOK, BatchTold
<1>2. Len(batch) \in Nat /\ Len(batch) >= 1 /\ DOMAIN batch = 1..Len(batch)
  BY <1>1, EmptySeq, LenProperties
<1>3. /\ Head(batch) \in FlowSeen /\ Tail(batch) \in Seq(FlowSeen)
      /\ Len(Tail(batch)) = Len(batch) - 1
      /\ \A i \in 1..Len(Tail(batch)) : Tail(batch)[i] = batch[i + 1]
  BY <1>1, HeadTailProperties
<1>4. DOMAIN Tail(batch) = 1..(Len(batch) - 1)
  BY <1>3, LenProperties
<1>5. Len(batch) # 1 => Tail(batch) # <<>>
  <2>1. Len(batch) # 1 => Len(Tail(batch)) # 0
    BY <1>2, <1>3
  <2>2. Tail(batch) = <<>> => Len(Tail(batch)) = 0
    BY <1>3, EmptySeq
  <2> QED BY <2>1, <2>2
<1>6. Head(batch) = batch[1]
  BY <1>1
<1>7. Len(batch) = 1 => DOMAIN Tail(batch) = {}
  BY <1>4
<1> QED BY <1>1, <1>2, <1>3, <1>4, <1>5, <1>6, <1>7

LEMMA SendStep == GatewayInv /\ SendBatch => GatewayInv'
<1> SUFFICES ASSUME GatewayInv, SendBatch PROVE GatewayInv'
  OBVIOUS
<1>1. IInv' /\ now' = now
  BY QuietStep DEF SendBatch, GatewayInv, evars
<1>2. PICK n \in 1..MaxBatch : \E flows \in [1..n -> Flow] :
                                   batch' = [i \in 1..n |-> Enrich(flows[i])]
  BY DEF SendBatch
<1>3. PICK flows \in [1..n -> Flow] : batch' = [i \in 1..n |-> Enrich(flows[i])]
  BY <1>2
<1>4. \A i \in 1..n : Enrich(flows[i]) \in FlowSeen
  BY FlowAssumption DEF Enrich, Shut, Windowed, FlowSeen
<1>5. n \in Nat /\ n >= 1
  BY Times
<1>6. batch' \in Seq(FlowSeen) /\ DOMAIN batch' = 1..n /\ batch' # <<>>
  <2>1. batch' \in [1..n -> FlowSeen]
    BY <1>3, <1>4
  <2>2. batch' \in Seq(FlowSeen)
    BY <1>5, <2>1, SeqDef
  <2>3. 1 \in DOMAIN batch'
    BY <1>3, <1>5
  <2> QED BY <1>3, <2>2, <2>3
<1>7. BatchTold'
  <2> SUFFICES ASSUME NEW i \in 1..n, NEW a \in alerts,
                      Concerns(Enrich(flows[i]), a.key), a.key[2] \notin Enrich(flows[i]).shut
               PROVE  a.at + MonitorCooldown <= now
    BY <1>1, <1>3, <1>6 DEF BatchTold, SendBatch
  <2>1. a \in AlertSent /\ a.at + MonitorCooldown <= windows[a.key]
    BY DEF GatewayInv, GatewayTypeOK, WindowsCover
  <2>2. a.key = <<a.key[1], a.key[2]>> /\ windows[a.key] \in Nat
    BY <2>1 DEF AlertSent, Key, GatewayInv, GatewayTypeOK
  <2>3. ~(windows[a.key] > now)
    BY <2>2 DEF Enrich, Shut, Concerns
  <2> QED BY SMTT(20), <2>1, <2>2, <2>3, ClockTyped, Times DEF AlertSent
<1>8. /\ auto' \in BOOLEAN /\ phase' \in {"idle", "sent", "handling"} /\ handled' \subseteq Key
      /\ UNCHANGED <<pending, windows, nextReq, alerts, runs, refused, appearances, flaggedAt>>
  BY DEF SendBatch, GatewayInv, GatewayTypeOK
<1> QED BY <1>1, <1>6, <1>7, <1>8, ClockOnly, ClockTyped

LEMMA ReplyStep == GatewayInv /\ (PredictFails \/ PredictReplies) => GatewayInv'
<1> SUFFICES ASSUME GatewayInv, PredictFails \/ PredictReplies PROVE GatewayInv'
  OBVIOUS
<1> USE DEF PredictFails, PredictReplies
<1>1. IInv' /\ now' = now
  BY QuietStep DEF GatewayInv, evars
<1>2. BatchTold'
  BY <1>1 DEF GatewayInv, BatchTold
<1>3. /\ auto' \in BOOLEAN /\ phase' \in {"idle", "sent", "handling"} /\ handled' \subseteq Key
      /\ UNCHANGED <<pending, windows, nextReq, alerts, runs, refused, appearances, flaggedAt>>
  BY DEF GatewayInv, GatewayTypeOK
<1>4. batch' \in Seq(FlowSeen)
  BY EmptySeq DEF GatewayInv, GatewayTypeOK
<1> QED BY <1>1, <1>2, <1>3, <1>4, ClockOnly, ClockTyped

LEMMA SkipStep == GatewayInv /\ SkipFlow => GatewayInv'
<1> SUFFICES ASSUME GatewayInv, SkipFlow PROVE GatewayInv'
  OBVIOUS
<1> USE DEF SkipFlow, NextFlow
<1>1. IInv' /\ now' = now
  BY QuietStep DEF GatewayInv, evars
<1>2. phase = "handling"
  OBVIOUS
<1>3. BatchTold'
  <2>1. phase' # "idle" => batch' # <<>>
    BY <1>2, TailOfBatch
  <2> SUFFICES ASSUME NEW i \in DOMAIN Tail(batch), NEW a \in alerts,
                      Concerns(Tail(batch)[i], a.key), a.key[2] \notin Tail(batch)[i].shut
               PROVE  \/ a.at + MonitorCooldown <= now
                      \/ phase' = "handling" /\ a.key \in handled
    BY <1>1, <2>1 DEF BatchTold
  <2>2. Len(batch) # 1
    <3>1. ASSUME Len(batch) = 1 PROVE FALSE
      BY <1>2, <3>1, TailOfBatch
    <3> QED BY <3>1
  <2>3. \/ a.at + MonitorCooldown <= now
        \/ phase = "handling" /\ a.key \in handled
    BY <1>2, TailOfBatch DEF GatewayInv, BatchTold
  <2> QED BY <1>2, <2>2, <2>3
<1>4. /\ auto' \in BOOLEAN /\ phase' \in {"idle", "sent", "handling"} /\ handled' \subseteq Key
      /\ UNCHANGED <<pending, windows, nextReq, alerts, runs, refused, appearances, flaggedAt>>
  BY DEF GatewayInv, GatewayTypeOK
<1>5. batch' \in Seq(FlowSeen)
  BY <1>2, TailOfBatch
<1> QED BY <1>1, <1>3, <1>4, <1>5, ClockOnly, ClockTyped

-------------------------------------------------------------------------------
(* Decisions and verdicts.                                                 *)

(* Opening a window covers what was covered before.                        *)
LEMMA WindowsGrow ==
    ASSUME GatewayInv, NEW d \in Decision, NEW ttl \in Nat, ttl >= MonitorCooldown,
           SetWindow(d, ttl)
    PROVE  /\ windows' \in [Key -> Nat]
           /\ windows'[KeyOf(d)] = now + ttl
           /\ \A a \in alerts : a.at + MonitorCooldown <= windows'[a.key]
<1>1. KeyOf(d) \in Key /\ windows \in [Key -> Nat] /\ now \in Nat
  BY DecisionShape, ClockTyped DEF GatewayInv, GatewayTypeOK
<1>2. windows' \in [Key -> Nat] /\ windows'[KeyOf(d)] = now + ttl
  BY <1>1 DEF SetWindow
<1>3. ASSUME NEW a \in alerts PROVE a.at + MonitorCooldown <= windows'[a.key]
  <2>1. a.at \in Nat /\ a.key \in Key /\ a.at <= now /\ a.at + MonitorCooldown <= windows[a.key]
    BY DEF GatewayInv, GatewayTypeOK, AlertSent, WindowsCover
  <2>2. a.key = KeyOf(d) \/ windows'[a.key] = windows[a.key]
    BY <1>1, <2>1 DEF SetWindow
  <2> QED BY <1>1, <1>2, <2>1, <2>2, Times
<1> QED BY <1>2, <1>3

(* What an admin's verdict or a decision at once does to the rules.        *)
LEMMA ExecutionStep ==
    ASSUME GatewayInv, up, NEW d \in Decision, NEW added \in SUBSET RuleKinds(d), NEW read,
           Execute(d, added, read)
    PROVE  IInv' /\ now' = now
BY ExecuteStep DEF GatewayInv, Execute

LEMMA ApproveStep ==
    ASSUME GatewayInv, NEW p \in pending, NEW added, NEW read, Approve(p, added, read)
    PROVE  GatewayInv'
<1>1. /\ p.d \in Decision /\ p.req \in Req /\ added \in SUBSET RuleKinds(p.d)
      /\ runs[p.req] = 0 /\ p.req \notin refused /\ p.req < nextReq
  BY DEF GatewayInv, GatewayTypeOK, OneVerdict, Approve, Execute
<1>2. IInv' /\ now' = now
  BY <1>1, ExecutionStep DEF Approve, LoopFree
<1>3. PICK ttl \in Nat : ttl >= MonitorCooldown /\ SetWindow(p.d, ttl)
  BY WindowLength DEF Approve
<1>4. windows' \in [Key -> Nat] /\ \A a \in alerts : a.at + MonitorCooldown <= windows'[a.key]
  BY <1>1, <1>3, WindowsGrow
<1>5. /\ pending' = pending \ {p} /\ runs' = [runs EXCEPT ![p.req] = @ + 1]
      /\ UNCHANGED <<auto, phase, batch, handled, nextReq, alerts, refused,
                     appearances, flaggedAt>>
  BY DEF Approve, Popped
<1>6. runs \in [Req -> Nat] /\ runs' \in [Req -> Nat] /\ runs'[p.req] = 1
      /\ \A r \in Req : r # p.req => runs'[r] = runs[r]
  BY <1>1, <1>5 DEF GatewayInv, GatewayTypeOK
<1>7. GatewayTypeOK'
  BY <1>4, <1>5, <1>6 DEF GatewayInv, GatewayTypeOK
<1>8. OneVerdict'
  <2>1. \A q \in pending' : q \in pending /\ q.req \in Req /\ q.req # p.req
    BY <1>5 DEF GatewayInv, OneVerdict, GatewayTypeOK
  <2>2. nextReq \in Nat /\ p.req \in Nat
    BY <1>1, Times DEF GatewayInv, GatewayTypeOK, Req
  <2>3. \A q \in pending' : q.req < nextReq' /\ runs'[q.req] = 0 /\ q.req \notin refused'
    BY <1>5, <1>6, <2>1 DEF GatewayInv, OneVerdict
  <2>4. \A q, s \in pending' : q.req = s.req => q = s
    BY <2>1 DEF GatewayInv, OneVerdict
  <2>5. \A r \in Req : r >= nextReq' => runs'[r] = 0 /\ r \notin refused'
    <3> SUFFICES ASSUME NEW r \in Req, r >= nextReq PROVE runs'[r] = 0 /\ r \notin refused
      BY <1>5
    <3>1. r # p.req
      BY <1>1, <2>2 DEF Req
    <3> QED BY <1>6, <3>1 DEF GatewayInv, OneVerdict
  <2>6. \A r \in Req : runs'[r] <= 1 /\ (runs'[r] = 1 => r \notin refused')
    BY <1>1, <1>5, <1>6 DEF GatewayInv, OneVerdict
  <2> QED BY <2>3, <2>4, <2>5, <2>6 DEF OneVerdict
<1>9. WindowsCover' /\ AlertSpacing'
  BY <1>2, <1>4, <1>5 DEF GatewayInv, WindowsCover, AlertSpacing
<1>10. BatchTold'
  BY <1>2, <1>5 DEF GatewayInv, BatchTold
<1>11. AlertsOfRun'
  BY <1>1, <1>5, <1>6 DEF GatewayInv, AlertsOfRun, GatewayTypeOK, AlertSent
<1> QED BY <1>2, <1>7, <1>8, <1>9, <1>10, <1>11 DEF GatewayInv

LEMMA RejectStep ==
    ASSUME GatewayInv, NEW p \in pending, Reject(p)
    PROVE  GatewayInv'
<1>1. /\ p.d \in Decision /\ p.req \in Req
      /\ runs[p.req] = 0 /\ p.req \notin refused /\ p.req < nextReq
  BY DEF GatewayInv, GatewayTypeOK, OneVerdict
<1>2. IInv' /\ now' = now
  BY QuietStep DEF Reject, GatewayInv, evars
<1>3. windows' \in [Key -> Nat] /\ \A a \in alerts : a.at + MonitorCooldown <= windows'[a.key]
  BY <1>1, WindowsGrow, Times DEF Reject
<1>4. /\ pending' = pending \ {p} /\ refused' = refused \cup {p.req}
      /\ UNCHANGED <<auto, phase, batch, handled, nextReq, alerts, runs, appearances, flaggedAt>>
  BY DEF Reject
<1>5. GatewayTypeOK'
  BY <1>1, <1>3, <1>4 DEF GatewayInv, GatewayTypeOK
<1>6. OneVerdict'
  <2>1. \A q \in pending' : q \in pending /\ q.req # p.req
    BY <1>4 DEF GatewayInv, OneVerdict
  <2>2. \A q \in pending' : q.req < nextReq' /\ runs'[q.req] = 0 /\ q.req \notin refused'
    BY <1>4, <2>1 DEF GatewayInv, OneVerdict
  <2>3. \A q, s \in pending' : q.req = s.req => q = s
    BY <2>1 DEF GatewayInv, OneVerdict
  <2>4. \A r \in Req : r >= nextReq' => runs'[r] = 0 /\ r \notin refused'
    <3> SUFFICES ASSUME NEW r \in Req, r >= nextReq PROVE runs[r] = 0 /\ r \notin refused /\ r # p.req
      BY <1>4
    <3>1. r # p.req
      BY <1>1, Times DEF Req, GatewayInv, GatewayTypeOK
    <3> QED BY <3>1 DEF GatewayInv, OneVerdict
  <2>5. \A r \in Req : runs'[r] <= 1 /\ (runs'[r] = 1 => r \notin refused')
    BY <1>1, <1>4 DEF GatewayInv, OneVerdict
  <2> QED BY <2>2, <2>3, <2>4, <2>5 DEF OneVerdict
<1>7. WindowsCover' /\ AlertSpacing'
  BY <1>2, <1>3, <1>4 DEF GatewayInv, WindowsCover, AlertSpacing
<1>8. BatchTold'
  BY <1>2, <1>4 DEF GatewayInv, BatchTold
<1>9. AlertsOfRun'
  BY <1>1, <1>4 DEF GatewayInv, AlertsOfRun
<1> QED BY <1>2, <1>5, <1>6, <1>7, <1>8, <1>9 DEF GatewayInv

(* A flow of the reply becomes a request: executed at once and reported,   *)
(* or kept for an admin.                                                   *)
LEMMA RaiseStep == GatewayInv /\ HandleFlow => GatewayInv'
<1> SUFFICES ASSUME GatewayInv, HandleFlow PROVE GatewayInv'
  OBVIOUS
<1>1. PICK d \in Decisions(Head(batch)) :
        /\ KeyOf(d) \notin handled
        /\ handled' = handled \cup {KeyOf(d)}
        /\ Record(d)
        /\ \/ DecidePending(d)
           \/ /\ Fits(d)
              /\ \E added \in SUBSET RuleKinds(d) : \E read \in SUBSET added :
                    DecideAuto(d, added, read)
  BY DEF HandleFlow
<1>2. /\ up /\ phase = "handling" /\ nextReq <= MaxReq /\ nextReq' = nextReq + 1
      /\ batch' = Tail(batch) /\ phase' = IF Len(batch) = 1 THEN "idle" ELSE "handling"
      /\ UNCHANGED <<auto, refused>>
  BY DEF HandleFlow, NextFlow
<1>3. /\ d \in Decision /\ d.src = Head(batch).src /\ d.dst = Head(batch).dst
      /\ d.cat \notin Head(batch).shut
      /\ KeyOf(d) \in Key /\ KeyOf(d)[2] = d.cat
      /\ KeyOf(d)[1] = d.src \/ (d.cat = "ddos" /\ KeyOf(d)[1] = d.dst)
      /\ d.src \in IP /\ d.dst \in IP
  BY DecisionShape DEF Decisions
<1>4. nextReq \in Nat /\ nextReq \in Req /\ nextReq' \in 1..(MaxReq + 1)
  BY <1>2, Times DEF GatewayInv, GatewayTypeOK, Req
<1>5. runs[nextReq] = 0 /\ nextReq \notin refused /\ runs \in [Req -> Nat]
  BY <1>4 DEF GatewayInv, OneVerdict, GatewayTypeOK
<1>6. PICK ttl \in Nat, dels \in SUBSET Deletion, timeout \in Nat :
        /\ IInv' /\ now' = now
        /\ ttl >= MonitorCooldown /\ SetWindow(d, ttl)
        /\ alerts' = alerts \cup {Alert(d, dels, timeout)}
        /\ \/ /\ dels = {} /\ runs' = runs
              /\ pending' = {p \in pending : ~Stale(p)}
                              \cup {[req |-> nextReq, d |-> d, at |-> now]}
           \/ runs' = [runs EXCEPT ![nextReq] = @ + 1] /\ pending' = pending
  <2>1. CASE DecidePending(d)
    <3>1. UNCHANGED evars
      BY <2>1 DEF DecidePending
    <3>2. IInv' /\ now' = now
      BY <3>1, QuietStep DEF GatewayInv, evars
    <3>3. ResultDuration(d, RuleKinds(d)) \in Nat
      BY WindowLength
    <3> QED BY <2>1, <3>2, <3>3, Times DEF DecidePending
  <2>2. ASSUME NEW added \in SUBSET RuleKinds(d), NEW read \in SUBSET added,
               DecideAuto(d, added, read)
        PROVE  /\ IInv' /\ now' = now
               /\ WindowTtl(d, ResultDuration(d, read)) \in Nat
               /\ WindowTtl(d, ResultDuration(d, read)) >= MonitorCooldown
               /\ SetWindow(d, WindowTtl(d, ResultDuration(d, read)))
               /\ PayloadDeletions(d, added, read) \in SUBSET Deletion
               /\ ResultDuration(d, read) \in Nat
               /\ alerts' = alerts \cup {Alert(d, PayloadDeletions(d, added, read),
                                               ResultDuration(d, read))}
               /\ runs' = [runs EXCEPT ![nextReq] = @ + 1] /\ pending' = pending
    <3>1. IInv' /\ now' = now
      BY <1>2, <1>3, <2>2, ExecutionStep DEF DecideAuto
    <3>2. PayloadDeletions(d, added, read) \in SUBSET Deletion
      BY <1>3, ClockTyped, DeletionsTyped
    <3> QED BY <2>2, <3>1, <3>2, WindowLength DEF DecideAuto
  <2> QED BY <1>1, <2>1, <2>2
<1>7. PICK new : new = Alert(d, dels, timeout)
  OBVIOUS
<1>8. /\ new \in AlertSent /\ new.req = nextReq /\ new.key = KeyOf(d) /\ new.at = now
      /\ new.dels = dels /\ alerts' = alerts \cup {new}
  BY <1>3, <1>4, <1>6, <1>7, ClockTyped DEF Alert, AlertSent
<1>9. /\ windows' \in [Key -> Nat] /\ windows'[KeyOf(d)] = now + ttl
      /\ \A a \in alerts : a.at + MonitorCooldown <= windows'[a.key]
  BY <1>3, <1>6, WindowsGrow
<1>10. /\ runs' \in [Req -> Nat] /\ runs'[nextReq] <= 1 /\ (dels # {} => runs'[nextReq] = 1)
       /\ \A r \in Req : r # nextReq => runs'[r] = runs[r]
  BY <1>4, <1>5, <1>6
<1>11. /\ pending' \subseteq pending \cup {[req |-> nextReq, d |-> d, at |-> now]}
       /\ runs'[nextReq] = 0 \/ pending' = pending
  BY <1>5, <1>6
<1>12. GatewayTypeOK'
  <2>1. pending' \subseteq [req : Req, d : Decision, at : Nat]
    BY <1>3, <1>4, <1>11, ClockTyped DEF GatewayInv, GatewayTypeOK
  <2>2. batch' \in Seq(FlowSeen) /\ phase' \in {"idle", "sent", "handling"}
    BY <1>2, TailOfBatch
  <2>3. appearances' \in [IP -> Nat] /\ flaggedAt' \in [IP -> Nat]
    <3>1. appearances \in [IP -> Nat] /\ flaggedAt \in [IP -> Nat] /\ now \in Nat
      BY ClockTyped DEF GatewayInv, GatewayTypeOK
    <3>2. appearances' \in [IP -> Nat]
      BY <1>1, <1>3, <3>1 DEF Record
    <3>3. flaggedAt' = [flaggedAt EXCEPT ![d.dst] = now] \/ flaggedAt' = flaggedAt
      BY <1>1 DEF Record
    <3> QED BY <3>1, <3>2, <3>3
  <2>4. handled' \subseteq Key /\ alerts' \subseteq AlertSent
    BY <1>1, <1>3, <1>8 DEF GatewayInv, GatewayTypeOK
  <2> QED BY <1>2, <1>4, <1>9, <1>10, <2>1, <2>2, <2>3, <2>4 DEF GatewayInv, GatewayTypeOK
<1>13. OneVerdict'
  <2>1. \A p \in pending : /\ p.req < nextReq /\ p.req \in Req /\ p.req # nextReq
                           /\ p.req < nextReq' /\ runs'[p.req] = 0 /\ p.req \notin refused
    BY <1>2, <1>4, <1>10 DEF GatewayInv, GatewayTypeOK, OneVerdict, Req
  <2>2. \A p \in pending' : p.req < nextReq' /\ runs'[p.req] = 0 /\ p.req \notin refused'
    BY <1>2, <1>4, <1>5, <1>11, <2>1
  <2>3. \A p, q \in pending' : p.req = q.req => p = q
    BY <1>11, <2>1 DEF GatewayInv, OneVerdict
  <2>4. \A r \in Req : r >= nextReq' => runs'[r] = 0 /\ r \notin refused'
    BY <1>2, <1>4, <1>10 DEF GatewayInv, OneVerdict, Req
  <2>5. \A r \in Req : runs'[r] <= 1 /\ (runs'[r] = 1 => r \notin refused')
    BY <1>2, <1>5, <1>10 DEF GatewayInv, OneVerdict
  <2> QED BY <2>2, <2>3, <2>4, <2>5 DEF OneVerdict
<1>14. WindowsCover'
  <2>1. \A a \in alerts : a.req < nextReq' /\ a.at <= now'
    BY <1>2, <1>4, <1>6 DEF GatewayInv, WindowsCover, GatewayTypeOK, AlertSent, Req
  <2>2. new.req < nextReq' /\ new.at <= now' /\ new.at + MonitorCooldown <= windows'[new.key]
    BY <1>2, <1>4, <1>6, <1>8, <1>9, ClockTyped, Times
  <2> QED BY <1>8, <1>9, <2>1, <2>2 DEF WindowsCover
<1>15. \A a \in alerts : a.key = KeyOf(d) /\ a.key[2] \in Windowed
                           => a.at + MonitorCooldown <= now
  <2> SUFFICES ASSUME NEW a \in alerts, a.key = KeyOf(d), a.key[2] \in Windowed
               PROVE  a.at + MonitorCooldown <= now
    OBVIOUS
  <2>1. 1 \in DOMAIN batch /\ batch[1] = Head(batch)
    BY <1>2, TailOfBatch
  <2>2. Concerns(batch[1], a.key) /\ a.key[2] \notin batch[1].shut
    BY <1>3, <2>1 DEF Concerns
  <2> QED BY <1>1, <2>1, <2>2 DEF GatewayInv, BatchTold
<1>16. AlertSpacing'
  <2> SUFFICES ASSUME NEW a \in alerts', NEW b \in alerts', a.key = b.key,
                      a.key[2] \in Windowed, a.req < b.req
               PROVE  a.at + MonitorCooldown <= b.at
    BY DEF AlertSpacing
  <2>1. \A c \in alerts : c.req < nextReq /\ c.req \in Nat
    BY DEF GatewayInv, WindowsCover, GatewayTypeOK, AlertSent, Req
  <2>2. a \in alerts
    BY <1>4, <1>8, <2>1
  <2>3. CASE b \in alerts
    BY <2>2, <2>3 DEF GatewayInv, AlertSpacing
  <2>4. CASE b = new
    BY <1>8, <1>15, <2>2, <2>4
  <2> QED BY <1>8, <2>3, <2>4
<1>17. BatchTold'
  <2>1. phase' # "idle" => batch' # <<>>
    BY <1>2, TailOfBatch
  <2> SUFFICES ASSUME NEW i \in DOMAIN Tail(batch), NEW a \in alerts',
                      Concerns(Tail(batch)[i], a.key), a.key[2] \notin Tail(batch)[i].shut
               PROVE  \/ a.at + MonitorCooldown <= now
                      \/ phase' = "handling" /\ a.key \in handled'
    BY <1>2, <1>6, <2>1 DEF BatchTold
  <2>2. phase' = "handling"
    <3>1. Len(batch) # 1
      BY <1>2, TailOfBatch
    <3> QED BY <1>2, <3>1
  <2>3. CASE a \in alerts
    <3>1. \/ a.at + MonitorCooldown <= now
          \/ a.key \in handled
      BY <1>2, <2>3, TailOfBatch DEF GatewayInv, BatchTold
    <3> QED BY <1>1, <2>2, <3>1
  <2>4. CASE a = new
    BY <1>1, <1>8, <2>2, <2>4
  <2> QED BY <1>8, <2>3, <2>4
<1>18. AlertsOfRun'
  <2>1. \A a \in alerts : a.req \in Req /\ a.req < nextReq /\ a.req # nextReq
    BY <1>4 DEF GatewayInv, GatewayTypeOK, WindowsCover, AlertSent, Req
  <2>2. \A a \in alerts : a.dels # {} => runs'[a.req] = 1 /\ a.req \notin refused
    BY <1>10, <2>1 DEF GatewayInv, AlertsOfRun
  <2>3. new.dels # {} => runs'[new.req] = 1 /\ new.req \notin refused
    BY <1>5, <1>8, <1>10
  <2> QED BY <1>2, <1>8, <2>2, <2>3 DEF AlertsOfRun
<1> QED BY <1>6, <1>12, <1>13, <1>14, <1>16, <1>17, <1>18 DEF GatewayInv

LEMMA GatewayStep == GatewayInv /\ [Next]_vars => GatewayInv'
BY OtherStep, AgentCrashStep, SendStep, ReplyStep, SkipStep, RaiseStep, ApproveStep, RejectStep
DEF Next

(* The state of the agent stays well typed (enforcement_api.py, state/     *)
(* active_window_store.py, gateway/).                                      *)
THEOREM GatewayTypeCorrect == Spec => []TypeOK
<1>1. GatewayInv => TypeOK
  BY DEF GatewayInv, IInv, GatewayTypeOK, FlowSeen, AlertSent, TypeOK
<1> QED BY <1>1, GatewayInitEstablishes, GatewayStep, PTL DEF Spec

(* Two alerts of one scope and category are a cooldown apart, although the *)
(* windows are read before /predict and set after it (FlowPipeline,        *)
(* ApprovalGateway, ActiveWindowStore).                                    *)
THEOREM AlertsAreSpaced == Spec => []AlertSpacing
<1>1. GatewayInv => AlertSpacing
  BY DEF GatewayInv
<1> QED BY <1>1, GatewayInitEstablishes, GatewayStep, PTL DEF Spec

-------------------------------------------------------------------------------
(* The gateway implements Verdicts.                                        *)

Mapped == [r \in Req |-> VerdictOf(r)]

LEMMA VerdictsTyped ==
    ASSUME GatewayInv, NEW r \in Req
    PROVE  /\ Mapped[r] = VerdictOf(r)
           /\ VerdictOf(r) = "unborn" <=> r >= nextReq
           /\ r < nextReq =>
                /\ VerdictOf(r) = "open" <=> \E p \in pending : p.req = r
                /\ VerdictOf(r) = "applied" <=> runs[r] = 1
                /\ VerdictOf(r) = "refused" <=> r \in refused
BY Times DEF Mapped, VerdictOf, GatewayInv, GatewayTypeOK, OneVerdict, Req

(* Nothing happens to a request whose record is untouched.                 *)
LEMMA Untouched ==
    ASSUME UNCHANGED <<pending, runs, refused, nextReq>>
    PROVE  Mapped' = Mapped
BY DEF Mapped, VerdictOf

LEMMA ApproveIsApply ==
    ASSUME GatewayInv, NEW p \in pending, NEW added, NEW read, Approve(p, added, read)
    PROVE  Promise!Next
<1>1. /\ p.req \in Req /\ p.req < nextReq /\ runs[p.req] = 0
      /\ p.req \notin refused /\ runs \in [Req -> Nat]
      /\ \A q \in pending : q.req = p.req => q = p
  BY DEF GatewayInv, GatewayTypeOK, OneVerdict
<1>2. /\ pending' = pending \ {p} /\ runs' = [runs EXCEPT ![p.req] = @ + 1]
      /\ UNCHANGED <<nextReq, refused>>
  BY DEF Approve, Popped
<1>3. VerdictOf(p.req) = "open" /\ Mapped[p.req] = "open"
  BY <1>1, VerdictsTyped
<1>4. VerdictOf(p.req)' = "applied"
  <2>1. runs'[p.req] = 1 /\ p.req < nextReq'
    BY <1>1, <1>2
  <2>2. nextReq' \in Nat /\ p.req \in Nat
    BY <1>1, <1>2, Times DEF GatewayInv, GatewayTypeOK, Req
  <2> QED BY <2>1, <2>2 DEF VerdictOf
<1>5. ASSUME NEW r \in Req, r # p.req PROVE VerdictOf(r)' = VerdictOf(r)
  <2>1. (\E q \in pending' : q.req = r) <=> (\E q \in pending : q.req = r)
    BY <1>1, <1>2, <1>5
  <2>2. runs'[r] = runs[r]
    BY <1>1, <1>2, <1>5
  <2> QED BY <1>2, <2>1, <2>2 DEF VerdictOf
<1>6. Mapped' = [Mapped EXCEPT ![p.req] = "applied"]
  BY <1>1, <1>4, <1>5 DEF Mapped
<1>7. Promise!Apply(p.req)
  BY <1>2, <1>3, <1>6 DEF Promise!Apply, Mapped
<1> QED BY <1>1, <1>7 DEF Promise!Next

LEMMA RejectIsRefuse ==
    ASSUME GatewayInv, NEW p \in pending, Reject(p)
    PROVE  Promise!Next
<1>1. /\ p.req \in Req /\ p.req < nextReq /\ runs[p.req] = 0
      /\ p.req \notin refused
      /\ \A q \in pending : q.req = p.req => q = p
  BY DEF GatewayInv, GatewayTypeOK, OneVerdict
<1>2. /\ pending' = pending \ {p} /\ refused' = refused \cup {p.req}
      /\ UNCHANGED <<nextReq, runs>>
  BY DEF Reject
<1>3. VerdictOf(p.req) = "open" /\ Mapped[p.req] = "open"
  BY <1>1, VerdictsTyped
<1>4. VerdictOf(p.req)' = "refused"
  <2>1. runs'[p.req] = 0 /\ p.req \in refused' /\ p.req < nextReq'
    BY <1>1, <1>2
  <2>2. nextReq' \in Nat /\ p.req \in Nat
    BY <1>1, <1>2, Times DEF GatewayInv, GatewayTypeOK, Req
  <2> QED BY <2>1, <2>2 DEF VerdictOf
<1>5. ASSUME NEW r \in Req, r # p.req PROVE VerdictOf(r)' = VerdictOf(r)
  <2>1. (\E q \in pending' : q.req = r) <=> (\E q \in pending : q.req = r)
    BY <1>1, <1>2, <1>5
  <2>2. r \in refused' <=> r \in refused
    BY <1>2, <1>5
  <2> QED BY <1>2, <2>1, <2>2 DEF VerdictOf
<1>6. Mapped' = [Mapped EXCEPT ![p.req] = "refused"]
  BY <1>1, <1>4, <1>5 DEF Mapped
<1>7. Promise!Refuse(p.req)
  BY <1>2, <1>3, <1>6 DEF Promise!Refuse, Mapped
<1> QED BY <1>1, <1>7 DEF Promise!Next

(* A crash forgets the requests that were open, and no others.             *)
LEMMA CrashIsForget ==
    ASSUME GatewayInv, AgentCrash
    PROVE  Promise!Next
<1>1. pending' = {} /\ UNCHANGED <<runs, refused, nextReq>>
  BY DEF AgentCrash
<1>2. ASSUME NEW r \in Req
      PROVE  VerdictOf(r)' = IF VerdictOf(r) = "open" THEN "lapsed" ELSE VerdictOf(r)
  BY <1>1 DEF VerdictOf
<1>3. Mapped' = [r \in Req |-> IF Mapped[r] = "open" THEN "lapsed" ELSE Mapped[r]]
  BY <1>2 DEF Mapped
<1>4. Promise!Forget
  BY <1>1, <1>3 DEF Promise!Forget, Mapped
<1> QED BY <1>4 DEF Promise!Next

(* A decision is applied at once, or put up for review, which drops the    *)
(* requests that are too old.                                              *)
LEMMA RaiseIsRaise ==
    ASSUME GatewayInv, HandleFlow
    PROVE  Promise!Next
<1>1. PICK d \in Decisions(Head(batch)) :
        \/ DecidePending(d)
        \/ \E added \in SUBSET RuleKinds(d) : \E read \in SUBSET added : DecideAuto(d, added, read)
  BY DEF HandleFlow
<1>2. PICK id \in Req : /\ id = nextReq /\ id \in Nat /\ nextReq' = id + 1
                        /\ refused' = refused
  BY Times DEF HandleFlow, GatewayInv, GatewayTypeOK, Req
<1>3. /\ VerdictOf(id) = "unborn" /\ Mapped[id] = "unborn"
      /\ runs[id] = 0 /\ id \notin refused /\ runs \in [Req -> Nat]
  BY <1>2, VerdictsTyped DEF GatewayInv, OneVerdict, GatewayTypeOK
<1>4. \A r \in Req : r # id => (r >= nextReq' <=> r >= nextReq)
  BY <1>2 DEF Req
<1>5. \A p \in pending : p.req \in Req /\ p.req # id
  BY <1>2 DEF GatewayInv, GatewayTypeOK, OneVerdict, Req
<1>6. CASE DecidePending(d)
  <2>1. PICK new : new = [req |-> nextReq, d |-> d, at |-> now]
    OBVIOUS
  <2>2. pending' = {p \in pending : ~Stale(p)} \cup {new} /\ new.req = id /\ runs' = runs
    BY <1>2, <1>6, <2>1 DEF DecidePending
  <2>3. PICK old : old = {r \in Req : VerdictOf(r) = "open" /\
                                      ~\E p \in pending : p.req = r /\ ~Stale(p)}
    OBVIOUS
  <2>4. VerdictOf(id)' = "open"
    <3>1. runs'[id] = 0 /\ id \notin refused' /\ ~(id >= nextReq')
      BY <1>2, <1>3, <2>2
    <3>2. \E p \in pending' : p.req = id
      BY <2>2
    <3> QED BY <3>1, <3>2 DEF VerdictOf
  <2>5. ASSUME NEW r \in Req, r # id
        PROVE  VerdictOf(r)' = IF r \in old THEN "lapsed" ELSE VerdictOf(r)
    <3>1. (\E p \in pending' : p.req = r) <=> (\E p \in pending : p.req = r /\ ~Stale(p))
      BY <2>2, <2>5
    <3>2. (r >= nextReq' <=> r >= nextReq) /\ runs'[r] = runs[r] /\ refused' = refused
      BY <1>2, <1>4, <2>2, <2>5
    <3>3. CASE \E p \in pending : p.req = r
      <4>1. r < nextReq /\ ~(r >= nextReq) /\ ~(runs[r] > 0) /\ r \notin refused
        BY <1>2, <3>3 DEF GatewayInv, OneVerdict, Req
      <4>2. VerdictOf(r) = "open"
        BY <3>3, <4>1 DEF VerdictOf
      <4>3. VerdictOf(r)' = IF \E p \in pending' : p.req = r THEN "open" ELSE "lapsed"
        BY <3>2, <4>1 DEF VerdictOf
      <4> QED BY <2>3, <3>1, <4>2, <4>3
    <3>4. CASE ~\E p \in pending : p.req = r
      <4>1. VerdictOf(r) # "open"
        BY <3>4 DEF VerdictOf
      <4>2. ~\E p \in pending' : p.req = r
        BY <3>1, <3>4
      <4>3. VerdictOf(r)' = VerdictOf(r)
        BY <3>2, <3>4, <4>2 DEF VerdictOf
      <4> QED BY <2>3, <4>1, <4>3
    <3> QED BY <3>3, <3>4
  <2>6. Mapped' = [r \in Req |-> IF r = id THEN "open"
                                 ELSE IF r \in old THEN "lapsed" ELSE Mapped[r]]
    BY <2>4, <2>5 DEF Mapped
  <2>7. old \in SUBSET {r \in Req : Mapped[r] = "open"}
    BY <2>3 DEF Mapped
  <2>8. Promise!Raise(id, old)
    BY <1>3, <2>2, <2>6 DEF Promise!Raise, Mapped
  <2> QED BY <1>2, <2>7, <2>8 DEF Promise!Next, Promise!Open, Mapped
<1>7. CASE \E added \in SUBSET RuleKinds(d) : \E read \in SUBSET added : DecideAuto(d, added, read)
  <2>1. pending' = pending /\ runs' = [runs EXCEPT ![id] = @ + 1]
    BY <1>2, <1>7 DEF DecideAuto
  <2>2. VerdictOf(id)' = "applied"
    <3>1. runs'[id] = 1 /\ ~(id >= nextReq')
      BY <1>2, <1>3, <2>1
    <3> QED BY <3>1 DEF VerdictOf
  <2>3. ASSUME NEW r \in Req, r # id PROVE VerdictOf(r)' = VerdictOf(r)
    <3>1. (r >= nextReq' <=> r >= nextReq) /\ runs'[r] = runs[r] /\ refused' = refused
      BY <1>2, <1>3, <1>4, <2>1, <2>3
    <3> QED BY <2>1, <3>1 DEF VerdictOf
  <2>4. Mapped' = [Mapped EXCEPT ![id] = "applied"]
    BY <1>2, <2>2, <2>3 DEF Mapped
  <2>5. Promise!Apply(id)
    BY <1>3, <2>1, <2>4 DEF Promise!Apply, Mapped
  <2> QED BY <1>2, <2>5 DEF Promise!Next
<1> QED BY <1>1, <1>6, <1>7

LEMMA StepImplements == GatewayInv /\ [Next]_vars => [Promise!Next]_(<<Mapped, runs>>)
<1> SUFFICES ASSUME GatewayInv, [Next]_vars PROVE [Promise!Next]_(<<Mapped, runs>>)
  OBVIOUS
<1>1. CASE \/ SendBatch \/ PredictFails \/ PredictReplies \/ SkipFlow \/ SetAuto
           \/ RuleDelete \/ Background \/ UNCHANGED vars
  <2>1. UNCHANGED <<pending, runs, refused, nextReq>>
    BY <1>1 DEF SendBatch, PredictFails, PredictReplies, SkipFlow, SetAuto, RuleDelete,
                Background, vars, gvars
  <2> QED BY <2>1, Untouched
<1>2. CASE HandleFlow
  BY <1>2, RaiseIsRaise
<1>3. CASE \E p \in pending : \E added \in SUBSET RuleKinds(p.d) : \E read \in SUBSET added :
              Approve(p, added, read)
  BY <1>3, ApproveIsApply
<1>4. CASE \E p \in pending : Reject(p)
  BY <1>4, RejectIsRefuse
<1>5. CASE AgentCrash
  BY <1>5, CrashIsForget
<1> QED BY <1>1, <1>2, <1>3, <1>4, <1>5 DEF Next

(* Approvals, rejections, clean-ups, crashes and the auto mode give every  *)
(* request one verdict, and execute it once at most (ApprovalGateway,      *)
(* EnforcementApi).                                                        *)
THEOREM GatewayKeepsPromise == Spec => ImplementsVerdicts
<1>1. Init => Promise!Init
  <2>1. ASSUME Init, NEW r \in Req PROVE VerdictOf(r) = "unborn"
    BY <2>1 DEF Init, VerdictOf, Req
  <2> QED BY <2>1 DEF Init, Promise!Init
<1>2. GatewayInv /\ [Next]_vars => [Promise!Next]_(Promise!vvars)
  BY StepImplements DEF Mapped, Promise!vvars
<1> QED BY <1>1, <1>2, GatewayInitEstablishes, GatewayStep, PTL
    DEF Spec, ImplementsVerdicts, Promise!Spec

-------------------------------------------------------------------------------
(* Node's documents.                                                       *)

Executed(r) == runs[r] = 1 /\ r \notin refused

Denied(r) == runs[r] = 0 /\ r \in refused

NodeTypeOK ==
    /\ docs \in [Req -> Doc]
    /\ settled \subseteq Req
    /\ found \in [Job -> SUBSET [req : Req, dels : SUBSET Deletion]]
    /\ hnd \in [Handler ->
          [kind : {"idle", "approve", "reject", "delete", "toggle", "expire"},
           req : Req, todo : SUBSET Call, reply : Reply]]
    /\ strays \subseteq Call

(* A review asks the agent for what it decides, and is about to write what *)
(* the agent did.                                                          *)
ReviewsTrue(state) ==
    /\ state.kind = "approve" =>
         /\ \A call \in state.todo : call.kind = "approve" /\ call.req = state.req
         /\ state.todo = {} => Executed(state.req)
    /\ state.kind = "reject" =>
         /\ \A call \in state.todo : call.kind = "reject" /\ call.req = state.req
         /\ state.todo = {} => Denied(state.req)

HandlersTrue == \A h \in Handler : ReviewsTrue(hnd[h])

MitigationInv == GatewayInv /\ NodeTypeOK /\ HandlersTrue /\ StatusTruthful

(* A verdict is final.                                                     *)
VerdictsStay ==
    \A r \in Req : /\ Executed(r) => runs'[r] = 1 /\ r \notin refused'
                   /\ Denied(r) => runs'[r] = 0 /\ r \in refused'

LEMMA StepKeepsVerdicts ==
    ASSUME GatewayInv, [Next]_vars
    PROVE  VerdictsStay
<1>1. CASE \/ SendBatch \/ PredictFails \/ PredictReplies \/ SkipFlow \/ SetAuto
           \/ RuleDelete \/ Background \/ UNCHANGED vars \/ AgentCrash
  <2>1. UNCHANGED <<runs, refused>>
    BY <1>1 DEF SendBatch, PredictFails, PredictReplies, SkipFlow, SetAuto, RuleDelete,
                Background, AgentCrash, vars, gvars
  <2> QED BY <2>1 DEF VerdictsStay, Executed, Denied
<1>2. CASE HandleFlow
  <2>1. /\ nextReq \in Req /\ runs[nextReq] = 0 /\ nextReq \notin refused
        /\ runs \in [Req -> Nat] /\ refused' = refused
    BY <1>2, Times DEF HandleFlow, GatewayInv, GatewayTypeOK, OneVerdict, Req
  <2>2. runs' = runs \/ runs' = [runs EXCEPT ![nextReq] = @ + 1]
    BY <1>2 DEF HandleFlow, DecideAuto, DecidePending
  <2> QED BY <2>1, <2>2 DEF VerdictsStay, Executed, Denied
<1>3. ASSUME NEW p \in pending, NEW added, NEW read, Approve(p, added, read) PROVE VerdictsStay
  <2>1. /\ p.req \in Req /\ runs[p.req] = 0 /\ p.req \notin refused
        /\ runs \in [Req -> Nat] /\ refused' = refused
        /\ runs' = [runs EXCEPT ![p.req] = @ + 1]
    BY <1>3 DEF Approve, GatewayInv, GatewayTypeOK, OneVerdict
  <2> QED BY <2>1 DEF VerdictsStay, Executed, Denied
<1>4. ASSUME NEW p \in pending, Reject(p) PROVE VerdictsStay
  <2>1. /\ runs[p.req] = 0 /\ p.req \notin refused
        /\ runs' = runs /\ refused' = refused \cup {p.req}
    BY <1>4 DEF Reject, GatewayInv, OneVerdict
  <2> QED BY <2>1 DEF VerdictsStay, Executed, Denied
<1> QED BY <1>1, <1>2, <1>3, <1>4 DEF Next

(* A deletion the agent serves for Node concerns neither.                  *)
LEMMA DeleteServedStep ==
    ASSUME GatewayInv, NEW del, DeleteServed(del)
    PROVE  GatewayInv' /\ VerdictsStay
<1>1. /\ up /\ UNCHANGED <<now, up, nextHandle, heap, doomed, saved, ours>>
      /\ UNCHANGED gvars
  BY DEF DeleteServed, LoopFree
<1>2. rules' \subseteq rules /\ elem' \in [Element -> Nat]
  BY DEF DeleteServed, DeleteHandle, DeleteElement, GatewayInv, IInv, EnforcementTypeOK
<1>3. IInv' /\ now' = now
  BY <1>1, <1>2, DeletionStep DEF GatewayInv
<1>4. /\ UNCHANGED <<pending, auto, windows, phase, batch, handled, nextReq, alerts, runs,
                     refused, appearances, flaggedAt>>
  BY <1>1 DEF gvars
<1>5. BatchTold'
  BY <1>3, <1>4 DEF GatewayInv, BatchTold
<1>6. /\ auto' \in BOOLEAN /\ phase' \in {"idle", "sent", "handling"} /\ handled' \subseteq Key
      /\ batch' \in Seq(FlowSeen)
  BY <1>4 DEF GatewayInv, GatewayTypeOK
<1>7. GatewayInv'
  BY <1>3, <1>4, <1>5, <1>6, ClockOnly, ClockTyped
<1> QED BY <1>4, <1>7 DEF VerdictsStay, Executed, Denied

LEMMA AgentSide ==
    ASSUME GatewayInv, [Next]_vars \/ \E del : DeleteServed(del)
    PROVE  GatewayInv' /\ VerdictsStay
BY GatewayStep, StepKeepsVerdicts, DeleteServedStep

(* Node's own steps, and calls the agent refuses, leave the agent alone.   *)
LEMMA AgentAlone ==
    ASSUME GatewayInv, UNCHANGED <<evars, gvars>>
    PROVE  GatewayInv' /\ VerdictsStay
<1>1. UNCHANGED vars
  BY DEF evars, gvars, vars
<1> QED BY <1>1, AgentSide

(* A granted call: what the answer says, and the verdict it stands for.    *)
LEMMA GrantStep ==
    ASSUME GatewayInv, NEW call \in Call, NEW added, NEW read, Grants(call, added, read)
    PROVE  /\ GatewayInv' /\ VerdictsStay
           /\ ReplyTo(call, added, read) \in Reply
           /\ call.kind = "approve" => runs'[call.req] = 1 /\ call.req \notin refused'
           /\ call.kind = "reject" => runs'[call.req] = 0 /\ call.req \in refused'
<1>1. CASE call.kind = "approve" /\ \E p \in Asked(call) : Approve(p, added, read)
  <2>1. PICK p \in pending : p.req = call.req /\ Approve(p, added, read)
    BY <1>1 DEF Asked
  <2>2. /\ p.d \in Decision /\ p.req \in Req
        /\ added \in SUBSET RuleKinds(p.d) /\ read \in SUBSET added
        /\ runs[p.req] = 0 /\ p.req \notin refused /\ runs \in [Req -> Nat]
        /\ \A q \in pending : q.req = p.req => q = p
    BY <2>1 DEF GatewayInv, GatewayTypeOK, OneVerdict, Approve, Execute
  <2>3. GatewayInv' /\ VerdictsStay
    BY <2>1, <2>2, AgentSide DEF Next
  <2>4. runs'[call.req] = 1 /\ call.req \notin refused'
    BY <2>1, <2>2 DEF Approve
  <2>5. (CHOOSE q \in pending : q.req = call.req) = p
    BY <2>1, <2>2
  <2>6. ReplyTo(call, added, read) = [dels |-> PayloadDeletions(p.d, added, read),
                                timeout |-> ResultDuration(p.d, read)]
    BY <1>1, <2>5 DEF ReplyTo
  <2>7. PayloadDeletions(p.d, added, read) \in SUBSET Deletion /\ ResultDuration(p.d, read) \in Nat
    BY <2>2, DeletionsTyped, WindowLength, ClockTyped
  <2> QED BY <1>1, <2>3, <2>4, <2>6, <2>7 DEF Reply
<1>2. CASE call.kind = "reject" /\ added = {} /\ \E p \in Asked(call) : Reject(p)
  <2>1. PICK p \in pending : p.req = call.req /\ Reject(p)
    BY <1>2 DEF Asked
  <2>2. runs[p.req] = 0 /\ runs' = runs /\ refused' = refused \cup {p.req}
    BY <2>1 DEF Reject, GatewayInv, OneVerdict
  <2>3. GatewayInv' /\ VerdictsStay
    BY <2>1, AgentSide DEF Next
  <2> QED BY <1>2, <2>1, <2>2, <2>3 DEF ReplyTo, NoReply, Reply
<1>3. CASE call.kind = "delete" /\ DeleteServed(call.del)
  BY <1>3, AgentSide DEF ReplyTo, NoReply, Reply
<1> QED BY <1>1, <1>2, <1>3 DEF Grants

(* What stays true of documents and handlers while others move.            *)
LEMMA DocsStay ==
    ASSUME MitigationInv, VerdictsStay, UNCHANGED docs
    PROVE  StatusTruthful'
BY DEF MitigationInv, StatusTruthful, VerdictsStay, Applied, Executed, Denied

LEMMA ReviewStays ==
    ASSUME MitigationInv, VerdictsStay, NEW h \in Handler, hnd'[h] = hnd[h]
    PROVE  ReviewsTrue(hnd[h])' 
<1>1. hnd[h].req \in Req /\ ReviewsTrue(hnd[h])
  BY DEF MitigationInv, NodeTypeOK, HandlersTrue
<1> QED BY <1>1 DEF ReviewsTrue, VerdictsStay, Executed, Denied

(* A handler that begins has all of its calls before it.                   *)
LEMMA BeginStep ==
    ASSUME MitigationInv, NEW h \in Handler,
           NEW kind \in {"approve", "reject", "delete", "toggle", "expire"},
           NEW r \in Req, NEW calls \in SUBSET Call, Begin(h, kind, r, calls),
           kind \in {"approve", "reject"} =>
              calls # {} /\ \A call \in calls : call.kind = kind /\ call.req = r,
           found' \in [Job -> SUBSET [req : Req, dels : SUBSET Deletion]]
    PROVE  MitigationInv'
<1>1. GatewayInv' /\ VerdictsStay
  BY AgentAlone DEF Begin, MitigationInv
<1>2. PICK state : state = [kind |-> kind, req |-> r, todo |-> calls, reply |-> NoReply]
  OBVIOUS
<1>3. hnd' = [hnd EXCEPT ![h] = state] /\ UNCHANGED <<docs, settled, strays>>
  BY <1>2 DEF Begin
<1>4. state \in [kind : {"idle", "approve", "reject", "delete", "toggle", "expire"},
                 req : Req, todo : SUBSET Call, reply : Reply]
  BY <1>2 DEF NoReply, Reply
<1>5. NodeTypeOK'
  BY <1>3, <1>4 DEF MitigationInv, NodeTypeOK
<1>6. HandlersTrue'
  <2> SUFFICES ASSUME NEW i \in Handler PROVE ReviewsTrue(hnd[i])'
    BY DEF HandlersTrue
  <2>1. CASE i = h
    <3>1. hnd'[i] = state
      BY <1>3, <2>1 DEF MitigationInv, NodeTypeOK
    <3> QED BY <1>2, <3>1 DEF ReviewsTrue
  <2>2. CASE i # h
    <3>1. hnd'[i] = hnd[i]
      BY <1>3, <2>2 DEF MitigationInv, NodeTypeOK
    <3> QED BY <1>1, <3>1, ReviewStays
  <2> QED BY <2>1, <2>2
<1> QED BY <1>1, <1>3, <1>5, <1>6, DocsStay DEF MitigationInv

LEMMA DeleteCallsTyped ==
    ASSUME NEW r \in Req, NEW dels \in SUBSET Deletion
    PROVE  DeleteCalls(r, dels) \in SUBSET Call
BY DEF DeleteCalls, Call

LEMMA AdminBegins ==
    ASSUME MitigationInv, NEW h \in Admin, NEW r \in Req,
           BeginReview(h, r) \/ BeginDelete(h, r) \/ BeginToggle(h, r)
    PROVE  MitigationInv'
<1>1. h \in Handler /\ docs[r].dels \in SUBSET Deletion
      /\ found \in [Job -> SUBSET [req : Req, dels : SUBSET Deletion]]
  BY DEF Handler, MitigationInv, NodeTypeOK, Doc
<1>2. CASE BeginReview(h, r)
  <2>1. PICK decision \in {"approve", "reject"} :
           /\ Begin(h, decision, r, {[kind |-> decision, req |-> r, del |-> NoDeletion]})
           /\ found' = found
    BY <1>2 DEF BeginReview
  <2>2. {[kind |-> decision, req |-> r, del |-> NoDeletion]} \in SUBSET Call
    BY DEF Call, NoDeletion, Deletion
  <2>3. found' \in [Job -> SUBSET [req : Req, dels : SUBSET Deletion]]
    BY <1>1, <2>1
  <2>4. {[kind |-> decision, req |-> r, del |-> NoDeletion]} # {}
        /\ \A call \in {[kind |-> decision, req |-> r, del |-> NoDeletion]} :
              call.kind = decision /\ call.req = r
    OBVIOUS
  <2> QED BY <1>1, <2>1, <2>2, <2>3, <2>4, BeginStep
<1>3. CASE BeginDelete(h, r)
  <2>1. PICK calls \in SUBSET Call : Begin(h, "delete", r, calls) /\ found' = found
    BY <1>1, <1>3, DeleteCallsTyped DEF BeginDelete
  <2>2. found' \in [Job -> SUBSET [req : Req, dels : SUBSET Deletion]]
    BY <1>1, <2>1
  <2> QED BY <1>1, <2>1, <2>2, BeginStep
<1>4. CASE BeginToggle(h, r)
  <2>1. PICK calls \in SUBSET Call : Begin(h, "toggle", r, calls) /\ found' = found
    BY <1>1, <1>4, DeleteCallsTyped DEF BeginToggle
  <2>2. found' \in [Job -> SUBSET [req : Req, dels : SUBSET Deletion]]
    BY <1>1, <2>1
  <2> QED BY <1>1, <2>1, <2>2, BeginStep
<1> QED BY <1>2, <1>3, <1>4

LEMMA JobBegins ==
    ASSUME MitigationInv, NEW j \in Job, JobStep(j)
    PROVE  MitigationInv'
<1>1. found \in [Job -> SUBSET [req : Req, dels : SUBSET Deletion]] /\ docs \in [Req -> Doc]
      /\ j \in Handler
  BY DEF Handler, MitigationInv, NodeTypeOK
<1>2. CASE FindExpired(j)
  <2>1. GatewayInv' /\ VerdictsStay
    BY <1>2, AgentAlone DEF FindExpired, MitigationInv
  <2>2. UNCHANGED <<docs, settled, hnd, strays>>
    BY <1>2 DEF FindExpired
  <2>3. PICK due : due = {[req |-> r, dels |-> docs[r].dels] : r \in {s \in Req : Due(s)}}
    OBVIOUS
  <2>4. due \in SUBSET [req : Req, dels : SUBSET Deletion]
    BY <1>1, <2>3 DEF Doc
  <2>5. found' = [found EXCEPT ![j] = due]
    BY <1>2, <2>3 DEF FindExpired, FoundBy
  <2>6. NodeTypeOK'
    BY <1>1, <2>2, <2>4, <2>5 DEF MitigationInv, NodeTypeOK
  <2>7. HandlersTrue'
    BY <2>1, <2>2, ReviewStays DEF HandlersTrue
  <2> QED BY <2>1, <2>2, <2>6, <2>7, DocsStay DEF MitigationInv
<1>3. CASE BeginExpire(j)
  <2>1. PICK f \in found[j] : /\ Begin(j, "expire", f.req, DeleteCalls(f.req, f.dels))
                              /\ found' = [found EXCEPT ![j] = @ \ {f}]
    BY <1>3 DEF BeginExpire
  <2>2. f.req \in Req /\ f.dels \in SUBSET Deletion
    BY <1>1
  <2>3. found' \in [Job -> SUBSET [req : Req, dels : SUBSET Deletion]]
    BY <1>1, <2>1
  <2>4. DeleteCalls(f.req, f.dels) \in SUBSET Call
    BY <2>2, DeleteCallsTyped
  <2> QED BY <1>1, <2>1, <2>2, <2>3, <2>4, BeginStep
<1> QED BY <1>2, <1>3 DEF JobStep

(* A call is served, or fails; only the expiry job goes on after that.     *)
LEMMA ServedStep ==
    ASSUME MitigationInv, NEW h \in Handler, CallServed(h)
    PROVE  MitigationInv'
<1>1. PICK call \in hnd[h].todo : \E added, read :
        /\ Grants(call, added, read)
        /\ hnd' = [hnd EXCEPT ![h].todo = @ \ {call}, ![h].reply = ReplyTo(call, added, read)]
  BY DEF CallServed
<1>2. PICK added, read :
        /\ Grants(call, added, read)
        /\ hnd' = [hnd EXCEPT ![h].todo = @ \ {call}, ![h].reply = ReplyTo(call, added, read)]
  BY <1>1
<1>3. UNCHANGED <<docs, settled, found, strays>>
  BY DEF CallServed
<1>4. call \in Call /\ hnd[h].req \in Req /\ ReviewsTrue(hnd[h])
  BY DEF MitigationInv, NodeTypeOK, HandlersTrue
<1>5. /\ GatewayInv' /\ VerdictsStay /\ ReplyTo(call, added, read) \in Reply
      /\ call.kind = "approve" => runs'[call.req] = 1 /\ call.req \notin refused'
      /\ call.kind = "reject" => runs'[call.req] = 0 /\ call.req \in refused'
  BY <1>2, <1>4, GrantStep DEF MitigationInv
<1>6. PICK reply \in Reply : hnd' = [hnd EXCEPT ![h].todo = @ \ {call}, ![h].reply = reply]
  BY <1>2, <1>5
<1>7. /\ hnd'[h].kind = hnd[h].kind /\ hnd'[h].req = hnd[h].req
      /\ hnd'[h].todo = hnd[h].todo \ {call}
      /\ \A i \in Handler : i # h => hnd'[i] = hnd[i]
  BY <1>6 DEF MitigationInv, NodeTypeOK
<1>8. NodeTypeOK'
  BY <1>3, <1>6 DEF MitigationInv, NodeTypeOK
<1>9. HandlersTrue'
  <2> SUFFICES ASSUME NEW i \in Handler PROVE ReviewsTrue(hnd[i])'
    BY DEF HandlersTrue
  <2>1. CASE i = h
    BY <1>4, <1>5, <1>7, <2>1 DEF ReviewsTrue, Executed, Denied
  <2>2. CASE i # h
    BY <1>5, <1>7, <2>2, ReviewStays
  <2> QED BY <2>1, <2>2
<1> QED BY <1>3, <1>5, <1>8, <1>9, DocsStay DEF MitigationInv

LEMMA FailedStep ==
    ASSUME MitigationInv, NEW h \in Handler, CallRefused(h) \/ CallTimesOut(h)
    PROVE  MitigationInv'
<1>1. PICK call \in hnd[h].todo :
        /\ AfterFailure(h, call) /\ UNCHANGED <<evars, gvars>>
        /\ UNCHANGED <<docs, settled, found>> /\ strays' \subseteq strays \cup {call}
  BY DEF CallRefused, CallTimesOut, Refuses
<1>2. /\ call \in Call /\ hnd[h].req \in Req
      /\ hnd[h] \in [kind : {"idle", "approve", "reject", "delete", "toggle", "expire"},
                     req : Req, todo : SUBSET Call, reply : Reply]
  BY DEF MitigationInv, NodeTypeOK
<1>3. GatewayInv' /\ VerdictsStay
  BY <1>1, AgentAlone DEF MitigationInv
<1>4. PICK state : /\ state = IF hnd[h].kind = "expire"
                              THEN [hnd[h] EXCEPT !.todo = @ \ {call}] ELSE Idle
  OBVIOUS
<1>5. hnd' = [hnd EXCEPT ![h] = state]
  BY <1>1, <1>4 DEF AfterFailure, Carries, MitigationInv, NodeTypeOK
<1>6. /\ state \in [kind : {"idle", "approve", "reject", "delete", "toggle", "expire"},
                    req : Req, todo : SUBSET Call, reply : Reply]
      /\ state.kind \in {"expire", "idle"}
  BY <1>2, <1>4, Times DEF Idle, NoReply, Reply, Req
<1>7. NodeTypeOK'
  BY <1>1, <1>2, <1>5, <1>6 DEF MitigationInv, NodeTypeOK
<1>8. HandlersTrue'
  <2> SUFFICES ASSUME NEW i \in Handler PROVE ReviewsTrue(hnd[i])'
    BY DEF HandlersTrue
  <2>1. CASE i = h
    <3>1. hnd'[i] = state
      BY <1>5, <2>1 DEF MitigationInv, NodeTypeOK
    <3> QED BY <1>6, <3>1 DEF ReviewsTrue
  <2>2. CASE i # h
    <3>1. hnd'[i] = hnd[i]
      BY <1>5, <2>2 DEF MitigationInv, NodeTypeOK
    <3> QED BY <1>3, <3>1, ReviewStays
  <2> QED BY <2>1, <2>2
<1> QED BY <1>1, <1>3, <1>7, <1>8, DocsStay DEF MitigationInv

(* The write: the status is that of the verdict.                           *)
LEMMA WriteStep ==
    ASSUME MitigationInv, NEW h \in Handler, Write(h)
    PROVE  MitigationInv'
<1>1. GatewayInv' /\ VerdictsStay /\ UNCHANGED <<runs, refused>>
  BY AgentAlone DEF Write, MitigationInv, gvars
<1>2. /\ hnd[h].todo = {} /\ hnd' = [hnd EXCEPT ![h] = Idle]
      /\ UNCHANGED <<settled, found, strays>>
  BY DEF Write
<1>3. PICK r \in Req, kind \in {"idle", "approve", "reject", "delete", "toggle", "expire"},
           reply \in Reply :
        /\ r = hnd[h].req /\ kind = hnd[h].kind /\ reply = hnd[h].reply
  BY DEF MitigationInv, NodeTypeOK
<1>4. /\ kind = "approve" => Executed(r)
      /\ kind = "reject" => Denied(r)
  BY <1>2, <1>3 DEF MitigationInv, HandlersTrue, ReviewsTrue
<1>5. docs' = docs \/ (~Gone(r) /\ docs' = [docs EXCEPT ![r] = Written(@, kind, reply)])
  BY <1>3 DEF Write
<1>6. docs \in [Req -> Doc] /\ docs[r] \in Doc
  BY DEF MitigationInv, NodeTypeOK
<1>7. PICK doc : doc = Written(docs[r], kind, reply)
  OBVIOUS
<1>8. /\ doc \in Doc
      /\ doc.status \in {"approved", "auto-approved"} =>
            kind = "approve" \/ doc.status = docs[r].status
      /\ doc.status = "rejected" => kind = "reject" \/ doc.status = docs[r].status
  <2>1. now \in Nat /\ reply.dels \in SUBSET Deletion /\ reply.timeout \in Nat
    BY ClockTyped DEF MitigationInv, Reply
  <2>2. CASE kind = "approve"
    <3>1. PICK dels \in SUBSET Deletion, end \in Nat :
             /\ dels = IF reply.dels # {} THEN reply.dels ELSE docs[r].dels
             /\ end = IF reply.timeout > 0 THEN now + reply.timeout ELSE docs[r].expireAt
      BY <1>6, <2>1 DEF Doc
    <3>2. doc = [docs[r] EXCEPT !.status = "approved", !.active = TRUE,
                                !.dels = dels, !.expireAt = end]
      BY <1>7, <2>2, <3>1 DEF Written
    <3> QED BY <1>6, <2>2, <3>2 DEF Doc, Status
  <2>3. CASE kind = "reject"
    BY <1>6, <1>7, <2>3 DEF Written, Doc, Status
  <2>4. CASE kind = "toggle"
    BY <1>6, <1>7, <2>4 DEF Written, Doc, Status
  <2>5. CASE kind \in {"delete", "expire", "idle"}
    BY <1>6, <1>7, <2>5 DEF Written, Doc, Status
  <2> QED BY <2>2, <2>3, <2>4, <2>5
<1>9. docs' = docs \/ docs' = [docs EXCEPT ![r] = doc]
  BY <1>5, <1>7
<1>10. Idle \in [kind : {"idle", "approve", "reject", "delete", "toggle", "expire"},
                 req : Req, todo : SUBSET Call, reply : Reply]
  BY Times DEF Idle, NoReply, Reply, Req
<1>11. NodeTypeOK'
  BY <1>2, <1>6, <1>8, <1>9, <1>10 DEF MitigationInv, NodeTypeOK
<1>12. HandlersTrue'
  <2> SUFFICES ASSUME NEW i \in Handler PROVE ReviewsTrue(hnd[i])'
    BY DEF HandlersTrue
  <2>1. CASE i = h
    <3>1. hnd'[i] = Idle
      BY <1>2, <2>1 DEF MitigationInv, NodeTypeOK
    <3> QED BY <3>1 DEF ReviewsTrue, Idle
  <2>2. CASE i # h
    <3>1. hnd'[i] = hnd[i]
      BY <1>2, <2>2 DEF MitigationInv, NodeTypeOK
    <3> QED BY <1>1, <3>1, ReviewStays
  <2> QED BY <2>1, <2>2
<1>13. StatusTruthful'
  <2> SUFFICES ASSUME NEW s \in Req
               PROVE  /\ docs'[s].status \in {"approved", "auto-approved"} => Executed(s)
                      /\ docs'[s].status = "rejected" => Denied(s)
    BY <1>1 DEF StatusTruthful, Applied, Executed, Denied
  <2>1. /\ docs[s].status \in {"approved", "auto-approved"} => Executed(s)
        /\ docs[s].status = "rejected" => Denied(s)
    BY DEF MitigationInv, StatusTruthful, Applied, Executed, Denied
  <2>2. docs'[s] = docs[s] \/ (s = r /\ docs'[s] = doc)
    BY <1>6, <1>9
  <2> QED BY <1>4, <1>8, <2>1, <2>2
<1> QED BY <1>1, <1>11, <1>12, <1>13 DEF MitigationInv

(* An alert becomes a document, or is lost.                                *)
LEMMA AlertStep ==
    ASSUME MitigationInv, ReceiveAlert \/ LoseAlert
    PROVE  MitigationInv'
<1>1. GatewayInv' /\ VerdictsStay /\ UNCHANGED <<runs, refused>>
  BY AgentAlone DEF ReceiveAlert, LoseAlert, MitigationInv, gvars
<1>2. UNCHANGED <<found, hnd, strays>>
  BY DEF ReceiveAlert, LoseAlert
<1>3. PICK a \in alerts :
        /\ settled' = settled \cup {a.req}
        /\ \/ docs' = docs
           \/ docs' = [docs EXCEPT ![a.req] =
                [status |-> IF a.dels # {} THEN "auto-approved" ELSE "pending",
                 active |-> a.dels # {}, dels |-> a.dels, expireAt |-> Deadline(a.timeout)]]
  BY DEF ReceiveAlert, LoseAlert
<1>4. /\ a.req \in Req /\ a.dels \in SUBSET Deletion /\ a.timeout \in Nat
      /\ a.dels # {} => Executed(a.req)
  BY DEF MitigationInv, GatewayInv, GatewayTypeOK, AlertSent, AlertsOfRun, Executed
<1>5. PICK doc : doc = [status |-> IF a.dels # {} THEN "auto-approved" ELSE "pending",
                        active |-> a.dels # {}, dels |-> a.dels, expireAt |-> Deadline(a.timeout)]
  OBVIOUS
<1>6. doc \in Doc /\ doc.status = IF a.dels # {} THEN "auto-approved" ELSE "pending"
  <2>1. Deadline(a.timeout) \in Nat
    BY <1>4, ClockTyped DEF Deadline, MitigationInv
  <2>2. (a.dels # {}) \in BOOLEAN
    OBVIOUS
  <2> QED BY <1>4, <1>5, <2>1, <2>2 DEF Doc, Status
<1>7. docs' = docs \/ docs' = [docs EXCEPT ![a.req] = doc]
  BY <1>3, <1>5
<1>8. NodeTypeOK'
  BY <1>2, <1>3, <1>4, <1>6, <1>7 DEF MitigationInv, NodeTypeOK
<1>9. HandlersTrue'
  BY <1>1, <1>2, ReviewStays DEF HandlersTrue
<1>10. StatusTruthful'
  <2> SUFFICES ASSUME NEW s \in Req
               PROVE  /\ docs'[s].status \in {"approved", "auto-approved"} => Executed(s)
                      /\ docs'[s].status = "rejected" => Denied(s)
    BY <1>1 DEF StatusTruthful, Applied, Executed, Denied
  <2>1. /\ docs[s].status \in {"approved", "auto-approved"} => Executed(s)
        /\ docs[s].status = "rejected" => Denied(s)
    BY DEF MitigationInv, StatusTruthful, Applied, Executed, Denied
  <2>2. docs'[s] = docs[s] \/ (s = a.req /\ docs'[s] = doc)
    BY <1>7 DEF MitigationInv, NodeTypeOK
  <2> QED BY <1>4, <1>6, <2>1, <2>2
<1> QED BY <1>1, <1>8, <1>9, <1>10 DEF MitigationInv

(* The agent's own steps, a call served late, and a restart of Node.       *)
LEMMA RestStep ==
    ASSUME MitigationInv, ServeStray \/ NodeCrash \/ AgentStep \/ UNCHANGED mvars
    PROVE  MitigationInv'
<1>1. GatewayInv' /\ VerdictsStay
  <2>1. CASE ServeStray
    <3>1. PICK call, added, read :
             call \in strays /\ (Grants(call, added, read) \/ UNCHANGED <<evars, gvars>>)
      BY <2>1 DEF ServeStray, Refuses
    <3>2. call \in Call
      BY <3>1 DEF MitigationInv, NodeTypeOK
    <3> QED BY <3>1, <3>2, GrantStep, AgentAlone DEF MitigationInv
  <2>2. CASE NodeCrash
    BY <2>2, AgentAlone DEF NodeCrash, MitigationInv
  <2>3. CASE AgentStep
    BY <2>3, AgentSide DEF AgentStep, Next, MitigationInv
  <2>4. CASE UNCHANGED mvars
    BY <2>4, AgentAlone DEF mvars, evars, gvars, MitigationInv
  <2> QED BY <2>1, <2>2, <2>3, <2>4
<1>2. Idle \in [kind : {"idle", "approve", "reject", "delete", "toggle", "expire"},
                req : Req, todo : SUBSET Call, reply : Reply]
  BY Times DEF Idle, NoReply, Reply, Req
<1>3. /\ UNCHANGED <<docs, settled>> /\ strays' \subseteq strays
      /\ \/ UNCHANGED <<hnd, found>>
         \/ hnd' = [h \in Handler |-> Idle] /\ found' = [j \in Job |-> {}]
  BY DEF ServeStray, NodeCrash, AgentStep, mvars
<1>4. NodeTypeOK'
  BY <1>2, <1>3 DEF MitigationInv, NodeTypeOK
<1>5. HandlersTrue'
  <2>1. CASE hnd' = hnd
    BY <1>1, <2>1, ReviewStays DEF HandlersTrue
  <2>2. CASE hnd' = [h \in Handler |-> Idle]
    BY <2>2 DEF HandlersTrue, ReviewsTrue, Idle
  <2> QED BY <1>3, <2>1, <2>2
<1> QED BY <1>1, <1>3, <1>4, <1>5, DocsStay DEF MitigationInv

LEMMA MitigationInitEstablishes == MitigationInit => MitigationInv
<1> SUFFICES ASSUME MitigationInit PROVE MitigationInv
  OBVIOUS
<1> USE DEF MitigationInit
<1>1. GatewayInv
  BY GatewayInitEstablishes
<1>2. Idle \in [kind : {"idle", "approve", "reject", "delete", "toggle", "expire"},
                req : Req, todo : SUBSET Call, reply : Reply]
  BY Times DEF Idle, NoReply, Reply, Req
<1>3. Absent \in Doc
  BY DEF Absent, Doc, Status
<1>4. NodeTypeOK
  BY <1>2, <1>3 DEF NodeTypeOK
<1>5. HandlersTrue /\ StatusTruthful
  BY DEF HandlersTrue, ReviewsTrue, Idle, StatusTruthful, Applied, Absent
<1> QED BY <1>1, <1>4, <1>5 DEF MitigationInv

LEMMA MitigationStep == MitigationInv /\ [MitigationNext]_mvars => MitigationInv'
BY AlertStep, AdminBegins, JobBegins, ServedStep, FailedStep, WriteStep, RestStep
DEF MitigationNext, CallEnds

(* Documents, handlers and the calls Node gave up on stay well typed       *)
(* (ai.controller.js).                                                     *)
THEOREM MitigationTypeCorrect == MitigationSpec => []MitigationTypeOK
<1>1. MitigationInv => MitigationTypeOK
  BY DEF MitigationInv, NodeTypeOK, MitigationTypeOK, GatewayInv, IInv, GatewayTypeOK,
         FlowSeen, AlertSent, TypeOK
<1> QED BY <1>1, MitigationInitEstablishes, MitigationStep, PTL DEF MitigationSpec

(* What a document says of its request is what the agent did (receiveAlert,*)
(* reviewAIRule, against handle_approve and handle_reject).                *)
THEOREM StatusIsTruthful == MitigationSpec => []StatusTruthful
<1>1. MitigationInv => StatusTruthful
  BY DEF MitigationInv
<1> QED BY <1>1, MitigationInitEstablishes, MitigationStep, PTL DEF MitigationSpec

-------------------------------------------------------------------------------
(* The agent under Node.  Node asks of the agent only what the gateway     *)
(* allows anybody to ask.                                                  *)
LEMMA GrantIsStep ==
    ASSUME NEW call \in Call, NEW added, NEW read, Grants(call, added, read)
    PROVE  Next
<1>1. CASE call.kind = "approve" /\ \E p \in Asked(call) : Approve(p, added, read)
  <2>1. PICK p \in pending : Approve(p, added, read)
    BY <1>1 DEF Asked
  <2>2. added \in SUBSET RuleKinds(p.d) /\ read \in SUBSET added
    BY <2>1 DEF Approve, Execute
  <2> QED BY <2>1, <2>2 DEF Next
<1>2. CASE call.kind = "reject" /\ \E p \in Asked(call) : Reject(p)
  BY <1>2 DEF Asked, Next
<1>3. CASE call.kind = "delete" /\ DeleteServed(call.del)
  <2>1. call.del.el = <<>> \/ call.del.el \in Element
    BY DEF Call, Deletion
  <2>2. AdminDelete
    BY <1>3, <2>1 DEF DeleteServed, There, LoopFree, KnownHandle, AdminDelete
  <2>3. LoopFree /\ UNCHANGED gvars
    BY <1>3 DEF DeleteServed
  <2> QED BY <2>2, <2>3 DEF RuleDelete, Next
<1> QED BY <1>1, <1>2, <1>3 DEF Grants

LEMMA NodeIsQuiet ==
    ASSUME UNCHANGED <<evars, gvars>>
    PROVE  UNCHANGED vars
BY DEF evars, gvars, vars

LEMMA CompositionStep == MitigationInv /\ [MitigationNext]_mvars => [Next]_vars
<1> SUFFICES ASSUME MitigationInv, [MitigationNext]_mvars PROVE [Next]_vars
  OBVIOUS
<1>1. CASE ReceiveAlert \/ LoseAlert
  BY <1>1, NodeIsQuiet DEF ReceiveAlert, LoseAlert
<1>2. ASSUME NEW h, NEW r, BeginReview(h, r) \/ BeginDelete(h, r) \/ BeginToggle(h, r)
      PROVE  [Next]_vars
  BY <1>2, NodeIsQuiet DEF BeginReview, BeginDelete, BeginToggle, Begin
<1>3. ASSUME NEW j \in Job, JobStep(j) PROVE [Next]_vars
  BY <1>3, NodeIsQuiet DEF JobStep, FindExpired, BeginExpire, Begin
<1>4. ASSUME NEW h \in Handler, CallEnds(h) PROVE [Next]_vars
  <2>1. hnd[h].todo \subseteq Call
    BY DEF MitigationInv, NodeTypeOK
  <2>2. CASE CallServed(h)
    BY <2>1, <2>2, GrantIsStep DEF CallServed
  <2>3. CASE CallRefused(h) \/ CallTimesOut(h)
    BY <2>3, NodeIsQuiet DEF CallRefused, Refuses, CallTimesOut
  <2> QED BY <1>4, <2>2, <2>3 DEF CallEnds
<1>5. ASSUME NEW h \in Handler, Write(h) PROVE [Next]_vars
  BY <1>5, NodeIsQuiet DEF Write
<1>6. CASE ServeStray
  <2>1. strays \subseteq Call
    BY DEF MitigationInv, NodeTypeOK
  <2>2. PICK call, added, read :
           call \in strays /\ (Grants(call, added, read) \/ Refuses(call))
    BY <1>6 DEF ServeStray
  <2> QED BY <2>1, <2>2, GrantIsStep, NodeIsQuiet DEF Refuses
<1>7. CASE NodeCrash
  BY <1>7, NodeIsQuiet DEF NodeCrash
<1>8. CASE AgentStep
  BY <1>8 DEF AgentStep, Next
<1>9. CASE UNCHANGED mvars
  BY <1>9 DEF mvars, vars
<1> QED BY <1>1, <1>2, <1>3, <1>4, <1>5, <1>6, <1>7, <1>8, <1>9 DEF MitigationNext

(* With Node around it, its restarts, its timeouts and the calls it gave   *)
(* up on, the agent behaves as ApprovalGateway says of an agent by itself. *)
THEOREM AgentUnderNode == MitigationSpec => Spec
<1>1. MitigationInit => Init
  BY DEF MitigationInit
<1> QED BY <1>1, CompositionStep, MitigationInitEstablishes, MitigationStep, PTL
    DEF MitigationSpec, Spec

(* What was proved of the agent by itself holds in the composition.        *)
THEOREM CompositionKeeps ==
    MitigationSpec => /\ [](AlertSpacing /\ OwnRulesScheduled /\ DeletionHitsItsRule)
                      /\ ImplementsVerdicts
<1>1. GatewayInv => OwnRulesScheduled /\ DeletionHitsItsRule
  BY DEF GatewayInv, IInv
<1>2. Spec => [](OwnRulesScheduled /\ DeletionHitsItsRule)
  BY <1>1, GatewayInitEstablishes, GatewayStep, PTL DEF Spec
<1> QED BY <1>2, AgentUnderNode, AlertsAreSpaced, GatewayKeepsPromise, PTL

(* A verdict once given stays as it is (ApprovalGateway), also under Node. *)
Final == {"applied", "refused", "lapsed"}

FinalVerdicts ==
    [][\A r \in Req : VerdictOf(r) \in Final => VerdictOf(r)' = VerdictOf(r)]_vars

LEMMA FinalStep ==
    GatewayInv /\ [Next]_vars =>
      [\A r \in Req : VerdictOf(r) \in Final => VerdictOf(r)' = VerdictOf(r)]_vars
<1> SUFFICES ASSUME GatewayInv, [Next]_vars, NEW r \in Req, VerdictOf(r) \in Final
             PROVE  VerdictOf(r)' = VerdictOf(r)
  OBVIOUS
<1>1. [Promise!Next]_(<<Mapped, runs>>)
  BY StepImplements
<1>2. Mapped[r] = VerdictOf(r) /\ Mapped'[r] = VerdictOf(r)'
  BY DEF Mapped
<1>3. Mapped[r] \notin {"unborn", "open"}
  BY <1>2 DEF Final
<1>4. CASE \E s \in Req : Promise!Apply(s) \/ Promise!Refuse(s)
  <2>1. PICK s \in Req, v \in {"applied", "refused"} :
           Mapped[s] \in {"unborn", "open"} /\ Mapped' = [Mapped EXCEPT ![s] = v]
    BY <1>4 DEF Promise!Apply, Promise!Refuse, Mapped
  <2>2. s # r
    BY <1>3, <2>1
  <2>3. Mapped'[r] = Mapped[r]
    BY <2>1, <2>2 DEF Mapped
  <2> QED BY <1>2, <2>3
<1>5. CASE \E s \in Req : \E old \in SUBSET Promise!Open : Promise!Raise(s, old)
  <2>1. PICK s \in Req, old \in SUBSET Promise!Open :
           /\ Mapped[s] = "unborn"
           /\ Mapped' = [t \in Req |-> IF t = s THEN "open"
                                       ELSE IF t \in old THEN "lapsed" ELSE Mapped[t]]
    BY <1>5 DEF Promise!Raise, Mapped
  <2>2. r # s /\ r \notin old
    BY <1>3, <2>1 DEF Promise!Open, Mapped
  <2>3. Mapped'[r] = Mapped[r]
    BY <2>1, <2>2
  <2> QED BY <1>2, <2>3
<1>6. CASE Promise!Forget
  <2>1. Mapped' = [t \in Req |-> IF Mapped[t] = "open" THEN "lapsed" ELSE Mapped[t]]
    BY <1>6 DEF Promise!Forget, Mapped
  <2> QED BY <1>2, <1>3, <2>1
<1>7. CASE Mapped' = Mapped
  BY <1>2, <1>7
<1> QED BY <1>1, <1>4, <1>5, <1>6, <1>7 DEF Promise!Next

(* What was applied, refused, cleaned up or forgotten is never anything    *)
(* else again: no second review, stray call or restart changes it          *)
(* (handle_approve, handle_reject, enqueue_pending).                       *)
THEOREM VerdictsAreFinal ==
    /\ Spec => FinalVerdicts
    /\ MitigationSpec => FinalVerdicts
<1>1. Spec => FinalVerdicts
  BY FinalStep, GatewayInitEstablishes, GatewayStep, PTL DEF Spec, FinalVerdicts
<1> QED BY <1>1, AgentUnderNode, PTL

-------------------------------------------------------------------------------
(* The life of a document.  Handlers write what they decided before their  *)
(* calls: the invariant says how far a document can have come meanwhile.   *)

Decided == {"approved", "auto-approved", "deleted", "expired"}

StageOK(state) ==
    /\ state.kind \in {"toggle", "expire"} => docs[state.req].status \in Decided
    /\ state.kind \in {"approve", "reject"} =>
         /\ docs[state.req].status \notin {"absent", "auto-approved"}
         /\ state.todo = {} => docs[state.req].status \in {"pending", "deleted"}

HandlersInStage == \A h \in Handler : StageOK(hnd[h])

FoundInStage == \A j \in Job : \A f \in found[j] : docs[f.req].status \in Decided

\* The agent has granted the review, and the document is yet to be written.
Answered(state) == state.kind \in {"approve", "reject"} /\ state.todo = {}

OneAnswer ==
    \A h, i \in Handler :
        Answered(hnd[h]) /\ Answered(hnd[i]) /\ hnd[h].req = hnd[i].req => h = i

DocsInStage ==
    \A r \in Req :
        /\ docs[r].status # "absent" => r \in settled
        /\ docs[r].active => docs[r].status \in Decided
        /\ docs[r].status = "expired" => Executed(r)

LifeInv == HandlersInStage /\ FoundInStage /\ OneAnswer /\ DocsInStage

AllMoveOn == \A r \in Req : MovesOn(r)

(* Steps that write no document.                                           *)
LEMMA LifeStays ==
    ASSUME MitigationInv, LifeInv, VerdictsStay, docs' = docs, settled \subseteq settled',
           \A j \in Job : \A f \in found'[j] : docs[f.req].status \in Decided,
           \A h \in Handler : hnd'[h] = hnd[h] \/ StageOK(hnd'[h]),
           OneAnswer'
    PROVE  LifeInv' /\ AllMoveOn
<1>1. HandlersInStage'
  BY DEF HandlersInStage, LifeInv, StageOK
<1>2. FoundInStage'
  BY DEF FoundInStage
<1>3. DocsInStage'
  BY DEF DocsInStage, LifeInv, VerdictsStay, Executed
<1>4. AllMoveOn
  BY DEF AllMoveOn, MovesOn
<1> QED BY <1>1, <1>2, <1>3, <1>4 DEF LifeInv

LEMMA NobodyAnswered ==
    ASSUME LifeInv, \A h \in Handler : Answered(hnd'[h]) => hnd'[h] = hnd[h]
    PROVE  OneAnswer'
BY DEF LifeInv, OneAnswer, Answered

(* A handler begins on a document that is where the handler needs it.      *)
LEMMA BeginInStage ==
    ASSUME MitigationInv, LifeInv, NEW h \in Handler,
           NEW kind \in {"approve", "reject", "delete", "toggle", "expire"},
           NEW r \in Req, NEW calls, Begin(h, kind, r, calls),
           kind \in {"toggle", "expire"} => docs[r].status \in Decided,
           kind \in {"approve", "reject"} => docs[r].status = "pending" /\ calls # {},
           \A j \in Job : found'[j] \subseteq found[j]
    PROVE  LifeInv' /\ AllMoveOn
<1>1. VerdictsStay
  BY AgentAlone DEF Begin, MitigationInv
<1>2. PICK state : /\ state = [kind |-> kind, req |-> r, todo |-> calls, reply |-> NoReply]
                   /\ hnd' = [hnd EXCEPT ![h] = state]
  BY DEF Begin
<1>3. StageOK(state) /\ ~Answered(state)
  BY <1>2 DEF StageOK, Answered
<1>4. \A i \in Handler : IF i = h THEN hnd'[i] = state ELSE hnd'[i] = hnd[i]
  BY <1>2 DEF MitigationInv, NodeTypeOK
<1>5. OneAnswer'
  BY <1>3, <1>4, NobodyAnswered
<1>6. \A j \in Job : \A f \in found'[j] : docs[f.req].status \in Decided
  BY DEF LifeInv, FoundInStage
<1>7. docs' = docs /\ settled' = settled
  BY DEF Begin
<1> QED BY <1>1, <1>3, <1>4, <1>5, <1>6, <1>7, LifeStays

LEMMA BeginsInStage ==
    ASSUME MitigationInv, LifeInv,
           \/ \E h \in Admin, r \in Req : BeginReview(h, r) \/ BeginDelete(h, r) \/ BeginToggle(h, r)
           \/ \E j \in Job : JobStep(j)
    PROVE  LifeInv' /\ AllMoveOn
<1>1. ASSUME NEW h \in Admin, NEW r \in Req,
             BeginReview(h, r) \/ BeginDelete(h, r) \/ BeginToggle(h, r)
      PROVE  LifeInv' /\ AllMoveOn
  <2>1. h \in Handler
    BY DEF Handler
  <2>2. CASE BeginReview(h, r)
    <3>1. PICK kind \in {"approve", "reject"} :
             /\ Begin(h, kind, r, {[kind |-> kind, req |-> r, del |-> NoDeletion]})
             /\ docs[r].status = "pending" /\ found' = found
      BY <2>2 DEF BeginReview
    <3> QED BY <2>1, <3>1, BeginInStage
  <2>3. CASE BeginDelete(h, r)
    <3>1. PICK calls : Begin(h, "delete", r, calls) /\ found' = found
      BY <2>3 DEF BeginDelete
    <3> QED BY <2>1, <3>1, BeginInStage
  <2>4. CASE BeginToggle(h, r)
    <3>1. PICK calls : Begin(h, "toggle", r, calls) /\ found' = found
      BY <2>4 DEF BeginToggle
    <3>2. docs[r].status \in Decided
      BY <2>4 DEF BeginToggle, Applied, Decided
    <3> QED BY <2>1, <3>1, <3>2, BeginInStage
  <2> QED BY <1>1, <2>2, <2>3, <2>4
<1>2. ASSUME NEW j \in Job, FindExpired(j) PROVE LifeInv' /\ AllMoveOn
  <2>1. VerdictsStay
    BY <1>2, AgentAlone DEF FindExpired, MitigationInv
  <2>2. UNCHANGED <<docs, settled, hnd>>
    BY <1>2 DEF FindExpired
  <2>3. \A i \in Job : \A f \in found'[i] : docs[f.req].status \in Decided
    <3> SUFFICES ASSUME NEW i \in Job, NEW f \in found'[i] PROVE docs[f.req].status \in Decided
      OBVIOUS
    <3>1. found \in [Job -> SUBSET [req : Req, dels : SUBSET Deletion]]
      BY DEF MitigationInv, NodeTypeOK
    <3>2. CASE i = j
      <4>1. PICK r \in Req : Due(r) /\ f = [req |-> r, dels |-> docs[r].dels]
        BY <1>2, <3>1, <3>2 DEF FindExpired, FoundBy
      <4> QED BY <4>1 DEF Due, LifeInv, DocsInStage
    <3>3. CASE i # j
      BY <1>2, <3>1, <3>3 DEF FindExpired, LifeInv, FoundInStage
    <3> QED BY <3>2, <3>3
  <2> QED BY <2>1, <2>2, <2>3, NobodyAnswered, LifeStays
<1>3. ASSUME NEW j \in Job, BeginExpire(j) PROVE LifeInv' /\ AllMoveOn
  <2>1. /\ j \in Handler
        /\ found \in [Job -> SUBSET [req : Req, dels : SUBSET Deletion]]
    BY DEF Handler, MitigationInv, NodeTypeOK
  <2>2. PICK f \in found[j] : /\ Begin(j, "expire", f.req, DeleteCalls(f.req, f.dels))
                              /\ found' = [found EXCEPT ![j] = @ \ {f}]
    BY <1>3 DEF BeginExpire
  <2>3. f.req \in Req /\ docs[f.req].status \in Decided
    BY <2>1 DEF LifeInv, FoundInStage
  <2>4. \A i \in Job : found'[i] \subseteq found[i]
    BY <2>1, <2>2
  <2> QED BY <2>1, <2>2, <2>3, <2>4, BeginInStage
<1> QED BY <1>1, <1>2, <1>3 DEF JobStep

(* The agent grants one review of a request only: who gets the answer      *)
(* finds the document pending, or deleted by an admin.                     *)
LEMMA ServedInStage ==
    ASSUME MitigationInv, LifeInv, NEW h \in Handler, CallServed(h)
    PROVE  LifeInv' /\ AllMoveOn
<1>1. PICK call, added, read :
        /\ call \in hnd[h].todo
        /\ Grants(call, added, read)
        /\ hnd' = [hnd EXCEPT ![h].todo = @ \ {call}, ![h].reply = ReplyTo(call, added, read)]
  BY DEF CallServed
<1>2. UNCHANGED <<docs, settled, found>>
  BY DEF CallServed
<1>3. call \in Call /\ hnd[h].req \in Req /\ ReviewsTrue(hnd[h]) /\ StageOK(hnd[h])
  BY <1>1 DEF MitigationInv, NodeTypeOK, HandlersTrue, LifeInv, HandlersInStage
<1>4. VerdictsStay
  BY <1>1, <1>3, GrantStep DEF MitigationInv
<1>5. /\ hnd'[h].kind = hnd[h].kind /\ hnd'[h].req = hnd[h].req
      /\ hnd'[h].todo = hnd[h].todo \ {call}
      /\ \A i \in Handler : i # h => hnd'[i] = hnd[i]
  BY <1>1 DEF MitigationInv, NodeTypeOK
<1>6. ASSUME hnd[h].kind \in {"approve", "reject"}
      PROVE  ~Executed(hnd[h].req) /\ ~Denied(hnd[h].req)
  <2>1. call.kind \in {"approve", "reject"} /\ call.req = hnd[h].req
    BY <1>1, <1>3, <1>6 DEF ReviewsTrue
  <2>2. \E p \in pending : p.req = call.req
    BY <1>1, <2>1 DEF Grants, Asked
  <2>3. runs[call.req] = 0 /\ call.req \notin refused
    BY <2>2 DEF MitigationInv, GatewayInv, OneVerdict
  <2> QED BY <2>1, <2>3 DEF Executed, Denied
<1>7. ASSUME hnd[h].kind \in {"approve", "reject"}
      PROVE  docs[hnd[h].req].status \in {"pending", "deleted"}
  <2>1. docs[hnd[h].req].status \notin {"approved", "auto-approved", "rejected", "expired"}
    BY <1>3, <1>6, <1>7 DEF MitigationInv, StatusTruthful, Applied, Executed, Denied,
                            LifeInv, DocsInStage
  <2>2. docs[hnd[h].req].status \in Status /\ docs[hnd[h].req].status # "absent"
    BY <1>3, <1>7 DEF MitigationInv, NodeTypeOK, Doc, StageOK
  <2> QED BY <2>1, <2>2 DEF Status
<1>8. StageOK(hnd'[h])
  BY <1>3, <1>5, <1>7 DEF StageOK
<1>9. OneAnswer'
  <2> SUFFICES ASSUME NEW i \in Handler, NEW k \in Handler, i # k,
                      Answered(hnd'[i]), Answered(hnd'[k]), hnd'[i].req = hnd'[k].req
               PROVE  FALSE
    BY DEF OneAnswer, Answered
  <2>1. ASSUME NEW m \in Handler, m # h, Answered(hnd'[m]), hnd'[m].req = hnd[h].req,
               hnd[h].kind \in {"approve", "reject"}
        PROVE  FALSE
    <3>1. Answered(hnd[m]) /\ hnd[m].req = hnd[h].req
      BY <1>5, <2>1
    <3>2. Executed(hnd[m].req) \/ Denied(hnd[m].req)
      BY <3>1 DEF MitigationInv, HandlersTrue, ReviewsTrue, Answered
    <3> QED BY <1>6, <2>1, <3>1, <3>2
  <2>2. CASE i = h
    BY <1>5, <2>1, <2>2 DEF Answered
  <2>3. CASE k = h
    BY <1>5, <2>1, <2>3 DEF Answered
  <2>4. CASE i # h /\ k # h
    <3>1. Answered(hnd[i]) /\ Answered(hnd[k]) /\ hnd[i].req = hnd[k].req
      BY <1>5, <2>4
    <3> QED BY <3>1 DEF LifeInv, OneAnswer
  <2> QED BY <2>2, <2>3, <2>4
<1>10. \A j \in Job : \A f \in found'[j] : docs[f.req].status \in Decided
  BY <1>2 DEF LifeInv, FoundInStage
<1> QED BY <1>2, <1>4, <1>5, <1>8, <1>9, <1>10, LifeStays

LEMMA FailedInStage ==
    ASSUME MitigationInv, LifeInv, NEW h \in Handler, CallRefused(h) \/ CallTimesOut(h)
    PROVE  LifeInv' /\ AllMoveOn
<1>1. PICK call \in hnd[h].todo :
        /\ AfterFailure(h, call) /\ UNCHANGED <<evars, gvars, docs, settled, found>>
  BY DEF CallRefused, CallTimesOut, Refuses
<1>2. VerdictsStay
  BY <1>1, AgentAlone DEF MitigationInv
<1>3. PICK state : /\ state = IF hnd[h].kind = "expire"
                              THEN [hnd[h] EXCEPT !.todo = @ \ {call}] ELSE Idle
  OBVIOUS
<1>4. \A i \in Handler : IF i = h THEN hnd'[i] = state ELSE hnd'[i] = hnd[i]
  BY <1>1, <1>3 DEF AfterFailure, Carries, MitigationInv, NodeTypeOK
<1>5. StageOK(hnd[h]) /\ hnd[h].kind = "expire" =>
         state.kind = "expire" /\ state.req = hnd[h].req
  BY <1>3 DEF MitigationInv, NodeTypeOK
<1>6. StageOK(state) /\ ~Answered(state)
  <2>1. StageOK(hnd[h])
    BY DEF LifeInv, HandlersInStage
  <2> QED BY <1>3, <1>5, <2>1 DEF StageOK, Answered, Idle
<1>7. OneAnswer'
  BY <1>4, <1>6, NobodyAnswered
<1>8. \A j \in Job : \A f \in found'[j] : docs[f.req].status \in Decided
  BY <1>1 DEF LifeInv, FoundInStage
<1> QED BY <1>1, <1>2, <1>4, <1>6, <1>7, <1>8, LifeStays

(* The write moves the document on, or leaves one that is gone alone.      *)
LEMMA WriteInStage ==
    ASSUME MitigationInv, LifeInv, NEW h \in Handler, Write(h)
    PROVE  LifeInv' /\ AllMoveOn
<1>1. VerdictsStay
  BY AgentAlone DEF Write, MitigationInv
<1>2. /\ UNCHANGED <<settled, found>> /\ hnd[h].todo = {} /\ hnd[h].kind # "idle"
      /\ hnd' = [hnd EXCEPT ![h] = Idle]
  BY DEF Write
<1>3. PICK r \in Req, kind \in {"approve", "reject", "delete", "toggle", "expire"}, reply \in Reply :
        r = hnd[h].req /\ kind = hnd[h].kind /\ reply = hnd[h].reply
  BY <1>2 DEF MitigationInv, NodeTypeOK
<1>4. docs \in [Req -> Doc] /\ docs[r] \in Doc /\ docs[r].status \in Status
  BY DEF MitigationInv, NodeTypeOK, Doc
<1>5. \A i \in Handler : IF i = h THEN hnd'[i] = Idle ELSE hnd'[i] = hnd[i]
  BY <1>2 DEF MitigationInv, NodeTypeOK
<1>6. OneAnswer'
  BY <1>5, NobodyAnswered DEF Answered, Idle
<1>7. CASE Gone(r)
  <2>1. docs' = docs
    BY <1>3, <1>7 DEF Write
  <2>2. \A i \in Handler : hnd'[i] = hnd[i] \/ StageOK(hnd'[i])
    BY <1>5 DEF StageOK, Idle
  <2> QED BY <1>1, <1>2, <1>6, <2>1, <2>2, LifeStays DEF LifeInv, FoundInStage
<1>8. CASE ~Gone(r)
  <2>1. PICK doc : doc = Written(docs[r], kind, reply) /\ docs' = [docs EXCEPT ![r] = doc]
    BY <1>3, <1>8 DEF Write
  <2>2. \A s \in Req : IF s = r THEN docs'[s] = doc ELSE docs'[s] = docs[s]
    BY <1>4, <2>1
  <2>3. docs[r].status \in {"pending", "approved", "rejected", "auto-approved"}
    BY <1>4, <1>8 DEF Gone, Status
  <2>4. StageOK(hnd[h])
    BY DEF LifeInv, HandlersInStage
  <2>5. /\ kind \in {"approve", "reject"} => docs[r].status = "pending"
        /\ kind \in {"toggle", "expire"} => docs[r].status \in {"approved", "auto-approved"}
    BY <1>2, <1>3, <2>3, <2>4 DEF StageOK, Decided
  <2>6. /\ doc.status \in Follows(docs[r].status) \cup {docs[r].status}
        /\ docs[r].status # "pending" =>
             (doc.active => docs[r].active) /\ doc.dels \subseteq docs[r].dels
        /\ doc.active => doc.status \in Decided
        /\ doc.status = "expired" => docs[r].status \in {"approved", "auto-approved"}
    <3>1. docs[r].active => docs[r].status \in Decided
      BY DEF LifeInv, DocsInStage
    <3>2. CASE kind = "approve"
      <4>1. doc.status = "approved"
        BY <1>4, <2>1, <3>2 DEF Written, Doc
      <4> QED BY <2>5, <3>2, <4>1 DEF Follows, Decided
    <3>3. CASE kind = "reject"
      <4>1. doc.status = "rejected" /\ doc.active = FALSE
        BY <1>4, <2>1, <3>3 DEF Written, Doc
      <4> QED BY <2>5, <3>3, <4>1 DEF Follows
    <3>4. CASE kind = "toggle"
      <4>1. doc.status = docs[r].status /\ doc.active = FALSE /\ doc.dels = {}
        BY <1>4, <2>1, <3>4 DEF Written, Doc
      <4> QED BY <2>5, <3>4, <4>1
    <3>5. CASE kind = "delete"
      <4>1. doc.status = "deleted" /\ doc.active = docs[r].active /\ doc.dels = docs[r].dels
        BY <1>4, <2>1, <3>5 DEF Written, Doc
      <4> QED BY <2>3, <4>1 DEF Follows, Decided
    <3>6. CASE kind = "expire"
      <4>1. doc.status = "expired" /\ doc.active = docs[r].active /\ doc.dels = docs[r].dels
        BY <1>4, <2>1, <3>6 DEF Written, Doc
      <4> QED BY <2>5, <3>6, <4>1 DEF Follows, Decided
    <3> QED BY <3>2, <3>3, <3>4, <3>5, <3>6
  <2>7. AllMoveOn
    BY <2>2, <2>3, <2>6 DEF AllMoveOn, MovesOn
  <2>8. DocsInStage'
    <3> SUFFICES ASSUME NEW s \in Req
                 PROVE  /\ docs'[s].status # "absent" => s \in settled'
                        /\ docs'[s].active => docs'[s].status \in Decided
                        /\ docs'[s].status = "expired" => Executed(s)'
      BY DEF DocsInStage
    <3>1. Executed(s) => Executed(s)'
      BY <1>1 DEF VerdictsStay, Executed
    <3>2. CASE s = r
      <4>1. r \in settled'
        BY <1>2, <2>3 DEF LifeInv, DocsInStage
      <4>2. docs[r].status \in {"approved", "auto-approved"} => Executed(r)
        BY DEF MitigationInv, StatusTruthful, Applied, Executed
      <4> QED BY <2>2, <2>6, <3>1, <3>2, <4>1, <4>2
    <3>3. CASE s # r
      BY <1>2, <2>2, <3>1, <3>3 DEF LifeInv, DocsInStage
    <3> QED BY <3>2, <3>3
  <2>9. \A s \in Req : docs[s].status \in Decided => docs'[s].status \in Decided
    BY <2>2, <2>6 DEF Follows, Decided
  <2>10. FoundInStage'
    <3> SUFFICES ASSUME NEW j \in Job, NEW f \in found'[j] PROVE docs'[f.req].status \in Decided
      BY DEF FoundInStage
    <3>1. f \in found[j] /\ f.req \in Req
      BY <1>2 DEF MitigationInv, NodeTypeOK
    <3> QED BY <2>9, <3>1 DEF LifeInv, FoundInStage
  <2>11. HandlersInStage'
    <3> SUFFICES ASSUME NEW i \in Handler PROVE StageOK(hnd[i])'
      BY DEF HandlersInStage
    <3>1. CASE i = h
      BY <1>5, <3>1 DEF StageOK, Idle
    <3>2. CASE i # h
      <4>1. hnd'[i] = hnd[i] /\ hnd[i].req \in Req /\ StageOK(hnd[i])
        BY <1>5, <3>2 DEF MitigationInv, NodeTypeOK, LifeInv, HandlersInStage
      <4>2. docs'[hnd[i].req].status \notin {"absent", "auto-approved"}
              \/ docs[hnd[i].req].status \in {"absent", "auto-approved"}
        BY <2>2, <2>6, <4>1 DEF Follows
      <4>3. ASSUME Answered(hnd[i])
            PROVE  docs'[hnd[i].req].status \in {"pending", "deleted"}
        <5>1. docs[hnd[i].req].status \in {"pending", "deleted"}
          BY <4>1, <4>3 DEF StageOK, Answered
        <5>2. CASE hnd[i].req # r
          BY <2>2, <4>1, <5>1, <5>2
        <5>3. CASE hnd[i].req = r
          <6>1. ~Answered(hnd[h])
            BY <1>3, <3>2, <4>3, <5>3 DEF LifeInv, OneAnswer
          <6>2. kind = "delete"
            BY <1>2, <1>3, <2>3, <2>5, <5>1, <5>3, <6>1 DEF Answered
          <6>3. doc.status = "deleted"
            BY <1>4, <2>1, <6>2 DEF Written, Doc
          <6> QED BY <2>2, <5>3, <6>3
        <5> QED BY <5>2, <5>3
      <4> QED BY <2>9, <4>1, <4>2, <4>3 DEF StageOK, Answered
    <3> QED BY <3>1, <3>2
  <2> QED BY <1>6, <2>7, <2>8, <2>10, <2>11 DEF LifeInv
<1> QED BY <1>7, <1>8

(* An alert is settled once: the document it makes was absent, and no      *)
(* handler has seen it.                                                    *)
LEMMA AlertInStage ==
    ASSUME MitigationInv, LifeInv, ReceiveAlert \/ LoseAlert
    PROVE  LifeInv' /\ AllMoveOn
<1>1. VerdictsStay
  BY AgentAlone DEF ReceiveAlert, LoseAlert, MitigationInv
<1>2. UNCHANGED <<found, hnd>>
  BY DEF ReceiveAlert, LoseAlert
<1>3. OneAnswer' /\ \A j \in Job : \A f \in found'[j] : docs[f.req].status \in Decided
  BY <1>2, NobodyAnswered DEF LifeInv, FoundInStage
<1>4. CASE LoseAlert
  <2>1. docs' = docs /\ settled \subseteq settled'
    BY <1>4 DEF LoseAlert
  <2> QED BY <1>1, <1>2, <1>3, <2>1, LifeStays
<1>5. CASE ReceiveAlert
  <2>1. PICK a \in alerts :
           /\ a.req \notin settled /\ settled' = settled \cup {a.req}
           /\ docs' = [docs EXCEPT ![a.req] =
                [status |-> IF a.dels # {} THEN "auto-approved" ELSE "pending",
                 active |-> a.dels # {}, dels |-> a.dels, expireAt |-> Deadline(a.timeout)]]
    BY <1>5 DEF ReceiveAlert
  <2> DEFINE doc == docs'[a.req]
  <2>2. a.req \in Req
    BY DEF MitigationInv, GatewayInv, GatewayTypeOK, AlertSent
  <2>3. /\ \A s \in Req : s # a.req => docs'[s] = docs[s]
        /\ doc.status \in {"pending", "auto-approved"}
        /\ doc.active => doc.status = "auto-approved"
    BY <2>1, <2>2 DEF MitigationInv, NodeTypeOK
  <2> HIDE DEF doc
  <2>4. docs[a.req].status = "absent"
    BY <2>1, <2>2 DEF LifeInv, DocsInStage
  <2>5. AllMoveOn
    BY <2>3, <2>4 DEF AllMoveOn, MovesOn, Follows, doc
  <2>6. DocsInStage'
    <3> SUFFICES ASSUME NEW s \in Req
                 PROVE  /\ docs'[s].status # "absent" => s \in settled'
                        /\ docs'[s].active => docs'[s].status \in Decided
                        /\ docs'[s].status = "expired" => Executed(s)'
      BY DEF DocsInStage
    <3>1. CASE s = a.req
      <4>1. docs'[s] = doc /\ s \in settled'
        BY <2>1, <3>1 DEF doc
      <4> QED BY <2>3, <4>1 DEF Decided
    <3>2. CASE s # a.req
      BY <1>1, <2>1, <2>3, <3>2 DEF LifeInv, DocsInStage, VerdictsStay, Executed
    <3> QED BY <3>1, <3>2
  <2>7. \A s \in Req : docs[s].status # "absent" => docs'[s] = docs[s]
    BY <2>3, <2>4
  <2>8. FoundInStage'
    <3> SUFFICES ASSUME NEW j \in Job, NEW f \in found'[j] PROVE docs'[f.req].status \in Decided
      BY DEF FoundInStage
    <3>1. f \in found[j] /\ f.req \in Req
      BY <1>2 DEF MitigationInv, NodeTypeOK
    <3> QED BY <1>3, <2>7, <3>1 DEF Decided, LifeInv, FoundInStage
  <2>9. HandlersInStage'
    <3> SUFFICES ASSUME NEW i \in Handler PROVE StageOK(hnd[i])'
      BY DEF HandlersInStage
    <3>1. hnd'[i] = hnd[i] /\ hnd[i].req \in Req /\ StageOK(hnd[i])
      BY <1>2 DEF MitigationInv, NodeTypeOK, LifeInv, HandlersInStage
    <3> QED BY <2>7, <3>1 DEF StageOK, Decided
  <2> QED BY <1>3, <2>5, <2>6, <2>8, <2>9 DEF LifeInv
<1> QED BY <1>4, <1>5

LEMMA RestInStage ==
    ASSUME MitigationInv, LifeInv, ServeStray \/ NodeCrash \/ AgentStep \/ UNCHANGED mvars
    PROVE  LifeInv' /\ AllMoveOn
<1>1. VerdictsStay
  BY CompositionStep, StepKeepsVerdicts DEF MitigationInv, MitigationNext
<1>2. /\ docs' = docs /\ settled \subseteq settled'
      /\ \/ UNCHANGED <<hnd, found>>
         \/ hnd' = [h \in Handler |-> Idle] /\ found' = [j \in Job |-> {}]
  BY DEF ServeStray, NodeCrash, AgentStep, mvars
<1>3. \A h \in Handler : hnd'[h] = hnd[h] \/ hnd'[h] = Idle
  BY <1>2
<1>4. \A h \in Handler : hnd'[h] = hnd[h] \/ (StageOK(hnd'[h]) /\ ~Answered(hnd'[h]))
  BY <1>3 DEF StageOK, Answered, Idle
<1>5. OneAnswer' /\ \A j \in Job : \A f \in found'[j] : docs[f.req].status \in Decided
  BY <1>2, <1>4, NobodyAnswered DEF LifeInv, FoundInStage
<1> QED BY <1>1, <1>2, <1>4, <1>5, LifeStays

LEMMA LifeInit == MitigationInit => LifeInv
BY DEF MitigationInit, LifeInv, HandlersInStage, StageOK, FoundInStage, OneAnswer,
       Answered, DocsInStage, Idle, Absent

LEMMA LifeStep ==
    MitigationInv /\ LifeInv /\ [MitigationNext]_mvars => LifeInv' /\ AllMoveOn
<1> SUFFICES ASSUME MitigationInv, LifeInv, [MitigationNext]_mvars
             PROVE  LifeInv' /\ AllMoveOn
  OBVIOUS
<1>1. ASSUME NEW h \in Handler, CallEnds(h) \/ Write(h) PROVE LifeInv' /\ AllMoveOn
  BY <1>1, ServedInStage, FailedInStage, WriteInStage DEF CallEnds
<1> QED BY <1>1, BeginsInStage, AlertInStage, RestInStage DEF MitigationNext

(* A document moves from its review to its end and never back, and a rule  *)
(* that was disabled stays so, however reviews, deletions, the expiry job, *)
(* late alerts, strays and restarts interleave (ai.controller.js).         *)
THEOREM DocsMoveOn == MitigationSpec => DocumentsMoveOn
<1>1. MitigationInv /\ LifeInv /\ [MitigationNext]_mvars =>
        [\A r \in Req : MovesOn(r)]_mvars
  BY LifeStep DEF AllMoveOn
<1> QED BY <1>1, LifeInit, LifeStep, MitigationInitEstablishes, MitigationStep, PTL
    DEF MitigationSpec, DocumentsMoveOn


-------------------------------------------------------------------------------
(* Whose handle it is.  A document deletes its rules by the handles the    *)
(* agent named; until the host boots, no handle is named to two documents. *)

\* Wherever Node or a call has deletion d for request r.
Named(r, d) ==
    \/ \E a \in alerts : a.req = r /\ d \in a.dels
    \/ d \in docs[r].dels
    \/ \E j \in Job : \E f \in found[j] : f.req = r /\ d \in f.dels
    \/ \E h \in Handler : hnd[h].req = r /\ d \in hnd[h].reply.dels
    \/ \E h \in Handler : \E call \in hnd[h].todo :
          call.kind = "delete" /\ call.req = r /\ call.del = d
    \/ \E call \in strays : call.kind = "delete" /\ call.req = r /\ call.del = d

ByHandle(d) == d.el = <<>>

HandleNotShared ==
    \A r, s \in Req : \A d, e \in Deletion :
        /\ Named(r, d) /\ Named(s, e)
        /\ ByHandle(d) /\ ByHandle(e) /\ d.h = e.h
        => r = s

NamedBelow == \A r \in Req, d \in Deletion : Named(r, d) /\ ByHandle(d) => d.h < nextHandle

CallsOfHandler == \A h \in Handler : \A call \in hnd[h].todo : call.req = hnd[h].req

NamesInv == HandleNotShared /\ NamedBelow /\ CallsOfHandler

\* Only request q may get new handles by the step, from the counter.
NamesOf(q) ==
    /\ nextHandle' \in Nat /\ nextHandle <= nextHandle'
    /\ \A r \in Req, d \in Deletion :
          Named(r, d)' => \/ Named(r, d)
                          \/ /\ r = q
                             /\ ByHandle(d) => nextHandle <= d.h /\ d.h < nextHandle'

LEMMA NamesStep ==
    ASSUME MitigationInv, NamesInv, NEW q \in Req, NamesOf(q), CallsOfHandler'
    PROVE  NamesInv'
<1>1. nextHandle \in Nat /\ \A d \in Deletion : d.h \in Nat
  BY DEF MitigationInv, GatewayInv, IInv, EnforcementTypeOK, Deletion
<1>2. NamedBelow'
  <2> SUFFICES ASSUME NEW r \in Req, NEW d \in Deletion, Named(r, d)', ByHandle(d)
               PROVE  d.h < nextHandle'
    BY DEF NamedBelow, ByHandle
  <2>1. CASE Named(r, d)
    BY <1>1, <2>1 DEF NamesInv, NamedBelow, NamesOf
  <2>2. CASE ~Named(r, d)
    BY <2>2 DEF NamesOf
  <2> QED BY <2>1, <2>2
<1>3. HandleNotShared'
  <2> SUFFICES ASSUME NEW r \in Req, NEW s \in Req, NEW d \in Deletion, NEW e \in Deletion,
                      Named(r, d)', Named(s, e)', ByHandle(d), ByHandle(e), d.h = e.h
               PROVE  r = s
    BY DEF HandleNotShared, ByHandle
  <2>1. CASE Named(r, d) /\ Named(s, e)
    BY <2>1 DEF NamesInv, HandleNotShared
  <2>2. CASE Named(r, d) /\ ~Named(s, e)
    <3>1. d.h < nextHandle /\ nextHandle <= e.h
      BY <2>2 DEF NamesInv, NamedBelow, NamesOf
    <3> QED BY <1>1, <3>1
  <2>3. CASE ~Named(r, d) /\ Named(s, e)
    <3>1. e.h < nextHandle /\ nextHandle <= d.h
      BY <2>3 DEF NamesInv, NamedBelow, NamesOf
    <3> QED BY <1>1, <3>1
  <2>4. CASE ~Named(r, d) /\ ~Named(s, e)
    BY <2>4 DEF NamesOf
  <2> QED BY <2>1, <2>2, <2>3, <2>4
<1> QED BY <1>2, <1>3 DEF NamesInv

(* What an execution reports of rules by handle is fresh.                  *)
LEMMA FreshHandles ==
    ASSUME nextHandle \in Nat, NEW d \in Decision, NEW added \in SUBSET RuleKinds(d),
           NEW read, NEW del \in PayloadDeletions(d, added, read), ByHandle(del)
    PROVE  nextHandle <= del.h /\ del.h < nextHandle + Cardinality(added)
<1>1. \A e \in Elements(d) : e # <<>>
  BY DEF Elements, Element
<1>2. PICK r \in NewRules(d, added) : del = DeletionOf(r)
  BY <1>1, KnownIsNew DEF PayloadDeletions, ByHandle
<1> QED BY <1>2, NewRuleFacts DEF DeletionOf

(* The agent's steps: the counter grows, but for a boot, and only an alert *)
(* of a decision applied at once names new handles.                        *)
LEMMA CounterGrows ==
    ASSUME GatewayInv, [Next]_vars, [~Reboot]_evars
    PROVE  nextHandle' \in Nat /\ nextHandle <= nextHandle'
<1>1. nextHandle \in Nat
  BY DEF GatewayInv, IInv, EnforcementTypeOK
<1>2. ASSUME NEW d \in Decision, NEW added, NEW read, Execute(d, added, read)
      PROVE  nextHandle' \in Nat /\ nextHandle <= nextHandle'
  <2>1. nextHandle' = nextHandle + Cardinality(added) /\ Cardinality(added) \in Nat
    BY <1>2, AddedCount DEF Execute
  <2> QED BY <1>1, <2>1
<1>3. CASE HandleFlow
  <2>1. PICK d \in Decision :
           \/ DecidePending(d)
           \/ \E added \in SUBSET RuleKinds(d) : \E read \in SUBSET added :
                 DecideAuto(d, added, read)
    BY <1>3 DEF HandleFlow, Decisions
  <2> QED BY <1>1, <1>2, <2>1 DEF DecidePending, DecideAuto, evars
<1>4. ASSUME NEW p \in pending, NEW added, NEW read, Approve(p, added, read)
      PROVE  nextHandle' \in Nat /\ nextHandle <= nextHandle'
  <2>1. p.d \in Decision
    BY DEF GatewayInv, GatewayTypeOK
  <2> QED BY <1>2, <1>4, <2>1 DEF Approve
<1>5. CASE \/ SendBatch \/ PredictFails \/ PredictReplies \/ SkipFlow \/ SetAuto
           \/ (\E p \in pending : Reject(p)) \/ UNCHANGED vars
  <2>1. nextHandle' = nextHandle
    BY <1>5 DEF SendBatch, PredictFails, PredictReplies, SkipFlow, SetAuto, Reject, vars, evars
  <2> QED BY <1>1, <2>1
<1>6. CASE RuleDelete \/ AgentCrash
  <2>1. nextHandle' = nextHandle
    BY <1>6 DEF RuleDelete, AdminDelete, AgentCrash, Crash
  <2> QED BY <1>1, <2>1
<1>7. CASE Background
  <2>1. nextHandle' = nextHandle
    BY <1>7 DEF Background, PopDue, RunDeletion, Start, SaveRules, Tick, evars
  <2> QED BY <1>1, <2>1
<1> QED BY <1>3, <1>4, <1>5, <1>6, <1>7 DEF Next

LEMMA AlertsName ==
    ASSUME GatewayInv, [Next]_vars
    PROVE  \/ alerts' = alerts
           \/ /\ nextReq \in Req
              /\ \E a \in AlertSent :
                    /\ alerts' = alerts \cup {a} /\ a.req = nextReq
                    /\ \A del \in a.dels : ByHandle(del) =>
                          nextHandle <= del.h /\ del.h < nextHandle'
<1>1. CASE HandleFlow
  <2>1. PICK d \in Decision :
           \/ DecidePending(d)
           \/ \E added \in SUBSET RuleKinds(d) : \E read \in SUBSET added :
                 DecideAuto(d, added, read)
    BY <1>1 DEF HandleFlow, Decisions
  <2>2. nextReq \in Req /\ nextHandle \in Nat /\ now \in Nat
    BY <1>1, Times, ClockTyped DEF HandleFlow, GatewayInv, GatewayTypeOK, IInv, EnforcementTypeOK, Req
  <2>3. CASE DecidePending(d)
    <3>1. PICK a : a = Alert(d, {}, ResultDuration(d, RuleKinds(d)))
      OBVIOUS
    <3>2. a \in AlertSent /\ a.req = nextReq /\ a.dels = {}
      BY <2>2, <3>1, DecisionShape, WindowLength DEF Alert, AlertSent
    <3> QED BY <2>2, <2>3, <3>1, <3>2 DEF DecidePending
  <2>4. CASE \E added \in SUBSET RuleKinds(d) : \E read \in SUBSET added : DecideAuto(d, added, read)
    <3>1. PICK added \in SUBSET RuleKinds(d) : \E read : DecideAuto(d, added, read)
      BY <2>4
    <3>2. PICK read : DecideAuto(d, added, read)
      BY <3>1
    <3>3. PICK a : a = Alert(d, PayloadDeletions(d, added, read), ResultDuration(d, read))
      OBVIOUS
    <3>4. /\ a \in AlertSent /\ a.req = nextReq /\ a.dels = PayloadDeletions(d, added, read)
      BY <2>2, <3>3, DecisionShape, WindowLength, DeletionsTyped DEF Alert, AlertSent
    <3>5. nextHandle' = nextHandle + Cardinality(added) /\ alerts' = alerts \cup {a}
      BY <3>2, <3>3 DEF DecideAuto, Execute
    <3> QED BY <2>2, <3>4, <3>5, FreshHandles
  <2> QED BY <2>1, <2>3, <2>4
<1>2. CASE ~HandleFlow
  BY <1>2 DEF Next, SendBatch, PredictFails, PredictReplies, SkipFlow, SetAuto, Approve,
              Reject, RuleDelete, AgentCrash, Background, gvars, vars
<1> QED BY <1>1, <1>2

LEMMA GrantNames ==
    ASSUME GatewayInv, NEW call \in Call, NEW added, NEW read, Grants(call, added, read)
    PROVE  /\ alerts' = alerts
           /\ \A del \in ReplyTo(call, added, read).dels : ByHandle(del) =>
                 nextHandle <= del.h /\ del.h < nextHandle'
<1>1. CASE call.kind = "approve" /\ \E p \in Asked(call) : Approve(p, added, read)
  <2>1. PICK p \in pending : p.req = call.req /\ Approve(p, added, read)
    BY <1>1 DEF Asked
  <2>2. /\ p.d \in Decision /\ added \in SUBSET RuleKinds(p.d) /\ nextHandle \in Nat
        /\ \A q \in pending : q.req = p.req => q = p
    BY <2>1 DEF GatewayInv, GatewayTypeOK, OneVerdict, Approve, Execute, IInv, EnforcementTypeOK
  <2>3. (CHOOSE q \in pending : q.req = call.req) = p
    BY <2>1, <2>2
  <2>4. ReplyTo(call, added, read).dels = PayloadDeletions(p.d, added, read)
    BY <1>1, <2>3 DEF ReplyTo
  <2>5. nextHandle' = nextHandle + Cardinality(added) /\ alerts' = alerts
    BY <2>1 DEF Approve, Execute
  <2> QED BY <2>2, <2>4, <2>5, FreshHandles
<1>2. CASE call.kind # "approve"
  <2>1. ReplyTo(call, added, read).dels = {}
    BY <1>2 DEF ReplyTo, NoReply
  <2>2. alerts' = alerts
    BY <1>2 DEF Grants, Reject, DeleteServed, gvars
  <2> QED BY <2>1, <2>2
<1> QED BY <1>1, <1>2 DEF Grants

(* Node by itself only passes names on.                                    *)
LEMMA NodeNames ==
    ASSUME MitigationInv, NamesInv, UNCHANGED <<evars, gvars>>, CallsOfHandler',
           \A r \in Req, d \in Deletion : Named(r, d)' => Named(r, d)
    PROVE  NamesInv'
<1>1. 1 \in Req
  BY Times DEF Req
<1>2. NamesOf(1)
  BY DEF NamesOf, evars, MitigationInv, GatewayInv, IInv, EnforcementTypeOK
<1> QED BY <1>1, <1>2, NamesStep

LEMMA BeginNames ==
    ASSUME MitigationInv, NamesInv, NEW h \in Handler, NEW kind, NEW r \in Req,
           NEW calls \in SUBSET Call, Begin(h, kind, r, calls),
           \A call \in calls : call.req = r /\ (call.kind = "delete" => Named(r, call.del)),
           \A j \in Job : found'[j] \subseteq found[j]
    PROVE  NamesInv'
<1>1. UNCHANGED <<evars, gvars, docs, strays>>
  BY DEF Begin
<1>2. PICK state : /\ state = [kind |-> kind, req |-> r, todo |-> calls, reply |-> NoReply]
                   /\ hnd' = [hnd EXCEPT ![h] = state]
  BY DEF Begin
<1>3. \A i \in Handler : IF i = h THEN hnd'[i] = state ELSE hnd'[i] = hnd[i]
  BY <1>2 DEF MitigationInv, NodeTypeOK
<1>4. state.req = r /\ state.todo = calls /\ state.reply.dels = {}
  BY <1>2 DEF NoReply
<1>5. CallsOfHandler'
  BY <1>3, <1>4 DEF CallsOfHandler, NamesInv
<1>6. ASSUME NEW s \in Req, NEW d \in Deletion, Named(s, d)' PROVE Named(s, d)
  <2>1. CASE \E i \in Handler : hnd'[i].req = s /\ d \in hnd'[i].reply.dels
    BY <1>3, <1>4, <2>1 DEF Named
  <2>2. CASE \E i \in Handler : \E call \in hnd'[i].todo :
                call.kind = "delete" /\ call.req = s /\ call.del = d
    <3>1. PICK i \in Handler : \E call \in hnd'[i].todo :
                call.kind = "delete" /\ call.req = s /\ call.del = d
      BY <2>2
    <3>2. CASE i = h
      BY <1>3, <1>4, <3>1, <3>2
    <3>3. CASE i # h
      BY <1>3, <3>1, <3>3 DEF Named
    <3> QED BY <3>2, <3>3
  <2>3. CASE \E j \in Job : \E f \in found'[j] : f.req = s /\ d \in f.dels
    BY <2>3 DEF Named
  <2>4. CASE \/ \E a \in alerts' : a.req = s /\ d \in a.dels
             \/ d \in docs'[s].dels
             \/ \E call \in strays' : call.kind = "delete" /\ call.req = s /\ call.del = d
    BY <1>1, <2>4 DEF Named, gvars
  <2> QED BY <1>6, <2>1, <2>2, <2>3, <2>4 DEF Named
<1> QED BY <1>1, <1>5, <1>6, NodeNames

LEMMA BeginsName ==
    ASSUME MitigationInv, NamesInv,
           \/ \E h \in Admin, r \in Req : BeginReview(h, r) \/ BeginDelete(h, r) \/ BeginToggle(h, r)
           \/ \E j \in Job : JobStep(j)
    PROVE  NamesInv'
<1> USE DEF DeleteCalls
<1>1. /\ docs \in [Req -> Doc]
      /\ found \in [Job -> SUBSET [req : Req, dels : SUBSET Deletion]]
  BY DEF MitigationInv, NodeTypeOK
<1>2. ASSUME NEW h \in Admin, NEW r \in Req,
             BeginReview(h, r) \/ BeginDelete(h, r) \/ BeginToggle(h, r)
      PROVE  NamesInv'
  <2>1. h \in Handler /\ docs[r].dels \in SUBSET Deletion
    BY <1>1 DEF Handler, Doc
  <2>2. \A call \in DeleteCalls(r, docs[r].dels) :
           call.req = r /\ (call.kind = "delete" => Named(r, call.del))
    BY DEF Named
  <2>3. DeleteCalls(r, docs[r].dels) \in SUBSET Call
    BY <2>1, DeleteCallsTyped
  <2>4. CASE BeginReview(h, r)
    <3>1. PICK kind \in {"approve", "reject"} :
             /\ Begin(h, kind, r, {[kind |-> kind, req |-> r, del |-> NoDeletion]})
             /\ found' = found
      BY <2>4 DEF BeginReview
    <3>2. {[kind |-> kind, req |-> r, del |-> NoDeletion]} \in SUBSET Call
      BY DEF Call, NoDeletion, Deletion
    <3>3. \A call \in {[kind |-> kind, req |-> r, del |-> NoDeletion]} :
             call.req = r /\ call.kind # "delete"
      OBVIOUS
    <3> QED BY <2>1, <3>1, <3>2, <3>3, BeginNames
  <2>5. CASE BeginDelete(h, r)
    <3>1. PICK calls \in {{}, DeleteCalls(r, docs[r].dels)} :
             Begin(h, "delete", r, calls) /\ found' = found
      BY <2>5 DEF BeginDelete
    <3>2. calls \in SUBSET Call
      BY <2>3, <3>1
    <3>3. \A call \in calls : call.req = r /\ (call.kind = "delete" => Named(r, call.del))
      BY <2>2, <3>1
    <3> QED BY <2>1, <3>1, <3>2, <3>3, BeginNames
  <2>6. CASE BeginToggle(h, r)
    <3>1. Begin(h, "toggle", r, DeleteCalls(r, docs[r].dels)) /\ found' = found
      BY <2>6 DEF BeginToggle
    <3> QED BY <2>1, <2>2, <2>3, <3>1, BeginNames
  <2> QED BY <1>2, <2>4, <2>5, <2>6
<1>3. ASSUME NEW j \in Job, FindExpired(j) PROVE NamesInv'
  <2>1. UNCHANGED <<evars, gvars, docs, hnd, strays>>
    BY <1>3 DEF FindExpired
  <2>2. CallsOfHandler'
    BY <2>1 DEF CallsOfHandler, NamesInv
  <2>3. \A i \in Job : \A f \in found'[i] : f \in found[i] \/ f.dels = docs[f.req].dels
    <3> SUFFICES ASSUME NEW i \in Job, NEW f \in found'[i]
                 PROVE  f \in found[i] \/ f.dels = docs[f.req].dels
      OBVIOUS
    <3>1. CASE i = j
      <4>1. PICK r \in Req : f = [req |-> r, dels |-> docs[r].dels]
        BY <1>1, <1>3, <3>1 DEF FindExpired, FoundBy
      <4> QED BY <4>1
    <3>2. CASE i # j
      BY <1>1, <1>3, <3>2 DEF FindExpired
    <3> QED BY <3>1, <3>2
  <2>4. ASSUME NEW s \in Req, NEW d \in Deletion, Named(s, d)' PROVE Named(s, d)
    BY <2>1, <2>3, <2>4 DEF Named, gvars
  <2> QED BY <2>1, <2>2, <2>4, NodeNames
<1>4. ASSUME NEW j \in Job, BeginExpire(j) PROVE NamesInv'
  <2>1. j \in Handler
    BY DEF Handler
  <2>2. PICK f \in found[j] : /\ Begin(j, "expire", f.req, DeleteCalls(f.req, f.dels))
                              /\ found' = [found EXCEPT ![j] = @ \ {f}]
    BY <1>4 DEF BeginExpire
  <2>3. f.req \in Req /\ f.dels \in SUBSET Deletion /\ \A i \in Job : found'[i] \subseteq found[i]
    BY <1>1, <2>2
  <2>4. \A call \in DeleteCalls(f.req, f.dels) :
           call.req = f.req /\ (call.kind = "delete" => Named(f.req, call.del))
    BY <2>2 DEF Named
  <2> QED BY <2>1, <2>2, <2>3, <2>4, DeleteCallsTyped, BeginNames
<1> QED BY <1>2, <1>3, <1>4 DEF JobStep

(* The answer to an approval names the handles of that request's rules.    *)
LEMMA ServedNames ==
    ASSUME MitigationInv, NamesInv, NEW h \in Handler, CallServed(h), [~Reboot]_evars
    PROVE  NamesInv'
<1>1. PICK call, added, read :
        /\ call \in hnd[h].todo
        /\ Grants(call, added, read)
        /\ hnd' = [hnd EXCEPT ![h].todo = @ \ {call}, ![h].reply = ReplyTo(call, added, read)]
  BY DEF CallServed
<1>2. UNCHANGED <<docs, found, strays>>
  BY DEF CallServed
<1>3. call \in Call /\ hnd[h].req \in Req
  BY <1>1 DEF MitigationInv, NodeTypeOK
<1>4. PICK reply \in Reply :
        /\ hnd' = [hnd EXCEPT ![h].todo = @ \ {call}, ![h].reply = reply]
        /\ reply = ReplyTo(call, added, read)
  BY <1>1, <1>3, GrantStep DEF MitigationInv
<1>5. /\ hnd'[h].req = hnd[h].req /\ hnd'[h].todo \subseteq hnd[h].todo
      /\ hnd'[h].reply = reply
      /\ \A i \in Handler : i # h => hnd'[i] = hnd[i]
  BY <1>4 DEF MitigationInv, NodeTypeOK
<1>6. /\ alerts' = alerts
      /\ \A del \in reply.dels : ByHandle(del) => nextHandle <= del.h /\ del.h < nextHandle'
  BY <1>1, <1>3, <1>4, GrantNames DEF MitigationInv
<1>7. nextHandle' \in Nat /\ nextHandle <= nextHandle'
  BY <1>1, <1>3, GrantIsStep, CounterGrows DEF MitigationInv
<1>8. CallsOfHandler'
  BY <1>5 DEF NamesInv, CallsOfHandler
<1>9. ASSUME NEW s \in Req, NEW d \in Deletion, Named(s, d)'
      PROVE  \/ Named(s, d)
             \/ s = hnd[h].req /\ (ByHandle(d) => nextHandle <= d.h /\ d.h < nextHandle')
  <2>1. CASE \E i \in Handler : hnd'[i].req = s /\ d \in hnd'[i].reply.dels
    <3>1. PICK i \in Handler : hnd'[i].req = s /\ d \in hnd'[i].reply.dels
      BY <2>1
    <3>2. CASE i = h
      BY <1>5, <1>6, <3>1, <3>2
    <3>3. CASE i # h
      BY <1>5, <3>1, <3>3 DEF Named
    <3> QED BY <3>2, <3>3
  <2>2. CASE \E i \in Handler : \E c \in hnd'[i].todo : c.kind = "delete" /\ c.req = s /\ c.del = d
    <3>1. PICK i \in Handler : \E c \in hnd'[i].todo : c.kind = "delete" /\ c.req = s /\ c.del = d
      BY <2>2
    <3>2. \E c \in hnd[i].todo : c.kind = "delete" /\ c.req = s /\ c.del = d
      BY <1>5, <3>1
    <3> QED BY <3>2 DEF Named
  <2>3. CASE \/ \E a \in alerts' : a.req = s /\ d \in a.dels
             \/ d \in docs'[s].dels
             \/ \E j \in Job : \E f \in found'[j] : f.req = s /\ d \in f.dels
             \/ \E c \in strays' : c.kind = "delete" /\ c.req = s /\ c.del = d
    BY <1>2, <1>6, <2>3 DEF Named
  <2> QED BY <1>9, <2>1, <2>2, <2>3 DEF Named
<1>10. NamesOf(hnd[h].req)
  BY <1>7, <1>9 DEF NamesOf
<1> QED BY <1>3, <1>8, <1>10, NamesStep

LEMMA FailedNames ==
    ASSUME MitigationInv, NamesInv, NEW h \in Handler, CallRefused(h) \/ CallTimesOut(h)
    PROVE  NamesInv'
<1>1. PICK call \in hnd[h].todo :
        /\ AfterFailure(h, call) /\ UNCHANGED <<evars, gvars>>
        /\ UNCHANGED <<docs, found>> /\ strays' \subseteq strays \cup {call}
  BY DEF CallRefused, CallTimesOut, Refuses
<1>2. \A i \in Handler : \/ hnd'[i] = hnd[i]
                         \/ hnd'[i] = Idle
                         \/ /\ hnd'[i].req = hnd[i].req /\ hnd'[i].reply = hnd[i].reply
                            /\ hnd'[i].todo \subseteq hnd[i].todo
  <2>1. hnd[h] \in [kind : {"idle", "approve", "reject", "delete", "toggle", "expire"},
                    req : Req, todo : SUBSET Call, reply : Reply]
    BY DEF MitigationInv, NodeTypeOK
  <2>2. PICK state : /\ state = IF Carries(hnd[h].kind)
                                THEN [hnd[h] EXCEPT !.todo = @ \ {call}] ELSE Idle
                     /\ hnd' = [hnd EXCEPT ![h] = state]
    BY <1>1 DEF AfterFailure
  <2>3. \/ state = Idle
        \/ /\ state.req = hnd[h].req /\ state.reply = hnd[h].reply
           /\ state.todo \subseteq hnd[h].todo
    BY <2>1, <2>2
  <2> QED BY <2>2, <2>3 DEF MitigationInv, NodeTypeOK
<1>3. Idle.todo = {} /\ Idle.reply.dels = {}
  BY DEF Idle, NoReply
<1>4. CallsOfHandler'
  BY <1>2, <1>3 DEF NamesInv, CallsOfHandler
<1>5. ASSUME NEW s \in Req, NEW d \in Deletion, Named(s, d)' PROVE Named(s, d)
  <2>1. CASE \E i \in Handler : hnd'[i].req = s /\ d \in hnd'[i].reply.dels
    BY <1>2, <1>3, <2>1 DEF Named
  <2>2. CASE \E i \in Handler : \E c \in hnd'[i].todo : c.kind = "delete" /\ c.req = s /\ c.del = d
    <3>1. PICK i \in Handler : \E c \in hnd'[i].todo : c.kind = "delete" /\ c.req = s /\ c.del = d
      BY <2>2
    <3>2. \E c \in hnd[i].todo : c.kind = "delete" /\ c.req = s /\ c.del = d
      BY <1>2, <1>3, <3>1
    <3> QED BY <3>2 DEF Named
  <2>3. CASE \E c \in strays' : c.kind = "delete" /\ c.req = s /\ c.del = d
    BY <1>1, <2>3 DEF Named
  <2>4. CASE \/ \E a \in alerts' : a.req = s /\ d \in a.dels
             \/ d \in docs'[s].dels
             \/ \E j \in Job : \E f \in found'[j] : f.req = s /\ d \in f.dels
    BY <1>1, <2>4 DEF Named, gvars
  <2> QED BY <1>5, <2>1, <2>2, <2>3, <2>4 DEF Named
<1> QED BY <1>1, <1>4, <1>5, NodeNames

LEMMA WriteNames ==
    ASSUME MitigationInv, NamesInv, NEW h \in Handler, Write(h)
    PROVE  NamesInv'
<1>1. /\ UNCHANGED <<evars, gvars, found, strays>> /\ hnd' = [hnd EXCEPT ![h] = Idle]
  BY DEF Write
<1>2. \A i \in Handler : hnd'[i] = hnd[i] \/ hnd'[i] = Idle
  BY <1>1 DEF MitigationInv, NodeTypeOK
<1>3. Idle.todo = {} /\ Idle.reply.dels = {}
  BY DEF Idle, NoReply
<1>4. CallsOfHandler'
  BY <1>2, <1>3 DEF NamesInv, CallsOfHandler
<1>5. PICK r \in Req : r = hnd[h].req
  BY DEF MitigationInv, NodeTypeOK
<1>6. docs \in [Req -> Doc] /\ docs[r] \in Doc
  BY DEF MitigationInv, NodeTypeOK
<1>7. Written(docs[r], hnd[h].kind, hnd[h].reply).dels
         \in {docs[r].dels, hnd[h].reply.dels, {}}
  <2>1. CASE hnd[h].kind = "approve"
    <3>1. PICK dels, end :
             /\ dels = IF hnd[h].reply.dels # {} THEN hnd[h].reply.dels ELSE docs[r].dels
             /\ end = IF hnd[h].reply.timeout > 0 THEN now + hnd[h].reply.timeout
                      ELSE docs[r].expireAt
      OBVIOUS
    <3>2. Written(docs[r], hnd[h].kind, hnd[h].reply)
            = [docs[r] EXCEPT !.status = "approved", !.active = TRUE,
                              !.dels = dels, !.expireAt = end]
      BY <2>1, <3>1 DEF Written
    <3> QED BY <1>6, <3>1, <3>2 DEF Doc
  <2>2. CASE hnd[h].kind # "approve"
    BY <1>6, <2>2 DEF Written, Doc
  <2> QED BY <2>1, <2>2
<1>8. \A s \in Req : \/ docs'[s].dels = docs[s].dels
                     \/ docs'[s].dels = {}
                     \/ s = r /\ docs'[s].dels = hnd[h].reply.dels
  BY <1>5, <1>6, <1>7 DEF Write
<1>9. ASSUME NEW s \in Req, NEW d \in Deletion, Named(s, d)' PROVE Named(s, d)
  <2>1. CASE \E i \in Handler : hnd'[i].req = s /\ d \in hnd'[i].reply.dels
    BY <1>2, <1>3, <2>1 DEF Named
  <2>2. CASE \E i \in Handler : \E c \in hnd'[i].todo : c.kind = "delete" /\ c.req = s /\ c.del = d
    BY <1>2, <1>3, <2>2 DEF Named
  <2>3. CASE d \in docs'[s].dels
    BY <1>5, <1>8, <2>3 DEF Named
  <2>4. CASE \/ \E a \in alerts' : a.req = s /\ d \in a.dels
             \/ \E j \in Job : \E f \in found'[j] : f.req = s /\ d \in f.dels
             \/ \E c \in strays' : c.kind = "delete" /\ c.req = s /\ c.del = d
    BY <1>1, <2>4 DEF Named, gvars
  <2> QED BY <1>9, <2>1, <2>2, <2>3, <2>4 DEF Named
<1> QED BY <1>1, <1>4, <1>9, NodeNames

LEMMA ReceiveNames ==
    ASSUME MitigationInv, NamesInv, ReceiveAlert \/ LoseAlert
    PROVE  NamesInv'
<1>1. UNCHANGED <<evars, gvars, found, hnd, strays>>
  BY DEF ReceiveAlert, LoseAlert
<1>2. CallsOfHandler'
  BY <1>1 DEF NamesInv, CallsOfHandler
<1>3. \A s \in Req : \/ docs'[s].dels = docs[s].dels
                     \/ \E a \in alerts : a.req = s /\ docs'[s].dels = a.dels
  <2>1. CASE ReceiveAlert
    <3>1. PICK a \in alerts :
             docs' = [docs EXCEPT ![a.req] =
                [status |-> IF a.dels # {} THEN "auto-approved" ELSE "pending",
                 active |-> a.dels # {}, dels |-> a.dels, expireAt |-> Deadline(a.timeout)]]
      BY <2>1 DEF ReceiveAlert
    <3>2. \A s \in Req : IF s = a.req THEN docs'[s].dels = a.dels ELSE docs'[s] = docs[s]
      BY <3>1 DEF MitigationInv, NodeTypeOK
    <3> QED BY <3>2
  <2> QED BY <2>1 DEF LoseAlert
<1>4. ASSUME NEW s \in Req, NEW d \in Deletion, Named(s, d)' PROVE Named(s, d)
  BY <1>1, <1>3, <1>4 DEF Named, gvars
<1> QED BY <1>1, <1>2, <1>4, NodeNames

LEMMA RestNames ==
    ASSUME MitigationInv, NamesInv, [~Reboot]_evars,
           ServeStray \/ NodeCrash \/ AgentStep \/ UNCHANGED mvars
    PROVE  NamesInv'
<1>1. nextHandle' \in Nat /\ nextHandle <= nextHandle'
  BY CompositionStep, CounterGrows DEF MitigationInv, MitigationNext
<1>2. /\ docs' = docs /\ strays' \subseteq strays
      /\ \/ UNCHANGED <<hnd, found>>
         \/ hnd' = [h \in Handler |-> Idle] /\ found' = [j \in Job |-> {}]
  BY DEF ServeStray, NodeCrash, AgentStep, mvars
<1>3. Idle.todo = {} /\ Idle.reply.dels = {}
  BY DEF Idle, NoReply
<1>4. CallsOfHandler'
  BY <1>2, <1>3 DEF NamesInv, CallsOfHandler
<1>5. PICK q \in Req :
        \A a \in alerts' : \/ a \in alerts
                           \/ /\ a.req = q
                              /\ \A del \in a.dels : ByHandle(del) =>
                                    nextHandle <= del.h /\ del.h < nextHandle'
  <2>1. CASE ServeStray
    <3>1. PICK call, added, read :
             call \in strays /\ (Grants(call, added, read) \/ UNCHANGED <<evars, gvars>>)
      BY <2>1 DEF ServeStray, Refuses
    <3>2. call \in Call
      BY <3>1 DEF MitigationInv, NodeTypeOK
    <3>3. alerts' = alerts
      BY <3>1, <3>2, GrantNames DEF gvars, MitigationInv
    <3> QED BY <3>3, Times DEF Req
  <2>2. CASE NodeCrash \/ UNCHANGED mvars
    <3>1. alerts' = alerts
      BY <2>2 DEF NodeCrash, gvars, mvars
    <3> QED BY <3>1, Times DEF Req
  <2>3. CASE AgentStep
    <3>1. \/ alerts' = alerts
          \/ /\ nextReq \in Req
             /\ \E a \in AlertSent :
                   /\ alerts' = alerts \cup {a} /\ a.req = nextReq
                   /\ \A del \in a.dels : ByHandle(del) =>
                         nextHandle <= del.h /\ del.h < nextHandle'
      BY <2>3, CompositionStep, AlertsName DEF MitigationInv, MitigationNext
    <3> QED BY <3>1, Times DEF Req
  <2> QED BY <2>1, <2>2, <2>3
<1>6. ASSUME NEW s \in Req, NEW d \in Deletion, Named(s, d)'
      PROVE  \/ Named(s, d)
             \/ s = q /\ (ByHandle(d) => nextHandle <= d.h /\ d.h < nextHandle')
  <2>1. CASE \E a \in alerts' : a.req = s /\ d \in a.dels
    BY <1>5, <2>1 DEF Named
  <2>2. CASE ~\E a \in alerts' : a.req = s /\ d \in a.dels
    BY <1>2, <1>3, <1>6, <2>2 DEF Named
  <2> QED BY <2>1, <2>2
<1>7. NamesOf(q)
  BY <1>1, <1>6 DEF NamesOf
<1> QED BY <1>4, <1>7, NamesStep

LEMMA NamesInit == MitigationInit => NamesInv
<1> SUFFICES ASSUME MitigationInit, NEW r \in Req, NEW d \in Deletion PROVE ~Named(r, d)
  BY DEF NamesInv, HandleNotShared, NamedBelow, CallsOfHandler, MitigationInit, Idle
<1> QED BY DEF MitigationInit, Init, Named, Absent, Idle, NoReply

LEMMA NamesNext ==
    MitigationInv /\ NamesInv /\ [MitigationNext]_mvars /\ [~Reboot]_evars => NamesInv'
<1> SUFFICES ASSUME MitigationInv, NamesInv, [MitigationNext]_mvars, [~Reboot]_evars
             PROVE  NamesInv'
  OBVIOUS
<1>1. ASSUME NEW h \in Handler, CallEnds(h) \/ Write(h) PROVE NamesInv'
  BY <1>1, ServedNames, FailedNames, WriteNames DEF CallEnds
<1> QED BY <1>1, BeginsName, ReceiveNames, RestNames DEF MitigationNext

(* As long as the host is not booted, no handle is named to two requests:  *)
(* what Node deletes for one document by handle, at once, late or twice,   *)
(* is not a rule of another (deletions of handle_approve and send_alert,   *)
(* deleteAIRule, removeRuleFromFirewall).  Set elements may be shared.     *)
THEOREM HandlesNotShared == MitigationSpec /\ [][~Reboot]_evars => []HandleNotShared
<1>1. NamesInv => HandleNotShared
  BY DEF NamesInv
<1> QED BY <1>1, NamesInit, NamesNext, MitigationInitEstablishes, MitigationStep, PTL
    DEF MitigationSpec

================================================================================
