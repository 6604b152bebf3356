---------------------------- MODULE RLDecisionProofs ---------------------------
(***************************************************************************)
(* What the mitigation decision promises for every set of addresses, of    *)
(* labels, confidences, scores and metrics, and every interleaving of      *)
(* decisions, backups, expiry and restarts; what the training of the       *)
(* agent rewards, what the reasons the engine gives tell, and that the     *)
(* flows of a batch do not touch each other's answers.                     *)
(***************************************************************************)
EXTENDS RLDecision, Training, Engine, FiniteSetTheorems, SequenceTheorems, TLAPS

(* No entry of a store claims more decisions than were made.               *)
Below(store) == \A ip \in IP : \A f \in DOMAIN store[ip] : store[ip][f] <= made[ip][f]

(* Nor does what a flow under way carries.                                 *)
BatchBelow == \A i \in 1..Len(batch) : batch[i].rc <= made[batch[i].ip]["total"]

IInv ==
    /\ TypeOK
    /\ Below(hist) /\ Below(file) /\ Below(copied)
    /\ BatchBelow
    /\ PermNeedsRepeats
    /\ RecommendedIsAllowed

-------------------------------------------------------------------------------
(* The operators of the decision.                                          *)

(* ids_label_to_int ends at the first key that occurs in the label.        *)
LEMMA FirstKey ==
    ASSUME NEW label, NEW n \in 1..8, OccursIn(LabelKey[n], label)
    PROVE  \E i \in 1..8 :
             /\ OccursIn(LabelKey[i], label)
             /\ \A j \in 1..8 : OccursIn(LabelKey[j], label) => i <= j
             /\ AttackOf(label) = AttackName[i]
<1> DEFINE hits == {i \in 1..8 : OccursIn(LabelKey[i], label)}
<1>1. n \in hits /\ hits \subseteq 1..8
  OBVIOUS
<1>2. AttackOf(label) = AttackName[CHOOSE i \in hits : \A j \in hits : i <= j]
  BY <1>1 DEF AttackOf
<1>3. \E i \in hits : \A j \in hits : i <= j
  <2> HIDE DEF hits
  <2> QED BY <1>1
<1>4. PICK i \in hits : (\A j \in hits : i <= j) /\ AttackOf(label) = AttackName[i]
  <2> HIDE DEF hits
  <2> QED BY <1>2, <1>3
<1> QED BY <1>4

LEMMA Keys ==
    /\ LabelKey[1] = "benign" /\ LabelKey[2] = "brute force"
    /\ LabelKey[3] = "password" /\ LabelKey[4] = "dos"
    /\ LabelKey[5] = "ddos" /\ LabelKey[6] = "scanning"
    /\ LabelKey[7] = "injection" /\ LabelKey[8] = "xss"
BY DEF LabelKey

(* A label that "ddos" occurs in is a DoS, since "dos" occurs in it.       *)
LEMMA AttackOfLabel ==
    ASSUME NEW label
    PROVE  AttackOf(label) # "ddos"
<1>1. CASE \E n \in 1..8 : OccursIn(LabelKey[n], label)
  <2>1. PICK i \in 1..8 : /\ OccursIn(LabelKey[i], label)
                          /\ \A j \in 1..8 : OccursIn(LabelKey[j], label) => i <= j
                          /\ AttackOf(label) = AttackName[i]
    BY <1>1, FirstKey
  <2>2. OccursIn("ddos", label) => OccursIn("dos", label)
    BY DEF OccursIn
  <2>3. i # 5
    <3> SUFFICES ASSUME i = 5 PROVE FALSE
      OBVIOUS
    <3>1. LabelKey[5] = "ddos" /\ LabelKey[4] = "dos"
      BY Keys
    <3>2. OccursIn(LabelKey[4], label)
      BY <2>1, <2>2, <3>1
    <3>3. 4 \in 1..8
      OBVIOUS
    <3>4. i <= 4
      BY <2>1, <3>2, <3>3
    <3> QED BY <3>4
  <2> QED BY <2>1, <2>3 DEF AttackName
<1>2. CASE ~\E n \in 1..8 : OccursIn(LabelKey[n], label)
  BY <1>2 DEF AttackOf
<1> QED BY <1>1, <1>2

(* Every label of an attack that the engine gives has an attack.           *)
LEMMA AttackLabels ==
    ASSUME NEW label \in IdsLabel \ {"benign", "n/a"}
    PROVE  AttackOf(label) # "normal"
<1>1. \E n \in 1..8 : label = LabelKey[n]
  <2>1. CASE label \in {"brute force", "password", "dos"}
    <3>1. label = LabelKey[2] \/ label = LabelKey[3] \/ label = LabelKey[4]
      BY <2>1, Keys
    <3> QED BY <3>1
  <2>2. CASE label \in {"ddos", "scanning"}
    <3>1. label = LabelKey[5] \/ label = LabelKey[6]
      BY <2>2, Keys
    <3> QED BY <3>1
  <2>3. CASE label \in {"injection", "xss"}
    <3>1. label = LabelKey[7] \/ label = LabelKey[8]
      BY <2>3, Keys
    <3> QED BY <3>1
  <2> QED BY <2>1, <2>2, <2>3 DEF IdsLabel
<1>2. PICK i \in 1..8 : OccursIn(LabelKey[i], label) /\ AttackOf(label) = AttackName[i]
  BY <1>1, FirstKey DEF OccursIn
<1>3. i # 1
  BY <1>2, Keys DEF OccursIn
<1> QED BY <1>2, <1>3 DEF AttackName

(* The engine never chooses the DDoS response, whatever the label, the     *)
(* confidence and the metrics of the target: the mask never leaves it.     *)
THEOREM DdosNeverAllowed ==
    ASSUME NEW label, NEW conf, NEW an, NEW rc, NEW net
    PROVE  "ddos" \notin Allowed(MakeIds(label, conf), an, rc, net)
BY AttackOfLabel DEF Allowed, DdosCond, MakeIds

(* The action the decision table recommends is always one the mask leaves. *)
LEMMA TableWithinMask ==
    ASSUME NEW verdict, NEW an, NEW rc, NEW net
    PROVE  Recommended(verdict, an, rc, net) \in Allowed(verdict, an, rc, net)
<1>1. ForAttack(verdict, an, rc) \in Allowed(verdict, an, rc, net)
  BY DEF ForAttack, Allowed
<1>2. ForAnomaly(an, rc) \in Allowed(verdict, an, rc, net)
  BY DEF ForAnomaly, Allowed
<1>3. DdosCond(verdict, net) => "ddos" \in Allowed(verdict, an, rc, net)
  BY DEF Allowed
<1>4. StrongAgreement(verdict, an, rc) => "perm_block" \in Allowed(verdict, an, rc, net)
  BY DEF Allowed, PermOk
<1> QED BY <1>1, <1>2, <1>3, <1>4 DEF Recommended

(* The normalised score says "anomaly" exactly where the model's threshold *)
(* does, the threshold itself excepted.                                    *)
LEMMA NormalizedAgrees ==
    ASSUME NEW raw \in Nat, NEW key \in ModelKey
    PROVE  /\ Normalized(raw, key) \in 0..10000
           /\ IsOutlier(raw, key) => IsAnomaly(Normalized(raw, key))
           /\ IsAnomaly(Normalized(raw, key)) => raw >= Threshold[key]
<1>1. CASE key = "WebTcp"
  BY SMTT(20), <1>1 DEF Normalized, IsOutlier, IsAnomaly, Threshold, AnomalyMax
<1>2. CASE key = "NonWebTcp"
  BY SMTT(20), <1>2 DEF Normalized, IsOutlier, IsAnomaly, Threshold, AnomalyMax
<1>3. CASE key = "NonWebUDP"
  BY SMTT(20), <1>3 DEF Normalized, IsOutlier, IsAnomaly, Threshold, AnomalyMax
<1> QED BY <1>1, <1>2, <1>3 DEF ModelKey

(* Confidences that make an attack an alert and are rounded to 0.6.        *)
RoundedToLimit == 60000..60004

(* Confidences that are rounded to no more than 0.6.                       *)
LEMMA RoundedDown ==
    ASSUME NEW conf \in Confidence, (conf + 5) \div 10 <= 6000, conf >= 60000
    PROVE  conf \in RoundedToLimit
BY SMTT(20) DEF Confidence, RoundedToLimit

(* An alert is filed under "normal", the one category without an active    *)
(* window, only at a confidence that rounds to 0.6 exactly: run_ids_batch  *)
(* takes it for an attack and ids_ok does not.                             *)
THEOREM AlertsHaveACategory ==
    ASSUME NEW label \in IdsLabel, NEW conf \in Confidence,
           NEW raw \in Nat, NEW key \in ModelKey,
           IsAttack(label, conf) \/ IsOutlier(raw, key),
           CategoryOf(MakeIds(label, conf), Normalized(raw, key)) = "normal"
    PROVE  conf \in RoundedToLimit
<1> DEFINE verdict == MakeIds(label, conf)
<1>1. ~IdsOk(verdict) /\ ~IsAnomaly(Normalized(raw, key))
  BY DEF CategoryOf, IdsOk
<1>2. IsAttack(label, conf)
  BY <1>1, NormalizedAgrees
<1>3. verdict.attack # "normal"
  BY <1>2, AttackLabels DEF IsAttack, MakeIds
<1>4. (conf + 5) \div 10 <= 6000 /\ conf >= 60000
  <2>1. (conf + 5) \div 10 \in Nat
    BY SMTT(20) DEF Confidence
  <2> QED BY <1>1, <1>2, <1>3, <2>1 DEF IdsOk, IsAttack, MakeIds
<1> QED BY <1>4, RoundedDown

(* A higher anomaly score never lowers the severity shown to the admin.    *)
THEOREM SeverityIsMonotone ==
    ASSUME NEW attack, NEW x \in 0..10000, NEW y \in 0..10000, x <= y
    PROVE  FinalSeverity(attack, x) <= FinalSeverity(attack, y)
<1>1. IdsSeverity(attack) \in 1..4
  BY DEF IdsSeverity
<1>2. AnomalySeverity(x) <= AnomalySeverity(y)
  BY DEF AnomalySeverity
<1>3. CASE attack = "normal"
  BY <1>2, <1>3 DEF FinalSeverity
<1>4. CASE attack # "normal"
  BY <1>1, <1>4 DEF FinalSeverity
<1> QED BY <1>3, <1>4

-------------------------------------------------------------------------------
(* Hashes and their counters.                                              *)
HashField == Field \cup {"total"}

LEMMA HashEntries ==
    ASSUME NEW h, IsHash(h), NEW f
    PROVE  /\ Get(h, f) \in Nat
           /\ f \in DOMAIN h => f \in HashField /\ h[f] = Get(h, f)
BY DEF IsHash, Get, HashField

LEMMA EmptyIsHash == IsHash(NoHash) /\ DOMAIN NoHash = {}
BY DEF IsHash, NoHash

LEMMA ZeroIsHash ==
    /\ IsHash(ZeroRecord)
    /\ \A f \in DOMAIN ZeroRecord : ZeroRecord[f] = 0
    /\ ZeroRecord \in [HashField -> Nat]
BY DEF IsHash, ZeroRecord, HashField

(* Counting a decision.                                                    *)
LEMMA CountedHash ==
    ASSUME NEW h, IsHash(h), NEW cat
    PROVE  LET c == Counted(h, cat) IN
           /\ IsHash(c)
           /\ DOMAIN c = DOMAIN h \cup {"total", FieldOf(cat)}
           /\ \A f \in DOMAIN c :
                c[f] = IF f \in {"total", FieldOf(cat)} THEN Get(h, f) + 1 ELSE h[f]
<1>1. FieldOf(cat) \in Field
  BY DEF FieldOf, Field
<1> DEFINE plus == [f \in {"total", FieldOf(cat)} |-> Get(h, f) + 1]
<1>2. \A f \in DOMAIN plus : plus[f] \in Nat /\ plus[f] = Get(h, f) + 1
  BY HashEntries
<1>3. DOMAIN plus = {"total", FieldOf(cat)}
  OBVIOUS
<1>4. Counted(h, cat) = [f \in DOMAIN h \cup DOMAIN plus |->
                           IF f \in DOMAIN plus THEN plus[f] ELSE h[f]]
  BY DEF Counted, Hset
<1> HIDE DEF plus
<1> QED BY <1>1, <1>2, <1>3, <1>4 DEF IsHash

LEMMA CountedTruth ==
    ASSUME NEW m \in [HashField -> Nat], NEW cat
    PROVE  LET c == Counted(m, cat) IN
           /\ c \in [HashField -> Nat]
           /\ \A f \in HashField : m[f] <= c[f]
           /\ c["total"] = m["total"] + 1
           /\ \A f \in {"total", FieldOf(cat)} : c[f] = m[f] + 1
<1>1. IsHash(m) /\ DOMAIN m = HashField
  BY DEF IsHash, HashField
<1>2. FieldOf(cat) \in HashField /\ "total" \in HashField
  BY DEF FieldOf, Field, HashField
<1>3. \A f \in HashField : Get(m, f) = m[f]
  BY <1>1 DEF Get
<1> DEFINE c == Counted(m, cat)
<1>4. /\ IsHash(c) /\ DOMAIN c = HashField
      /\ \A f \in HashField :
            c[f] = IF f \in {"total", FieldOf(cat)} THEN m[f] + 1 ELSE m[f]
  BY <1>1, <1>2, <1>3, CountedHash
<1>5. c \in [HashField -> Nat]
  BY <1>4 DEF IsHash
<1> HIDE DEF c
<1>6. \A f \in HashField : m[f] <= c[f]
  BY <1>4
<1> QED BY <1>2, <1>4, <1>5, <1>6 DEF c

(* Both count: what is on record stays below what was made.                *)
LEMMA CountedBelow ==
    ASSUME NEW h, IsHash(h), NEW m \in [HashField -> Nat], NEW cat,
           \A f \in DOMAIN h : h[f] <= m[f]
    PROVE  \A f \in DOMAIN Counted(h, cat) : Counted(h, cat)[f] <= Counted(m, cat)[f]
<1> SUFFICES ASSUME NEW f \in DOMAIN Counted(h, cat)
             PROVE  Counted(h, cat)[f] <= Counted(m, cat)[f]
  OBVIOUS
<1>1. f \in HashField /\ Get(h, f) \in Nat /\ Get(h, f) <= m[f]
  <2>1. IsHash(Counted(h, cat))
    BY CountedHash
  <2>2. f \in HashField
    BY <2>1 DEF IsHash, HashField
  <2>3. m[f] \in Nat
    BY <2>2
  <2> QED BY <2>2, <2>3, HashEntries DEF Get
<1>2. CASE f \in {"total", FieldOf(cat)}
  <2>1. Counted(h, cat)[f] = Get(h, f) + 1
    BY <1>2, CountedHash
  <2>2. Counted(m, cat)[f] = m[f] + 1 /\ m[f] \in Nat
    BY <1>1, <1>2, CountedTruth
  <2> QED BY <1>1, <2>1, <2>2
<1>3. CASE f \notin {"total", FieldOf(cat)}
  <2>1. f \in DOMAIN h /\ Counted(h, cat)[f] = h[f] /\ h[f] = Get(h, f)
    BY <1>3, CountedHash, HashEntries
  <2>2. m[f] <= Counted(m, cat)[f] /\ Counted(m, cat)[f] \in Nat /\ m[f] \in Nat
    BY <1>1, CountedTruth
  <2> QED BY <1>1, <2>1, <2>2
<1> QED BY <1>2, <1>3

(* Restoring: field by field, what comes out is one of the two.            *)
LEMMA RestoredHash ==
    ASSUME NEW h, IsHash(h), NEW m, IsHash(m)
    PROVE  /\ IsHash(Restored(h, m))
           /\ \A f \in DOMAIN Restored(h, m) :
                 \/ f \in DOMAIN h /\ Restored(h, m)[f] = h[f]
                 \/ f \in DOMAIN m /\ Restored(h, m)[f] = m[f]
BY DEF Restored, Hset, IsHash

-------------------------------------------------------------------------------
(* Init and the steps.                                                     *)
LEMMA InitEstablishes == Init => IInv
<1> SUFFICES ASSUME Init PROVE IInv
  OBVIOUS
<1>1. IsStore(hist) /\ IsStore(file) /\ IsStore(copied)
  BY EmptyIsHash DEF Init, IsStore
<1>2. Below(hist) /\ Below(file) /\ Below(copied)
  BY EmptyIsHash DEF Init, Below
<1>3. made \in [IP -> [HashField -> Nat]]
  BY ZeroIsHash DEF Init
<1>4. BatchBelow /\ batch \in Seq([ip : IP, rc : Nat])
  BY DEF Init, BatchBelow
<1>5. PermNeedsRepeats /\ RecommendedIsAllowed
  BY DEF Init, PermNeedsRepeats, RecommendedIsAllowed
<1>6. TypeOK
  BY <1>1, <1>3, <1>4 DEF TypeOK, Init, HashField
<1> QED BY <1>2, <1>4, <1>5, <1>6 DEF IInv

(* Steps that make no decision and leave the batch or empty it: it is      *)
(* enough that the three stores stay below what was made.                  *)
LEMMA StoreStep ==
    ASSUME IInv, UNCHANGED <<made, issued>>,
           batch' \in {batch, <<>>}, UNCHANGED handled,
           up' \in BOOLEAN, phase' \in {"waiting", "reading"}, todo' \subseteq IP,
           IsStore(hist)', IsStore(file)', IsStore(copied)',
           Below(hist)', Below(file)', Below(copied)'
    PROVE  IInv'
<1>1. BatchBelow' /\ batch' \in Seq([ip : IP, rc : Nat])
  <2>1. CASE batch' = batch
    BY <2>1 DEF IInv, BatchBelow, TypeOK
  <2>2. CASE batch' = <<>>
    BY <2>2 DEF BatchBelow
  <2> QED BY <2>1, <2>2
<1>2. TypeOK'
  BY <1>1 DEF IInv, TypeOK
<1>3. PermNeedsRepeats' /\ RecommendedIsAllowed'
  BY DEF IInv, PermNeedsRepeats, RecommendedIsAllowed
<1> QED BY <1>1, <1>2, <1>3 DEF IInv

(* An entry set to a hash that is below keeps the store below.             *)
LEMMA EntrySet ==
    ASSUME NEW store, IsStore(store), Below(store), NEW ip \in IP, NEW h, IsHash(h),
           \A f \in DOMAIN h : h[f] <= made[ip][f]
    PROVE  IsStore([store EXCEPT ![ip] = h]) /\ Below([store EXCEPT ![ip] = h])
BY DEF IsStore, Below

LEMMA NoStore ==
    LET empty == [ip \in IP |-> NoHash] IN IsStore(empty) /\ Below(empty)
BY EmptyIsHash DEF IsStore, Below

LEMMA ExpireStep == IInv /\ (Expire \/ RedisLost) => IInv'
<1> SUFFICES ASSUME IInv, Expire \/ RedisLost PROVE IInv'
  OBVIOUS
<1>1. IsStore(hist)' /\ (Below(hist))'
  <2>1. CASE Expire
    <3>1. PICK ip \in IP : hist' = [hist EXCEPT ![ip] = NoHash]
      BY <2>1 DEF Expire
    <3>2. IsStore(hist') /\ Below(hist')
      BY <3>1, EntrySet, EmptyIsHash DEF IInv, TypeOK
    <3> QED BY <2>1, <3>2 DEF Expire, Below, IsStore
  <2>2. CASE RedisLost
    BY <2>2, EmptyIsHash DEF RedisLost, Below, IsStore
  <2> QED BY <2>1, <2>2
<1> QED BY <1>1, StoreStep DEF Expire, RedisLost, IInv, TypeOK, Below, IsStore

LEMMA BackupStep == IInv /\ (BeginBackup \/ ReadKey \/ ReplaceFile) => IInv'
<1> SUFFICES ASSUME IInv, BeginBackup \/ ReadKey \/ ReplaceFile PROVE IInv'
  OBVIOUS
<1>1. CASE BeginBackup
  BY <1>1, StoreStep DEF BeginBackup, IInv, TypeOK, Below, IsStore
<1>2. CASE ReadKey
  <2>1. PICK ip \in IP : copied' = [copied EXCEPT ![ip] = hist[ip]] /\ todo' = todo \ {ip}
    BY <1>2 DEF ReadKey
  <2>2. IsHash(hist[ip]) /\ \A f \in DOMAIN hist[ip] : hist[ip][f] <= made[ip][f]
    BY DEF IInv, TypeOK, IsStore, Below
  <2>3. IsStore(copied') /\ Below(copied')
    BY <2>1, <2>2, EntrySet DEF IInv, TypeOK
  <2>4. IsStore(copied)' /\ (Below(copied))'
    BY <1>2, <2>3 DEF ReadKey, IsStore, Below
  <2> QED BY <1>2, <2>1, <2>4, StoreStep DEF ReadKey, IInv, TypeOK, Below, IsStore
<1>3. CASE ReplaceFile
  <2>1. IsStore(copied)' /\ (Below(copied))'
    BY <1>3, EmptyIsHash DEF ReplaceFile, IsStore, Below
  <2>2. IsStore(file)' /\ (Below(file))'
    BY <1>3 DEF ReplaceFile, IInv, TypeOK, IsStore, Below
  <2> QED BY <1>3, <2>1, <2>2, StoreStep DEF ReplaceFile, IInv, TypeOK, Below, IsStore
<1> QED BY <1>1, <1>2, <1>3

LEMMA CrashStep == IInv /\ Crash => IInv'
<1> SUFFICES ASSUME IInv, Crash PROVE IInv'
  OBVIOUS
<1>1. IsStore(copied)' /\ (Below(copied))'
  BY EmptyIsHash DEF Crash, IsStore, Below
<1> QED BY <1>1, StoreStep DEF Crash, IInv, TypeOK, Below, IsStore

(* What a restart writes over Redis is below, as what it leaves there is.  *)
LEMMA StartStep == IInv /\ Start => IInv'
<1> SUFFICES ASSUME IInv, Start PROVE IInv'
  OBVIOUS
<1>1. ASSUME NEW ip \in IP
      PROVE  /\ IsHash(hist'[ip])
             /\ \A f \in DOMAIN hist'[ip] : hist'[ip][f] <= made[ip][f]
  <2>1. IsHash(hist[ip]) /\ IsHash(file[ip]) /\ hist'[ip] = Restored(hist[ip], file[ip])
    BY DEF Start, IInv, TypeOK, IsStore
  <2>2. /\ \A f \in DOMAIN hist[ip] : hist[ip][f] <= made[ip][f]
        /\ \A f \in DOMAIN file[ip] : file[ip][f] <= made[ip][f]
    BY DEF IInv, Below
  <2> QED BY <2>1, <2>2, RestoredHash
<1>2. IsStore(hist)' /\ (Below(hist))'
  BY <1>1 DEF Start, IsStore, Below
<1> QED BY <1>2, StoreStep DEF Start, IInv, TypeOK, Below, IsStore

(* A flow that is not decided leaves the batch.                            *)
LEMMA TailBelow ==
    ASSUME IInv, batch # <<>>
    PROVE  /\ Tail(batch) \in Seq([ip : IP, rc : Nat])
           /\ \A i \in 1..Len(Tail(batch)) :
                Tail(batch)[i].rc <= made[Tail(batch)[i].ip]["total"]
           /\ Head(batch) \in [ip : IP, rc : Nat]
           /\ Head(batch).rc <= made[Head(batch).ip]["total"]
<1>1. batch \in Seq([ip : IP, rc : Nat])
  BY DEF IInv, TypeOK
<1>2. /\ Len(batch) \in Nat \ {0}
      /\ Head(batch) = batch[1]
      /\ Tail(batch) \in Seq([ip : IP, rc : Nat])
      /\ Len(Tail(batch)) = Len(batch) - 1
      /\ \A i \in 1..Len(Tail(batch)) : Tail(batch)[i] = batch[i + 1]
  BY <1>1
<1>3. \A i \in 1..Len(batch) : batch[i].rc <= made[batch[i].ip]["total"]
  BY DEF IInv, BatchBelow
<1>4. ASSUME NEW i \in 1..Len(Tail(batch))
      PROVE  Tail(batch)[i].rc <= made[Tail(batch)[i].ip]["total"]
  <2>1. i + 1 \in 1..Len(batch) /\ Tail(batch)[i] = batch[i + 1]
    BY <1>2
  <2> QED BY <1>3, <2>1
<1>5. 1 \in 1..Len(batch) /\ batch[1] \in [ip : IP, rc : Nat]
  <2>1. 1 \in 1..Len(batch)
    BY <1>2
  <2> QED BY <1>1, <2>1, ElementOfSeq
<1> QED BY <1>2, <1>3, <1>4, <1>5

LEMMA SkipStep == IInv /\ (SkipFlow \/ DropBatch \/ UNCHANGED vars) => IInv'
<1> SUFFICES ASSUME IInv, SkipFlow \/ DropBatch \/ UNCHANGED vars PROVE IInv'
  OBVIOUS
<1>1. CASE SkipFlow
  <2>1. BatchBelow' /\ batch' \in Seq([ip : IP, rc : Nat])
    BY <1>1, TailBelow DEF SkipFlow, BatchBelow
  <2>2. TypeOK'
    BY <1>1, <2>1 DEF SkipFlow, IInv, TypeOK, IsStore
  <2> QED BY <1>1, <2>1, <2>2
      DEF SkipFlow, IInv, Below, PermNeedsRepeats, RecommendedIsAllowed
<1>2. CASE DropBatch \/ UNCHANGED vars
  BY <1>2, StoreStep DEF DropBatch, vars, IInv, TypeOK, Below, IsStore
<1> QED BY <1>1, <1>2

LEMMA EnrichStep == IInv /\ Enrich => IInv'
<1> SUFFICES ASSUME IInv, NEW n \in 1..MaxBatch, NEW flows \in [1..n -> IP],
                    batch' = [i \in 1..n |->
                                [ip |-> flows[i], rc |-> Get(hist[flows[i]], "total")]],
                    hist' = [ip \in IP |->
                               IF hist[ip] = NoHash /\ \E i \in 1..n : flows[i] = ip
                               THEN ZeroRecord ELSE hist[ip]],
                    handled' = {},
                    UNCHANGED <<file, copied, todo, phase, up, made, issued>>
             PROVE  IInv'
  BY DEF Enrich
<1>1. n \in Nat /\ made \in [IP -> [HashField -> Nat]]
  <2>1. MaxBatch \in Nat
    BY BoundAssumption
  <2>2. made \in [IP -> [HashField -> Nat]]
    BY DEF IInv, TypeOK, HashField
  <2> QED BY <2>1, <2>2
<1>2. ASSUME NEW ip \in IP
      PROVE  /\ IsHash(hist[ip])
             /\ Get(hist[ip], "total") \in Nat
             /\ Get(hist[ip], "total") <= made[ip]["total"]
  <2>1. IsHash(hist[ip]) /\ \A f \in DOMAIN hist[ip] : hist[ip][f] <= made[ip][f]
    BY DEF IInv, TypeOK, IsStore, Below
  <2>2. made[ip]["total"] \in Nat
    BY <1>1 DEF HashField
  <2> QED BY <2>1, <2>2, HashEntries DEF Get
<1>3. batch' \in Seq([ip : IP, rc : Nat]) /\ BatchBelow'
  <2>1. Len(batch') = n /\ batch' \in [1..n -> [ip : IP, rc : Nat]]
    BY <1>1, <1>2
  <2>2. \A i \in 1..n : batch'[i].rc <= made[batch'[i].ip]["total"]
    BY <1>2
  <2> QED BY <1>1, <2>1, <2>2 DEF BatchBelow
<1>4. ASSUME NEW ip \in IP
      PROVE  /\ IsHash(hist'[ip])
             /\ \A f \in DOMAIN hist'[ip] : hist'[ip][f] <= made[ip][f]
  <2>1. \A f \in HashField : made[ip][f] \in Nat
    BY <1>1
  <2>2. IsHash(ZeroRecord) /\ \A f \in DOMAIN ZeroRecord : ZeroRecord[f] <= made[ip][f]
    BY <2>1, ZeroIsHash
  <2>3. \A f \in DOMAIN hist[ip] : hist[ip][f] <= made[ip][f]
    BY DEF IInv, Below
  <2> HIDE DEF HashField
  <2> QED BY <1>2, <2>2, <2>3
<1>5. IsStore(hist)' /\ (Below(hist))'
  BY <1>4 DEF IsStore, Below
<1>6. TypeOK'
  BY <1>3, <1>5 DEF IInv, TypeOK, IsStore
<1> QED BY <1>3, <1>5, <1>6 DEF IInv, Below, PermNeedsRepeats, RecommendedIsAllowed

(* A decision.  What the engine is asked with is no more than was made, so *)
(* that the numbers a3_ok compares are true ones.                          *)
LEMMA CategoryType ==
    ASSUME NEW label, NEW conf, NEW an
    PROVE  CategoryOf(MakeIds(label, conf), an) \in Category
<1>1. AttackOf(label) \in Category
  <2>1. \A i \in 1..8 : AttackName[i] \in Category
    BY DEF AttackName, Category, Field
  <2>2. "normal" \in Category
    BY DEF Category
  <2>3. CASE \E n \in 1..8 : OccursIn(LabelKey[n], label)
    BY <2>1, <2>3, FirstKey
  <2>4. CASE ~\E n \in 1..8 : OccursIn(LabelKey[n], label)
    BY <2>2, <2>4 DEF AttackOf
  <2> QED BY <2>3, <2>4
<1>2. {"normal", "anomaly"} \subseteq Category
  BY DEF Category, Field
<1> QED BY <1>1, <1>2 DEF CategoryOf, MakeIds

(* What the mask asks before it leaves a permanent block.                  *)
LEMMA PermAsks ==
    ASSUME NEW label \in IdsLabel, NEW conf \in Confidence,
           NEW raw \in Nat, NEW key \in ModelKey, NEW rc \in Nat, NEW net,
           IsAttack(label, conf) \/ IsOutlier(raw, key),
           "perm_block" \in Allowed(MakeIds(label, conf), Normalized(raw, key), rc, net)
    PROVE  LET cat == CategoryOf(MakeIds(label, conf), Normalized(raw, key)) IN
           /\ rc >= 2
           /\ cat \notin {"password", "injection", "xss"} => rc >= 3
           /\ cat # "normal"
<1> DEFINE verdict == MakeIds(label, conf)
<1> DEFINE an == Normalized(raw, key)
<1>1. PermOk(verdict, an, rc)
  BY DEF Allowed
<1>2. CASE IdsOk(verdict) /\ verdict.attack \in {"password", "injection", "xss"} /\ rc > 1
  BY <1>2 DEF CategoryOf
<1>3. CASE StrongAgreement(verdict, an, rc)
  <2>1. rc >= 3
    BY <1>3 DEF StrongAgreement
  <2>2. CategoryOf(verdict, an) # "normal"
    <3>1. SUFFICES ASSUME CategoryOf(MakeIds(label, conf), Normalized(raw, key)) = "normal"
                   PROVE  FALSE
      OBVIOUS
    <3>2. conf \in RoundedToLimit
      <4> HIDE DEF verdict, an
      <4> QED BY <3>1, AlertsHaveACategory
    <3>3. (conf + 5) \div 10 > 8000
      BY <1>3 DEF StrongAgreement, MakeIds
    <3> QED BY <3>2, <3>3 DEF RoundedToLimit
  <2> QED BY <2>1, <2>2
<1> QED BY <1>1, <1>2, <1>3 DEF PermOk

LEMMA HandleStep == IInv /\ HandleFlow => IInv'
<1> SUFFICES ASSUME IInv, HandleFlow PROVE IInv'
  OBVIOUS
<1>1. PICK label \in Label, conf \in Conf, score \in Score, net \in Net :
        LET flow == Head(batch)
            verdict == MakeIds(label, conf)
            an == Normalized(score.raw, score.key)
            cat == CategoryOf(verdict, an)
            allowed == Allowed(verdict, an, flow.rc, net)
        IN
        /\ IsAlert(label, conf, score)
        /\ <<flow.ip, cat>> \notin handled
        /\ made[flow.ip]["total"] < MaxMade
        /\ \E action \in allowed :
            /\ handled' = IF action = "ddos" THEN handled
                          ELSE handled \cup {<<flow.ip, cat>>}
            /\ issued' = [action |-> action, cat |-> cat,
                          before |-> made[flow.ip]["total"],
                          agrees |-> Recommended(verdict, an, flow.rc, net) \in allowed]
        /\ hist' = [hist EXCEPT ![flow.ip] = Counted(@, cat)]
        /\ made' = [made EXCEPT ![flow.ip] = Counted(@, cat)]
  BY Zenon DEF HandleFlow
<1> DEFINE flow == Head(batch)
<1> DEFINE verdict == MakeIds(label, conf)
<1> DEFINE an == Normalized(score.raw, score.key)
<1> DEFINE cat == CategoryOf(verdict, an)
<1> DEFINE allowed == Allowed(verdict, an, flow.rc, net)
<1>2. PICK action \in allowed :
        /\ handled' = IF action = "ddos" THEN handled ELSE handled \cup {<<flow.ip, cat>>}
        /\ issued' = [action |-> action, cat |-> cat,
                      before |-> made[flow.ip]["total"],
                      agrees |-> Recommended(verdict, an, flow.rc, net) \in allowed]
  BY <1>1
<1>3. /\ IsAttack(label, conf) \/ IsOutlier(score.raw, score.key)
      /\ hist' = [hist EXCEPT ![flow.ip] = Counted(hist[flow.ip], cat)]
      /\ made' = [made EXCEPT ![flow.ip] = Counted(made[flow.ip], cat)]
  BY <1>1 DEF IsAlert
<1>4. batch # <<>> /\ batch' = Tail(batch) /\ UNCHANGED <<file, copied, todo, phase, up>>
  BY DEF HandleFlow
<1>5. /\ label \in IdsLabel /\ conf \in Confidence
      /\ score.raw \in Nat /\ score.key \in ModelKey
  <2>1. label \in IdsLabel
    BY LabelAssumption
  <2>2. conf \in Confidence
    BY ConfAssumption
  <2>3. score.raw \in Nat /\ score.key \in ModelKey
    BY ScoreAssumption
  <2> QED BY <2>1, <2>2, <2>3
<1>6. cat \in Category /\ action \in Action
  <2>1. cat \in Category
    BY CategoryType
  <2>2. action \in Action
    BY DEF Allowed, Action
  <2> QED BY <2>1, <2>2
<1>7. Recommended(verdict, an, flow.rc, net) \in allowed
  BY TableWithinMask
<1>8. flow.ip \in IP /\ flow.rc \in Nat /\ flow.rc <= made[flow.ip]["total"]
  BY <1>4, TailBelow
<1>9. action = "perm_block" =>
        /\ flow.rc >= 2
        /\ cat \notin {"password", "injection", "xss"} => flow.rc >= 3
        /\ cat # "normal"
  BY <1>3, <1>5, <1>8, PermAsks
<1> HIDE DEF flow, verdict, an, cat, allowed
<1>10. made \in [IP -> [HashField -> Nat]] /\ "total" \in HashField
  BY DEF IInv, TypeOK, HashField
<1>11. /\ made' \in [IP -> [HashField -> Nat]]
       /\ \A ip \in IP : \A f \in HashField : made[ip][f] <= made'[ip][f]
  <2>1. LET c == Counted(made[flow.ip], cat) IN
          c \in [HashField -> Nat] /\ \A f \in HashField : made[flow.ip][f] <= c[f]
    BY <1>8, <1>10, CountedTruth
  <2>2. \A ip \in IP : \A f \in HashField : made[ip][f] \in Nat
    BY <1>10
  <2> QED BY <1>3, <1>8, <1>10, <2>1, <2>2
<1>12. ASSUME NEW store, IsStore(store), Below(store)
       PROVE  \A ip \in IP : \A f \in DOMAIN store[ip] : store[ip][f] <= made'[ip][f]
  <2> SUFFICES ASSUME NEW ip \in IP, NEW f \in DOMAIN store[ip]
               PROVE  store[ip][f] <= made'[ip][f]
    OBVIOUS
  <2>1. f \in HashField /\ store[ip][f] \in Nat
    BY <1>12 DEF IsStore, IsHash, HashField
  <2>2. store[ip][f] <= made[ip][f]
    BY <1>12 DEF Below
  <2>3. made[ip][f] \in Nat /\ made'[ip][f] \in Nat /\ made[ip][f] <= made'[ip][f]
    BY <1>10, <1>11, <2>1
  <2> QED BY <2>1, <2>2, <2>3
<1>13. /\ IsStore(file)' /\ (Below(file))'
       /\ IsStore(copied)' /\ (Below(copied))'
  <2>1. IsStore(file) /\ Below(file) /\ IsStore(copied) /\ Below(copied)
    BY DEF IInv, TypeOK
  <2>2. IsStore(file)' /\ IsStore(copied)'
    BY <1>4, <2>1 DEF IsStore
  <2> QED BY <1>4, <1>12, <2>1, <2>2 DEF Below
<1>14. IsStore(hist)' /\ (Below(hist))'
  <2>1. IsStore(hist) /\ Below(hist)
    BY DEF IInv, TypeOK
  <2>2. IsHash(hist[flow.ip]) /\ made[flow.ip] \in [HashField -> Nat]
    BY <1>8, <1>10, <2>1 DEF IsStore
  <2>3. IsHash(Counted(hist[flow.ip], cat))
    BY <2>2, CountedHash
  <2>4. \A f \in DOMAIN Counted(hist[flow.ip], cat) :
            Counted(hist[flow.ip], cat)[f] <= Counted(made[flow.ip], cat)[f]
    BY <1>8, <2>1, <2>2, CountedBelow DEF Below
  <2>5. ASSUME NEW ip \in IP
        PROVE  /\ IsHash(hist'[ip])
               /\ \A f \in DOMAIN hist'[ip] : hist'[ip][f] <= made'[ip][f]
    <3>1. CASE ip = flow.ip
      <4>1. hist'[ip] = Counted(hist[flow.ip], cat) /\ made'[ip] = Counted(made[flow.ip], cat)
        BY <1>3, <1>8, <1>10, <2>1, <3>1 DEF IsStore
      <4> QED BY <2>3, <2>4, <4>1
    <3>2. CASE ip # flow.ip
      <4>1. hist'[ip] = hist[ip]
        BY <1>3, <2>1, <3>2 DEF IsStore
      <4> QED BY <1>12, <2>1, <4>1 DEF IsStore
    <3> QED BY <3>1, <3>2
  <2>6. hist' = [ip \in IP |-> hist'[ip]]
    BY <1>3, <2>1 DEF IsStore
  <2> QED BY <2>5, <2>6 DEF IsStore, Below
<1>15. batch' \in Seq([ip : IP, rc : Nat]) /\ BatchBelow'
  <2>1. /\ batch' \in Seq([ip : IP, rc : Nat])
        /\ \A i \in 1..Len(batch') : batch'[i].rc <= made[batch'[i].ip]["total"]
    BY <1>4, TailBelow
  <2>2. ASSUME NEW i \in 1..Len(batch')
        PROVE  batch'[i].rc <= made'[batch'[i].ip]["total"]
    <3>1. batch'[i] \in [ip : IP, rc : Nat]
      BY <2>1, ElementOfSeq
    <3>2. /\ made[batch'[i].ip]["total"] \in Nat
          /\ made'[batch'[i].ip]["total"] \in Nat
          /\ made[batch'[i].ip]["total"] <= made'[batch'[i].ip]["total"]
      BY <1>10, <1>11, <3>1
    <3> QED BY <2>1, <3>1, <3>2
  <2> QED BY <2>1, <2>2 DEF BatchBelow
<1>16. made[flow.ip]["total"] \in Nat
  BY <1>8, <1>10
<1>17. PermNeedsRepeats'
  <2> SUFFICES ASSUME action = "perm_block"
               PROVE  /\ made[flow.ip]["total"] >= 2
                      /\ cat \notin {"password", "injection", "xss"}
                            => made[flow.ip]["total"] >= 3
                      /\ cat # "normal"
    BY <1>2 DEF PermNeedsRepeats
  <2> QED BY <1>8, <1>9, <1>16
<1>18. RecommendedIsAllowed'
  BY <1>2, <1>7 DEF RecommendedIsAllowed
<1>19. TypeOK'
  <2>1. issued' \in [action : Action, cat : Category, before : Nat, agrees : BOOLEAN]
    BY <1>2, <1>6, <1>16
  <2>2. handled' \subseteq IP \X Category
    <3>1. handled \subseteq IP \X Category
      BY DEF IInv, TypeOK
    <3> QED BY <1>2, <1>6, <1>8, <3>1
  <2>3. todo' \subseteq IP /\ phase' \in {"waiting", "reading"} /\ up' \in BOOLEAN
    BY <1>4 DEF IInv, TypeOK
  <2> QED BY <1>11, <1>13, <1>14, <1>15, <2>1, <2>2, <2>3 DEF TypeOK, HashField
<1> QED BY <1>13, <1>14, <1>15, <1>17, <1>18, <1>19 DEF IInv

-------------------------------------------------------------------------------
LEMMA Inductive == Spec => []IInv
<1>1. ASSUME IInv, [Next]_vars PROVE IInv'
  BY <1>1, EnrichStep, SkipStep, HandleStep, ExpireStep, BackupStep, CrashStep, StartStep
     DEF Next
<1> QED BY <1>1, InitEstablishes, PTL DEF Spec

(* The state is well typed.                                                *)
THEOREM DecisionTypeCorrect == Spec => []TypeOK
<1>1. IInv => TypeOK
  BY DEF IInv
<1> QED BY <1>1, Inductive, PTL

(* The history in Redis never claims more decisions about a source than    *)
(* were made, whatever a backup or a restart wrote over it.                *)
THEOREM HistoryIsTrue == Spec => []NeverOvercounts
<1>1. IInv => NeverOvercounts
  BY DEF IInv, Below, NeverOvercounts
<1> QED BY <1>1, Inductive, PTL

(* A permanent block rests on two earlier decisions about the source, on   *)
(* three outside the attacks the decision table blocks for good, and is    *)
(* never filed under "normal".                                             *)
THEOREM PermanentNeedsRepeats == Spec => []PermNeedsRepeats
<1>1. IInv => PermNeedsRepeats
  BY DEF IInv
<1> QED BY <1>1, Inductive, PTL

(* Whatever the mask leaves, the action of the decision table is in it.    *)
THEOREM TableIsAllowed == Spec => []RecommendedIsAllowed
<1>1. IInv => RecommendedIsAllowed
  BY DEF IInv
<1> QED BY <1>1, Inductive, PTL

-------------------------------------------------------------------------------
(* Training.  An attack is one the IDS is sure of, a benign label never;   *)
(* benign traffic stays below the threshold of its model.                  *)
Attack == {"normal", "brute_force", "password", "dos", "ddos", "scanning", "injection", "xss"}

Target == [sources : Nat, pressure : Nat, rate : Nat]

Episode == [pc : {"running"}, attack : Attack, mal : BOOLEAN, key : ModelKey, conf : Nat,
            factor : Nat, net : Target, repeats : Nat, same : Nat, steps : Nat]

Distinct(e) ==
    /\ e.attack = "normal" => e.conf <= 4000
    /\ e.attack # "normal" => e.mal /\ e.conf > 6000
    /\ ~e.mal => e.factor <= 99

EpisodeInv == ep # Over => ep \in Episode /\ Distinct(ep)

(* What every scenario draws from its ranges begins such an episode.       *)
Begins(s) ==
    /\ s.attack \in Attack /\ s.mal \in BOOLEAN /\ s.key \in ModelKey
    /\ \A c \in s.conf : /\ c \in Nat
                         /\ s.attack = "normal" => c <= 4000
                         /\ s.attack # "normal" => s.mal /\ c > 6000
    /\ \A f \in s.factor : f \in Nat /\ (~s.mal => f <= 99)
    /\ s.sources \subseteq Nat /\ s.pressure \subseteq Nat
    /\ s.rate \subseteq Nat /\ s.repeats \subseteq Nat

LEMMA ScenariosBegin ==
    ASSUME NEW s \in Scenarios
    PROVE  Begins(s)
<1>1. s.attack \in Attack /\ s.mal \in BOOLEAN /\ s.key \in ModelKey
  <2>1. s.attack \in Attack
    BY DEF Scenario, Scenarios, Attack
  <2>2. s.mal \in BOOLEAN
    <3>1. s.mal = TRUE \/ s.mal = FALSE
      BY SMTT(20) DEF Scenario, Scenarios
    <3> QED BY <3>1
  <2>3. s.key \in ModelKey
    BY DEF Scenario, Scenarios, ModelKey
  <2> QED BY <2>1, <2>2, <2>3
<1>2. \A c \in s.conf : c \in Nat /\ (s.attack = "normal" => c <= 4000)
  BY DEF Scenario, Scenarios
<1>3. s.attack # "normal" => s.mal /\ \A c \in s.conf : c > 6000
  BY DEF Scenario, Scenarios
<1>4. \A f \in s.factor : f \in Nat /\ (~s.mal => f <= 99)
  BY DEF Scenario, Scenarios
<1>5. s.sources \subseteq Nat /\ s.pressure \subseteq Nat
  BY DEF Scenario, Scenarios
<1>6. s.rate \subseteq Nat /\ s.repeats \subseteq Nat
  BY DEF Scenario, Scenarios
<1> QED BY <1>1, <1>2, <1>3, <1>4, <1>5, <1>6 DEF Begins

LEMMA ResetBegins == Reset => EpisodeInv'
<1> SUFFICES ASSUME Reset PROVE ep' \in Episode /\ Distinct(ep')
  BY DEF EpisodeInv
<1>1. PICK s \in Scenarios :
        \E conf \in s.conf, factor \in s.factor, sources \in s.sources,
           pressure \in s.pressure, rate \in s.rate, rc \in s.repeats :
            ep' = [pc |-> "running", attack |-> s.attack, mal |-> s.mal, key |-> s.key,
                   conf |-> conf, factor |-> factor,
                   net |-> [sources |-> sources, pressure |-> pressure, rate |-> rate],
                   repeats |-> rc, same |-> rc, steps |-> 0]
  BY DEF Reset
<1>2. Begins(s)
  BY ScenariosBegin
<1> QED BY <1>1, <1>2 DEF Begins, Episode, Target, Distinct

LEMMA ScaledIsNat ==
    ASSUME NEW x \in Nat, NEW p \in {2, 8, 30, 50, 55, 85, 95, 97, 100, 105, 108, 112, 118}
    PROVE  Scaled(x, p) \in Nat
BY DEF Scaled

(* The feedback moves the anomaly and the metrics, and those of benign     *)
(* traffic only the pressure.                                              *)
LEMMA FeedbackKeeps ==
    ASSUME NEW e \in Episode, NEW a \in Actions, NEW next \in Feedback(a, e)
    PROVE  /\ next \in Episode
           /\ next.attack = e.attack /\ next.mal = e.mal /\ next.conf = e.conf
           /\ ~e.mal => next.factor = e.factor
<1>0. e.factor \in Nat /\ e.net \in Target
  BY DEF Episode
<1>1. CASE ~e.mal
  <2>1. PICK p \in {95, 105} : next = [e EXCEPT !.net.pressure = Max2(20, Scaled(@, p))]
    BY <1>1 DEF Feedback
  <2>2. Scaled(e.net.pressure, p) \in Nat
    BY <1>0, ScaledIsNat DEF Target
  <2>3. Max2(20, Scaled(e.net.pressure, p)) \in Nat
    BY <2>2 DEF Max2
  <2> QED BY <1>0, <1>1, <2>1, <2>3 DEF Episode, Target
<1>2. CASE e.mal /\ Mitigation(a, e) < 100
  <2>1. next = Weaker(a, e)
    BY <1>2 DEF Feedback
  <2>2. Mitigation(a, e) \in {2, 8, 30, 50, 97, 100}
    BY DEF Mitigation, Actions, Rank
  <2> DEFINE factor == Max2(5, Scaled(e.factor, 55))
             net == next.net
  <2>3. factor \in Nat
    BY <1>0, ScaledIsNat DEF Max2
  <2>4. net.pressure \in Nat /\ net.rate \in Nat
    BY <1>0, <2>1, <2>2, ScaledIsNat DEF Weaker, Max2, Episode, Target
  <2>5. net.sources \in Nat
    BY <1>0, <2>1, ScaledIsNat DEF Weaker, Max2, Episode, Target
  <2>6. net \in Target
    BY <2>1, <2>4, <2>5 DEF Weaker, Target, Episode
  <2>7. next = [e EXCEPT !.factor = factor, !.net = net]
    BY <2>1 DEF Weaker, Episode
  <2> HIDE DEF factor, net
  <2> QED BY <1>2, <2>3, <2>6, <2>7 DEF Episode
<1>3. CASE e.mal /\ ~(Mitigation(a, e) < 100)
  <2>1. next = Stronger(e)
    BY <1>3 DEF Feedback
  <2> DEFINE factor == Min2(200, Scaled(e.factor, 108))
             pressure == Min2(1000, Scaled(e.net.pressure, 118))
             rate == Min2(200, Scaled(e.net.rate, 112))
  <2>2. factor \in Nat /\ pressure \in Nat /\ rate \in Nat
    <3>1. e.net.pressure \in Nat /\ e.net.rate \in Nat
      BY <1>0 DEF Target
    <3>2. Scaled(e.factor, 108) \in Nat
      BY <1>0, ScaledIsNat
    <3>3. Scaled(e.net.pressure, 118) \in Nat
      BY <3>1, ScaledIsNat
    <3>4. Scaled(e.net.rate, 112) \in Nat
      BY <3>1, ScaledIsNat
    <3> QED BY <3>2, <3>3, <3>4 DEF Min2
  <2>3. next = [e EXCEPT !.factor = factor, !.net.pressure = pressure, !.net.rate = rate]
    BY <2>1 DEF Stronger
  <2> HIDE DEF factor, pressure, rate
  <2> QED BY <1>0, <1>3, <2>2, <2>3 DEF Episode, Target
<1> QED BY <1>1, <1>2, <1>3 DEF Episode

LEMMA EpisodeStep == EpisodeInv /\ [TrainNext]_ep => EpisodeInv'
<1> SUFFICES ASSUME EpisodeInv, [TrainNext]_ep PROVE EpisodeInv'
  OBVIOUS
<1>1. CASE Reset
  BY <1>1, ResetBegins
<1>2. ASSUME NEW a \in Actions, Step(a) PROVE EpisodeInv'
  <2>1. ep \in Episode /\ Distinct(ep)
    BY <1>2 DEF Step, EpisodeInv
  <2>2. PICK e \in Feedback(a, ep) :
          LET next == [e EXCEPT !.repeats = @ + 1, !.same = @ + 1, !.steps = @ + 1]
          IN ep' = IF Resolved(a, e) \/ next.steps >= MaxSteps THEN Over ELSE next
    BY <1>2 DEF Step
  <2>3. /\ e \in Episode /\ e.attack = ep.attack /\ e.mal = ep.mal /\ e.conf = ep.conf
        /\ ~ep.mal => e.factor = ep.factor
    BY <2>1, FeedbackKeeps
  <2> DEFINE next == [e EXCEPT !.repeats = @ + 1, !.same = @ + 1, !.steps = @ + 1]
  <2>4. next \in Episode
    <3>1. e.repeats + 1 \in Nat /\ e.same + 1 \in Nat /\ e.steps + 1 \in Nat
      BY <2>3 DEF Episode
    <3>2. next = [e EXCEPT !.repeats = e.repeats + 1, !.same = e.same + 1,
                           !.steps = e.steps + 1]
      OBVIOUS
    <3> HIDE DEF next
    <3> QED BY <2>3, <3>1, <3>2 DEF Episode
  <2>5. next.attack = e.attack /\ next.mal = e.mal /\ next.conf = e.conf /\ next.factor = e.factor
    BY <2>3 DEF Episode
  <2>6. Distinct(next)
    <3> HIDE DEF next
    <3> QED BY <2>1, <2>3, <2>5 DEF Distinct
  <2> QED BY <2>2, <2>4, <2>6 DEF EpisodeInv
<1>3. CASE UNCHANGED ep
  BY <1>3 DEF EpisodeInv
<1> QED BY <1>1, <1>2, <1>3 DEF TrainNext

LEMMA Episodes == TrainSpec => []EpisodeInv
<1>1. TrainInit => EpisodeInv
  BY DEF TrainInit, EpisodeInv
<1> QED BY <1>1, EpisodeStep, PTL DEF TrainSpec

LEMMA NormInRange ==
    ASSUME NEW e \in Episode
    PROVE  Norm(e) \in 0..10000
<1> DEFINE raw == (e.factor * Threshold[e.key]) \div 100
<1>1. raw \in Nat
  <2>1. Threshold[e.key] \in {1900, 500, 663} /\ e.factor \in Nat
    BY DEF Episode, ModelKey, Threshold
  <2> QED BY <2>1
<1>2. e.key \in ModelKey
  BY DEF Episode
<1>3. Norm(e) = Normalized(raw, e.key)
  BY DEF Norm
<1> HIDE DEF raw
<1>4. CASE e.key = "WebTcp"
  BY <1>1, <1>3, <1>4 DEF Normalized, Threshold, AnomalyMax
<1>5. CASE e.key = "NonWebTcp"
  BY <1>1, <1>3, <1>5 DEF Normalized, Threshold, AnomalyMax
<1>6. CASE e.key = "NonWebUDP"
  BY <1>1, <1>3, <1>6 DEF Normalized, Threshold, AnomalyMax
<1> QED BY <1>2, <1>4, <1>5, <1>6 DEF ModelKey

(* Benign traffic is no outlier.                                           *)
LEMMA BenignBelowThreshold ==
    ASSUME NEW e \in Episode, e.factor <= 99
    PROVE  Norm(e) < 6000
<1>1. e.factor \in Nat
  BY DEF Episode
<1>2. CASE e.key = "WebTcp"
  <2>1. (e.factor * 1900) \div 100 \in 0..1899
    BY <1>1
  <2> QED BY <1>2, <2>1 DEF Norm, Normalized, Threshold
<1>3. CASE e.key = "NonWebTcp"
  <2>1. (e.factor * 500) \div 100 \in 0..499
    BY <1>1
  <2> QED BY <1>3, <2>1 DEF Norm, Normalized, Threshold
<1>4. CASE e.key = "NonWebUDP"
  <2>1. (e.factor * 663) \div 100 \in 0..662
    BY <1>1
  <2> QED BY <1>4, <2>1 DEF Norm, Normalized, Threshold
<1> QED BY <1>2, <1>3, <1>4 DEF Episode, ModelKey

(* The agent never learns to block for good what the IDS did not confirm.  *)
THEOREM TrainedOnConfirmed == TrainSpec => []PermOnlyConfirmed
<1>1. ASSUME EpisodeInv PROVE PermOnlyConfirmed
  BY <1>1 DEF EpisodeInv, Distinct, Episode, PermOnlyConfirmed, Masked, Allowed, PermOk,
              StrongAgreement, IdsOk, Ids
<1> QED BY <1>1, Episodes, PTL

LEMMA Ranks ==
    /\ Rank["monitor"] = 0 /\ Rank["rate_limit"] = 1 /\ Rank["temp_block"] = 2
    /\ Rank["perm_block"] = 3 /\ Rank["ddos"] = 4
BY DEF Rank

(* A doubtful source with few repeats is limited, with more it is blocked. *)
LEMMA TableOnDoubt ==
    ASSUME NEW e \in Episode, Distinct(e), ~IdsOk(Ids(e)), IsAnomaly(Norm(e))
    PROVE  Wanted(e) = IF e.repeats <= 2 THEN "rate_limit" ELSE "temp_block"
<1> DEFINE an == Norm(e)
<1>1. an \in 0..10000 /\ an >= 6000
  BY NormInRange DEF IsAnomaly
<1>2. e.attack = "normal" /\ e.conf <= 4000 /\ e.conf \in Nat
  BY DEF IdsOk, Ids, Distinct, Episode
<1> HIDE DEF an
<1>3. ~DdosCond(Ids(e), e.net) /\ ~StrongAgreement(Ids(e), an, e.repeats)
  BY <1>2 DEF DdosCond, StrongAgreement, Ids
<1>4. ForAnomaly(an, e.repeats) = IF e.repeats <= 2 THEN "rate_limit" ELSE "temp_block"
  BY <1>1 DEF ForAnomaly
<1> QED BY <1>3, <1>4 DEF Wanted, Recommended, an

(* In an attack the action of the table is paid for, ...                   *)
LEMMA TablePays ==
    ASSUME NEW e \in Episode, Distinct(e), e.mal
    PROVE  Reward(Wanted(e), e) \in Int /\ Reward(Wanted(e), e) >= 15
<1> DEFINE rec == Wanted(e)
           unsure == ~IdsOk(Ids(e)) /\ IsAnomaly(Norm(e))
<1>1. rec \in Masked(e)
  BY TableWithinMask DEF Wanted, Masked
<1>2. rec \in {"monitor", "rate_limit", "temp_block", "perm_block", "ddos"}
  BY <1>1 DEF Masked, Allowed
<1>3. unsure /\ rec = "temp_block" => ~(e.repeats <= 2)
  BY TableOnDoubt
<1>4. Reward(rec, e) = Distance(rec, rec, e.same) + Shaping(rec, rec, e)
  BY <1>1 DEF Reward
<1>5. Distance(rec, rec, e.same) \in {15, 20, 30, 40, 50}
  <2> HIDE DEF rec
  <2> QED BY <1>2 DEF Distance
<1>6. Shaping(rec, rec, e) \in Nat
  <2> HIDE DEF rec
  <2> QED BY <1>2, <1>3, Ranks DEF Shaping, If
<1> QED BY <1>4, <1>5, <1>6

(* ... and every other one costs.                                          *)
LEMMA OthersCost ==
    ASSUME NEW e \in Episode, Distinct(e), e.mal, NEW a \in Actions, a # Wanted(e)
    PROVE  Reward(a, e) \in Int /\ Reward(a, e) < 0
<1> DEFINE rec == Wanted(e)
           unsure == ~IdsOk(Ids(e)) /\ IsAnomaly(Norm(e))
<1>1. CASE a \notin Masked(e)
  BY <1>1 DEF Reward
<1>2. CASE a \in Masked(e)
  <2>1. Reward(a, e) = Distance(a, rec, e.same) + Shaping(a, rec, e)
    BY <1>2 DEF Reward
  <2>2. /\ a \in {"monitor", "rate_limit", "temp_block", "perm_block", "ddos"}
        /\ rec \in {"monitor", "rate_limit", "temp_block", "perm_block", "ddos"}
    BY <1>2, TableWithinMask DEF Masked, Wanted, Allowed
  <2>3. a # "ddos"
    BY <1>2 DEF Masked, Wanted, Allowed, Recommended
  <2>4. unsure /\ a = "temp_block" => e.repeats <= 2
    BY TableOnDoubt
  <2>5. e.same \in Nat
    BY DEF Episode
  <2>6. Distance(a, rec, e.same) \in Int /\ Distance(a, rec, e.same) <= -15
    <3> HIDE DEF rec
    <3>1. Min2(e.same, 5) \in 0..5
      BY <2>5 DEF Min2
    <3>2. a # rec
      BY DEF rec
    <3> QED BY <2>2, <3>1, <3>2, Ranks DEF Distance
  <2>7. Shaping(a, rec, e) \in Int /\ Shaping(a, rec, e) <= 5
    <3> HIDE DEF rec
    <3>1. a # rec
      BY DEF rec
    <3> QED BY <2>2, <2>3, <2>4, <3>1, Ranks DEF Shaping, If
  <2> QED BY <2>1, <2>6, <2>7
<1> QED BY <1>1, <1>2

(* Whatever the reward adds up, it teaches the table.                      *)
THEOREM RewardTeachesTable == TrainSpec => []RewardPrefersTable
<1>1. ASSUME EpisodeInv PROVE RewardPrefersTable
  <2> SUFFICES ASSUME ep # Over, NEW a \in Actions \ {Wanted(ep)}
               PROVE  Reward(a, ep) < Reward(Wanted(ep), ep)
    BY DEF RewardPrefersTable
  <2>1. ep \in Episode /\ Distinct(ep)
    BY <1>1 DEF EpisodeInv
  <2>2. CASE ep.mal
    <3>1. /\ Reward(Wanted(ep), ep) \in Int /\ Reward(Wanted(ep), ep) >= 15
          /\ Reward(a, ep) \in Int /\ Reward(a, ep) < 0
      BY <2>1, <2>2, TablePays, OthersCost
    <3> QED BY <3>1
  <2>3. CASE ~ep.mal
    <3>1. ep.attack = "normal" /\ ep.conf <= 4000
      BY <2>1, <2>3 DEF Distinct
    <3>2. Norm(ep) < 6000 /\ Norm(ep) \in 0..10000
      BY <2>1, <2>3, BenignBelowThreshold, NormInRange DEF Distinct
    <3>3. Wanted(ep) = "monitor"
      BY <2>1, <3>1, <3>2 DEF Wanted, Recommended, DdosCond, StrongAgreement, IdsOk,
                              ForAnomaly, Ids, Episode
    <3>4. Reward("monitor", ep) = 5
      BY <2>3, <3>1 DEF Reward, Masked, Allowed
    <3>5. Reward(a, ep) = -50
      BY <2>3, <3>1, <3>3 DEF Reward
    <3> QED BY <3>3, <3>4, <3>5
  <2> QED BY <2>2, <2>3
<1> QED BY <1>1, Episodes, PTL

-------------------------------------------------------------------------------
(* The engine.  A reply comes of an engine that is up, and has an answer   *)
(* for each flow that the loaded models account for.                       *)
Accounted ==
    /\ pc = "up" /\ ids # "partial"
    /\ reply.batch \in Seq(FlowData) /\ reply.failing \subseteq Key
    /\ reply.flows = [n \in DOMAIN reply.batch |-> reply.flows[n]]
    /\ reply.scored = AnomalyResults(reply.batch, reply.failing)
    /\ \A n \in DOMAIN reply.batch :
         reply.flows[n] \in Responses(reply.batch[n], IdsResult(reply.batch[n]), reply.scored[n])

Loaded ==
    /\ ids \in {"missing", "partial", "loaded"}
    /\ features \subseteq Key /\ models \subseteq Key /\ scalers \subseteq Key
    /\ agent \in BOOLEAN

EngineInv ==
    /\ Loaded
    /\ pc \in {"off", "anomaly", "agent", "up"}
    /\ pc # "up" => reply = NoReply
    /\ reply.status \in {"none", "no models", "error", "ok"}
    /\ Answered => Accounted

LEMMA EngineInitEstablishes == EngineInit => EngineInv
<1>1. EngineInit => Loaded
  BY Zenon DEF EngineInit, Loaded
<1> QED BY <1>1 DEF EngineInit, EngineInv, NoReply, Answered

LEMMA PredictKeeps ==
    ASSUME EngineInv, Predict
    PROVE  EngineInv'
<1>1. PICK requested \in BoundedSeq(FlowData, MaxFlows), failing \in SUBSET Key :
        reply' \in
            IF ids = "missing" /\ models = {} THEN {[status |-> "no models"]}
            ELSE IF ids = "partial" THEN {[status |-> "error"]}
            ELSE LET anRes == AnomalyResults(requested, failing)
                     Of(n) == Responses(requested[n], IdsResult(requested[n]), anRes[n])
                 IN {[status |-> "ok", batch |-> requested, failing |-> failing,
                      scored |-> anRes, flows |-> r] :
                        r \in {f \in [DOMAIN requested -> UNION {Of(n) : n \in DOMAIN requested}] :
                                 \A n \in DOMAIN requested : f[n] \in Of(n)}}
  BY DEF Predict
<1>2. /\ pc' = pc /\ ids' = ids /\ features' = features /\ models' = models
      /\ scalers' = scalers /\ agent' = agent /\ pc = "up"
  BY DEF Predict, anomaly
<1>5. Loaded'
  BY <1>2 DEF EngineInv, Loaded
<1> DEFINE anRes == AnomalyResults(requested, failing)
           Of(n) == Responses(requested[n], IdsResult(requested[n]), anRes[n])
<1>3. CASE (ids = "missing" /\ models = {}) \/ ids = "partial"
  <2>1. reply' \in {[status |-> "no models"], [status |-> "error"]}
    BY <1>1, <1>3
  <2>2. reply'.status \in {"no models", "error"}
    <3>1. CASE reply' = [status |-> "no models"]
      BY <3>1
    <3>2. CASE reply' = [status |-> "error"]
      BY <3>2
    <3> QED BY <2>1, <3>1, <3>2
  <2> QED BY <1>2, <1>5, <2>2 DEF EngineInv, Answered
<1>4. CASE ~((ids = "missing" /\ models = {}) \/ ids = "partial")
  <2>1. PICK r \in {f \in [DOMAIN requested -> UNION {Of(n) : n \in DOMAIN requested}] :
                       \A n \in DOMAIN requested : f[n] \in Of(n)} :
          reply' = [status |-> "ok", batch |-> requested, failing |-> failing,
                    scored |-> anRes, flows |-> r]
    <3> HIDE DEF Of, anRes
    <3>1. reply' \in {[status |-> "ok", batch |-> requested, failing |-> failing,
                       scored |-> anRes, flows |-> r] :
                        r \in {f \in [DOMAIN requested -> UNION {Of(n) : n \in DOMAIN requested}] :
                                 \A n \in DOMAIN requested : f[n] \in Of(n)}}
      BY <1>1, <1>4 DEF Of, anRes
    <3> QED BY <3>1
  <2> HIDE DEF anRes
  <2>2. /\ reply'.status = "ok" /\ reply'.batch = requested /\ reply'.failing = failing
        /\ reply'.scored = anRes /\ reply'.flows = r
    BY <2>1
  <2>3. requested \in Seq(FlowData)
    <3>1. PICK m \in 0..MaxFlows : requested \in [1..m -> FlowData]
      BY DEF BoundedSeq, SeqOf
    <3>2. m \in Nat
      BY FlowsAssumption
    <3> QED BY <3>1, <3>2, SeqDef
  <2>4. r = [n \in DOMAIN requested |-> r[n]]
    OBVIOUS
  <2>5. \A n \in DOMAIN requested :
           r[n] \in Responses(requested[n], IdsResult(requested[n]), anRes[n])
    OBVIOUS
  <2>6. \A flow : IdsResult(flow)' = IdsResult(flow)
    BY <1>2 DEF IdsResult
  <2>7. \A flow, x, y : Responses(flow, x, y)' = Responses(flow, x, y)
    BY <1>2 DEF Responses, ActionsFor
  <2>8. AnomalyResults(requested, failing)' = AnomalyResults(requested, failing)
    BY <1>2 DEF AnomalyResults, Usable
  <2>9. ids' # "partial" /\ pc' = "up"
    BY <1>2, <1>4
  <2>10. (reply.scored = AnomalyResults(reply.batch, reply.failing))'
    BY <2>2, <2>8 DEF anRes
  <2>11. Accounted'
    BY <2>2, <2>3, <2>4, <2>5, <2>6, <2>7, <2>9, <2>10 DEF Accounted
  <2> QED BY <1>2, <1>5, <2>2, <2>11 DEF EngineInv
<1> QED BY <1>3, <1>4

LEMMA EngineStep == EngineInv /\ [EngineNext]_engineVars => EngineInv'
<1> SUFFICES ASSUME EngineInv, [EngineNext]_engineVars PROVE EngineInv'
  OBVIOUS
<1>1. CASE LoadIds \/ LoadAnomaly \/ LoadAgent
  <2>1. Loaded'
    BY <1>1, Zenon DEF LoadIds, LoadAnomaly, LoadAgent, EngineInv, Loaded, anomaly
  <2>2. pc # "up" /\ pc' \in {"off", "anomaly", "agent", "up"} /\ reply' = reply
    BY <1>1 DEF LoadIds, LoadAnomaly, LoadAgent
  <2>3. reply' = NoReply /\ NoReply.status = "none"
    BY <2>2 DEF EngineInv, NoReply
  <2> QED BY <2>1, <2>2, <2>3 DEF EngineInv, Answered
<1>2. CASE Stop
  <2>1. Loaded'
    BY <1>2, Zenon DEF Stop, Loaded
  <2> QED BY <1>2, <2>1 DEF Stop, EngineInv, Answered, NoReply
<1>3. CASE Predict
  BY <1>3, PredictKeeps
<1>4. CASE UNCHANGED engineVars
  <2>1. Loaded' = Loaded /\ Answered' = Answered
    BY <1>4 DEF engineVars, Loaded, Answered
  <2>2. Accounted' = Accounted
    <3>1. AnomalyResults(reply.batch, reply.failing)' = AnomalyResults(reply.batch, reply.failing)
      BY <1>4 DEF engineVars, AnomalyResults, Usable
    <3>2. \A flow, x, y : Responses(flow, x, y)' = Responses(flow, x, y)
      BY <1>4 DEF engineVars, Responses, ActionsFor
    <3>3. \A flow : IdsResult(flow)' = IdsResult(flow)
      BY <1>4 DEF engineVars, IdsResult
    <3> QED BY <1>4, <3>1, <3>2, <3>3 DEF engineVars, Accounted
  <2> QED BY <1>4, <2>1, <2>2 DEF engineVars, EngineInv
<1> QED BY <1>1, <1>2, <1>3, <1>4 DEF EngineNext

LEMMA EngineInvariant == EngineSpec => []EngineInv
BY EngineInitEstablishes, EngineStep, PTL DEF EngineSpec

(* A reply has an answer for each flow.                                    *)
THEOREM EngineTypeCorrect == EngineSpec => []EngineTypeOK
<1>1. ASSUME EngineInv PROVE EngineTypeOK
  <2>1. ASSUME Answered PROVE Len(reply.flows) = Len(reply.batch)
    <3>1. reply.batch \in Seq(FlowData)
      BY <1>1, <2>1 DEF EngineInv, Accounted
    <3>2. DOMAIN reply.batch = 1..Len(reply.batch) /\ Len(reply.batch) \in Nat
      BY <3>1
    <3> DEFINE m == Len(reply.batch)
               flows == [n \in 1..m |-> reply.flows[n]]
    <3>3. reply.flows = flows
      BY <1>1, <2>1, <3>2 DEF EngineInv, Accounted
    <3>4. flows \in [1..m -> {reply.flows[n] : n \in 1..m}]
      OBVIOUS
    <3>5. flows \in Seq({reply.flows[n] : n \in 1..m}) /\ DOMAIN flows = 1..m
      <4> HIDE DEF flows, m
      <4>1. DOMAIN flows = 1..m
        BY <3>4
      <4> QED BY <3>2, <3>4, <4>1, SeqDef DEF m
    <3> HIDE DEF flows
    <3> QED BY <3>2, <3>3, <3>5
  <2> QED BY <1>1, <2>1 DEF EngineInv, Loaded, Accounted, EngineTypeOK
<1> QED BY <1>1, EngineInvariant, PTL

(* The attacks a label stands for.                                         *)
LEMMA AttackRange ==
    ASSUME NEW label
    PROVE  AttackOf(label) \in Attack \ {"ddos"}
<1>1. CASE \E n \in 1..8 : OccursIn(LabelKey[n], label)
  <2>1. PICK i \in 1..8 : AttackOf(label) = AttackName[i]
    BY <1>1, FirstKey
  <2> QED BY <2>1, AttackOfLabel DEF AttackName, Attack
<1>2. CASE ~\E n \in 1..8 : OccursIn(LabelKey[n], label)
  BY <1>2 DEF AttackOf, Attack
<1> QED BY <1>1, <1>2

(* What the table recommends for a confirmed attack, its reason explains.  *)
LEMMA TableIsExplained ==
    ASSUME NEW label, NEW conf, NEW an, NEW flow \in FlowData, IdsOk(MakeIds(label, conf))
    PROVE  LET i == MakeIds(label, conf)
           IN  Holds(Reason(Recommended(i, an, flow.rc, NoTarget), i, an, flow.rc), i, an, flow)
<1> DEFINE i == MakeIds(label, conf)
           rc == flow.rc
<1>1. i.attack \in {"brute_force", "password", "dos", "scanning", "injection", "xss"}
  BY AttackRange DEF IdsOk, MakeIds, Attack
<1>2. IdsOk(i)
  OBVIOUS
<1> HIDE DEF i
<1>3. ~DdosCond(i, NoTarget)
  BY <1>1 DEF DdosCond
<1>4. AsCounted(flow).rc = rc /\ AsCounted(flow).same = rc
  BY FlowAssumption DEF AsCounted
<1> SUFFICES Holds(Reason(Recommended(i, an, rc, NoTarget), i, an, rc), i, an, flow)
  BY DEF i
<1>5. CASE StrongAgreement(i, an, rc)
  <2>1. Recommended(i, an, rc, NoTarget) = "perm_block"
    BY <1>3, <1>5 DEF Recommended
  <2>2. Reason("perm_block", i, an, rc) = "all strongly agree"
    BY <1>5 DEF Reason
  <2>3. an > 5000 /\ rc > 2
    BY <1>5 DEF StrongAgreement
  <2>4. IsTrue("all strongly agree", i, an, flow)
    BY <1>2, <2>3 DEF IsTrue
  <2> QED BY <2>1, <2>2, <2>4 DEF Holds
<1>6. CASE ~StrongAgreement(i, an, rc)
  <2>1. Recommended(i, an, rc, NoTarget) = ForAttack(i, an, rc)
    BY <1>2, <1>3, <1>6 DEF Recommended
  <2>2. CASE ForAttack(i, an, rc) = "rate_limit"
    <3>1. rc = 0
      BY <1>1, <2>2 DEF ForAttack
    <3>2. Reason("rate_limit", i, an, rc) = "first occurrence from this source"
      BY <1>1 DEF Reason
    <3> QED BY <2>1, <2>2, <3>1, <3>2 DEF IsTrue, Holds
  <2>3. CASE ForAttack(i, an, rc) = "temp_block"
    BY <1>2, <2>1, <2>3 DEF IsTrue, Reason, Holds
  <2>4. CASE ForAttack(i, an, rc) = "perm_block"
    <3>1. PermOk(i, an, rc)
      BY <2>4 DEF ForAttack
    <3>2. Reason("perm_block", i, an, rc) = "has repeated a high-severity attack"
      BY <1>6 DEF Reason
    <3>3. i.attack \in {"password", "injection", "xss"} /\ rc > 1
      BY <1>6, <3>1 DEF PermOk
    <3>4. CASE flow.same = rc
      BY <1>2, <2>1, <2>4, <3>2, <3>3, <3>4 DEF IsTrue, Holds
    <3>5. CASE flow.same # rc
      BY <1>2, <1>4, <2>1, <2>4, <3>2, <3>3, <3>5 DEF IsTrue, Holds
    <3> QED BY <3>4, <3>5
  <2> QED BY <2>2, <2>3, <2>4 DEF ForAttack
<1> QED BY <1>5, <1>6

(* Where the IDS confirmed an attack and the agent took the action of the  *)
(* table, the reason the admin reads is true of the flow; only a permanent *)
(* block for repetitions is explained by a count that takes the source's   *)
(* other attacks for this one (state_adapter.py:40).                       *)
THEOREM ReasonsAreTrue == EngineSpec => []ReasonsHold
<1>1. ASSUME EngineInv PROVE ReasonsHold
  <2> SUFFICES ASSUME Answered, NEW n \in DOMAIN reply.batch PROVE
        LET flow == reply.batch[n]
            r == reply.flows[n]
            i == MakeIds(IdsResult(flow).label, IdsResult(flow).conf)
            an == NormOf(reply.scored[n])
        IN r.alert /\ IdsOk(i) /\ ~r.suppressed
            /\ r.action = Recommended(i, an, flow.rc, NoTarget)
            => Holds(r.reason, i, an, flow)
    BY DEF ReasonsHold
  <2> DEFINE flow == reply.batch[n]
             r == reply.flows[n]
             label == IdsResult(flow).label
             conf == IdsResult(flow).conf
             an == NormOf(reply.scored[n])
  <2>1. r \in Responses(flow, IdsResult(flow), reply.scored[n])
    BY <1>1 DEF EngineInv, Accounted
  <2>2. r.alert => r.reason = Reason(r.action, MakeIds(label, conf), an, flow.rc)
    <3> HIDE DEF flow, r
    <3> QED BY <2>1 DEF Responses, Silent
  <2>3. flow \in FlowData
    <3>1. reply.batch \in Seq(FlowData)
      BY <1>1 DEF EngineInv, Accounted
    <3> QED BY <3>1
  <2> HIDE DEF flow, r, label, conf, an
  <2> QED BY <2>2, <2>3, TableIsExplained DEF flow, r, label, conf, an
<1> QED BY <1>1, EngineInvariant, PTL

(* The rows of a group.  A place has as many places of its kind up to it   *)
(* as no other has, ...                                                    *)
LEMMA RanksDiffer ==
    ASSUME NEW S \in SUBSET Nat, IsFiniteSet(S), NEW i \in S, NEW j \in S,
           Cardinality({k \in S : k <= i}) = Cardinality({k \in S : k <= j})
    PROVE  i = j
<1> DEFINE Upto(n) == {k \in S : k <= n}
<1>1. \A n : IsFiniteSet(Upto(n))
  BY FS_Subset
<1>2. ASSUME NEW m \in S, NEW n \in S, m <= n, Cardinality(Upto(n)) = Cardinality(Upto(m))
      PROVE  m = n
  <2>1. Upto(m) \in SUBSET Upto(n)
    <3>1. \A k \in S : k <= m => k <= n
      BY <1>2
    <3> QED BY <3>1
  <2>2. Upto(n) = Upto(m)
    <3> HIDE DEF Upto
    <3> QED BY <1>1, <1>2, <2>1, FS_Subset
  <2>3. n \in Upto(n)
    OBVIOUS
  <2> QED BY <1>2, <2>2, <2>3
<1>3. i <= j \/ j <= i
  OBVIOUS
<1> QED BY <1>2, <1>3

(* ... so that the group has each of its places once, ...                  *)
LEMMA GroupHasPlace ==
    ASSUME NEW flows \in Seq(FlowData), NEW i \in DOMAIN flows, ~flows[i].white
    PROVE  \E j \in DOMAIN Group(flows, flows[i].kind) : Group(flows, flows[i].kind)[j] = i
<1> DEFINE key == flows[i].kind
           places == {k \in DOMAIN flows : ~flows[k].white /\ flows[k].kind = key}
           Upto(n) == {k \in places : k <= n}
           rows == [j \in 1..Cardinality(places) |->
                       CHOOSE k \in places : Cardinality(Upto(k)) = j]
           j == Cardinality(Upto(i))
<1>1. DOMAIN flows = 1..Len(flows) /\ Len(flows) \in Nat
  OBVIOUS
<1>2. places \in SUBSET (1..Len(flows)) /\ places \in SUBSET Nat /\ i \in places
  BY <1>1
<1>3. IsFiniteSet(places) /\ Cardinality(places) \in Nat
  <2>1. IsFiniteSet(1..Len(flows))
    BY <1>1, FS_Interval
  <2> HIDE DEF places
  <2>2. IsFiniteSet(places)
    BY <1>2, <2>1, FS_Subset
  <2> QED BY <2>2, FS_CardinalityType
<1>4. Group(flows, key) = rows
  BY DEF Group
<1> HIDE DEF key, places
<1>5. j \in 1..Cardinality(places)
  <2>1. Upto(i) \in SUBSET places /\ i \in Upto(i)
    BY <1>2
  <2> HIDE DEF Upto
  <2>2. IsFiniteSet(Upto(i)) /\ Cardinality(Upto(i)) <= Cardinality(places)
    BY <1>3, <2>1, FS_Subset
  <2>3. Cardinality(Upto(i)) \in Nat /\ Cardinality(Upto(i)) # 0
    BY <2>1, <2>2, FS_CardinalityType, FS_EmptySet
  <2> QED BY <1>3, <2>2, <2>3
<1>6. \A k \in places : Cardinality(Upto(k)) = j => k = i
  BY <1>2, <1>3, RanksDiffer
<1>7. (CHOOSE k \in places : Cardinality(Upto(k)) = j) = i
  <2> HIDE DEF Upto
  <2>1. \E k \in places : Cardinality(Upto(k)) = j
    BY <1>2
  <2> QED BY <1>6, <2>1
<1>8. rows[j] = i
  <2> HIDE DEF Upto, j
  <2> QED BY <1>5, <1>7
<1> QED BY <1>4, <1>5, <1>8 DEF key

(* ... and every flow its own score.                                       *)
LEMMA OwnScore ==
    ASSUME NEW flows \in Seq(FlowData), NEW i \in DOMAIN flows, ~flows[i].white
    PROVE  ScoreOf(flows, i) = flows[i].raw
<1> DEFINE rows == Group(flows, flows[i].kind)
           scores == [j \in DOMAIN rows |-> flows[rows[j]].raw]
           own == CHOOSE j \in DOMAIN rows : rows[j] = i
<1>1. ScoreOf(flows, i) = scores[own]
  BY DEF ScoreOf
<1>2. \E j \in DOMAIN rows : rows[j] = i
  BY GroupHasPlace
<1> HIDE DEF rows
<1>3. own \in DOMAIN rows /\ rows[own] = i
  BY <1>2
<1> HIDE DEF own
<1> QED BY <1>1, <1>3

(* What the anomaly stage finds of a flow depends on that flow alone.      *)
Found(flow, failing) ==
    IF flow.white \/ flow.kind = "none" \/ models = {} THEN NotScored("n/a")
    ELSE IF ~Usable(flow.kind) \/ flow.kind \in failing THEN NotScored(flow.kind)
    ELSE [model |-> flow.kind, raw |-> flow.raw, outlier |-> IsOutlier(flow.raw, flow.kind)]

LEMMA FoundAlone ==
    ASSUME NEW flows \in Seq(FlowData), NEW failing, NEW i \in DOMAIN flows
    PROVE  AnomalyResults(flows, failing)[i] = Found(flows[i], failing)
<1>1. ~flows[i].white => ScoreOf(flows, i) = flows[i].raw
  BY OwnScore
<1> QED BY <1>1 DEF AnomalyResults, Found

(* Whatever the batch, a flow has the result of a batch of its own.        *)
THEOREM VerdictIsOwn == EngineSpec => []OwnVerdict
<1>1. ASSUME EngineInv PROVE OwnVerdict
  <2> SUFFICES ASSUME Answered, NEW i \in DOMAIN reply.batch
               PROVE  LET flow == reply.batch[i] IN
                      IF flow.kind \in reply.failing THEN ~reply.scored[i].outlier
                      ELSE reply.scored[i] = AnomalyResults(<<flow>>, {})[1]
    BY DEF OwnVerdict
  <2> DEFINE flow == reply.batch[i]
             one == <<flow>>
  <2>1. /\ reply.batch \in Seq(FlowData) /\ flow \in FlowData
        /\ reply.scored = AnomalyResults(reply.batch, reply.failing)
    <3>1. reply.batch \in Seq(FlowData)
      BY <1>1 DEF EngineInv, Accounted
    <3>2. flow \in FlowData
      BY <3>1
    <3> QED BY <1>1, <3>1, <3>2 DEF EngineInv, Accounted
  <2>2. reply.scored[i] = Found(flow, reply.failing)
    BY <2>1, FoundAlone
  <2>3. one \in Seq(FlowData) /\ 1 \in DOMAIN one /\ one[1] = flow
    BY <2>1
  <2>4. AnomalyResults(one, {})[1] = Found(flow, {})
    <3> HIDE DEF one
    <3>1. AnomalyResults(one, {})[1] = Found(one[1], {})
      BY <2>3, FoundAlone
    <3> QED BY <2>3, <3>1
  <2>5. CASE flow.kind \in reply.failing
    BY <2>2, <2>5 DEF Found, NotScored
  <2>6. CASE flow.kind \notin reply.failing
    BY <2>2, <2>4, <2>6 DEF Found
  <2> QED BY <2>5, <2>6
<1> QED BY <1>1, EngineInvariant, PTL

(* An alert has its cause in the flow and in the models that judged it,    *)
(* and what a model found is always an alert.                              *)
THEOREM AlertsCaused == EngineSpec => []AlertsHaveCause
<1>1. ASSUME EngineInv PROVE AlertsHaveCause
  <2> SUFFICES ASSUME Answered, NEW i \in DOMAIN reply.batch
               PROVE  LET flow == reply.batch[i] IN
                      reply.flows[i].alert <=>
                        /\ ~flow.white
                        /\ \/ ids = "loaded" /\ IsAttack(flow.label, flow.conf)
                           \/ /\ flow.kind \in features \cap models \cap scalers
                              /\ flow.kind \notin reply.failing
                              /\ IsOutlier(flow.raw, flow.kind)
    BY DEF AlertsHaveCause
  <2> DEFINE flow == reply.batch[i]
             r == reply.flows[i]
             an == reply.scored[i]
  <2>1. /\ reply.batch \in Seq(FlowData) /\ flow \in FlowData
        /\ an = AnomalyResults(reply.batch, reply.failing)[i]
        /\ r \in Responses(flow, IdsResult(flow), an)
    <3>1. reply.batch \in Seq(FlowData)
      BY <1>1 DEF EngineInv, Accounted
    <3>2. flow \in FlowData
      BY <3>1
    <3> QED BY <1>1, <3>1, <3>2 DEF EngineInv, Accounted
  <2>2. an = Found(flow, reply.failing)
    BY <2>1, FoundAlone
  <2>3. r.alert <=> ~flow.white /\ (IdsResult(flow).attack \/ an.outlier)
    <3> HIDE DEF flow, r, an
    <3> QED BY <2>1 DEF Responses, Silent
  <2>4. ~flow.white => (IdsResult(flow).attack <=> ids = "loaded" /\ IsAttack(flow.label, flow.conf))
    <3>1. ids \in {"missing", "loaded"}
      BY <1>1 DEF EngineInv, Loaded, Accounted
    <3> QED BY <3>1 DEF IdsResult
  <2>5. ~flow.white => (an.outlier <=> /\ flow.kind \in features \cap models \cap scalers
                                      /\ flow.kind \notin reply.failing
                                      /\ IsOutlier(flow.raw, flow.kind))
    <3>1. features \subseteq Key /\ "none" \notin Key
      BY <1>1, KeyAssumption DEF EngineInv, Loaded, ModelKey
    <3>2. Usable(flow.kind) <=> flow.kind \in features \cap models \cap scalers
      BY DEF Usable
    <3>3. Usable(flow.kind) => models # {} /\ flow.kind # "none"
      BY <3>1, <3>2
    <3> HIDE DEF flow, an
    <3> QED BY <2>2, <3>2, <3>3 DEF Found, NotScored
  <2> QED BY <2>3, <2>4, <2>5
<1> QED BY <1>1, EngineInvariant, PTL

-------------------------------------------------------------------------------
(* More evidence, never a milder answer.                                   *)
LEMMA NormalizedGrows ==
    ASSUME NEW key \in ModelKey, NEW x \in Nat, NEW y \in Nat, x <= y
    PROVE  /\ Normalized(x, key) \in Int /\ Normalized(y, key) \in Int
           /\ Normalized(x, key) <= Normalized(y, key)
<1>1. CASE key = "WebTcp"
  BY <1>1, SMTT(20) DEF Normalized, Threshold, AnomalyMax
<1>2. CASE key = "NonWebTcp"
  BY <1>2, SMTT(20) DEF Normalized, Threshold, AnomalyMax
<1>3. CASE key = "NonWebUDP"
  BY <1>3, SMTT(20) DEF Normalized, Threshold, AnomalyMax
<1> QED BY <1>1, <1>2, <1>3 DEF ModelKey

LEMMA TableGrows ==
    ASSUME NEW attack \in Attack \ {"ddos"}, NEW c \in Int, NEW d \in Int, c <= d,
           NEW x \in Int, NEW y \in Int, x <= y, NEW m \in Nat, NEW n \in Nat, m <= n,
           NEW net, NEW net2
    PROVE  LET few == [attack |-> attack, conf |-> c]
               more == [attack |-> attack, conf |-> d]
           IN  /\ Rank[Recommended(few, x, m, net)] <= Rank[Recommended(more, y, n, net2)]
               /\ Allowed(few, x, m, net) \subseteq Allowed(more, y, n, net2)
<1> DEFINE few == [attack |-> attack, conf |-> c]
           more == [attack |-> attack, conf |-> d]
<1>1. /\ few.attack = attack /\ few.conf = c /\ more.attack = attack /\ more.conf = d
      /\ attack # "ddos"
  OBVIOUS
<1> HIDE DEF few, more
<1>2. /\ IdsOk(few) => IdsOk(more)
      /\ StrongAgreement(few, x, m) => StrongAgreement(more, y, n)
      /\ PermOk(few, x, m) => PermOk(more, y, n)
      /\ ~DdosCond(few, net) /\ ~DdosCond(more, net2)
  BY <1>1 DEF IdsOk, StrongAgreement, PermOk, DdosCond
<1>3. Rank[Recommended(few, x, m, net)] <= Rank[Recommended(more, y, n, net2)]
  <2>1. CASE StrongAgreement(more, y, n)
    <3>1. Recommended(more, y, n, net2) = "perm_block"
      BY <1>2, <2>1 DEF Recommended
    <3>2. Recommended(few, x, m, net) \in {"monitor", "rate_limit", "temp_block", "perm_block"}
      BY <1>2 DEF Recommended, ForAttack, ForAnomaly
    <3> QED BY <3>1, <3>2, Ranks
  <2>2. CASE ~StrongAgreement(more, y, n) /\ IdsOk(few)
    <3>1. /\ Recommended(few, x, m, net) = ForAttack(few, x, m)
          /\ Recommended(more, y, n, net2) = ForAttack(more, y, n)
      BY <1>2, <2>2 DEF Recommended
    <3>2. CASE attack \in {"brute_force", "scanning", "dos"}
      BY <1>1, <3>1, <3>2, Ranks DEF ForAttack
    <3>3. CASE attack \in {"password", "injection", "xss"}
      BY <1>1, <1>2, <3>1, <3>3, Ranks DEF ForAttack
    <3> QED BY <1>1, <2>2, <3>2, <3>3 DEF Attack, IdsOk
  <2>3. CASE ~StrongAgreement(more, y, n) /\ ~IdsOk(few) /\ IdsOk(more)
    <3>1. /\ Recommended(few, x, m, net) = ForAnomaly(x, m)
          /\ Recommended(more, y, n, net2) = ForAttack(more, y, n)
      BY <1>2, <2>3 DEF Recommended
    <3>2. /\ ForAnomaly(x, m) \in {"monitor", "rate_limit", "temp_block"}
          /\ m <= 2 => ForAnomaly(x, m) \in {"monitor", "rate_limit"}
      BY DEF ForAnomaly
    <3>3. /\ ForAttack(more, y, n) \in {"rate_limit", "temp_block", "perm_block"}
          /\ n # 0 => ForAttack(more, y, n) \in {"temp_block", "perm_block"}
      BY <1>1, <2>3 DEF ForAttack, Attack, IdsOk
    <3>4. CASE m <= 2
      BY <3>1, <3>2, <3>3, <3>4, Ranks
    <3>5. CASE ~(m <= 2)
      <4>1. n # 0
        BY <3>5
      <4> QED BY <3>1, <3>2, <3>3, <4>1, Ranks
    <3> QED BY <3>4, <3>5
  <2>4. CASE ~StrongAgreement(more, y, n) /\ ~IdsOk(more)
    <3>1. /\ Recommended(few, x, m, net) = ForAnomaly(x, m)
          /\ Recommended(more, y, n, net2) = ForAnomaly(y, n)
      BY <1>2, <2>4 DEF Recommended
    <3> QED BY <3>1, Ranks DEF ForAnomaly
  <2> QED BY <1>2, <2>1, <2>2, <2>3, <2>4
<1>4. Allowed(few, x, m, net) \subseteq Allowed(more, y, n, net2)
  BY <1>2 DEF Allowed
<1> QED BY <1>3, <1>4 DEF few, more

(* A higher confidence, a higher score and more decisions on record never  *)
(* make the table recommend a weaker action, nor take an action from the   *)
(* mask (get_mask, recommended, normalize_anomaly_score).                  *)
THEOREM EvidenceEscalates ==
    ASSUME NEW label, NEW key \in ModelKey,
           NEW conf \in Confidence, NEW conf2 \in Confidence, conf <= conf2,
           NEW raw \in Nat, NEW raw2 \in Nat, raw <= raw2,
           NEW rc \in Nat, NEW rc2 \in Nat, rc <= rc2, NEW net, NEW net2
    PROVE  LET few == MakeIds(label, conf)
               more == MakeIds(label, conf2)
               an == Normalized(raw, key)
               an2 == Normalized(raw2, key)
           IN  /\ Rank[Recommended(few, an, rc, net)] <= Rank[Recommended(more, an2, rc2, net2)]
               /\ Allowed(few, an, rc, net) \subseteq Allowed(more, an2, rc2, net2)
<1> DEFINE attack == AttackOf(label)
           c == (conf + 5) \div 10
           d == (conf2 + 5) \div 10
           an == Normalized(raw, key)
           an2 == Normalized(raw2, key)
<1>1. attack \in Attack \ {"ddos"}
  BY AttackRange
<1>2. c \in Int /\ d \in Int /\ c <= d
  BY SMTT(20) DEF Confidence
<1>3. an \in Int /\ an2 \in Int /\ an <= an2
  BY NormalizedGrows
<1>4. /\ MakeIds(label, conf) = [attack |-> attack, conf |-> c]
      /\ MakeIds(label, conf2) = [attack |-> attack, conf |-> d]
  BY DEF MakeIds
<1> HIDE DEF attack, c, d, an, an2
<1>5. LET few == [attack |-> attack, conf |-> c]
          more == [attack |-> attack, conf |-> d]
      IN  /\ Rank[Recommended(few, an, rc, net)] <= Rank[Recommended(more, an2, rc2, net2)]
          /\ Allowed(few, an, rc, net) \subseteq Allowed(more, an2, rc2, net2)
  BY <1>1, <1>2, <1>3, TableGrows
<1> QED BY <1>4, <1>5 DEF an, an2
================================================================================
