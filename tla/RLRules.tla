-------------------------------- MODULE RLRules --------------------------------
(***************************************************************************)
(* The rules of the mitigation decision, rl_inference.py: what the labels, *)
(* confidences and scores of the models mean, what the mask allows, what   *)
(* the decision table recommends, and how severe an alert is.              *)
(*                                                                         *)
(* Confidences are in units of 1/100000, scores in hundredths, normalised  *)
(* scores in units of 1/10000, rounded down; no score in hundredths falls  *)
(* between a threshold and the next unit above it.                         *)
(***************************************************************************)
EXTENDS Integers, Sequences

ModelKey == {"WebTcp", "NonWebTcp", "NonWebUDP"}

-------------------------------------------------------------------------------
(* Attack type, anomaly and category.                                      *)

\* The keys of IDS_LABEL_MAP in their order, and the attacks they stand for.
LabelKey == <<"benign", "brute force", "password", "dos", "ddos", "scanning",
              "injection", "xss">>
AttackName == <<"normal", "brute_force", "password", "dos", "ddos", "scanning",
                "injection", "xss">>

\* `k in l`: a key occurs in a label.
OccursIn(k, l) == k = l \/ (k = "dos" /\ l = "ddos")

\* The labels of the model and of the anchor engine; "n/a" without a model.
IdsLabel == {"benign", "brute force", "password", "dos", "ddos", "scanning",
             "injection", "xss", "n/a"}

Confidence == 0..100000

\* ids_label_to_int: the first key that occurs in the label.
AttackOf(label) ==
    LET hits == {i \in 1..8 : OccursIn(LabelKey[i], label)}
    IN IF hits = {} THEN "normal"
       ELSE AttackName[CHOOSE i \in hits : \A j \in hits : i <= j]

\* make_ids, with the confidence run_ids_batch rounded to four digits.
MakeIds(label, conf) == [attack |-> AttackOf(label), conf |-> (conf + 5) \div 10]

Threshold == [WebTcp |-> 1900, NonWebTcp |-> 500, NonWebUDP |-> 663]
AnomalyMax == [WebTcp |-> 3000, NonWebTcp |-> 1000, NonWebUDP |-> 1000]

\* normalize_anomaly_score.
Normalized(raw, key) ==
    IF raw <= Threshold[key] THEN (raw * 6000) \div Threshold[key]
    ELSE IF raw >= AnomalyMax[key] THEN 10000
    ELSE 6000 + ((raw - Threshold[key]) * 4000) \div (AnomalyMax[key] - Threshold[key])

\* run_ids_batch and run_anomaly_batch: what makes a flow an alert.
IsAttack(label, conf) == label \notin {"benign", "n/a"} /\ conf >= 60000
IsOutlier(raw, key) == raw > Threshold[key]

\* _build_full_response: the RL stage is asked of alerts only.
IsAlert(label, conf, score) ==
    IsAttack(label, conf) \/ IsOutlier(score.raw, score.key)

IsAnomaly(an) == an >= 6000

IdsOk(ids) == ids.attack # "normal" /\ ids.conf > 6000

\* attack_category.
CategoryOf(ids, an) ==
    IF IdsOk(ids) THEN ids.attack ELSE IF IsAnomaly(an) THEN "anomaly" ELSE "normal"

-------------------------------------------------------------------------------
(* The mask and the decision table.                                        *)

DdosCond(ids, net) ==
    /\ ids.attack = "ddos" /\ ids.conf > 6000
    /\ net.sources > 10 /\ net.pressure > 300 /\ net.rate >= 50

\* Rule 12, at more than two decisions on record.
StrongAgreement_AnyConf(ids, an, rc) == an > 5000 /\ rc > 2

StrongAgreement(ids, an, rc) == ids.conf > 8000 /\ an > 5000 /\ rc > 2

\* a3_ok.
PermOk_Once(ids, an, rc) ==
    \/ StrongAgreement(ids, an, rc)
    \/ IdsOk(ids) /\ ids.attack \in {"password", "injection", "xss"} /\ rc > 0

PermOk_TableOnly(ids, an, rc) ==
    IdsOk(ids) /\ ids.attack \in {"password", "injection", "xss"} /\ rc > 1

PermOk(ids, an, rc) ==
    \/ StrongAgreement(ids, an, rc)
    \/ IdsOk(ids) /\ ids.attack \in {"password", "injection", "xss"} /\ rc > 1

\* get_mask: the actions it leaves.  A whitelisted flow does not get here.
Allowed(ids, an, rc, net) ==
    {"monitor", "rate_limit", "temp_block"}
      \cup {a \in {"perm_block"} : PermOk(ids, an, rc)}
      \cup {a \in {"ddos"} : DdosCond(ids, net)}

\* recommended, the table the trained agent is validated against.
ForAttack(ids, an, rc) ==
    IF ids.attack \in {"brute_force", "scanning", "dos"}
    THEN IF rc = 0 THEN "rate_limit" ELSE "temp_block"
    ELSE IF ids.attack \in {"password", "injection", "xss"}
    THEN IF PermOk(ids, an, rc) THEN "perm_block" ELSE "temp_block"
    ELSE "rate_limit"

ForAnomaly(an, rc) ==
    IF an < 6000 THEN "monitor" ELSE IF rc <= 2 THEN "rate_limit" ELSE "temp_block"

Recommended(ids, an, rc, net) ==
    IF DdosCond(ids, net) THEN "ddos"
    ELSE IF StrongAgreement(ids, an, rc) THEN "perm_block"
    ELSE IF IdsOk(ids) THEN ForAttack(ids, an, rc)
    ELSE ForAnomaly(an, rc)

(* Severity, 1 (LOW) to 4 (CRITICAL).                                      *)
IdsSeverity(attack) ==
    IF attack = "normal" THEN 1
    ELSE IF attack \in {"brute_force", "scanning"} THEN 2
    ELSE IF attack \in {"password", "injection", "xss", "dos"} THEN 3
    ELSE 4

AnomalySeverity(an) ==
    IF an < 5000 THEN 1 ELSE IF an < 6500 THEN 2 ELSE IF an < 8000 THEN 3 ELSE 4

FinalSeverity(attack, an) ==
    IF attack = "normal" THEN AnomalySeverity(an)
    ELSE IF an >= 6000 /\ IdsSeverity(attack) < 4 THEN IdsSeverity(attack) + 1
    ELSE IdsSeverity(attack)

================================================================================
