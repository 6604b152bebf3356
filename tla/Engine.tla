-------------------------------- MODULE Engine --------------------------------
(***************************************************************************)
(* The AI engine: what it loads when it starts, and /predict, which takes  *)
(* a batch of flows through the IDS, the anomaly models, the mitigation    *)
(* and the explanation (api_for_anomaly_IDS.py, explainability.py).        *)
(*                                                                         *)
(* The handler does not await anything between reading the batch and its   *)
(* answer, so that a batch is one step.  What the models compute is a      *)
(* property of the flow: the label and the confidence after the anchor     *)
(* engine (AnchorEngine), the anomaly score of the model of its kind.      *)
(* Every anomaly model is one with a decision_function.  A scaler or a     *)
(* model may fail on the flows it is given, all of a kind together.  The   *)
(* metrics of the target are left out: they decide about DDoS responses    *)
(* only, and no label means a DDoS (DdosNeverAllowed of RLDecisionProofs). *)
(***************************************************************************)
EXTENDS RLRules, FiniteSets, SequencesExt

CONSTANTS
    Key,            \* the keys of MODEL_MAPPING
    FlowData,       \* flows, as the models and the history see them: rc is
                    \* repeat_count, the decisions about the source so far;
                    \* same is same_attack_count, those of this attack,
                    \* which neither the mask nor the reasons look at
    MaxFlows        \* bound: flows in a batch

ASSUME KeyAssumption == Key \subseteq ModelKey
ASSUME FlowAssumption ==
    FlowData \subseteq [white : BOOLEAN, kind : Key \cup {"none"},
                        label : IdsLabel \ {"n/a"}, conf : Confidence, raw : Nat,
                        rc : Nat, same : Nat, window : STRING]
ASSUME FlowsAssumption == MaxFlows \in Nat

VARIABLES
    pc,             \* "off", or what is loaded next, or "up"
    ids,            \* the IDS: "missing", "partial" or "loaded"
    features, models, scalers,  \* the keys that have them; no empty features
    agent,          \* RL_MODEL is loaded
    reply           \* the last batch and its reply

engineVars == <<pc, ids, features, models, scalers, agent, reply>>
anomaly == <<features, models, scalers>>

NoReply == [status |-> "none"]

EngineInit ==
    /\ pc = "off"
    /\ ids = "missing" /\ features = {} /\ models = {} /\ scalers = {} /\ agent = FALSE
    /\ reply = NoReply

-------------------------------------------------------------------------------
(* Starting: lifespan.                                                     *)

\* load_ids_artifacts: the model, then the scaler, the encoder and the names
\* of the features; the first failure ends it.
LoadIds ==
    /\ pc = "off"
    /\ ids' \in {"missing", "partial", "loaded"}
    /\ pc' = "anomaly"
    /\ UNCHANGED <<anomaly, agent, reply>>

\* load_anomaly_artifacts: a file may be missing, or fail and end its key.
LoadAnomaly ==
    /\ pc = "anomaly"
    /\ features' \in SUBSET Key
    /\ models' \in SUBSET Key
    /\ scalers' \in SUBSET Key
    /\ pc' = "agent"
    /\ UNCHANGED <<ids, agent, reply>>

LoadAgent ==
    /\ pc = "agent"
    /\ agent' \in BOOLEAN
    /\ pc' = "up"
    /\ UNCHANGED <<ids, anomaly, reply>>

Stop ==
    /\ pc = "up"
    /\ pc' = "off"
    /\ ids' = "missing" /\ features' = {} /\ models' = {} /\ scalers' = {} /\ agent' = FALSE
    /\ reply' = NoReply

-------------------------------------------------------------------------------
(* The models.                                                             *)

\* run_ids_batch, for a flow.
IdsResult(flow) ==
    IF ids = "missing" THEN [label |-> "n/a", conf |-> 0, attack |-> FALSE]
    ELSE IF flow.white THEN [label |-> "benign", conf |-> 100000, attack |-> FALSE]
    ELSE [label |-> flow.label, conf |-> flow.conf, attack |-> IsAttack(flow.label, flow.conf)]

NotScored(key) == [model |-> key, raw |-> 0, outlier |-> FALSE]

Usable_Anyway(key) == key \in models

Usable(key) == key \in models /\ key \in scalers /\ key \in features

\* The flows of a kind: their places in the batch, in order.
Group(batch, key) ==
    LET places == {i \in DOMAIN batch : ~batch[i].white /\ batch[i].kind = key}
    IN [j \in 1..Cardinality(places) |->
           CHOOSE i \in places : Cardinality({k \in places : k <= i}) = j]

\* A model gives its scores in the order of its group; they are put back at
\* the places of the batch.
ScoreOf_SameIndex(batch, i) == batch[Group(batch, batch[i].kind)[1]].raw

ScoreOf(batch, i) ==
    LET rows == Group(batch, batch[i].kind)
        scores == [j \in DOMAIN rows |-> batch[rows[j]].raw]
    IN scores[CHOOSE j \in DOMAIN rows : rows[j] = i]

\* run_anomaly_batch, with the kinds whose scaler or model fails.
AnomalyResults(batch, failing) ==
    [i \in DOMAIN batch |->
        LET key == batch[i].kind IN
        IF batch[i].white \/ key = "none" \/ models = {} THEN NotScored("n/a")
        ELSE IF ~Usable(key) \/ key \in failing THEN NotScored(key)
        ELSE [model |-> key, raw |-> ScoreOf(batch, i),
              outlier |-> IsOutlier(ScoreOf(batch, i), key)]]

-------------------------------------------------------------------------------
(* The mitigation and its explanation.                                     *)

\* normalize_anomaly_score; a model without a threshold has 5.0 and 10.0.
NormOf(an) == Normalized(an.raw, IF an.model \in ModelKey THEN an.model ELSE "NonWebTcp")

\* build_rl_explanation: the reason given for an action, by its first words.
Reason_RepeatsOnly(action, i, an, rc) ==
    CASE action = "perm_block" ->
            IF rc > 2 THEN "all strongly agree" ELSE "has repeated a high-severity attack"
      [] action = "temp_block" -> "confirmed malicious"
      [] action = "rate_limit" -> "first occurrence from this source"
      [] OTHER -> "both are below the level needed"

Reason(action, i, an, rc) ==
    CASE action = "ddos" -> "distributed attack conditions are met"
      [] action = "perm_block" ->
            IF StrongAgreement(i, an, rc) THEN "all strongly agree"
            ELSE "has repeated a high-severity attack"
      [] action = "temp_block" -> "confirmed malicious"
      [] action = "rate_limit" ->
            IF i.attack = "normal" THEN "no confirmed IDS attack, but unusual"
            ELSE "first occurrence from this source"
      [] action = "monitor" -> "both are below the level needed"

\* What that says of the flow.  The repetitions are said to be of the attack
\* that is named, as many as are counted.
IsTrue(reason, i, an, flow) ==
    CASE reason = "distributed attack conditions are met" -> i.attack = "ddos"
      [] reason = "all strongly agree" -> IdsOk(i) /\ an > 5000 /\ flow.rc > 2
      [] reason = "has repeated a high-severity attack" ->
            /\ IdsOk(i) /\ i.attack \in {"password", "injection", "xss"}
            /\ flow.rc > 1 /\ flow.same = flow.rc
      [] reason = "confirmed malicious" -> IdsOk(i)
      [] reason = "no confirmed IDS attack, but unusual" -> ~IdsOk(i) /\ IsAnomaly(an)
      [] reason = "first occurrence from this source" -> flow.rc = 0
      [] reason = "both are below the level needed" -> ~IdsOk(i) /\ ~IsAnomaly(an)

NoTarget == [sources |-> 1, pressure |-> 100, rate |-> 0]

Silent == [alert |-> FALSE]

\* run_rl_stage: what the active window of the category holds, say a temporary
\* block, or what the agent chooses, if it is there.
ActionsFor(cat, i, an, flow) ==
    IF cat = flow.window THEN {"temp_block"}
    ELSE IF agent THEN Allowed(i, an, flow.rc, NoTarget) ELSE {"monitor"}

\* _build_full_response.
Responses(flow, idsRes, anRes) ==
    IF flow.white \/ ~(idsRes.attack \/ anRes.outlier) THEN {Silent}
    ELSE LET i == MakeIds(idsRes.label, idsRes.conf)
             an == NormOf(anRes)
             cat == CategoryOf(i, an)
         IN {[alert |-> TRUE, cat |-> cat, action |-> action, suppressed |-> cat = flow.window,
              reason |-> Reason(action, i, an, flow.rc)] : action \in ActionsFor(cat, i, an, flow)}

\* predict_combined.  What the engine has loaded does not change with a
\* batch: one batch for each start is enough, which bounds the states.
Predict ==
    /\ pc = "up" /\ reply = NoReply
    /\ \E batch \in BoundedSeq(FlowData, MaxFlows), failing \in SUBSET Key :
        /\ batch # <<>>
        /\ reply' \in
            IF ids = "missing" /\ models = {} THEN {[status |-> "no models"]}
            ELSE IF ids = "partial" THEN {[status |-> "error"]}
            ELSE LET anRes == AnomalyResults(batch, failing)
                     Of(n) == Responses(batch[n], IdsResult(batch[n]), anRes[n])
                 IN {[status |-> "ok", batch |-> batch, failing |-> failing, scored |-> anRes,
                      flows |-> r] : r \in {f \in [DOMAIN batch -> UNION {Of(n) : n \in DOMAIN batch}] :
                                              \A n \in DOMAIN batch : f[n] \in Of(n)}}
    /\ UNCHANGED <<pc, ids, anomaly, agent>>

EngineNext == LoadIds \/ LoadAnomaly \/ LoadAgent \/ Stop \/ Predict

EngineSpec == EngineInit /\ [][EngineNext]_engineVars

-------------------------------------------------------------------------------
Answered == reply.status = "ok"

\* A reason is true of a flow; or, where not all the decisions about the
\* source were of the attack, it is the one that says so and otherwise true.
AsCounted(flow) == [flow EXCEPT !.same = flow.rc]

Holds(reason, i, an, flow) ==
    \/ IsTrue(reason, i, an, flow)
    \/ /\ flow.same # flow.rc
       /\ reason = "has repeated a high-severity attack"
       /\ IsTrue(reason, i, an, AsCounted(flow))

(* The engine is off with nothing loaded, or up; a reply has an entry for  *)
(* each flow, and an alert an action and a reason.                         *)
EngineTypeOK ==
    /\ pc \in {"off", "anomaly", "agent", "up"}
    /\ ids \in {"missing", "partial", "loaded"}
    /\ features \subseteq Key /\ models \subseteq Key /\ scalers \subseteq Key
    /\ agent \in BOOLEAN
    /\ reply.status \in {"none", "no models", "error", "ok"}
    /\ Answered => /\ reply.batch \in Seq(FlowData) /\ reply.failing \subseteq Key
                   /\ Len(reply.flows) = Len(reply.batch)

(* The batch is split by kind, scored group by group and put together      *)
(* again: every flow has the result it would have in a batch of its own,   *)
(* and a model that fails leaves the flows of the other kinds alone.       *)
OwnVerdict ==
    Answered => \A i \in DOMAIN reply.batch :
        LET flow == reply.batch[i] IN
        IF flow.kind \in reply.failing THEN ~reply.scored[i].outlier
        ELSE reply.scored[i] = AnomalyResults(<<flow>>, {})[1]

(* A flow is an alert exactly if its addresses are not on the whitelist,   *)
(* and the IDS is there and takes it for an attack, or the model of its    *)
(* kind is there with all it needs, and did not fail, and takes it for an  *)
(* outlier.                                                                *)
AlertsHaveCause ==
    Answered => \A i \in DOMAIN reply.batch :
        LET flow == reply.batch[i] IN
        reply.flows[i].alert <=>
            /\ ~flow.white
            /\ \/ ids = "loaded" /\ IsAttack(flow.label, flow.conf)
               \/ /\ flow.kind \in features \cap models \cap scalers
                  /\ flow.kind \notin reply.failing
                  /\ IsOutlier(flow.raw, flow.kind)

(* The explanation is written apart from the mask and the table: where the *)
(* IDS confirmed an attack and the agent took what the table recommends,   *)
(* the reason the admin reads is true of the flow.  One reason is not      *)
(* always: repeat_count counts the decisions of every category             *)
(* (state_adapter.py:40), so that a source known for other attacks is said *)
(* to have repeated the one named (explainability.py:381-385).  It is then *)
(* what would be true had they all been of this attack; for a source known *)
(* for this attack only, and of every other reason, no excuse is made.     *)
ReasonsHold ==
    Answered => \A n \in DOMAIN reply.batch :
        LET flow == reply.batch[n]
            r == reply.flows[n]
            i == MakeIds(IdsResult(flow).label, IdsResult(flow).conf)
            an == NormOf(reply.scored[n])
        IN r.alert /\ IdsOk(i) /\ ~r.suppressed
            /\ r.action = Recommended(i, an, flow.rc, NoTarget)
            => Holds(r.reason, i, an, flow)

===============================================================================
