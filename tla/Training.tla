------------------------------- MODULE Training -------------------------------
(***************************************************************************)
(* How the agent is trained: the scenarios, the environment NetKnightEnv   *)
(* and the reward of RL_V9.ipynb.  The notebook defines the mask and the   *)
(* decision table with the text of rl_inference.py; they are those of      *)
(* RLRules.                                                                *)
(*                                                                         *)
(* The anomaly factor and the pressure are in hundredths and the rate in   *)
(* whole connections, rounded down.  A scenario draws from ranges; the     *)
(* model takes their ends, and every repeat count in between.              *)
(***************************************************************************)
EXTENDS RLRules

CONSTANT MaxSteps       \* MAX_STEPS, 6

ASSUME StepsAssumption == MaxSteps \in Nat \ {0}

VARIABLE ep             \* the episode

Over == [pc |-> "over"]

\* The actions in the order of their numbers.
Rank == [monitor |-> 0, rate_limit |-> 1, temp_block |-> 2, perm_block |-> 3, ddos |-> 4]
Actions == DOMAIN Rank

-------------------------------------------------------------------------------
(* The scenarios: label, malicious, model, and ranges of the confidence    *)
(* and the anomaly factor, of sources, pressure, rate and repeats.         *)
Scenario(at, mal, mk, cf, af, us, dp, nc, rc) ==
    [attack |-> at, mal |-> mal, key |-> mk,
     conf |-> cf, factor |-> af, sources |-> us, pressure |-> dp, rate |-> nc, repeats |-> rc]

Scenarios == {
    Scenario("normal", FALSE, "WebTcp", {0, 3000}, {0, 70}, {1, 4}, {40, 130}, {0, 8}, {0}),
    Scenario("brute_force", TRUE, "NonWebTcp", {6200, 9500}, {102, 125}, {1, 3}, {90, 220}, {5, 25}, {0}),
    Scenario("brute_force", TRUE, "NonWebTcp", {6500, 9500}, {102, 128}, {1, 3}, {110, 250}, {8, 30}, 2..5),
    Scenario("password", TRUE, "NonWebTcp", {6500, 9700}, {102, 130}, {1, 3}, {90, 200}, {3, 15}, {0}),
    Scenario("password", TRUE, "NonWebTcp", {7000, 9700}, {103, 130}, {1, 3}, {100, 220}, {3, 15}, 2..5),
    Scenario("scanning", TRUE, "NonWebTcp", {6200, 9000}, {102, 125}, {1, 4}, {80, 180}, {8, 40}, {0}),
    Scenario("scanning", TRUE, "NonWebTcp", {6200, 9000}, {102, 128}, {1, 4}, {90, 200}, {10, 45}, 2..5),
    Scenario("injection", TRUE, "WebTcp", {6800, 9800}, {102, 120}, {1, 3}, {90, 200}, {2, 12}, {0}),
    Scenario("injection", TRUE, "WebTcp", {7500, 9800}, {102, 122}, {1, 3}, {100, 220}, {2, 12}, 2..5),
    Scenario("xss", TRUE, "WebTcp", {6800, 9800}, {102, 120}, {1, 3}, {90, 200}, {2, 12}, {0}),
    Scenario("xss", TRUE, "WebTcp", {7500, 9800}, {102, 122}, {1, 3}, {100, 220}, {2, 12}, 2..5),
    Scenario("dos", TRUE, "NonWebTcp", {6200, 9200}, {102, 130}, {1, 5}, {150, 340}, {15, 45}, {0}),
    Scenario("dos", TRUE, "NonWebTcp", {6500, 9200}, {102, 130}, {1, 5}, {180, 380}, {18, 45}, 2..5),
    Scenario("ddos", TRUE, "NonWebUDP", {6500, 9500}, {102, 128}, {12, 90}, {320, 900}, {55, 190}, 0..3),
    Scenario("normal", FALSE, "NonWebTcp", {0, 3500}, {50, 99}, {1, 4}, {60, 160}, {3, 15}, 0..3),
    Scenario("normal", TRUE, "NonWebUDP", {0, 4000}, {102, 128}, {1, 4}, {120, 280}, {10, 35}, {0}),
    Scenario("normal", TRUE, "NonWebUDP", {0, 4000}, {102, 128}, {1, 4}, {120, 280}, {10, 35}, 3..5)}

Min2(x, y) == IF x <= y THEN x ELSE y
Max2(x, y) == IF x >= y THEN x ELSE y

Ids(e) == [attack |-> e.attack, conf |-> e.conf]
Norm(e) == Normalized((e.factor * Threshold[e.key]) \div 100, e.key)
Wanted(e) == Recommended(Ids(e), Norm(e), e.repeats, e.net)
Masked(e) == Allowed(Ids(e), Norm(e), e.repeats, e.net)

-------------------------------------------------------------------------------
(* compute_reward, without the half point that every step costs.           *)

If(condition, amount) == IF condition THEN amount ELSE 0

\* The distance from the table; hesitation costs more with every repeat.
Distance(a, rec, same) ==
    IF a = rec
    THEN CASE rec = "monitor" -> 15 [] rec = "rate_limit" -> 50 [] rec = "temp_block" -> 30
           [] rec = "perm_block" -> 20 [] rec = "ddos" -> 40
    ELSE IF Rank[a] < Rank[rec] THEN -15 * (1 + 2 * Min2(same, 5)) ELSE -15

\* The rewards and penalties that were added to it.
Shaping(a, rec, e) ==
    LET unsure == ~IdsOk(Ids(e)) /\ IsAnomaly(Norm(e))
        stressed == e.net.pressure > 200
    IN  If(a = "monitor" /\ rec # "monitor" /\ stressed, -20)
      + If(a = rec /\ a # "monitor" /\ stressed, 30)
      + If(a = rec /\ a # "monitor" /\ unsure, 30)
      + If(a = "ddos" /\ e.attack = "ddos", 100)
      + If(rec = "rate_limit" /\ a = "temp_block" /\ IdsOk(Ids(e)), -40)
      + If(rec = "rate_limit" /\ Rank[a] > Rank[rec], -60)
      + If(Rank[a] = Rank[rec] + 1 /\ Rank[rec] >= Rank["temp_block"], 5)
      + If(rec = "rate_limit" /\ a = "temp_block" /\ e.repeats = 0, -30)
      + If(a = "temp_block" /\ unsure, IF e.repeats <= 2 THEN -100 ELSE 40)
      + If(rec = "ddos" /\ a # rec, -100)

Reward_TrustsLabel(a, e) ==
    IF a \notin Masked(e) THEN -50
    ELSE IF e.attack = "normal" THEN IF a = "monitor" THEN 5 ELSE -50
    ELSE Distance(a, Wanted(e), e.same) + Shaping(a, Wanted(e), e)

Reward(a, e) ==
    IF a \notin Masked(e) THEN -50
    ELSE IF ~e.mal /\ e.attack = "normal" THEN IF a = "monitor" THEN 5 ELSE -50
    ELSE IF ~e.mal /\ ~IdsOk(Ids(e)) /\ ~IsAnomaly(Norm(e))
    THEN IF a = "monitor" THEN 5 ELSE -15
    ELSE Distance(a, Wanted(e), e.same) + Shaping(a, Wanted(e), e)

-------------------------------------------------------------------------------
TrainInit == ep = Over

\* reset: sample draws a scenario; a known source gets a history.
Reset ==
    /\ ep = Over
    /\ \E s \in Scenarios :
        \E conf \in s.conf, factor \in s.factor, sources \in s.sources,
           pressure \in s.pressure, rate \in s.rate, rc \in s.repeats :
            ep' = [pc |-> "running", attack |-> s.attack, mal |-> s.mal, key |-> s.key,
                   conf |-> conf, factor |-> factor,
                   net |-> [sources |-> sources, pressure |-> pressure, rate |-> rate],
                   repeats |-> rc, same |-> rc, steps |-> 0]

\* MITIG, in hundredths; a rate limit does little against many sources.
Mitigation(a, e) ==
    CASE a = "monitor" -> 100
      [] a = "rate_limit" -> IF e.attack = "ddos" /\ e.net.sources > 10 THEN 97 ELSE 50
      [] a = "temp_block" -> 8
      [] a = "perm_block" -> 2
      [] a = "ddos" -> 30

Scaled(x, percent) == (x * percent) \div 100

\* _feedback: an attack yields to the action, or grows.
Weaker(a, e) ==
    [e EXCEPT
        !.factor = Max2(5, Scaled(@, 55)),
        !.net = [sources |-> IF a \in {"temp_block", "perm_block"} THEN Max2(1, @.sources - 1)
                             ELSE IF a = "ddos" THEN Max2(1, Scaled(@.sources, 85)) ELSE @.sources,
                 pressure |-> Max2(30, Scaled(@.pressure, Mitigation(a, e))),
                 rate |-> Scaled(@.rate, Mitigation(a, e))]]

Stronger(e) ==
    [e EXCEPT
        !.factor = Min2(200, Scaled(@, 108)),
        !.net.pressure = Min2(1000, Scaled(@, 118)),
        !.net.rate = Min2(200, Scaled(@, 112))]

Feedback(a, e) ==
    IF ~e.mal
    THEN {[e EXCEPT !.net.pressure = Max2(20, Scaled(@, p))] : p \in {95, 105}}
    ELSE IF Mitigation(a, e) < 100 THEN {Weaker(a, e)} ELSE {Stronger(e)}

\* _resolved, after the feedback.
Resolved(a, e) ==
    \/ a \in {"temp_block", "perm_block"}
    \/ e.mal /\ a = "ddos" /\ e.net.pressure < 150
    \/ ~e.mal /\ a # "monitor"

\* step: the reward is computed on the state before the feedback, and the
\* history is updated after it.
Step(a) ==
    /\ ep # Over /\ a \in Masked(ep)
    /\ \E e \in Feedback(a, ep) :
        LET next == [e EXCEPT !.repeats = @ + 1, !.same = @ + 1, !.steps = @ + 1]
        IN ep' = IF Resolved(a, e) \/ next.steps >= MaxSteps THEN Over ELSE next

TrainNext == Reset \/ \E a \in Actions : Step(a)

TrainSpec == TrainInit /\ [][TrainNext]_ep

-------------------------------------------------------------------------------
(* The reward is written independently of the decision table, with ten     *)
(* adjustments added one after the other; still, in whatever state of an   *)
(* episode, the action the table recommends earns more than any other.     *)
RewardPrefersTable ==
    ep # Over =>
        \A a \in Actions \ {Wanted(ep)} : Reward(a, ep) < Reward(Wanted(ep), ep)

(* While it is trained, the agent may block a source for good only if the  *)
(* IDS confirmed an attack: a3_ok does not ask for that, but no scenario   *)
(* is sure of a benign label, whatever happens in its episode.             *)
PermOnlyConfirmed ==
    ep # Over /\ "perm_block" \in Masked(ep) => IdsOk(Ids(ep))

===============================================================================
