------------------------------- MODULE MCEngine -------------------------------
(* An instance of Engine, Training, RLDecision and Baseline for TLC.  The   *)
(* agent is trained, then the engine starts and serves; or decisions about  *)
(* one source follow each other; or the rate of one internal address is     *)
(* followed.  The three share no state: a behaviour takes the steps of one  *)
(* of them.                                                                 *)
EXTENDS Engine, Training, RLDecision, Baseline

Plain == [white |-> FALSE, kind |-> "WebTcp", label |-> "benign", conf |-> 90000,
          raw |-> 0, rc |-> 0, same |-> 0, window |-> "none"]

\* A flow of no interest and one of the whitelist, attacks of every row of the
\* table at every stage, outliers of two kinds, a window.
MCFlow == {
    [Plain EXCEPT !.kind = "none"],
    [Plain EXCEPT !.white = TRUE, !.label = "xss", !.raw = 2000],
    [Plain EXCEPT !.label = "scanning"],
    [Plain EXCEPT !.label = "xss", !.conf = 70000, !.raw = 1700, !.rc = 3, !.same = 3],
    [Plain EXCEPT !.label = "xss", !.conf = 70000, !.raw = 1700, !.rc = 3, !.same = 1],
    [Plain EXCEPT !.label = "brute force", !.raw = 1700, !.rc = 3, !.same = 3],
    [Plain EXCEPT !.label = "ddos", !.conf = 70000, !.kind = "NonWebUDP", !.rc = 1],
    [Plain EXCEPT !.kind = "NonWebUDP", !.raw = 700, !.rc = 3],
    [Plain EXCEPT !.raw = 2000, !.window = "anomaly"]}

\* Metrics of a target, enough for a DDoS response.
MCNet == {[sources |-> 11, pressure |-> 301, rate |-> 50]}

\* Nothing, more than half the scale and no outlier, an outlier.
MCScore == {[raw |-> 0, key |-> "WebTcp"], [raw |-> 1700, key |-> "WebTcp"],
            [raw |-> 501, key |-> "NonWebTcp"]}

LifeInit == TrainInit /\ EngineInit

AIInit == LifeInit /\ Init /\ BaselineInit

LifeNext ==
    \/ TrainNext /\ pc = "off" /\ UNCHANGED engineVars
    \/ EngineNext /\ ep = Over /\ UNCHANGED ep

AINext ==
    \/ Init /\ BaselineInit /\ LifeNext /\ UNCHANGED <<vars, baselineVars>>
    \/ LifeInit /\ BaselineInit /\ Next /\ UNCHANGED <<ep, engineVars, baselineVars>>
    \/ LifeInit /\ Init /\ BaselineNext /\ UNCHANGED <<ep, engineVars, vars>>

AISpec == AIInit /\ [][AINext]_<<ep, engineVars, vars, baselineVars>>
===============================================================================
