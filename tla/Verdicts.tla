------------------------------- MODULE Verdicts -------------------------------
(***************************************************************************)
(* What the approval gateway promises of a mitigation request: it is put   *)
(* up for review or applied at once, and after that at most one thing      *)
(* happens to it.  It is applied, refused, or lapses (cleaned up after its *)
(* time, or forgotten by a crash), and none of the three is ever undone or *)
(* followed by another.                                                    *)
(***************************************************************************)
EXTENDS Naturals

CONSTANT Req

VARIABLES
    verdict,    \* verdict[r]: what became of request r
    runs        \* runs[r]: how often the decision of r was executed

vvars == <<verdict, runs>>

Verdict == {"unborn", "open", "applied", "refused", "lapsed"}

Init ==
    /\ verdict = [r \in Req |-> "unborn"]
    /\ runs = [r \in Req |-> 0]

Open == {r \in Req : verdict[r] = "open"}

Apply(r) ==
    /\ verdict[r] \in {"unborn", "open"}
    /\ verdict' = [verdict EXCEPT ![r] = "applied"]
    /\ runs' = [runs EXCEPT ![r] = @ + 1]

Refuse(r) ==
    /\ verdict[r] = "open"
    /\ verdict' = [verdict EXCEPT ![r] = "refused"]
    /\ UNCHANGED runs

\* A request is put up for review; requests that are too old lapse.
Raise(r, old) ==
    /\ verdict[r] = "unborn"
    /\ verdict' = [s \in Req |-> IF s = r THEN "open"
                                 ELSE IF s \in old THEN "lapsed" ELSE verdict[s]]
    /\ UNCHANGED runs

Forget ==
    /\ verdict' = [r \in Req |-> IF verdict[r] = "open" THEN "lapsed" ELSE verdict[r]]
    /\ UNCHANGED runs

Next ==
    \/ \E r \in Req : Apply(r) \/ Refuse(r)
    \/ \E r \in Req : \E old \in SUBSET Open : Raise(r, old)
    \/ Forget

Spec == Init /\ [][Next]_vvars
===============================================================================
