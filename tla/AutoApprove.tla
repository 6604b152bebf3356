------------------------------ MODULE AutoApprove ------------------------------
(***************************************************************************)
(* The auto-approve setting: the flag of the agent's process, which its    *)
(* gateway reads (approval_gateway.py, enforcement_api.py), and the        *)
(* document of the Node backend that repeats it, with the two handlers of  *)
(* ai.controller.js that read and write both.                              *)
(*                                                                         *)
(* Node's handlers exclude each other except at an await: of the agent, at *)
(* most eight seconds, or of the database.  mongoose saves the fields that *)
(* differ from the document as it was found, and findOne without a filter  *)
(* returns the oldest document.  A call that timed out may be served all   *)
(* the same, until its connection is gone.                                 *)
(***************************************************************************)
EXTENDS Naturals, Sequences, FiniteSets

CONSTANT Caller     \* bound: the requests of Node under way at once

ASSUME CallerAssumption == IsFiniteSet(Caller)

VARIABLES
    flag,           \* approval_gateway._auto_approve
    docs,           \* autoApproveAiRules of the SystemSetting documents
    req,            \* req[c]: the request of caller c
    trouble         \* history: the document may have been left behind

autoVars == <<flag, docs, req, trouble>>

NoRequest == [by |-> "none", pc |-> "none"]
Posting(step, v) == [by |-> "toggle", pc |-> step, value |-> v]

AutoInit ==
    /\ flag = FALSE
    /\ docs = <<>>
    /\ req = [c \in Caller |-> NoRequest]
    /\ trouble = FALSE

Toggles == {c \in Caller : req[c].by = "toggle"}
Reads == {c \in Caller : req[c].by = "status"}

Alone(c) == Toggles \cup Reads \subseteq {c}

Goes(c, to) == req' = [req EXCEPT ![c] = to]

\* findOne.
New == 0
Found == IF docs = <<>> THEN New ELSE 1
Value == IF docs = <<>> THEN FALSE ELSE docs[1]

-------------------------------------------------------------------------------
(* toggleAutoApprove.                                                      *)

ToggleBegins(c) ==
    /\ req[c] = NoRequest
    /\ \E v \in BOOLEAN :
        req' = [d \in Caller |->
                    IF d = c THEN Posting("post", v)
                    ELSE IF d \in Reads
                    THEN [req[d] EXCEPT !.met = IF @ < 2 THEN @ + 1 ELSE @, !.alone = FALSE]
                    ELSE req[d]]
    /\ trouble' = (trouble \/ Toggles # {})
    /\ UNCHANGED <<flag, docs>>

\* The agent's set_auto_approve.
AgentSets(c) ==
    /\ req[c].pc = "post"
    /\ flag' = req[c].value
    /\ Goes(c, Posting("posted", req[c].value))
    /\ UNCHANGED <<docs, trouble>>

\* An error or a timeout, before or after the agent served the call.
ToggleFails(c) ==
    /\ req[c].pc \in {"post", "posted"}
    /\ Goes(c, IF req[c].pc = "post" THEN Posting("late", req[c].value) ELSE NoRequest)
    /\ trouble' = TRUE
    /\ UNCHANGED <<flag, docs>>

LateCall(c) ==
    /\ req[c].pc = "late"
    /\ flag' \in {flag, req[c].value}
    /\ Goes(c, NoRequest)
    /\ UNCHANGED <<docs, trouble>>

ToggleFinds(c) ==
    /\ req[c].pc = "posted"
    /\ Goes(c, [pc |-> "save", by |-> "toggle", value |-> req[c].value,
                at |-> Found, old |-> Value])
    /\ trouble' = (trouble \/ (docs = <<>> /\ ~Alone(c)))
    /\ UNCHANGED <<flag, docs>>

\* setting.save(), of the toggle or of the status.
Save(c) ==
    /\ req[c].pc = "save"
    /\ LET r == req[c] IN
        /\ docs' = IF r.at = New THEN Append(docs, r.value)
                   ELSE IF r.value = r.old THEN docs ELSE [docs EXCEPT ![r.at] = r.value]
        /\ trouble' = IF r.by = "toggle" THEN trouble
                      ELSE (trouble /\ ~r.alone) \/ r.met > 1
    /\ Goes(c, NoRequest)
    /\ UNCHANGED flag

-------------------------------------------------------------------------------
(* getAutoApproveStatus.                                                   *)

Asking(c, at, old) ==
    [pc |-> "get", by |-> "status", at |-> at, old |-> old,
     met |-> IF Toggles = {} THEN 0 ELSE 1, alone |-> Alone(c)]

StatusBegins(c) ==
    /\ req[c] = NoRequest
    /\ req' = [d \in Caller |->
                    IF d = c
                    THEN [Asking(c, Found, Value) EXCEPT !.pc = IF docs = <<>> THEN "create" ELSE "get"]
                    ELSE IF d \in Reads THEN [req[d] EXCEPT !.alone = FALSE]
                    ELSE req[d]]
    /\ trouble' = (trouble \/ (docs = <<>> /\ ~Alone(c)))
    /\ UNCHANGED <<flag, docs>>

Create(c) ==
    /\ req[c].pc = "create"
    /\ docs' = Append(docs, FALSE)
    /\ Goes(c, [req[c] EXCEPT !.pc = "get", !.at = Len(docs) + 1])
    /\ UNCHANGED <<flag, trouble>>

AgentAnswers_Ignored(c) ==
    /\ req[c].pc = "get"
    /\ Goes(c, NoRequest)
    /\ trouble' = (trouble /\ ~req[c].alone)
    /\ UNCHANGED <<flag, docs>>

\* The agent answers; the document follows if it differs.
AgentAnswers(c) ==
    /\ req[c].pc = "get"
    /\ LET r == req[c] IN
        IF flag # r.old
        THEN /\ Goes(c, [pc |-> "save", by |-> "status", value |-> flag, at |-> r.at,
                         old |-> r.old, met |-> r.met, alone |-> r.alone])
             /\ UNCHANGED trouble
        ELSE /\ Goes(c, NoRequest)
             /\ trouble' = (trouble /\ ~r.alone)
    /\ UNCHANGED <<flag, docs>>

\* The answer is the document's then.
AgentSilent(c) ==
    /\ req[c].pc = "get"
    /\ Goes(c, NoRequest)
    /\ UNCHANGED <<flag, docs, trouble>>

-------------------------------------------------------------------------------
(* The processes.                                                          *)

AgentRestarts ==
    /\ flag' = FALSE
    /\ trouble' = (trouble \/ flag)
    /\ req' = [c \in Caller |-> IF flag /\ c \in Reads THEN [req[c] EXCEPT !.alone = FALSE]
                                ELSE req[c]]
    /\ UNCHANGED docs

NodeRestarts ==
    /\ Toggles \cup Reads # {}
    /\ trouble' = (trouble \/ Toggles # {})
    /\ req' = [c \in Caller |-> IF req[c].pc \in {"post", "late"}
                                THEN Posting("late", req[c].value) ELSE NoRequest]
    /\ UNCHANGED <<flag, docs>>

AutoNext ==
    \/ \E c \in Caller :
        \/ ToggleBegins(c) \/ AgentSets(c) \/ ToggleFails(c) \/ LateCall(c) \/ ToggleFinds(c)
        \/ Save(c)
        \/ StatusBegins(c) \/ Create(c) \/ AgentAnswers(c) \/ AgentSilent(c)
    \/ AgentRestarts \/ NodeRestarts

AutoSpec == AutoInit /\ [][AutoNext]_autoVars

-------------------------------------------------------------------------------
(* The state is well typed; there is one document, or one for each of the  *)
(* first requests if they came at the same time.                           *)
AutoTypeOK ==
    /\ flag \in BOOLEAN /\ trouble \in BOOLEAN
    /\ docs \in Seq(BOOLEAN) /\ Len(docs) <= Cardinality(Caller)
    /\ \A c \in Caller :
        /\ req[c].pc \in {"none", "post", "posted", "late", "create", "get", "save"}
        /\ req[c].pc = "save" => req[c].at \in 0..Len(docs)

(* The document is the agent's flag whenever nothing is under way, unless  *)
(* something got in between: a restart, a call that failed, a toggle while *)
(* another one was under way, a status that saw two toggles, or the first  *)
(* requests at the same time.  A status that sees one toggle does no harm, *)
(* and a status that runs alone and reaches the agent makes up for all.    *)
SettingFollows ==
    ~trouble /\ Toggles \cup Reads = {} => Value = flag

===============================================================================
