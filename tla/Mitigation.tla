------------------------------ MODULE Mitigation ------------------------------
(***************************************************************************)
(* The mitigation life cycle across the two processes: the AIRule          *)
(* documents of the Node backend (ai.controller.js) composed with the      *)
(* agent of ApprovalGateway.                                               *)
(*                                                                         *)
(* A request handler of Node reads a document, calls the agent once or     *)
(* several times, and writes the document; the job that expires documents  *)
(* does so for every expired document it found.  Handlers interleave at    *)
(* every await.  A call that takes longer than eight seconds fails in Node *)
(* and may still be served by the agent afterwards, whose event loop is    *)
(* blocked while it reports alerts.                                        *)
(***************************************************************************)
EXTENDS ApprovalGateway

CONSTANTS
    Admin,          \* concurrent admin requests
    Job,            \* concurrent cycles of the expiry job
    NodeMayCrash,
    MaxStray        \* bound: calls given up that the agent has yet to serve

ASSUME HandlerAssumption == Admin \cap Job = {} /\ NodeMayCrash \in BOOLEAN
ASSUME StrayAssumption == MaxStray \in Nat

VARIABLES
    docs,       \* docs[r]: the AIRule of request r
    settled,    \* alerts that reached Node or were lost
    found,      \* found[j]: documents found by cycle j and not yet dealt with
    hnd,        \* hnd[h]: what handler h is doing, with the calls still to do
    strays      \* calls Node gave up on that the agent may still serve

nvars == <<docs, settled, found, hnd, strays>>

mvars == <<now, up, elem, rules, nextHandle, heap, doomed, saved, ours,
           pending, auto, windows, phase, batch, handled, nextReq, alerts, runs,
           refused, appearances, flaggedAt, docs, settled, found, hnd, strays>>

Handler == Admin \cup Job

Status == {"absent", "pending", "approved", "rejected", "auto-approved",
           "deleted", "expired"}

Doc == [status : Status, active : BOOLEAN, dels : SUBSET Deletion, expireAt : Nat]

NoDeletion == [h |-> 0, el |-> <<>>]

Call == [kind : {"approve", "reject", "delete"}, req : Req, del : Deletion]

\* What the agent's answer to an approval says.
Reply == [dels : SUBSET Deletion, timeout : Nat]

NoReply == [dels |-> {}, timeout |-> 0]

Idle == [kind |-> "idle", req |-> 1, todo |-> {}, reply |-> NoReply]

MitigationTypeOK ==
    /\ TypeOK
    /\ docs \in [Req -> Doc]
    /\ settled \subseteq Req
    /\ found \in [Job -> SUBSET [req : Req, dels : SUBSET Deletion]]
    /\ hnd \in [Handler ->
          [kind : {"idle", "approve", "reject", "delete", "toggle", "expire"},
           req : Req, todo : SUBSET Call, reply : Reply]]
    /\ strays \subseteq Call

Absent == [status |-> "absent", active |-> FALSE, dels |-> {}, expireAt |-> 0]

MitigationInit ==
    /\ Init
    /\ docs = [r \in Req |-> Absent]
    /\ settled = {}
    /\ found = [j \in Job |-> {}]
    /\ hnd = [h \in Handler |-> Idle]
    /\ strays = {}

Gone_Undeleted(r) == docs[r].status = "absent"

Gone(r) == docs[r].status \in {"absent", "deleted", "expired"}

Applied(r) == docs[r].status \in {"approved", "auto-approved"}

-------------------------------------------------------------------------------
(* receiveAlert.  The agent sends an alert once and waits five seconds for *)
(* Node: the document may be created later, or never.                      *)
Deadline(timeout) == IF timeout > 0 THEN now + timeout ELSE 0

ReceiveAlert ==
    \E a \in alerts :
        /\ a.req \notin settled
        /\ settled' = settled \cup {a.req}
        /\ docs' = [docs EXCEPT ![a.req] =
              [status |-> IF a.dels # {} THEN "auto-approved" ELSE "pending",
               active |-> a.dels # {},
               dels |-> a.dels,
               expireAt |-> Deadline(a.timeout)]]
        /\ UNCHANGED <<evars, gvars, found, hnd, strays>>

LoseAlert ==
    \E a \in alerts :
        /\ a.req \notin settled
        /\ settled' = settled \cup {a.req}
        /\ UNCHANGED <<evars, gvars, docs, found, hnd, strays>>

-------------------------------------------------------------------------------
(* A handler starts: what it reads of the document decides its calls.      *)
Begin(h, kind, r, calls) ==
    /\ hnd[h] = Idle
    /\ hnd' = [hnd EXCEPT ![h] =
          [kind |-> kind, req |-> r, todo |-> calls, reply |-> NoReply]]
    /\ UNCHANGED <<evars, gvars, docs, settled, strays>>

DeleteCalls(r, dels) == {[kind |-> "delete", req |-> r, del |-> d] : d \in dels}

\* reviewAIRule, for both decisions.
BeginReview(h, r) ==
    /\ docs[r].status = "pending"
    /\ \E decision \in {"approve", "reject"} :
        Begin(h, decision, r, {[kind |-> decision, req |-> r, del |-> NoDeletion]})
    /\ UNCHANGED found

\* deleteAIRule: the agent is asked only about a rule that is in force.
BeginDelete(h, r) ==
    /\ ~Gone(r)
    /\ Begin(h, "delete", r,
             IF Applied(r) /\ docs[r].active THEN DeleteCalls(r, docs[r].dels) ELSE {})
    /\ UNCHANGED found

\* toggleAIRuleStatus: there is nothing to disable without a deletion, and
\* enabling is not supported.
BeginToggle(h, r) ==
    /\ Applied(r) /\ docs[r].active /\ docs[r].dels # {}
    /\ Begin(h, "toggle", r, DeleteCalls(r, docs[r].dels))
    /\ UNCHANGED found

\* expireTimedOutRules: the query, and then one document after the other, as
\* the query returned it.
Due(r) ==
    ~Gone(r) /\ docs[r].active /\ docs[r].expireAt # 0 /\ docs[r].expireAt <= now

FoundBy_Deletions == {r \in Req : Due(r) /\ docs[r].dels # {}}

FoundBy == {r \in Req : Due(r)}

FindExpired(j) ==
    /\ found[j] = {} /\ hnd[j] = Idle
    /\ FoundBy # {}
    /\ found' = [found EXCEPT ![j] =
          {[req |-> r, dels |-> docs[r].dels] : r \in FoundBy}]
    /\ UNCHANGED <<evars, gvars, docs, settled, hnd, strays>>

BeginExpire(j) ==
    \E f \in found[j] :
        /\ Begin(j, "expire", f.req, DeleteCalls(f.req, f.dels))
        /\ found' = [found EXCEPT ![j] = @ \ {f}]

-------------------------------------------------------------------------------
(* A call at the agent.                                                    *)

Asked(call) == {p \in pending : p.req = call.req}

There(del) == IF del.el = <<>> THEN KnownHandle(del.h) ELSE InForce(del.el)

\* POST /rules/delete on what is there; a deletion that is served reports
\* the exit status of nft.
DeleteServed(del) ==
    /\ LoopFree
    /\ There(del)
    /\ IF del.el = <<>> THEN DeleteHandle(del.h) ELSE DeleteElement(del.el)
    /\ UNCHANGED <<now, up, nextHandle, heap, doomed, saved, ours, gvars>>

Grants(call, added, read) ==
    \/ call.kind = "approve" /\ \E p \in Asked(call) : Approve(p, added, read)
    \/ call.kind = "reject" /\ added = {} /\ \E p \in Asked(call) : Reject(p)
    \/ call.kind = "delete" /\ added = {} /\ DeleteServed(call.del)

\* 404 for a request that is not pending, 400 for a deletion that fails.
Refuses(call) ==
    /\ LoopFree
    /\ \/ call.kind \in {"approve", "reject"} /\ Asked(call) = {}
       \/ call.kind = "delete" /\ (~There(call.del) \/ NftMayFail)
    /\ UNCHANGED <<evars, gvars>>

\* The payload handle_approve returns.
ReplyTo(call, added, read) ==
    IF call.kind # "approve" THEN NoReply
    ELSE LET d == (CHOOSE p \in pending : p.req = call.req).d
         IN  [dels |-> PayloadDeletions(d, added, read),
             timeout |-> ResultDuration(d, read)]

\* The deletions of a document are posted in their order.
NextCall(h, call) ==
    /\ call \in hnd[h].todo
    /\ \A other \in hnd[h].todo : call.del.h <= other.del.h

CallServed(h) ==
    \E call \in hnd[h].todo, added \in SUBSET {"dos", "meter", "syn"} : \E read \in SUBSET added :
        /\ NextCall(h, call)
        /\ Grants(call, added, read)
        /\ hnd' = [hnd EXCEPT ![h].todo = @ \ {call},
                              ![h].reply = ReplyTo(call, added, read)]
        /\ UNCHANGED <<docs, settled, found, strays>>

\* Only the expiry job goes on after a call that failed: for the others
\* axios throws, and the handler answers with an error.
Carries_Everybody(kind) == TRUE

Carries(kind) == kind = "expire"

AfterFailure(h, call) ==
    hnd' = [hnd EXCEPT ![h] = IF Carries(hnd[h].kind)
                              THEN [hnd[h] EXCEPT !.todo = @ \ {call}] ELSE Idle]

CallRefused(h) ==
    \E call \in hnd[h].todo :
        /\ NextCall(h, call)
        /\ Refuses(call)
        /\ AfterFailure(h, call)
        /\ UNCHANGED <<docs, settled, found, strays>>

\* Eight seconds are over, or the agent cannot be reached.
CallTimesOut(h) ==
    \E call \in hnd[h].todo :
        /\ NextCall(h, call)
        /\ AfterFailure(h, call)
        /\ \/ strays' = strays
           \/ up /\ Cardinality(strays) < MaxStray /\ strays' = strays \cup {call}
        /\ UNCHANGED <<evars, gvars, docs, settled, found>>

ServeStray ==
    \E call \in strays, added \in SUBSET {"dos", "meter", "syn"} : \E read \in SUBSET added :
        /\ Grants(call, added, read) \/ (added = {} /\ Refuses(call))
        /\ strays' = strays \ {call}
        /\ UNCHANGED <<docs, settled, found, hnd>>

-------------------------------------------------------------------------------
(* The handler's write, after its last call.  A document that was deleted  *)
(* in the meantime stays deleted: save() fails, deleteOne() has nothing to *)
(* do.                                                                     *)
Written(doc, kind, reply) ==
    IF kind = "approve" THEN
        [doc EXCEPT
            !.status = "approved",
            !.active = TRUE,
            !.dels = IF reply.dels # {} THEN reply.dels ELSE @,
            !.expireAt = IF reply.timeout > 0 THEN now + reply.timeout ELSE @]
    ELSE IF kind = "reject" THEN [doc EXCEPT !.status = "rejected", !.active = FALSE]
    ELSE IF kind = "toggle" THEN [doc EXCEPT !.active = FALSE, !.dels = {}]
    ELSE IF kind = "delete" THEN [doc EXCEPT !.status = "deleted"]
    ELSE [doc EXCEPT !.status = "expired"]

Write(h) ==
    /\ hnd[h].kind # "idle" /\ hnd[h].todo = {}
    /\ LET r == hnd[h].req
       IN  docs' = IF Gone(r) THEN docs
                   ELSE [docs EXCEPT ![r] = Written(@, hnd[h].kind, hnd[h].reply)]
    /\ hnd' = [hnd EXCEPT ![h] = Idle]
    /\ UNCHANGED <<evars, gvars, settled, found, strays>>

\* Node restarts: the documents are in MongoDB, everything else is lost.
NodeCrash ==
    /\ NodeMayCrash
    /\ \E h \in Handler : hnd[h] # Idle
    /\ hnd' = [h \in Handler |-> Idle]
    /\ found' = [j \in Job |-> {}]
    /\ UNCHANGED <<evars, gvars, docs, settled, strays>>

-------------------------------------------------------------------------------
\* The agent's own steps; calls that wait for it die with it.
AgentStep ==
    /\ \/ SendBatch \/ PredictFails \/ PredictReplies \/ SkipFlow \/ HandleFlow
       \/ SetAuto \/ Background
       \/ AgentCrash
    /\ strays' = IF up' THEN strays ELSE {}
    /\ UNCHANGED <<docs, settled, found, hnd>>

JobStep(j) == FindExpired(j) \/ BeginExpire(j)

CallEnds(h) == CallServed(h) \/ CallRefused(h) \/ CallTimesOut(h)

MitigationNext ==
    \/ ReceiveAlert \/ LoseAlert
    \/ \E h \in Admin, r \in Req : BeginReview(h, r) \/ BeginDelete(h, r) \/ BeginToggle(h, r)
    \/ \E j \in Job : JobStep(j)
    \/ \E h \in Handler : CallEnds(h) \/ Write(h)
    \/ ServeStray
    \/ NodeCrash
    \/ AgentStep

(* The expiry job runs every minute, every call it makes ends at the latest *)
(* with its timeout, and the clock runs.  Nothing is assumed of the agent.  *)
JobFairness ==
    /\ WF_mvars(Tick /\ UNCHANGED <<gvars, nvars>>)
    /\ \A j \in Job :
        /\ WF_mvars(JobStep(j))
        /\ WF_mvars(CallEnds(j))
        /\ WF_mvars(Write(j))

MitigationSpec == MitigationInit /\ [][MitigationNext]_mvars /\ JobFairness

-------------------------------------------------------------------------------
(* What a document says of its request is what the agent did: an approved  *)
(* or automatically approved one was executed once and not refused, a      *)
(* rejected one was refused and never executed.  Reviews by several admins, *)
(* calls served after Node gave up on them and restarts of either process  *)
(* come in between.                                                        *)
StatusTruthful ==
    \A r \in Req :
        /\ Applied(r) => runs[r] = 1 /\ r \notin refused
        /\ docs[r].status = "rejected" => runs[r] = 0 /\ r \in refused

(* A document only moves on: from its review to its end, and never back.    *)
(* Nothing brings a deleted or expired document back, a late alert writes   *)
(* over none, and a rule that was disabled is not in force again, although  *)
(* every handler writes what it decided before its calls (receiveAlert,     *)
(* reviewAIRule, toggleAIRuleStatus, expireTimedOutRules).                  *)
Follows(status) ==
    CASE status = "absent" -> {"pending", "auto-approved"}
      [] status = "pending" -> {"approved", "rejected", "deleted"}
      [] status = "rejected" -> {"deleted"}
      [] status \in {"approved", "auto-approved"} -> {"deleted", "expired"}
      [] OTHER -> {}

MovesOn(r) ==
    /\ docs'[r].status \in Follows(docs[r].status) \cup {docs[r].status}
    /\ docs[r].status \notin {"absent", "pending"} =>
          /\ docs'[r].active => docs[r].active
          /\ docs'[r].dels \subseteq docs[r].dels

DocumentsMoveOn == [][\A r \in Req : MovesOn(r)]_mvars

NothingLeft(r) == \A d \in docs[r].dels : ~There(d)

(* If Node is not restarted for ever, a document whose lifetime is over    *)
(* does not stay once its rule is gone from the kernel, whoever removed    *)
(* it and although the agent answers the deletion of what is not there     *)
(* with an error.  What happens while the rule is there is left open.      *)
ExpiredDocsGo ==
    <>[][~NodeCrash]_mvars => \A r \in Req : ~<>[](Due(r) /\ NothingLeft(r))

(* What the comment at ai.controller.js:641-643 promises of a document     *)
(* that expires: it is not left an orphan, gone from the database while    *)
(* its rule is still at work in the firewall.                              *)
NoOrphans == \A r \in Req : docs[r].status = "expired" => NothingLeft(r)

===============================================================================
