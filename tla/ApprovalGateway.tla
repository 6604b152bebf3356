---------------------------- MODULE ApprovalGateway ---------------------------
(***************************************************************************)
(* The agent's decision path: flow_pipeline.py sends batches of flows to   *)
(* the AI engine and hands each alert to approval_gateway.py, which either *)
(* executes the decision at once or keeps it pending until an admin's      *)
(* verdict arrives through enforcement_api.py.                             *)
(*                                                                         *)
(* All of it runs on one event loop.  The only await is the call of        *)
(* /predict: between a flow's enrichment, which reads the active windows,  *)
(* and the handling of its prediction, approvals, rejections and toggles   *)
(* run.  The predictions of one reply are handled without an await, so     *)
(* while a reply is being handled no admin request is; other threads,      *)
(* the clock and a crash still come in between.                            *)
(*                                                                         *)
(* Redis keeps the active windows; it is a process of its own and outlives *)
(* the agent.                                                              *)
(***************************************************************************)
EXTENDS Enforcement, Sequences

CONSTANTS
    Flow,               \* flows seen: [src, dst]
    Internal,           \* addresses of the LAN
    MonitorCooldown,    \* MONITOR_ALERT_COOLDOWN_SEC
    RejectedCooldown,   \* REJECTED_ALERT_COOLDOWN_SEC
    PendingCooldown,    \* PENDING_ALERT_COOLDOWN_SEC
    PermWindow,         \* PERM_BLOCK_WINDOW_TTL_SEC
    PendingTTL,         \* PENDING_REQUEST_TTL_SEC
    MaxBatch,           \* bound: flows in a batch
    MaxReq              \* bound: requests raised

ASSUME FlowAssumption == Flow \subseteq [src : IP, dst : IP]

\* The AI engine masks A4/A5 unless the label is DDoS.
ASSUME DdosAssumption == \A d \in Decision : d.action = "ddos" => d.cat = "ddos"

\* No cooldown is shorter than the monitor's 60 seconds.
ASSUME CooldownAssumption ==
    /\ MonitorCooldown \in Nat \ {0}
    /\ {RejectedCooldown, PendingCooldown, PermWindow, RuleTime, BlockTime}
         \subseteq {t \in Nat : t >= MonitorCooldown}
    /\ PendingTTL \in Nat
    /\ MaxBatch \in Nat /\ MaxReq \in Nat \ {0}

VARIABLES
    pending,        \* _pending: requests waiting for an admin, [req, d, at]
    auto,           \* _auto_approve, in memory
    windows,        \* Redis active_window:<ip>:<category>: its expires_at
    phase,          \* the batch: "idle", "sent" to the AI, "handling" its reply
    batch,          \* its flows not yet handled: [src, dst, shut]
    handled,        \* handled_this_batch: keys already decided in it
    nextReq,        \* number of the next request_id (uuid4)
    alerts,         \* history: alerts sent, [req, key, at, dels, timeout]
    runs,           \* history: how often a request was executed
    refused,        \* history: requests an admin rejected
    appearances,    \* ip_history:<ip> total_appearances
    flaggedAt       \* attack flag of the EWMA store: when last raised

gvars == <<pending, auto, windows, phase, batch, handled, nextReq, alerts, runs,
           refused, appearances, flaggedAt>>

vars == <<now, up, elem, rules, nextHandle, heap, doomed, saved, ours,
          pending, auto, windows, phase, batch, handled, nextReq, alerts, runs,
          refused, appearances, flaggedAt>>

Req == 1..MaxReq

Key == IP \X Category

\* IP_HISTORY_ATTACK_FIELDS: the categories whose windows are ever read.
Windowed == Category \ {"normal"}

TypeOK ==
    /\ EnforcementTypeOK
    /\ pending \subseteq [req : Req, d : Decision, at : Nat]
    /\ auto \in BOOLEAN
    /\ windows \in [Key -> Nat]
    /\ phase \in {"idle", "sent", "handling"}
    /\ batch \in Seq([src : IP, dst : IP, shut : SUBSET Category])
    /\ handled \subseteq Key
    /\ nextReq \in 1..(MaxReq + 1)
    /\ alerts \subseteq [req : Req, key : Key, at : Nat,
                  dels : SUBSET Deletion, timeout : Nat]
    /\ runs \in [Req -> Nat]
    /\ refused \subseteq Req
    /\ appearances \in [IP -> Nat]
    /\ flaggedAt \in [IP -> Nat]

Init ==
    /\ EnforcementInit
    /\ pending = {}
    /\ auto = FALSE
    /\ windows = [k \in Key |-> 0]
    /\ phase = "idle"
    /\ batch = <<>>
    /\ handled = {}
    /\ nextReq = 1
    /\ alerts = {}
    /\ runs = [r \in Req |-> 0]
    /\ refused = {}
    /\ appearances = [ip \in IP |-> 0]
    /\ flaggedAt = [ip \in IP |-> 0]

-------------------------------------------------------------------------------
(* Active windows.                                                         *)

\* _window_scope_ip and the key of set_window.
KeyOf(d) == <<IF d.action = "ddos" THEN d.dst ELSE d.src, d.cat>>

\* _window_ttl_sec.
WindowTtl(d, duration) ==
    IF d.action = "monitor" THEN MonitorCooldown
    ELSE IF d.action = "perm_block" THEN PermWindow
    ELSE IF duration > 0 THEN duration
    ELSE MonitorCooldown

SetWindow(d, ttl) == windows' = [windows EXCEPT ![KeyOf(d)] = now + ttl]

\* get_relevant_windows: the source's categories, and the target's DDoS.
Shut_SourceOnly(src, dst) == {c \in Windowed : windows[<<src, c>>] > now}

Shut(src, dst) ==
    {c \in Windowed : \/ windows[<<src, c>>] > now
                      \/ c = "ddos" /\ windows[<<dst, c>>] > now}

-------------------------------------------------------------------------------
(* The pipeline.                                                           *)

Enrich(f) == [src |-> f.src, dst |-> f.dst, shut |-> Shut(f.src, f.dst)]

\* _consume_ring takes up to MaxBatch flows and awaits send_batch, which
\* enriches them all before the request leaves.
SendBatch ==
    /\ up /\ phase = "idle"
    /\ \E n \in 1..MaxBatch : \E flows \in [1..n -> Flow] :
        batch' = [i \in 1..n |-> Enrich(flows[i])]
    /\ phase' = "sent"
    /\ UNCHANGED <<evars, pending, auto, windows, handled, nextReq, alerts, runs,
                   refused, appearances, flaggedAt>>

\* An error status, a timeout or a broken connection: the batch is dropped.
PredictFails ==
    /\ up /\ phase = "sent"
    /\ phase' = "idle"
    /\ batch' = <<>>
    /\ UNCHANGED <<evars, pending, auto, windows, handled, nextReq, alerts, runs,
                   refused, appearances, flaggedAt>>

PredictReplies ==
    /\ up /\ phase = "sent"
    /\ phase' = "handling"
    /\ handled' = {}
    /\ UNCHANGED <<evars, pending, auto, windows, batch, nextReq, alerts, runs,
                   refused, appearances, flaggedAt>>

\* The decisions the AI engine may take for a flow: none in a category that
\* had an active window when the flow was enriched.
Decisions(f) ==
    {d \in Decision : d.src = f.src /\ d.dst = f.dst /\ d.cat \notin f.shut}

NextFlow ==
    /\ batch' = Tail(batch)
    /\ phase' = IF Len(batch) = 1 THEN "idle" ELSE "handling"

\* _handle_prediction returns early: no alert, a suppressed one, or a second
\* one of its key in this batch.
SkipFlow ==
    /\ up /\ phase = "handling"
    /\ NextFlow
    /\ UNCHANGED <<evars, pending, auto, windows, handled, nextReq, alerts, runs,
                   refused, appearances, flaggedAt>>

-------------------------------------------------------------------------------
(* The gateway.                                                            *)

\* _cleanup_pending runs on every insertion, and only then.
Stale(p) == now - p.at > PendingTTL

\* record_decision and raise_attack_flag, before either branch.
Record(d) ==
    /\ appearances' = [appearances EXCEPT ![d.src] = @ + 1]
    /\ flaggedAt' = IF d.action # "monitor" /\ d.dst \in Internal
                    THEN [flaggedAt EXCEPT ![d.dst] = now] ELSE flaggedAt

Alert(d, dels, timeout) ==
    [req |-> nextReq, key |-> KeyOf(d), at |-> now, dels |-> dels, timeout |-> timeout]

\* handle_decision with auto_approve: executed, then reported.
DecideAuto(d, added, read) ==
    /\ auto
    /\ Execute(d, added, read)
    /\ SetWindow(d, WindowTtl(d, ResultDuration(d, read)))
    /\ alerts' = alerts \cup {Alert(d, PayloadDeletions(d, added, read),
                                 ResultDuration(d, read))}
    /\ runs' = [runs EXCEPT ![nextReq] = @ + 1]
    /\ UNCHANGED pending

\* handle_decision without: kept for an admin, with a dry run for the alert.
DecidePending(d) ==
    /\ ~auto
    /\ pending' = {p \in pending : ~Stale(p)}
                    \cup {[req |-> nextReq, d |-> d, at |-> now]}
    /\ SetWindow(d, PendingCooldown)
    /\ alerts' = alerts \cup {Alert(d, {}, ResultDuration(d, RuleKinds(d)))}
    /\ UNCHANGED <<evars, runs>>

\* _handle_prediction on an alert: one decision per key and batch.
HandleFlow ==
    /\ up /\ phase = "handling"
    /\ nextReq <= MaxReq
    /\ \E d \in Decisions(Head(batch)) :
        /\ KeyOf(d) \notin handled
        /\ handled' = handled \cup {KeyOf(d)}
        /\ Record(d)
        /\ \/ DecidePending(d)
           \/ /\ Fits(d)
              /\ \E added \in SUBSET RuleKinds(d) : \E read \in SUBSET added :
                    DecideAuto(d, added, read)
    /\ nextReq' = nextReq + 1
    /\ NextFlow
    /\ UNCHANGED <<auto, refused>>

\* The event loop serves admin requests while no reply is being handled.
LoopFree == up /\ phase # "handling"

\* handle_approve: the request leaves _pending first; a request that is not
\* there is answered 404 and changes nothing.
Popped_Kept(p) == pending

Popped(p) == pending \ {p}

Approve(p, added, read) ==
    /\ LoopFree
    /\ p \in pending
    /\ pending' = Popped(p)
    /\ Fits(p.d)
    /\ Execute(p.d, added, read)
    /\ SetWindow(p.d, WindowTtl(p.d, ResultDuration(p.d, read)))
    /\ runs' = [runs EXCEPT ![p.req] = @ + 1]
    /\ UNCHANGED <<auto, phase, batch, handled, nextReq, alerts, refused,
                   appearances, flaggedAt>>

\* handle_reject.
Reject(p) ==
    /\ LoopFree
    /\ p \in pending
    /\ pending' = pending \ {p}
    /\ SetWindow(p.d, RejectedCooldown)
    /\ refused' = refused \cup {p.req}
    /\ UNCHANGED <<evars, auto, phase, batch, handled, nextReq, alerts, runs,
                   appearances, flaggedAt>>

SetAuto ==
    /\ LoopFree
    /\ auto' = ~auto
    /\ UNCHANGED <<evars, pending, windows, phase, batch, handled, nextReq, alerts,
                   runs, refused, appearances, flaggedAt>>

\* POST /rules/delete.
RuleDelete == LoopFree /\ AdminDelete /\ UNCHANGED gvars

-------------------------------------------------------------------------------
\* The agent's memory goes with its process: the pending requests, the auto
\* approve flag and the batch.
AgentCrash ==
    /\ Crash
    /\ pending' = {}
    /\ auto' = FALSE
    /\ phase' = "idle"
    /\ batch' = <<>>
    /\ handled' = {}
    /\ UNCHANGED <<windows, nextReq, alerts, runs, refused, appearances, flaggedAt>>

Background ==
    /\ PopDue \/ RunDeletion \/ Start \/ SaveRules \/ Reboot \/ Tick
    /\ UNCHANGED gvars

Next ==
    \/ SendBatch \/ PredictFails \/ PredictReplies
    \/ SkipFlow \/ HandleFlow
    \/ \E p \in pending : \E added \in SUBSET RuleKinds(p.d) : \E read \in SUBSET added :
          Approve(p, added, read)
    \/ \E p \in pending : Reject(p)
    \/ SetAuto
    \/ RuleDelete
    \/ AgentCrash
    \/ Background

Spec == Init /\ [][Next]_vars

-------------------------------------------------------------------------------
(* Two alerts of one scope and category are at least the shortest cooldown *)
(* apart, although the windows are read before the AI engine is asked and  *)
(* set after it answered, with approvals and rejections moving them in     *)
(* between, and although a batch may hold many flows of one attack.        *)
AlertSpacing ==
    \A a, b \in alerts :
        /\ a.key = b.key /\ a.key[2] \in Windowed
        /\ a.req < b.req
        => a.at + MonitorCooldown <= b.at

(* What became of a request, seen from outside the agent.                  *)
VerdictOf(r) ==
    IF r >= nextReq THEN "unborn"
    ELSE IF runs[r] > 0 THEN "applied"
    ELSE IF r \in refused THEN "refused"
    ELSE IF \E p \in pending : p.req = r THEN "open"
    ELSE "lapsed"

Promise == INSTANCE Verdicts WITH verdict <- [r \in Req |-> VerdictOf(r)]

(* Approvals, rejections, clean-ups, crashes and the auto mode together    *)
(* give every request one verdict at most, and execute it at most once.    *)
ImplementsVerdicts == Promise!Spec
===============================================================================
