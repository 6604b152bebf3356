------------------------------- MODULE RLDecision ------------------------------
(***************************************************************************)
(* The mitigation decision: rl_inference.py and run_rl_stage of the AI     *)
(* engine, fed with the history of the source that ip_history_store.py     *)
(* keeps in Redis and redis_backup.py copies to a file.                    *)
(*                                                                         *)
(* The engine keeps nothing: the history travels with the flow.  It is     *)
(* read when a batch is enriched and updated when the reply is handled;    *)
(* in between, keys expire, the backup thread reads one key after the      *)
(* other, the agent crashes, and a restart writes the file over what       *)
(* Redis still has.                                                        *)
(*                                                                         *)
(* The trained agent is an arbitrary choice among the actions its mask     *)
(* allows.  The units are those of RLRules.                                *)
(***************************************************************************)
EXTENDS RLRules

CONSTANTS
    IP,             \* source addresses
    Label,          \* labels the IDS gives, in lower case
    Conf,           \* its confidences
    Score,          \* results of the anomaly models: [raw, key]
    Net,            \* metrics of the target: [sources, pressure, rate]
    MaxBatch,       \* bound: flows in a batch
    MaxMade         \* bound: decisions about one source

ASSUME LabelAssumption == Label \subseteq IdsLabel
ASSUME ConfAssumption == Conf \subseteq Confidence
ASSUME ScoreAssumption == \A score \in Score : score.raw \in Nat /\ score.key \in ModelKey
ASSUME NetAssumption == Net \subseteq [sources : Nat, pressure : Nat, rate : Nat]
ASSUME BoundAssumption == MaxBatch \in Nat /\ MaxMade \in Nat

-------------------------------------------------------------------------------
(* Redis and the backup.                                                   *)

VARIABLES
    hist,           \* Redis ip_history:<ip>, a hash without last_action
    file,           \* redis_backup.json: the hash of each address
    copied,         \* the snapshot of the backup under way
    todo,           \* the keys it has yet to read
    phase,          \* the backup thread: "waiting" or "reading"
    up,             \* the agent runs
    batch,          \* flows sent and not handled: [ip, rc], rc as it was read
    handled,        \* handled_this_batch: keys decided in this reply
    made,           \* history: decisions about an address, by field
    issued          \* history: the last decision, with what the engine knew

vars == <<hist, file, copied, todo, phase, up, batch, handled, made, issued>>

\* IP_HISTORY_ATTACK_FIELDS.
Field == {"dos", "ddos", "brute_force", "password", "scanning", "injection",
          "xss", "anomaly"}

IsHash(h) == DOMAIN h \subseteq Field \cup {"total"} /\ h \in [DOMAIN h -> Nat]
IsStore(s) == s = [ip \in IP |-> s[ip]] /\ \A ip \in IP : IsHash(s[ip])

\* A hash without fields: a key that does not exist.
NoHash == [f \in {} |-> 0]

ZeroRecord == [f \in Field \cup {"total"} |-> 0]

Get(h, f) == IF f \in DOMAIN h THEN h[f] ELSE 0

\* HSET with a mapping.
Hset(h, m) == [f \in DOMAIN h \cup DOMAIN m |-> IF f \in DOMAIN m THEN m[f] ELSE h[f]]

\* record_decision, hincrby of the total and of the category's field.
FieldOf(cat) == IF cat \in Field THEN cat ELSE "anomaly"

Counted(h, cat) == Hset(h, [f \in {"total", FieldOf(cat)} |-> Get(h, f) + 1])

Init ==
    /\ hist = [ip \in IP |-> NoHash]
    /\ file = [ip \in IP |-> NoHash]
    /\ copied = [ip \in IP |-> NoHash]
    /\ todo = {}
    /\ phase = "waiting"
    /\ up = TRUE
    /\ batch = <<>>
    /\ handled = {}
    /\ made = [ip \in IP |-> ZeroRecord]
    /\ issued = [action |-> "none"]

\* get_for_state, for every flow of a batch: a source without a record gets
\* one of zeros.
Enrich ==
    /\ up /\ batch = <<>>
    /\ \E n \in 1..MaxBatch : \E flows \in [1..n -> IP] :
        /\ batch' = [i \in 1..n |-> [ip |-> flows[i], rc |-> Get(hist[flows[i]], "total")]]
        /\ hist' = [ip \in IP |->
              IF hist[ip] = NoHash /\ \E i \in 1..n : flows[i] = ip
              THEN ZeroRecord ELSE hist[ip]]
    /\ handled' = {}
    /\ UNCHANGED <<file, copied, todo, phase, up, made, issued>>

\* The reply is an error, or does not come, or its handling ends with one.
DropBatch ==
    /\ batch # <<>>
    /\ batch' = <<>>
    /\ UNCHANGED <<hist, file, copied, todo, phase, up, handled, made, issued>>

\* A flow that is no alert, or whose attack has an active window.
SkipFlow ==
    /\ batch # <<>>
    /\ batch' = Tail(batch)
    /\ UNCHANGED <<hist, file, copied, todo, phase, up, handled, made, issued>>

\* _build_full_response, run_rl_stage and record_decision: a flow that is an
\* alert, and the first of its attack in the reply, is decided with what was
\* on record when it was sent, and counted.  handled_this_batch names the
\* target of a DDoS response instead of the source.
HandleFlow ==
    /\ batch # <<>>
    /\ \E label \in Label, conf \in Conf, score \in Score, net \in Net :
        LET flow == Head(batch)
            ids == MakeIds(label, conf)
            an == Normalized(score.raw, score.key)
            cat == CategoryOf(ids, an)
            allowed == Allowed(ids, an, flow.rc, net)
        IN
        /\ IsAlert(label, conf, score)
        /\ <<flow.ip, cat>> \notin handled
        /\ made[flow.ip]["total"] < MaxMade
        /\ \E action \in allowed :
            /\ handled' = IF action = "ddos" THEN handled
                          ELSE handled \cup {<<flow.ip, cat>>}
            /\ issued' = [action |-> action, cat |-> cat,
                          before |-> made[flow.ip]["total"],
                          agrees |-> Recommended(ids, an, flow.rc, net) \in allowed]
        /\ hist' = [hist EXCEPT ![flow.ip] = Counted(@, cat)]
        /\ made' = [made EXCEPT ![flow.ip] = Counted(@, cat)]
    /\ batch' = Tail(batch)
    /\ UNCHANGED <<file, copied, todo, phase, up>>

\* A record of three days without a decision is gone.
Expire ==
    /\ \E ip \in IP : hist[ip] # NoHash /\ hist' = [hist EXCEPT ![ip] = NoHash]
    /\ UNCHANGED <<file, copied, todo, phase, up, batch, handled, made, issued>>

\* backup_now, in a thread of its own: SCAN returns every key that is there
\* all the time, and may or may not return the others, or one twice.
BeginBackup ==
    /\ up /\ phase = "waiting"
    /\ phase' = "reading"
    /\ todo' = {ip \in IP : hist[ip] # NoHash}
    /\ UNCHANGED <<hist, file, copied, up, batch, handled, made, issued>>

ReadKey ==
    /\ phase = "reading"
    /\ \E ip \in IP :
        /\ ip \in todo \/ hist[ip] # NoHash
        /\ copied' = [copied EXCEPT ![ip] = hist[ip]]
        /\ todo' = todo \ {ip}
    /\ UNCHANGED <<hist, file, phase, up, batch, handled, made, issued>>

ReplaceFile ==
    /\ phase = "reading" /\ todo = {}
    /\ file' = copied
    /\ copied' = [ip \in IP |-> NoHash]
    /\ phase' = "waiting"
    /\ UNCHANGED <<hist, todo, up, batch, handled, made, issued>>

\* The agent ends, in the middle of a backup or not; with the host, Redis may
\* lose everything.
Crash ==
    /\ up
    /\ up' = FALSE
    /\ copied' = [ip \in IP |-> NoHash]
    /\ todo' = {}
    /\ phase' = "waiting"
    /\ batch' = <<>>
    /\ UNCHANGED <<hist, file, handled, made, issued>>

RedisLost ==
    /\ ~up
    /\ hist' = [ip \in IP |-> NoHash]
    /\ UNCHANGED <<file, copied, todo, phase, up, batch, handled, made, issued>>

\* restore_from_backup: the fields of the file over those Redis has.
Restored_Added(h, m) ==
    [f \in DOMAIN h \cup DOMAIN m |-> Get(h, f) + Get(m, f)]

Restored(h, m) == Hset(h, m)

Start ==
    /\ ~up
    /\ up' = TRUE
    /\ hist' = [ip \in IP |-> Restored(hist[ip], file[ip])]
    /\ UNCHANGED <<file, copied, todo, phase, batch, handled, made, issued>>

Next ==
    \/ Enrich \/ DropBatch \/ SkipFlow \/ HandleFlow
    \/ Expire \/ RedisLost
    \/ BeginBackup \/ ReadKey \/ ReplaceFile
    \/ Crash \/ Start

Spec == Init /\ [][Next]_vars

-------------------------------------------------------------------------------
Category == Field \cup {"normal"}
Action == {"monitor", "rate_limit", "temp_block", "perm_block", "ddos"}

(* The state is well typed: what Redis and the backup hold are hashes of   *)
(* the fields the engine reads.                                            *)
TypeOK ==
    /\ IsStore(hist) /\ IsStore(file) /\ IsStore(copied)
    /\ todo \subseteq IP
    /\ phase \in {"waiting", "reading"}
    /\ up \in BOOLEAN
    /\ batch \in Seq([ip : IP, rc : Nat])
    /\ handled \subseteq IP \X Category
    /\ made \in [IP -> [Field \cup {"total"} -> Nat]]
    /\ issued \in [action : Action, cat : Category, before : Nat, agrees : BOOLEAN]
                    \cup {[action |-> "none"]}

(* The history of a source never claims more decisions about it than were  *)
(* made, in all and by category: not after a backup read while they were   *)
(* counted, a record that expired between reading and counting, or a       *)
(* restore over what Redis still had.                                      *)
NeverOvercounts ==
    \A ip \in IP : \A f \in DOMAIN hist[ip] : hist[ip][f] <= made[ip][f]

(* A source is blocked for good at its third decision at the earliest, at  *)
(* its fourth unless the IDS confirmed an attack of the kinds of the       *)
(* decision table, and never under the category "normal": a3_ok is asked   *)
(* of a history read before the call, which a backup may have brought      *)
(* back.                                                                   *)
PermNeedsRepeats ==
    issued.action = "perm_block" =>
        /\ issued.before >= 2
        /\ issued.cat \notin {"password", "injection", "xss"} => issued.before >= 3
        /\ issued.cat # "normal"

(* The action the decision table recommends is one the mask leaves: the    *)
(* two are written independently of each other.                            *)
RecommendedIsAllowed == issued.action # "none" => issued.agrees

===============================================================================
