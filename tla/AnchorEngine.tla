------------------------------ MODULE AnchorEngine -----------------------------
(***************************************************************************)
(* The engine that corrects the classifier's label by what a source and a  *)
(* target did in the last TTL seconds: FinalAnchorEngine, with the calls   *)
(* of /predict and /predict/ids that feed it and the RL stage that reads   *)
(* it.                                                                     *)
(*                                                                         *)
(* The handlers have no await after the body is read, so the event loop    *)
(* serves one call at a time; the thread "anchor-cleanup" runs between     *)
(* any two steps of a call, except inside the locked part of update.       *)
(*                                                                         *)
(* A window is a set of numbered entries instead of a deque: entries are   *)
(* appended in the order of their stamps and everyone counts or sums them. *)
(***************************************************************************)
EXTENDS Integers, Sequences, FiniteSets, FiniteSetsExt

CONSTANTS
    IP,             \* addresses
    Whitelist,      \* addresses of CDN_WHITELIST
    Flows,          \* flow records that arrive
    TTL,            \* self.ttl
    ScanPorts,      \* SCAN_PORT_THRESHOLD
    MinSources,     \* DDOS_MIN_SOURCES
    MinFlows,       \* DDOS_MIN_FLOWS
    VolumeFlows,    \* flows of the "volume" method
    VictimFlows,    \* flows that make an address a known victim
    FloodRate,      \* DOS_PACKET_RATE_THRESHOLD
    CallTime,       \* how long the agent waits for an answer
    LastCall,       \* bound: the last instant at which a call begins
    MaxBatch,       \* bound: flows of a call
    MaxWindow       \* bound: flows remembered when a call begins

\* What the engine uses of engineer_features and of the metadata: "resp" is
\* the part of is_response that the flow alone decides.
Flow == [src : IP, dst : IP, port : Nat, rate : Nat, syn : BOOLEAN,
         resp : BOOLEAN]

ASSUME FlowsAssumption ==
    /\ Flows \subseteq Flow
    /\ \A f \in Flows : f.resp => ~f.syn
ASSUME WhitelistAssumption == Whitelist \subseteq IP
ASSUME ThresholdAssumption ==
    {ScanPorts, MinSources, MinFlows, VolumeFlows, VictimFlows, FloodRate}
        \subseteq Nat \ {0}
ASSUME TimeAssumption ==
    /\ {TTL, CallTime, LastCall} \subseteq Nat
    /\ CallTime <= TTL
ASSUME BoundAssumption == {MaxBatch, MaxWindow} \subseteq Nat

\* The last instant at which a call is under way, and the end of time.
LastAnswer == LastCall + CallTime
EndOfTime == LastAnswer + TTL + 1

VARIABLES
    now,            \* time.time()
    history,        \* history[src, dst]
    ports,          \* port_history[src, dst]
    sources,        \* global_target_stats[dst]["sources"]
    last,           \* global_target_stats[dst]["last_update"]
    flows,          \* global_target_stats[dst]["flows"]
    clock,          \* the instant the cleanup thread has read, or Off
    call,           \* the call of /predict under way
    session         \* history: the ports of a pair since it was last silent

pairs == <<history, ports>>
targets == <<sources, last, flows>>
vars == <<now, pairs, targets, clock, call, session>>

Pair == IP \X IP
PairOf(f) == <<f.src, f.dst>>
IsWhitelisted(f) == {f.src, f.dst} \cap Whitelist # {}
Off == -1
Idle == [pc |-> "idle"]

Init ==
    /\ now = 0
    /\ history = [k \in Pair |-> {}]
    /\ ports = [k \in Pair |-> {}]
    /\ sources = [ip \in IP |-> {}]
    /\ last = [ip \in IP |-> 0]
    /\ flows = [ip \in IP |-> {}]
    /\ clock = Off
    /\ call = Idle
    /\ session = [k \in Pair |-> [at |-> 0, ports |-> {}]]

-------------------------------------------------------------------------------
(* Windows.                                                                *)

\* The loops that pop the old entries off the front of a deque.
Fresh(window, t) == {e \in window : t - e.ts <= TTL}

\* The ports of a pair do not outlive its window.
KeptPorts_Always(window, seen) == seen

KeptPorts(window, seen) == IF window = {} THEN {} ELSE seen

Push(window, t, f) ==
    LET twins == {e \in window : e.ts = t /\ e.flow = f}
    IN  window \cup {[ts |-> t, flow |-> f, n |-> Cardinality(twins)]}

Syns(window) == {e \in window : e.flow.syn}
Rates(window) == MapThenSumSet(LAMBDA e : e.flow.rate, window)

\* DOS_SYN_RATIO_THRESHOLD, and the 0.8 of the "volume" method.
IsFlood(window) ==
    /\ Rates(window) > FloodRate * Cardinality(window)
    /\ 10 * Cardinality(Syns(window)) > 7 * Cardinality(window)

IsVolume(window) ==
    /\ 10 * Cardinality(Syns(window)) > 8 * Cardinality(window)
    /\ Cardinality(window) >= VolumeFlows

IsVictim(window) == Cardinality(window) >= VictimFlows

\* _check_ddos.
IsDdos(srcs, window) ==
    /\ Cardinality(srcs) >= MinSources
    /\ Cardinality(window) >= MinFlows
    /\ IsFlood(window) \/ IsVolume(window)

\* _analyze.  "rest" stands for what the patterns of brute force, web and
\* slow attacks say of the window and, when they say nothing, for the label
\* of the classifier.
Analyze(window, seen, srcs, victim) ==
    IF Cardinality(window) < 2 THEN "rest"
    ELSE IF /\ Cardinality(seen) >= ScanPorts
            /\ ~victim
            /\ Syns(window) # {}
         THEN "scanning"
    ELSE IF IsFlood(window) /\ Cardinality(seen) < ScanPorts
         THEN IF Cardinality(srcs) >= MinSources THEN "DDoS" ELSE "DoS"
    ELSE "rest"

-------------------------------------------------------------------------------
(* A call.                                                                 *)

Remembered == UNION {{<<k, e>> : e \in history[k]} : k \in Pair}

\* predict_combined or predict_ids_only, up to the loop of run_ids_batch.
BeginCall ==
    /\ call = Idle
    /\ now <= LastCall
    /\ \E n \in 1 .. MaxBatch : \E batch \in [1 .. n -> Flows] :
          /\ Cardinality(Remembered) + n <= MaxWindow
          /\ call' = [pc |-> "look", batch |-> batch, verdicts |-> << >>,
                      began |-> now]
    /\ UNCHANGED <<now, pairs, targets, clock, session>>

CurrentFlow == call.batch[Len(call.verdicts) + 1]

\* The result of the current flow; after the last one, the RL stage.
Judged(label) ==
    LET verdicts == Append(call.verdicts, label)
    IN  [call EXCEPT !.verdicts = verdicts,
                     !.pc = IF Len(verdicts) = Len(call.batch)
                            THEN "answer" ELSE "look"]

\* The whitelist, and the part of update outside the lock.
Look ==
    /\ call.pc = "look"
    /\ LET f == CurrentFlow
       IN  call' = IF \/ IsWhitelisted(f)
                      \/ f.resp /\ IsVictim(flows[f.src])
                   THEN Judged("Benign")
                   ELSE [call EXCEPT !.pc = "update"]
    /\ UNCHANGED <<now, pairs, targets, clock, session>>

\* The locked part of update: the clock is read for _cleanup_on_request, for
\* the history, for last_update and for the flows, and may advance meanwhile.
Update ==
    /\ call.pc = "update"
    /\ \E t1, t2, t3 \in {now, now + 1} :
          /\ t1 <= t2 /\ t2 <= t3 /\ t3 <= LastAnswer
          /\ now' = t3
          /\ LET f == CurrentFlow
                 k == PairOf(f)
                 known == Fresh(history[k], now)
             IN  /\ history' = [history EXCEPT ![k] = Push(known, t1, f)]
                 /\ ports' = [ports EXCEPT
                       ![k] = KeptPorts(known, @) \cup {f.port}]
                 /\ sources' = [sources EXCEPT ![f.dst] = @ \cup {f.src}]
                 /\ last' = [last EXCEPT ![f.dst] = t2]
                 /\ flows' = [flows EXCEPT
                       ![f.dst] = Push(Fresh(@, now), t3, f)]
                 /\ call' = Judged(
                       IF IsDdos(sources'[f.dst], flows'[f.dst]) THEN "DDoS"
                       ELSE Analyze(history'[k], ports'[k], sources'[f.dst],
                                    IsVictim(flows'[f.src])))
                 /\ session' = [session EXCEPT ![k] =
                       [at |-> t1,
                        ports |-> (IF now - @.at > TTL THEN {} ELSE @.ports)
                                     \cup {f.port}]]
    /\ UNCHANGED clock

\* The RL stage of every alert and the answer, or the exception that ends
\* the call; neither undoes what the engine has learned.
Answer ==
    /\ call.pc = "answer"
    /\ call' = Idle
    /\ UNCHANGED <<now, pairs, targets, clock, session>>

\* _global_target_stats, without the rate.
TargetStats(dst) ==
    IF sources[dst] = {} /\ flows[dst] = {} THEN [sources |-> 1, conns |-> 0]
    ELSE [sources |-> Cardinality(sources[dst]),
          conns |-> Cardinality(flows[dst])]

-------------------------------------------------------------------------------
(* The cleanup thread, and time.                                           *)

\* The instant is read before the lock is taken.
ReadClock ==
    /\ clock = Off
    /\ clock' = now
    /\ UNCHANGED <<now, pairs, targets, call, session>>

Silent_Never(dst) == FALSE
Silent_Early(dst) == clock - last[dst] >= TTL
Silent_AnyFlow(dst) == \E e \in flows[dst] : clock - e.ts > TTL

Silent(dst) == clock - last[dst] > TTL

Clean ==
    /\ clock # Off
    /\ history' = [k \in Pair |-> Fresh(history[k], clock)]
    /\ ports' = [k \in Pair |-> KeptPorts(history'[k], ports[k])]
    /\ flows' = [ip \in IP |-> Fresh(flows[ip], clock)]
    /\ sources' = [ip \in IP |-> IF Silent(ip) THEN {} ELSE sources[ip]]
    /\ last' = [ip \in IP |->
          IF flows'[ip] = {} /\ sources'[ip] = {} THEN 0 ELSE last[ip]]
    /\ clock' = Off
    /\ UNCHANGED <<now, call, session>>

Tick ==
    /\ now < IF call = Idle THEN EndOfTime ELSE LastAnswer
    /\ now' = now + 1
    /\ UNCHANGED <<pairs, targets, clock, call, session>>

CallStep == Look \/ Update \/ Answer

Next == BeginCall \/ CallStep \/ ReadClock \/ Clean \/ Tick

\* Time passes, a call that has begun is served and the thread has its turn.
Spec ==
    /\ Init /\ [][Next]_vars
    /\ WF_vars(Tick) /\ WF_vars(CallStep)
    /\ WF_vars(ReadClock) /\ WF_vars(Clean)

-------------------------------------------------------------------------------
Window == SUBSET [ts : 0 .. EndOfTime, flow : Flows, n : Nat]

\* The type of the state.
TypeOK ==
    /\ now \in 0 .. EndOfTime
    /\ history \in [Pair -> Window]
    /\ ports \in [Pair -> SUBSET Nat]
    /\ sources \in [IP -> SUBSET IP]
    /\ last \in [IP -> 0 .. EndOfTime]
    /\ flows \in [IP -> Window]
    /\ clock \in {Off} \cup 0 .. EndOfTime
    /\ \/ call = Idle
       \/ call \in [pc : {"look", "update", "answer"}, batch : Seq(Flows),
                    verdicts : Seq({"Benign", "scanning", "DDoS", "DoS", "rest"}),
                    began : 0 .. LastCall]
    /\ session \in [Pair -> [at : 0 .. EndOfTime, ports : SUBSET Nat]]

\* The ports counted against a pair of addresses are ports it has used since
\* it was last silent for TTL seconds, and none of its window is missing:
\* the two cleanups, one with a clock read before it got the lock, never
\* carry ports over a silence and never lose one of a live window.
PortsOfSession ==
    \A k \in Pair :
        /\ {e.flow.port : e \in history[k]} \subseteq ports[k]
        /\ ports[k] \subseteq session[k].ports

\* A flow that still counts has its source among the target's sources.  At
\* the age of exactly TTL it may not: last_update may be read just before
\* the clock advances and the stamp of the flow just after.
SourcesCoverFlows ==
    \A ip \in IP : \A e \in flows[ip] :
        now - e.ts < TTL => e.flow.src \in sources[ip]

\* While the agent still waits for the answer, a flow judged DDoS is backed
\* by the number of sources the RL stage reads, without the lock, after the
\* whole batch was judged and whatever the cleanup has done since.
DdosStillBacked ==
    call # Idle /\ now <= call.began + CallTime =>
        \A i \in 1 .. Len(call.verdicts) :
            call.verdicts[i] = "DDoS" =>
                TargetStats(call.batch[i].dst).sources >= MinSources

Empty ==
    /\ \A k \in Pair : history[k] = {} /\ ports[k] = {}
    /\ \A ip \in IP : sources[ip] = {} /\ flows[ip] = {}

\* Once calls stop, everything the engine remembers is forgotten.
Forgotten == <>[](call = Idle) => <>[]Empty
===============================================================================
