------------------------------- MODULE Sensor ---------------------------------
(***************************************************************************)
(* What the agent sees of the network: the capture threads, the            *)
(* deduplicator and the ring of unified_capture.py, the task that empties  *)
(* the ring into /predict (main.py), the traffic counters and the task     *)
(* that pushes them to Node (ws_monitor.py).                               *)
(*                                                                         *)
(* A flow is its key, the five fields of fid.  A capture thread reads the  *)
(* clock before it gets the deduplicator's lock, and again, once it has    *)
(* released it, before it gets the ring's; the clean-up thread reads it    *)
(* before its lock, too.  Lag bounds what passes from a reading to what is *)
(* done next.  The ring's reader takes the clock under the lock.  The      *)
(* tasks of the event loop exclude each other except at an await: the call *)
(* of /predict, and the send.                                              *)
(***************************************************************************)
EXTENDS Integers, Sequences, FiniteSets

CONSTANTS
    Flow,           \* keys of flows whose addresses are not on the whitelist
    Iface,          \* the interfaces, with a capture thread each
    Cap,            \* RingBuffer(15000)
    BatchSize,      \* get_batch(256)
    FlowTtl,        \* FLOW_TTL_SEC, 15
    DedupTtl,       \* FlowDeduplicator.ttl_sec, 60
    SweepEvery,     \* the wait of _background_cleanup, 60
    CallTime,       \* the session's total timeout, 30
    Lag,            \* from reading the clock to having the lock, and to the
                    \* second reading of a capture thread
    MaxTime         \* bound: the clock stops

ASSUME SizeAssumption == Cap \in Nat \ {0} /\ BatchSize \in Nat \ {0}
ASSUME TimeAssumption ==
    /\ {FlowTtl, DedupTtl, SweepEvery, CallTime, Lag, MaxTime} \subseteq Nat
    /\ FlowTtl + CallTime + Lag < DedupTtl /\ 2 * Lag < DedupTtl

VARIABLES
    clock,
    worker,         \* worker[i]: the capture thread of interface i
    seen,           \* the deduplicator's cache: when a key was admitted
    sweeper,        \* its clean-up thread
    ring,           \* RingBuffer._buf: [flow, stamp]
    call,           \* _consume_ring: the batch it awaits /predict for
    stats,          \* TrafficStats: flows counted since the last snapshot
    sending,        \* WsMonitor._push_once: the snapshot being sent
    owed            \* history: flows counted, less those whose send has ended

vars == <<clock, worker, seen, sweeper, ring, call, stats, sending, owed>>

capture == <<worker, seen, sweeper>>
monitor == <<stats, sending, owed>>

Never == -1
None == -1
Idle == [pc |-> "idle"]

Entry == [flow : Flow, stamp : Nat]

Init ==
    /\ clock = 0
    /\ worker = [i \in Iface |-> Idle]
    /\ seen = [f \in Flow |-> Never]
    /\ sweeper = [pc |-> "waiting", since |-> 0]
    /\ ring = <<>>
    /\ call = Idle
    /\ stats = 0
    /\ sending = None
    /\ owed = 0

-------------------------------------------------------------------------------
(* The capture threads.                                                    *)

\* capture_worker: a flow ended; is_duplicate reads the clock.
Export(i) ==
    /\ worker[i] = Idle
    /\ \E f \in Flow :
        worker' = [worker EXCEPT ![i] = [pc |-> "check", flow |-> f, now |-> clock]]
    /\ UNCHANGED <<clock, seen, sweeper, ring, call, monitor>>

\* is_duplicate under its lock.
Known(f, now) == seen[f] # Never /\ now - seen[f] < DedupTtl

IsDuplicate(i) ==
    /\ worker[i].pc = "check"
    /\ LET f == worker[i].flow IN
        IF Known(f, worker[i].now)
        THEN /\ worker' = [worker EXCEPT ![i] = Idle]
             /\ UNCHANGED seen
        ELSE /\ worker' = [worker EXCEPT ![i].pc = "admitted"]
             /\ seen' = [seen EXCEPT ![f] = worker[i].now]
    /\ UNCHANGED <<clock, sweeper, ring, call, monitor>>

\* RingBuffer.put reads the clock again, before its lock.
Stamp(i) ==
    /\ worker[i].pc = "admitted"
    /\ worker' = [worker EXCEPT
          ![i] = [pc |-> "put", flow |-> worker[i].flow, stamp |-> clock]]
    /\ UNCHANGED <<clock, seen, sweeper, ring, call, monitor>>

\* RingBuffer.put under the lock: a full deque drops its oldest item.
Put_Unbounded(i) ==
    /\ worker[i].pc = "put"
    /\ ring' = Append(ring, [flow |-> worker[i].flow, stamp |-> worker[i].stamp])
    /\ worker' = [worker EXCEPT ![i] = Idle]
    /\ UNCHANGED <<clock, seen, sweeper, call, monitor>>

Put(i) ==
    /\ worker[i].pc = "put"
    /\ ring' = Append(IF Len(ring) = Cap THEN Tail(ring) ELSE ring,
                      [flow |-> worker[i].flow, stamp |-> worker[i].stamp])
    /\ worker' = [worker EXCEPT ![i] = Idle]
    /\ UNCHANGED <<clock, seen, sweeper, call, monitor>>

\* _background_cleanup: the clock, then the lock.
SweepBegins ==
    /\ sweeper.pc = "waiting"
    /\ clock - sweeper.since >= SweepEvery
    /\ sweeper' = [pc |-> "awake", now |-> clock]
    /\ UNCHANGED <<clock, worker, seen, ring, call, monitor>>

Expired_Early(f, now) == seen[f] # Never /\ now - seen[f] >= FlowTtl

Expired(f, now) == seen[f] # Never /\ now - seen[f] >= DedupTtl

Sweep ==
    /\ sweeper.pc = "awake"
    /\ seen' = [f \in Flow |-> IF Expired(f, sweeper.now) THEN Never ELSE seen[f]]
    /\ sweeper' = [pc |-> "waiting", since |-> clock]
    /\ UNCHANGED <<clock, worker, ring, call, monitor>>

-------------------------------------------------------------------------------
(* The event loop.                                                         *)

Fresh_Strictly(e) == clock - e.stamp < FlowTtl

Fresh(e) == clock - e.stamp <= FlowTtl

\* get_batch pops until it has a full batch of fresh flows or nothing is left.
FreshIn(n) == Cardinality({j \in 1..n : Fresh(ring[j])})

Pops(n) ==
    /\ n = Len(ring) \/ FreshIn(n) = BatchSize
    /\ \A m \in 1..(n - 1) : FreshIn(m) < BatchSize

\* _consume_ring: get_batch, and send_batch up to its await.  _build_payload
\* counts the records one by one and may end with an exception of Redis.
TakeBatch ==
    /\ call = Idle /\ ring # <<>>
    /\ \E n \in 1..Len(ring) :
        LET batch == {ring[j] : j \in {k \in 1..n : Fresh(ring[k])}} IN
        /\ Pops(n)
        /\ ring' = SubSeq(ring, n + 1, Len(ring))
        /\ \E k \in 0..Cardinality(batch) :
            /\ stats' = stats + k
            /\ owed' = owed + k
            /\ call' = IF k = Cardinality(batch) /\ batch # {}
                       THEN [pc |-> "predict", batch |-> batch, since |-> clock] ELSE Idle
    /\ UNCHANGED <<clock, capture, sending>>

\* The reply is handled (ApprovalGateway), or the call ended with an error or
\* a timeout, which send_batch logs.
CallEnds_Raises ==
    /\ call.pc = "predict"
    /\ call' \in {Idle, [pc |-> "dead"]}
    /\ UNCHANGED <<clock, capture, ring, monitor>>

CallEnds ==
    /\ call.pc = "predict"
    /\ call' = Idle
    /\ UNCHANGED <<clock, capture, ring, monitor>>

\* _push_once, on whichever connection run has: snapshot_and_reset, then the
\* send.
Push_KeepsCounts ==
    /\ sending = None
    /\ sending' = stats
    /\ UNCHANGED <<clock, capture, ring, call, stats, owed>>

Push ==
    /\ sending = None
    /\ sending' = stats
    /\ stats' = 0
    /\ UNCHANGED <<clock, capture, ring, call, owed>>

\* The send is done, or raises; then run connects again after five seconds.
SendEnds ==
    /\ sending # None
    /\ sending' = None
    /\ owed' = owed - sending
    /\ UNCHANGED <<clock, capture, ring, call, stats>>

-------------------------------------------------------------------------------
\* A thread goes on within Lag, a call ends within CallTime.
ReadAt(w) ==
    IF w.pc \in {"check", "admitted"} THEN w.now
    ELSE IF w.pc = "put" THEN w.stamp ELSE clock

Tick ==
    /\ clock < MaxTime
    /\ \A i \in Iface : clock - ReadAt(worker[i]) < Lag
    /\ sweeper.pc = "awake" => clock - sweeper.now < Lag
    /\ call.pc = "predict" => clock - call.since < CallTime
    /\ clock' = clock + 1
    /\ UNCHANGED <<capture, ring, call, monitor>>

Next ==
    \/ \E i \in Iface : Export(i) \/ IsDuplicate(i) \/ Stamp(i) \/ Put(i)
    \/ SweepBegins \/ Sweep
    \/ TakeBatch \/ CallEnds
    \/ Push \/ SendEnds
    \/ Tick

\* _consume_ring polls ten times a second, and aiohttp ends its calls.
Fairness == WF_vars(TakeBatch) /\ WF_vars(CallEnds)

Spec == Init /\ [][Next]_vars /\ Fairness

-------------------------------------------------------------------------------
CheckState == [pc : {"check"}, flow : Flow, now : Nat]
AdmitState == [pc : {"admitted"}, flow : Flow, now : Nat]
PutState == [pc : {"put"}, flow : Flow, stamp : Nat]
WorkerState == {Idle} \cup CheckState \cup AdmitState \cup PutState
PredictState == [pc : {"predict"}, batch : SUBSET Entry, since : Nat]

(* The state is well typed, and the ring within its limit.                 *)
SensorTypeOK ==
    /\ clock \in Nat
    /\ worker \in [Iface -> WorkerState]
    /\ seen \in [Flow -> Nat \cup {Never}]
    /\ sweeper \in [pc : {"waiting"}, since : Nat] \cup [pc : {"awake"}, now : Nat]
    /\ ring \in Seq(Entry) /\ Len(ring) <= Cap
    /\ call \in {Idle} \cup PredictState
    /\ stats \in Nat
    /\ sending \in Nat \cup {None}
    /\ owed \in Int

Holds(i, f) == worker[i].pc \in {"admitted", "put"} /\ worker[i].flow = f
Waits(j, f) == Fresh(ring[j]) /\ ring[j].flow = f
Asked(f) == call.pc = "predict" /\ \E e \in call.batch : e.flow = f

(* A flow is on its way to /predict once at a time: with a thread, in the  *)
(* ring and not yet too old, or in the batch the engine is asked about.    *)
(* The engine counts flows and the gateway decisions, and both take a      *)
(* flow seen on two interfaces, or exported in parts, for one.  It takes   *)
(* the deduplicator's memory to outlast the ring's and the call's, and its *)
(* clean-up to spare what is on its way.                                   *)
OneAtATime ==
    \A f \in Flow :
        /\ \A i, j \in Iface : Holds(i, f) /\ Holds(j, f) => i = j
        /\ \A i, j \in DOMAIN ring : Waits(i, f) /\ Waits(j, f) => i = j
        /\ \A i \in Iface, j \in DOMAIN ring : ~(Holds(i, f) /\ Waits(j, f))
        /\ Asked(f) => /\ \A i \in Iface : ~Holds(i, f)
                       /\ \A j \in DOMAIN ring : ~Waits(j, f)
                       /\ Cardinality({e \in call.batch : e.flow = f}) = 1

Gone(j) == \A k \in DOMAIN ring' : ring'[k] # ring[j]

LeavesWell(j) ==
    \/ call'.pc = "predict" /\ ring[j] \in call'.batch
    \/ Len(ring) = Cap /\ j = 1 /\ Len(ring') = Cap
    \/ call' = Idle /\ stats' - stats < FreshIn(Len(ring) - Len(ring'))

(* A flow of at most FlowTtl leaves the ring for /predict, or because the  *)
(* ring is full and it is the oldest, or with a batch that is not sent.    *)
(* The last happens only when building the payload ended with an exception *)
(* (flow_pipeline.py:95-101), so that a flow of the batch is not among     *)
(* those counted: a batch whose flows were all counted is sent.            *)
LossHasACause ==
    [][\A j \in DOMAIN ring :
          clock - ring[j].stamp <= FlowTtl /\ Gone(j) => LeavesWell(j)]_vars

(* What Node was shown and what the agent still has to show is what was    *)
(* counted, but for the snapshots that were under way when a send failed:  *)
(* nothing is shown twice, and nothing is lost that was counted during a   *)
(* send.                                                                   *)
TrafficAddsUp ==
    owed = stats + (IF sending = None THEN 0 ELSE sending)

(* Whatever /predict answers, if anything, a flow does not stay in the     *)
(* ring for ever.                                                          *)
RingServed ==
    \A f \in Flow :
        (\E j \in DOMAIN ring : ring[j].flow = f)
            ~> ~(\E j \in DOMAIN ring : ring[j].flow = f)

===============================================================================
