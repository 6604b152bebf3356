----------------------------- MODULE SensorProofs -----------------------------
(***************************************************************************)
(* Proofs about Sensor: for any flows and interfaces, and any times within *)
(* TimeAssumption, the state is well typed, a flow is on its way to        *)
(* /predict once at a time, a flow that is not too old is lost only from a *)
(* full ring or with a batch that could not be built, and the traffic that *)
(* Node is shown adds up.                                                  *)
(*                                                                         *)
(* The inductive invariant follows the clock: whoever has a flow that is   *)
(* not too old has it for so short a time that the deduplicator still      *)
(* remembers when it admitted the flow.  So it admits no second one, and   *)
(* its clean-up does not forget it.                                        *)
(*                                                                         *)
(* The last part is about one call of get_batch: its loop ends, shortens   *)
(* the ring, and gives up on a full batch only when the ring is empty.     *)
(***************************************************************************)
EXTENDS Sensor, FiniteSetTheorems, SequenceTheorems, WellFoundedInduction, TLAPS

CheckInTime ==
    \A i \in Iface : worker[i].pc = "check" =>
        worker[i].now <= clock /\ clock - worker[i].now <= Lag

AdmitInTime ==
    \A i \in Iface : worker[i].pc = "admitted" =>
        /\ worker[i].now <= clock /\ clock - worker[i].now <= Lag
        /\ seen[worker[i].flow] = worker[i].now

PutInTime ==
    \A i \in Iface : worker[i].pc = "put" =>
        /\ clock - worker[i].stamp <= Lag
        /\ seen[worker[i].flow] # Never
        /\ worker[i].stamp - seen[worker[i].flow] <= Lag

SweepInTime == sweeper.pc = "awake" => sweeper.now <= clock

RingInTime ==
    \A j \in DOMAIN ring : Fresh(ring[j]) =>
        seen[ring[j].flow] # Never /\ ring[j].stamp - seen[ring[j].flow] <= Lag

CallInTime ==
    call.pc = "predict" =>
        /\ clock - call.since <= CallTime
        /\ \A e \in call.batch :
             seen[e.flow] # Never /\ call.since - seen[e.flow] <= FlowTtl + Lag

FlowsInTime == CheckInTime /\ AdmitInTime /\ PutInTime /\ RingInTime /\ CallInTime

SensorInv == SensorTypeOK /\ FlowsInTime /\ SweepInTime /\ OneAtATime /\ TrafficAddsUp

(* A flow is on its way.                                                   *)
Live(f) ==
    \/ \E i \in Iface : Holds(i, f)
    \/ \E j \in DOMAIN ring : Waits(j, f)
    \/ Asked(f)

LEMMA Times ==
    /\ FlowTtl \in Nat /\ DedupTtl \in Nat /\ SweepEvery \in Nat /\ CallTime \in Nat
    /\ Lag \in Nat /\ MaxTime \in Nat /\ Cap \in Nat \ {0} /\ BatchSize \in Nat \ {0}
    /\ FlowTtl + CallTime + Lag < DedupTtl /\ 2 * Lag < DedupTtl
BY SizeAssumption, TimeAssumption

(* What a thread, the ring and the call may be.                            *)
LEMMA WorkerShape ==
    ASSUME SensorTypeOK, NEW i \in Iface
    PROVE  /\ \/ worker[i] = Idle \/ worker[i] \in CheckState
              \/ worker[i] \in AdmitState \/ worker[i] \in PutState
           /\ worker[i].pc = "idle" <=> worker[i] = Idle
           /\ worker[i].pc = "check" <=> worker[i] \in CheckState
           /\ worker[i].pc = "admitted" <=> worker[i] \in AdmitState
           /\ worker[i].pc = "put" <=> worker[i] \in PutState
<1> USE DEF WorkerState, Idle, CheckState, AdmitState, PutState
<1>1. \/ worker[i] = Idle \/ worker[i] \in CheckState
      \/ worker[i] \in AdmitState \/ worker[i] \in PutState
  BY DEF SensorTypeOK
<1>2. CASE worker[i] = Idle
  BY <1>2
<1>3. CASE worker[i] \in CheckState
  BY <1>3
<1>4. CASE worker[i] \in AdmitState
  BY <1>4
<1>5. CASE worker[i] \in PutState
  BY <1>5
<1> QED BY <1>1, <1>2, <1>3, <1>4, <1>5

LEMMA CallShape ==
    ASSUME SensorTypeOK
    PROVE  /\ call = Idle \/ call \in PredictState
           /\ call.pc = "idle" <=> call = Idle
           /\ call.pc = "predict" <=> call \in PredictState
<1>1. call = Idle \/ call \in PredictState
  BY DEF SensorTypeOK
<1>2. CASE call = Idle
  BY <1>2 DEF Idle, PredictState
<1>3. CASE call \in PredictState
  BY <1>3 DEF Idle, PredictState
<1> QED BY <1>1, <1>2, <1>3

LEMMA RingShape ==
    ASSUME SensorTypeOK
    PROVE  /\ ring \in Seq(Entry) /\ Len(ring) \in Nat /\ DOMAIN ring = 1..Len(ring)
           /\ \A j \in DOMAIN ring : ring[j] \in Entry /\ ring[j].flow \in Flow /\ ring[j].stamp \in Nat
           /\ seen \in [Flow -> Nat \cup {Never}] /\ clock \in Nat
<1>1. ring \in Seq(Entry)
  BY DEF SensorTypeOK
<1>2. Len(ring) \in Nat /\ DOMAIN ring = 1..Len(ring) /\ \A j \in DOMAIN ring : ring[j] \in Entry
  BY <1>1
<1>3. \A e \in Entry : e.flow \in Flow /\ e.stamp \in Nat
  BY DEF Entry
<1> QED BY <1>1, <1>2, <1>3 DEF SensorTypeOK

(* The deduplicator remembers a flow that is on its way.                   *)
LEMMA LiveIsKnown ==
    ASSUME SensorTypeOK, FlowsInTime, NEW f \in Flow, Live(f)
    PROVE  seen[f] \in Nat /\ seen[f] # Never /\ clock - seen[f] < DedupTtl
<1>1. clock \in Nat /\ seen[f] \in Nat \cup {Never}
  BY DEF SensorTypeOK
<1>2. ASSUME NEW i \in Iface, Holds(i, f)
      PROVE  seen[f] # Never /\ clock - seen[f] < DedupTtl
  <2>1. worker[i].flow = f /\ worker[i].pc \in {"admitted", "put"}
    BY <1>2 DEF Holds
  <2>2. CASE worker[i].pc = "put"
    <3>1. PICK s \in Nat : s = worker[i].stamp
      BY <2>2, WorkerShape DEF PutState
    <3>2. clock - s <= Lag /\ seen[f] # Never /\ s - seen[f] <= Lag
      BY <2>1, <2>2, <3>1 DEF FlowsInTime, PutInTime
    <3> QED BY <1>1, <3>2, Times
  <2>3. CASE worker[i].pc = "admitted"
    <3>1. PICK s \in Nat : s = worker[i].now
      BY <2>3, WorkerShape DEF AdmitState
    <3>2. clock - s <= Lag /\ seen[f] = s
      BY <2>1, <2>3, <3>1 DEF FlowsInTime, AdmitInTime
    <3> QED BY <1>1, <3>1, <3>2, Times DEF Never
  <2> QED BY <2>1, <2>2, <2>3
<1>3. ASSUME NEW j \in DOMAIN ring, Waits(j, f)
      PROVE  seen[f] # Never /\ clock - seen[f] < DedupTtl
  <2>1. PICK s \in Nat : s = ring[j].stamp
    BY RingShape
  <2>2. clock - s <= FlowTtl /\ seen[f] # Never /\ s - seen[f] <= Lag
    BY <1>3, <2>1 DEF FlowsInTime, RingInTime, Waits, Fresh
  <2> QED BY <1>1, <2>2, Times
<1>4. ASSUME Asked(f)
      PROVE  seen[f] # Never /\ clock - seen[f] < DedupTtl
  <2>1. PICK e \in call.batch : e.flow = f
    BY <1>4 DEF Asked
  <2>2. call.pc = "predict" /\ call \in PredictState
    BY <1>4, CallShape DEF Asked
  <2>3. PICK s \in Nat : s = call.since
    BY <2>2 DEF PredictState
  <2>4. clock - s <= CallTime /\ seen[f] # Never /\ s - seen[f] <= FlowTtl + Lag
    BY <2>1, <2>2, <2>3 DEF FlowsInTime, CallInTime
  <2> QED BY <1>1, <2>4, Times
<1>5. seen[f] # Never /\ clock - seen[f] < DedupTtl
  BY <1>2, <1>3, <1>4 DEF Live
<1> QED BY <1>1, <1>5

(* Nothing moves, and what is on its way is remembered as it was.          *)
LEMMA NothingMoves ==
    ASSUME SensorInv, UNCHANGED <<clock, worker, ring, call>>,
           \A f \in Flow : Live(f) => seen'[f] = seen[f]
    PROVE  FlowsInTime' /\ OneAtATime'
<1>1. clock' = clock /\ worker' = worker /\ ring' = ring /\ call' = call /\ SensorTypeOK
  BY DEF SensorInv
<1>2. CheckInTime'
  BY <1>1 DEF SensorInv, FlowsInTime, CheckInTime
<1>3. PutInTime'
  <2> SUFFICES ASSUME NEW i \in Iface, worker[i].pc = "put"
               PROVE  /\ clock - worker[i].stamp <= Lag
                      /\ seen'[worker[i].flow] # Never
                      /\ worker[i].stamp - seen'[worker[i].flow] <= Lag
    BY <1>1 DEF PutInTime
  <2>1. PICK f \in Flow : f = worker[i].flow
    BY <1>1, WorkerShape DEF PutState
  <2>2. seen'[f] = seen[f]
    BY <2>1 DEF Live, Holds
  <2> QED BY <2>1, <2>2 DEF SensorInv, FlowsInTime, PutInTime
<1>7. AdmitInTime'
  <2> SUFFICES ASSUME NEW i \in Iface, worker[i].pc = "admitted"
               PROVE  /\ worker[i].now <= clock /\ clock - worker[i].now <= Lag
                      /\ seen'[worker[i].flow] = worker[i].now
    BY <1>1 DEF AdmitInTime
  <2>1. PICK f \in Flow : f = worker[i].flow
    BY <1>1, WorkerShape DEF AdmitState
  <2>2. seen'[f] = seen[f]
    BY <2>1 DEF Live, Holds
  <2> QED BY <2>1, <2>2 DEF SensorInv, FlowsInTime, AdmitInTime
<1>4. RingInTime'
  <2> SUFFICES ASSUME NEW j \in DOMAIN ring, Fresh(ring[j])
               PROVE  seen'[ring[j].flow] # Never /\ ring[j].stamp - seen'[ring[j].flow] <= Lag
    BY <1>1 DEF RingInTime, Fresh
  <2>1. PICK f \in Flow : f = ring[j].flow
    BY <1>1, RingShape
  <2>2. seen'[f] = seen[f]
    BY <2>1 DEF Live, Waits
  <2> QED BY <2>1, <2>2 DEF SensorInv, FlowsInTime, RingInTime
<1>5. CallInTime'
  <2> SUFFICES ASSUME call.pc = "predict", NEW e \in call.batch
               PROVE  /\ clock - call.since <= CallTime
                      /\ seen'[e.flow] # Never /\ call.since - seen'[e.flow] <= FlowTtl + Lag
    BY <1>1 DEF SensorInv, FlowsInTime, CallInTime
  <2>1. PICK f \in Flow : f = e.flow
    BY <1>1, CallShape DEF PredictState, Entry
  <2>2. seen'[f] = seen[f]
    BY <2>1 DEF Live, Asked
  <2> QED BY <2>1, <2>2 DEF SensorInv, FlowsInTime, CallInTime
<1>6. OneAtATime'
  BY <1>1 DEF SensorInv, OneAtATime, Holds, Waits, Fresh, Asked
<1> QED BY <1>2, <1>3, <1>4, <1>5, <1>6, <1>7 DEF FlowsInTime

LEMMA SensorInitEstablishes == Init => SensorInv
<1> SUFFICES ASSUME Init PROVE SensorInv
  OBVIOUS
<1>1. /\ clock = 0 /\ ring = <<>> /\ call = Idle /\ stats = 0 /\ sending = None /\ owed = 0
      /\ \A i \in Iface : worker[i] = Idle
  BY DEF Init
<1>2. SensorTypeOK
  <2>1. worker \in [Iface -> WorkerState]
    BY DEF Init, WorkerState
  <2>2. seen \in [Flow -> Nat \cup {Never}]
    BY DEF Init
  <2>3. sweeper \in [pc : {"waiting"}, since : Nat]
    BY DEF Init
  <2>4. ring \in Seq(Entry) /\ Len(ring) <= Cap
    BY <1>1, Times
  <2> QED BY <1>1, <2>1, <2>2, <2>3, <2>4 DEF SensorTypeOK
<1>3. Idle.pc = "idle" /\ DOMAIN ring = {}
  BY <1>1 DEF Idle
<1>4. FlowsInTime /\ OneAtATime
  BY <1>1, <1>3
     DEF FlowsInTime, CheckInTime, AdmitInTime, PutInTime, RingInTime, CallInTime, OneAtATime, Holds, Asked
<1>5. SweepInTime /\ TrafficAddsUp
  BY <1>1 DEF Init, SweepInTime, TrafficAddsUp
<1> QED BY <1>2, <1>4, <1>5 DEF SensorInv

-------------------------------------------------------------------------------
(* The capture threads.                                                    *)

(* A thread moves on: to another thread nothing happens.                   *)
LEMMA OneWorks ==
    ASSUME SensorTypeOK, NEW i \in Iface, NEW w, worker' = [worker EXCEPT ![i] = w]
    PROVE  /\ \A k \in Iface : worker'[k] = IF k = i THEN w ELSE worker[k]
           /\ w \in WorkerState =>
                worker' \in [Iface -> WorkerState]
BY DEF SensorTypeOK

LEMMA ExportStep ==
    ASSUME SensorInv, NEW i \in Iface, Export(i)
    PROVE  SensorInv'
<1>1. PICK f \in Flow : worker' = [worker EXCEPT ![i] = [pc |-> "check", flow |-> f, now |-> clock]]
  BY DEF Export
<1>2. PICK w : /\ w = [pc |-> "check", flow |-> f, now |-> clock]
               /\ worker' = [worker EXCEPT ![i] = w]
  BY <1>1
<1>3. /\ clock' = clock /\ seen' = seen /\ sweeper' = sweeper /\ ring' = ring /\ call' = call
      /\ stats' = stats /\ sending' = sending /\ owed' = owed
      /\ SensorTypeOK /\ clock \in Nat
  BY DEF Export, monitor, SensorInv, SensorTypeOK
<1>4. w \in CheckState /\ w \in WorkerState /\ w.pc = "check" /\ w.now = clock
  BY <1>2, <1>3 DEF CheckState, WorkerState
<1>5. /\ \A k \in Iface : worker'[k] = IF k = i THEN w ELSE worker[k]
      /\ worker' \in [Iface -> WorkerState]
  BY <1>2, <1>3, <1>4, OneWorks
<1>6. SensorTypeOK'
  BY <1>3, <1>5 DEF SensorTypeOK
<1>7. CheckInTime'
  BY <1>3, <1>4, <1>5, Times DEF SensorInv, FlowsInTime, CheckInTime
<1>8. AdmitInTime' /\ PutInTime'
  BY <1>3, <1>4, <1>5 DEF SensorInv, FlowsInTime, AdmitInTime, PutInTime
<1>9. RingInTime' /\ CallInTime' /\ SweepInTime' /\ TrafficAddsUp'
  BY <1>3 DEF SensorInv, FlowsInTime, RingInTime, Fresh, CallInTime, SweepInTime, TrafficAddsUp
<1>10. \A k \in Iface, g \in Flow : Holds(k, g)' => Holds(k, g)
  BY <1>4, <1>5 DEF Holds
<1>11. \A g \in Flow : (Asked(g)' <=> Asked(g)) /\ \A j \in DOMAIN ring : Waits(j, g)' <=> Waits(j, g)
  BY <1>3 DEF Asked, Waits, Fresh
<1>12. OneAtATime'
  BY <1>3, <1>10, <1>11 DEF SensorInv, OneAtATime
<1> QED BY <1>6, <1>7, <1>8, <1>9, <1>12 DEF SensorInv, FlowsInTime

(* The deduplicator knows the flow, and the thread drops it.               *)
LEMMA DropsStep ==
    ASSUME SensorInv, NEW i \in Iface, IsDuplicate(i), Known(worker[i].flow, worker[i].now)
    PROVE  SensorInv'
<1>1. /\ clock' = clock /\ seen' = seen /\ sweeper' = sweeper /\ ring' = ring /\ call' = call
      /\ stats' = stats /\ sending' = sending /\ owed' = owed
      /\ worker' = [worker EXCEPT ![i] = Idle]
      /\ SensorTypeOK
  BY DEF IsDuplicate, monitor, SensorInv
<1>2. /\ \A k \in Iface : worker'[k] = IF k = i THEN Idle ELSE worker[k]
      /\ worker' \in [Iface -> WorkerState]
      /\ Idle.pc = "idle"
  BY <1>1, OneWorks DEF Idle, WorkerState
<1>3. SensorTypeOK'
  BY <1>1, <1>2 DEF SensorTypeOK
<1>4. CheckInTime' /\ AdmitInTime' /\ PutInTime'
  BY <1>1, <1>2 DEF SensorInv, FlowsInTime, CheckInTime, AdmitInTime, PutInTime
<1>5. RingInTime' /\ CallInTime' /\ SweepInTime' /\ TrafficAddsUp'
  BY <1>1 DEF SensorInv, FlowsInTime, RingInTime, Fresh, CallInTime, SweepInTime, TrafficAddsUp
<1>6. \A k \in Iface, g \in Flow : Holds(k, g)' => Holds(k, g)
  BY <1>2 DEF Holds
<1>7. \A g \in Flow : (Asked(g)' <=> Asked(g)) /\ \A j \in DOMAIN ring : Waits(j, g)' <=> Waits(j, g)
  BY <1>1 DEF Asked, Waits, Fresh
<1>8. OneAtATime'
  BY <1>1, <1>6, <1>7 DEF SensorInv, OneAtATime
<1> QED BY <1>3, <1>4, <1>5, <1>8 DEF SensorInv, FlowsInTime

(* It does not know the flow: no one has it.                               *)
LEMMA AdmitsStep ==
    ASSUME SensorInv, NEW i \in Iface, IsDuplicate(i), ~Known(worker[i].flow, worker[i].now)
    PROVE  SensorInv'
<1>1. worker[i] \in CheckState /\ worker[i].pc = "check" /\ SensorTypeOK
  BY WorkerShape DEF SensorInv, IsDuplicate
<1>2. PICK f \in Flow, now \in Nat : f = worker[i].flow /\ now = worker[i].now
  BY <1>1 DEF CheckState
<1>3. PICK w : w = [pc |-> "admitted", flow |-> f, now |-> now]
  OBVIOUS
<1>4. /\ clock' = clock /\ sweeper' = sweeper /\ ring' = ring /\ call' = call
      /\ stats' = stats /\ sending' = sending /\ owed' = owed
      /\ worker' = [worker EXCEPT ![i] = w] /\ seen' = [seen EXCEPT ![f] = now]
  <2>1. [worker EXCEPT ![i].pc = "admitted"] = [worker EXCEPT ![i] = w]
    <3>1. [worker[i] EXCEPT !.pc = "admitted"] = w
      BY <1>1, <1>2, <1>3 DEF CheckState
    <3> QED BY <3>1
  <2> QED BY <1>2, <2>1 DEF IsDuplicate, monitor
<1>5. now <= clock /\ clock - now <= Lag /\ clock \in Nat
  BY <1>1, <1>2 DEF SensorInv, FlowsInTime, CheckInTime, SensorTypeOK
<1>6. w \in AdmitState /\ w \in WorkerState /\ w.pc = "admitted" /\ w.flow = f /\ w.now = now
  BY <1>2, <1>3 DEF AdmitState, WorkerState
<1>7. /\ \A k \in Iface : worker'[k] = IF k = i THEN w ELSE worker[k]
      /\ worker' \in [Iface -> WorkerState]
  BY <1>1, <1>4, <1>6, OneWorks
<1>8. /\ \A g \in Flow : seen'[g] = IF g = f THEN now ELSE seen[g]
      /\ seen' \in [Flow -> Nat \cup {Never}]
  BY <1>1, <1>4 DEF SensorTypeOK
<1>9. ~Live(f)
  <2>1. seen[f] = Never \/ now - seen[f] >= DedupTtl
    <3>1. seen[f] \in Nat \cup {Never}
      BY <1>1 DEF SensorTypeOK
    <3> QED BY <1>2, <3>1, Times DEF Known, Never
  <2> SUFFICES ASSUME Live(f) PROVE FALSE
    OBVIOUS
  <2>2. seen[f] \in Nat /\ seen[f] # Never /\ clock - seen[f] < DedupTtl
    BY <1>1, LiveIsKnown DEF SensorInv
  <2> QED BY <1>5, <2>1, <2>2, Times
<1>10. SensorTypeOK'
  BY <1>1, <1>4, <1>7, <1>8 DEF SensorTypeOK
<1>11. CheckInTime'
  BY <1>4, <1>6, <1>7 DEF SensorInv, FlowsInTime, CheckInTime
<1>12. PutInTime'
  <2> SUFFICES ASSUME NEW k \in Iface, worker'[k].pc = "put"
               PROVE  /\ clock' - worker'[k].stamp <= Lag
                      /\ seen'[worker'[k].flow] # Never
                      /\ worker'[k].stamp - seen'[worker'[k].flow] <= Lag
    BY DEF PutInTime
  <2>1. k # i /\ worker'[k] = worker[k] /\ worker[k].pc = "put"
    BY <1>6, <1>7
  <2>2. PICK g \in Flow : g = worker[k].flow
    BY <1>1, <2>1, WorkerShape DEF PutState
  <2>3. g # f /\ seen'[g] = seen[g]
    BY <1>8, <1>9, <2>1, <2>2 DEF Live, Holds
  <2> QED BY <1>4, <2>1, <2>2, <2>3 DEF SensorInv, FlowsInTime, PutInTime
<1>17. AdmitInTime'
  <2> SUFFICES ASSUME NEW k \in Iface, worker'[k].pc = "admitted"
               PROVE  /\ worker'[k].now <= clock /\ clock - worker'[k].now <= Lag
                      /\ seen'[worker'[k].flow] = worker'[k].now
    BY <1>4 DEF AdmitInTime
  <2>1. CASE k = i
    BY <1>5, <1>6, <1>7, <1>8, <2>1
  <2>2. CASE k # i
    <3>1. worker'[k] = worker[k] /\ worker[k].pc = "admitted"
      BY <1>7, <2>2
    <3>2. PICK g \in Flow : g = worker[k].flow
      BY <1>1, <3>1, WorkerShape DEF AdmitState
    <3>3. g # f /\ seen'[g] = seen[g]
      BY <1>8, <1>9, <3>1, <3>2 DEF Live, Holds
    <3> QED BY <3>1, <3>2, <3>3 DEF SensorInv, FlowsInTime, AdmitInTime
  <2> QED BY <2>1, <2>2
<1>13. RingInTime'
  <2> SUFFICES ASSUME NEW j \in DOMAIN ring, Fresh(ring[j])
               PROVE  seen'[ring[j].flow] # Never /\ ring[j].stamp - seen'[ring[j].flow] <= Lag
    BY <1>4 DEF RingInTime, Fresh
  <2>1. PICK g \in Flow : g = ring[j].flow
    BY <1>1, RingShape
  <2>2. g # f /\ seen'[g] = seen[g]
    BY <1>8, <1>9, <2>1 DEF Live, Waits
  <2> QED BY <2>1, <2>2 DEF SensorInv, FlowsInTime, RingInTime
<1>14. CallInTime'
  <2> SUFFICES ASSUME call.pc = "predict", NEW e \in call.batch
               PROVE  /\ clock - call.since <= CallTime
                      /\ seen'[e.flow] # Never /\ call.since - seen'[e.flow] <= FlowTtl + Lag
    BY <1>4 DEF SensorInv, FlowsInTime, CallInTime
  <2>1. PICK g \in Flow : g = e.flow
    BY <1>1, CallShape DEF PredictState, Entry
  <2>2. g # f /\ seen'[g] = seen[g]
    BY <1>8, <1>9, <2>1 DEF Live, Asked
  <2> QED BY <2>1, <2>2 DEF SensorInv, FlowsInTime, CallInTime
<1>15. SweepInTime' /\ TrafficAddsUp'
  BY <1>4 DEF SensorInv, SweepInTime, TrafficAddsUp
<1>16. OneAtATime'
  <2>1. \A k \in Iface, g \in Flow :
          Holds(k, g)' <=> IF k = i THEN g = f ELSE Holds(k, g)
    BY <1>6, <1>7 DEF Holds
  <2>2. \A g \in Flow : (Asked(g)' <=> Asked(g)) /\ \A j \in DOMAIN ring : Waits(j, g)' <=> Waits(j, g)
    BY <1>4 DEF Asked, Waits, Fresh
  <2>3. /\ \A k \in Iface : ~Holds(k, f)
        /\ \A j \in DOMAIN ring : ~Waits(j, f)
        /\ ~Asked(f)
    BY <1>9 DEF Live
  <2>4. \A g \in Flow : ~Holds(i, g)
    BY <1>1 DEF Holds
  <2> QED BY <1>4, <2>1, <2>2, <2>3, <2>4 DEF SensorInv, OneAtATime
<1> QED BY <1>10, <1>11, <1>12, <1>13, <1>14, <1>15, <1>16, <1>17 DEF SensorInv, FlowsInTime

(* The thread that admitted a flow reads the clock again.                  *)
LEMMA StampStep ==
    ASSUME SensorInv, NEW i \in Iface, Stamp(i)
    PROVE  SensorInv'
<1>1. worker[i] \in AdmitState /\ worker[i].pc = "admitted" /\ SensorTypeOK /\ clock \in Nat
  BY WorkerShape DEF SensorInv, Stamp, SensorTypeOK
<1>2. PICK f \in Flow, now \in Nat : f = worker[i].flow /\ now = worker[i].now
  BY <1>1 DEF AdmitState
<1>3. now <= clock /\ clock - now <= Lag /\ seen[f] = now
  BY <1>1, <1>2 DEF SensorInv, FlowsInTime, AdmitInTime
<1>4. PICK w : w = [pc |-> "put", flow |-> f, stamp |-> clock]
  OBVIOUS
<1>5. /\ clock' = clock /\ seen' = seen /\ sweeper' = sweeper /\ ring' = ring /\ call' = call
      /\ stats' = stats /\ sending' = sending /\ owed' = owed
      /\ worker' = [worker EXCEPT ![i] = w]
  BY <1>2, <1>4 DEF Stamp, monitor
<1>6. w \in PutState /\ w \in WorkerState /\ w.pc = "put" /\ w.flow = f /\ w.stamp = clock
  BY <1>1, <1>4 DEF PutState, WorkerState
<1>7. /\ \A k \in Iface : worker'[k] = IF k = i THEN w ELSE worker[k]
      /\ worker' \in [Iface -> WorkerState]
  BY <1>1, <1>5, <1>6, OneWorks
<1>8. SensorTypeOK'
  BY <1>1, <1>5, <1>7 DEF SensorTypeOK
<1>9. CheckInTime' /\ AdmitInTime'
  BY <1>5, <1>6, <1>7 DEF SensorInv, FlowsInTime, CheckInTime, AdmitInTime
<1>10. PutInTime'
  <2> SUFFICES ASSUME NEW k \in Iface, worker'[k].pc = "put"
               PROVE  /\ clock - worker'[k].stamp <= Lag
                      /\ seen[worker'[k].flow] # Never
                      /\ worker'[k].stamp - seen[worker'[k].flow] <= Lag
    BY <1>5 DEF PutInTime
  <2>1. CASE k = i
    BY <1>1, <1>3, <1>6, <1>7, <2>1, Times DEF Never
  <2>2. CASE k # i
    BY <1>7, <2>2 DEF SensorInv, FlowsInTime, PutInTime
  <2> QED BY <2>1, <2>2
<1>11. RingInTime' /\ CallInTime' /\ SweepInTime' /\ TrafficAddsUp'
  BY <1>5 DEF SensorInv, FlowsInTime, RingInTime, Fresh, CallInTime, SweepInTime, TrafficAddsUp
<1>12. \A k \in Iface, g \in Flow : Holds(k, g)' => Holds(k, g)
  BY <1>1, <1>2, <1>6, <1>7 DEF Holds
<1>13. \A g \in Flow : (Asked(g)' <=> Asked(g)) /\ \A j \in DOMAIN ring : Waits(j, g)' <=> Waits(j, g)
  BY <1>5 DEF Asked, Waits, Fresh
<1>14. OneAtATime'
  BY <1>5, <1>12, <1>13 DEF SensorInv, OneAtATime
<1> QED BY <1>8, <1>9, <1>10, <1>11, <1>14 DEF SensorInv, FlowsInTime

(* The ring after a put: the new flow, and the others where they were or   *)
(* one place before.                                                       *)
LEMMA PutShape ==
    ASSUME SensorTypeOK, NEW e \in Entry,
           ring' = Append(IF Len(ring) = Cap THEN Tail(ring) ELSE ring, e)
    PROVE  \E d \in {0, 1} :
             /\ d = IF Len(ring) = Cap THEN 1 ELSE 0
             /\ ring' \in Seq(Entry) /\ Len(ring') = Len(ring) + 1 - d /\ Len(ring') <= Cap
             /\ DOMAIN ring' = 1..Len(ring')
             /\ \A j \in 1..(Len(ring') - 1) : j + d \in DOMAIN ring /\ ring'[j] = ring[j + d]
             /\ ring'[Len(ring')] = e
<1>1. ring \in Seq(Entry) /\ Len(ring) \in Nat /\ Len(ring) <= Cap /\ DOMAIN ring = 1..Len(ring)
  BY RingShape DEF SensorTypeOK
<1>2. CASE Len(ring) = Cap
  <2>1. ring # <<>>
    BY <1>1, <1>2, Times
  <2>2. PICK t \in Seq(Entry) : /\ t = Tail(ring) /\ Len(t) = Len(ring) - 1
                                /\ \A j \in 1..Len(t) : t[j] = ring[j + 1]
    BY <1>1, <2>1, HeadTailProperties
  <2>a. PICK r : r = ring'
    OBVIOUS
  <2>3. r = Append(t, e)
    BY <1>2, <2>2, <2>a
  <2>b. /\ r \in Seq(Entry) /\ Len(r) = Len(t) + 1
        /\ \A j \in 1..Len(t) : r[j] = t[j]
        /\ r[Len(t) + 1] = e
    BY <2>3, AppendProperties
  <2>c. DOMAIN r = 1..Len(r)
    BY <2>b
  <2>4. /\ ring' \in Seq(Entry) /\ Len(ring') = Len(t) + 1
        /\ \A j \in 1..Len(t) : ring'[j] = t[j]
        /\ ring'[Len(t) + 1] = e
    BY <2>a, <2>b
  <2>5. DOMAIN ring' = 1..Len(ring')
    BY <2>a, <2>c
  <2>6. /\ Len(ring') = Len(ring) + 1 - 1 /\ Len(ring') <= Cap
        /\ \A j \in 1..(Len(ring') - 1) : j + 1 \in DOMAIN ring /\ ring'[j] = ring[j + 1]
        /\ ring'[Len(ring')] = e
    BY <1>1, <1>2, <2>2, <2>4
  <2> QED BY <1>2, <2>4, <2>5, <2>6
<1>3. CASE Len(ring) # Cap
  <2>1. ring' = Append(ring, e)
    BY <1>3
  <2>a. PICK r : r = ring'
    OBVIOUS
  <2>b. /\ r \in Seq(Entry) /\ Len(r) = Len(ring) + 1
        /\ \A j \in 1..Len(ring) : r[j] = ring[j]
        /\ r[Len(ring) + 1] = e
    <3>1. r = Append(ring, e)
      BY <2>1, <2>a
    <3> QED BY <1>1, <3>1, AppendProperties
  <2>c. DOMAIN r = 1..Len(r)
    BY <2>b
  <2>2. /\ ring' \in Seq(Entry) /\ Len(ring') = Len(ring) + 1
        /\ \A j \in 1..Len(ring) : ring'[j] = ring[j]
        /\ ring'[Len(ring) + 1] = e
    BY <2>a, <2>b
  <2>3. DOMAIN ring' = 1..Len(ring')
    BY <2>a, <2>c
  <2>4. /\ Len(ring') = Len(ring) + 1 - 0 /\ Len(ring') <= Cap
        /\ \A j \in 1..(Len(ring') - 1) : j + 0 \in DOMAIN ring /\ ring'[j] = ring[j + 0]
        /\ ring'[Len(ring')] = e
    <3>0. PICK n \in Nat : n = Len(ring)
      BY <1>1
    <3>1. Len(ring') = n + 1 /\ Len(ring') - 1 = n /\ n + 1 - 0 = n + 1
      <4>1. Len(ring') = n + 1
        BY <2>2, <3>0
      <4> QED BY <4>1
    <3>2. n + 1 <= Cap
      <4>1. n <= Cap /\ n # Cap
        BY <1>1, <1>3, <3>0
      <4>2. Cap \in Nat
        BY Times
      <4> QED BY <4>1, <4>2
    <3>3. ASSUME NEW j \in 1..Len(ring) PROVE j + 0 \in DOMAIN ring /\ ring'[j] = ring[j + 0]
      <4>1. j + 0 = j
        OBVIOUS
      <4> QED BY <1>1, <2>2, <4>1
    <3>4. ring'[Len(ring')] = e
      BY <2>2, <3>0, <3>1
    <3> QED BY <3>0, <3>1, <3>2, <3>3, <3>4
  <2> QED BY <1>3, <2>2, <2>3, <2>4
<1> QED BY <1>2, <1>3

LEMMA PutStep ==
    ASSUME SensorInv, NEW i \in Iface, Put(i)
    PROVE  SensorInv'
<1>1. worker[i] \in PutState /\ worker[i].pc = "put" /\ SensorTypeOK
  BY WorkerShape DEF SensorInv, Put
<1>2. PICK f \in Flow, s \in Nat : f = worker[i].flow /\ s = worker[i].stamp
  BY <1>1 DEF PutState
<1>3. PICK e \in Entry : e = [flow |-> f, stamp |-> s]
  BY DEF Entry
<1>4. /\ clock' = clock /\ seen' = seen /\ sweeper' = sweeper /\ call' = call
      /\ stats' = stats /\ sending' = sending /\ owed' = owed
      /\ worker' = [worker EXCEPT ![i] = Idle]
      /\ ring' = Append(IF Len(ring) = Cap THEN Tail(ring) ELSE ring, e)
  BY <1>2, <1>3 DEF Put, monitor
<1>5. PICK d \in {0, 1} :
             /\ ring' \in Seq(Entry) /\ Len(ring') = Len(ring) + 1 - d /\ Len(ring') <= Cap
             /\ DOMAIN ring' = 1..Len(ring')
             /\ \A j \in 1..(Len(ring') - 1) : j + d \in DOMAIN ring /\ ring'[j] = ring[j + d]
             /\ ring'[Len(ring')] = e
  BY <1>1, <1>4, PutShape
<1>6. /\ \A k \in Iface : worker'[k] = IF k = i THEN Idle ELSE worker[k]
      /\ worker' \in [Iface -> WorkerState]
      /\ Idle.pc = "idle"
  BY <1>1, <1>4, OneWorks DEF Idle, WorkerState
<1>7. SensorTypeOK'
  BY <1>1, <1>4, <1>5, <1>6 DEF SensorTypeOK
<1>8. CheckInTime' /\ AdmitInTime' /\ PutInTime'
  BY <1>4, <1>6 DEF SensorInv, FlowsInTime, CheckInTime, AdmitInTime, PutInTime
<1>9. CallInTime' /\ SweepInTime' /\ TrafficAddsUp'
  BY <1>4 DEF SensorInv, FlowsInTime, CallInTime, SweepInTime, TrafficAddsUp
<1>10. Len(ring') \in Nat /\ Len(ring) \in Nat /\ DOMAIN ring = 1..Len(ring)
  BY <1>5, <1>1, RingShape
<1>14. PICK n \in Nat : n = Len(ring')
  BY <1>10
<1>11. \A j \in DOMAIN ring' : j = n \/ j \in 1..(n - 1)
  BY <1>5, <1>10, <1>14
<1>12. RingInTime'
  <2> SUFFICES ASSUME NEW j \in DOMAIN ring', Fresh(ring'[j])
               PROVE  seen[ring'[j].flow] # Never /\ ring'[j].stamp - seen[ring'[j].flow] <= Lag
    BY <1>4 DEF RingInTime, Fresh
  <2>1. CASE j = n
    <3>1. ring'[j].flow = f /\ ring'[j].stamp = s
      BY <1>3, <1>5, <1>14, <2>1
    <3> QED BY <1>1, <1>2, <3>1 DEF SensorInv, FlowsInTime, PutInTime
  <2>2. CASE j \in 1..(n - 1)
    <3>1. PICK k \in DOMAIN ring : ring'[j] = ring[k]
      BY <1>5, <1>14, <2>2
    <3> QED BY <3>1 DEF SensorInv, FlowsInTime, RingInTime
  <2> QED BY <1>11, <2>1, <2>2
<1>13. OneAtATime'
  <2>1. \A k \in Iface, g \in Flow : Holds(k, g)' <=> k # i /\ Holds(k, g)
    BY <1>6 DEF Holds
  <2>2. \A g \in Flow : Asked(g)' <=> Asked(g)
    BY <1>4 DEF Asked
  <2>3. ASSUME NEW g \in Flow, NEW j \in 1..(n - 1)
        PROVE  j + d \in DOMAIN ring /\ (Waits(j, g)' <=> Waits(j + d, g))
    <3>1. j + d \in DOMAIN ring /\ ring'[j] = ring[j + d]
      BY <1>5, <1>14
    <3> QED BY <1>4, <3>1 DEF Waits, Fresh
  <2>4. ASSUME NEW g \in Flow
        PROVE  Waits(n, g)' => g = f
    BY <1>3, <1>5, <1>14 DEF Waits
  <2>5. Holds(i, f)
    BY <1>1, <1>2 DEF Holds
  <2>6. /\ \A k \in Iface : Holds(k, f) => k = i
        /\ \A j \in DOMAIN ring : ~Waits(j, f)
        /\ ~Asked(f)
    BY <2>5 DEF SensorInv, OneAtATime
  <2>7. ASSUME NEW g \in Flow, NEW j \in DOMAIN ring', Waits(j, g)'
        PROVE  \/ j = n /\ g = f
               \/ j \in 1..(n - 1) /\ g # f /\ j + d \in DOMAIN ring /\ Waits(j + d, g)
    BY <1>11, <2>3, <2>4, <2>6, <2>7
  <2>8. ASSUME NEW g \in Flow
        PROVE  /\ \A k, l \in Iface : Holds(k, g)' /\ Holds(l, g)' => k = l
               /\ \A j, l \in DOMAIN ring' : Waits(j, g)' /\ Waits(l, g)' => j = l
               /\ \A k \in Iface, j \in DOMAIN ring' : ~(Holds(k, g)' /\ Waits(j, g)')
               /\ Asked(g)' => /\ \A k \in Iface : ~Holds(k, g)'
                               /\ \A j \in DOMAIN ring' : ~Waits(j, g)'
                               /\ Cardinality({x \in call'.batch : x.flow = g}) = 1
    <3>1. \A k, l \in Iface : Holds(k, g)' /\ Holds(l, g)' => k = l
      BY <2>1 DEF SensorInv, OneAtATime
    <3>2. ASSUME NEW j \in DOMAIN ring', NEW l \in DOMAIN ring', Waits(j, g)', Waits(l, g)'
          PROVE  j = l
      <4>1. CASE g = f
        BY <2>7, <3>2, <4>1
      <4>2. CASE g # f
        <5>1. j + d \in DOMAIN ring /\ Waits(j + d, g) /\ l + d \in DOMAIN ring /\ Waits(l + d, g)
          BY <2>7, <3>2, <4>2
        <5>2. j + d = l + d
          BY <5>1 DEF SensorInv, OneAtATime
        <5> QED BY <1>5, <1>10, <5>2
      <4> QED BY <4>1, <4>2
    <3>3. ASSUME NEW k \in Iface, NEW j \in DOMAIN ring', Holds(k, g)', Waits(j, g)' PROVE FALSE
      <4>1. k # i /\ Holds(k, g)
        BY <2>1, <3>3
      <4>2. g # f
        BY <2>6, <4>1
      <4>3. j + d \in DOMAIN ring /\ Waits(j + d, g)
        BY <2>7, <3>3, <4>2
      <4> QED BY <4>1, <4>3 DEF SensorInv, OneAtATime
    <3>4. ASSUME Asked(g)'
          PROVE  /\ \A k \in Iface : ~Holds(k, g)'
                 /\ \A j \in DOMAIN ring' : ~Waits(j, g)'
                 /\ Cardinality({x \in call'.batch : x.flow = g}) = 1
      <4>1. Asked(g) /\ g # f
        BY <2>2, <2>6, <3>4
      <4>2. /\ \A k \in Iface : ~Holds(k, g)
            /\ \A j \in DOMAIN ring : ~Waits(j, g)
            /\ Cardinality({x \in call.batch : x.flow = g}) = 1
        BY <4>1 DEF SensorInv, OneAtATime
      <4> QED BY <1>4, <2>1, <2>7, <4>1, <4>2
    <3> QED BY <3>1, <3>2, <3>3, <3>4
  <2> QED BY <2>8 DEF OneAtATime
<1> QED BY <1>7, <1>8, <1>9, <1>12, <1>13 DEF SensorInv, FlowsInTime

LEMMA SweepBeginsStep ==
    ASSUME SensorInv, SweepBegins
    PROVE  SensorInv'
<1>1. /\ clock' = clock /\ worker' = worker /\ seen' = seen /\ ring' = ring /\ call' = call
      /\ stats' = stats /\ sending' = sending /\ owed' = owed
      /\ sweeper' = [pc |-> "awake", now |-> clock] /\ SensorTypeOK /\ clock \in Nat
  BY DEF SweepBegins, monitor, SensorInv, SensorTypeOK
<1>2. SensorTypeOK'
  BY <1>1 DEF SensorTypeOK
<1>3. SweepInTime' /\ TrafficAddsUp'
  BY <1>1 DEF SensorInv, SweepInTime, TrafficAddsUp
<1>4. FlowsInTime' /\ OneAtATime'
  BY <1>1, NothingMoves
<1> QED BY <1>2, <1>3, <1>4 DEF SensorInv

(* The clean-up spares what is on its way.                                 *)
LEMMA SweepStep ==
    ASSUME SensorInv, Sweep
    PROVE  SensorInv'
<1>1. /\ clock' = clock /\ worker' = worker /\ ring' = ring /\ call' = call
      /\ stats' = stats /\ sending' = sending /\ owed' = owed
      /\ sweeper' = [pc |-> "waiting", since |-> clock]
      /\ seen' = [f \in Flow |-> IF Expired(f, sweeper.now) THEN Never ELSE seen[f]]
      /\ SensorTypeOK /\ clock \in Nat /\ sweeper.pc = "awake"
  BY DEF Sweep, monitor, SensorInv, SensorTypeOK
<1>2. PICK now \in Nat : now = sweeper.now /\ now <= clock
  BY <1>1 DEF SensorInv, SensorTypeOK, SweepInTime
<1>3. SensorTypeOK'
  BY <1>1 DEF SensorTypeOK
<1>4. SweepInTime' /\ TrafficAddsUp'
  BY <1>1 DEF SensorInv, SweepInTime, TrafficAddsUp
<1>5. ASSUME NEW f \in Flow, Live(f) PROVE seen'[f] = seen[f]
  <2>1. seen[f] \in Nat /\ clock - seen[f] < DedupTtl
    BY <1>1, <1>5, LiveIsKnown DEF SensorInv
  <2>2. ~Expired(f, now)
    BY <1>1, <1>2, <2>1, Times DEF Expired
  <2> QED BY <1>1, <1>2, <2>2
<1>6. FlowsInTime' /\ OneAtATime'
  BY <1>1, <1>5, NothingMoves
<1> QED BY <1>3, <1>4, <1>6 DEF SensorInv

-------------------------------------------------------------------------------
(* The event loop.                                                         *)

(* The ring after its first n flows were taken.                            *)
LEMMA TakeShape ==
    ASSUME SensorTypeOK, NEW n \in 1..Len(ring), ring' = SubSeq(ring, n + 1, Len(ring))
    PROVE  /\ ring' \in Seq(Entry) /\ Len(ring') = Len(ring) - n
           /\ DOMAIN ring' = 1..(Len(ring) - n)
           /\ \A j \in DOMAIN ring' : n + j \in DOMAIN ring /\ ring'[j] = ring[n + j]
<1>1. ring \in Seq(Entry) /\ Len(ring) \in Nat /\ DOMAIN ring = 1..Len(ring)
  BY RingShape
<1>2. PICK len \in Nat : len = Len(ring)
  BY <1>1
<1>3. PICK r : r = SubSeq(ring, n + 1, len)
  OBVIOUS
<1>4. n \in Nat /\ n >= 1 /\ n <= len /\ n + 1 \in Int /\ len \in Int
  BY <1>2
<1>5. \A i \in (n + 1)..len : ring[i] \in Entry
  BY <1>1, <1>2, <1>4
<1>6. /\ r \in Seq(Entry)
      /\ Len(r) = IF n + 1 <= len THEN len - (n + 1) + 1 ELSE 0
      /\ \A i \in 1..(len - (n + 1) + 1) : r[i] = ring[n + 1 + i - 1]
  BY <1>3, <1>4, <1>5, SubSeqProperties
<1>7. Len(r) = len - n /\ len - (n + 1) + 1 = len - n
  BY <1>4, <1>6
<1>8. DOMAIN r = 1..(len - n)
  BY <1>6, <1>7
<1>9. ASSUME NEW j \in 1..(len - n) PROVE n + j \in DOMAIN ring /\ r[j] = ring[n + j]
  <2>1. n + 1 + j - 1 = n + j /\ n + j \in 1..len
    BY <1>4
  <2>2. r[j] = ring[n + 1 + j - 1]
    BY <1>6, <1>7
  <2> QED BY <1>1, <1>2, <2>1, <2>2
<1> QED BY <1>2, <1>3, <1>6, <1>7, <1>8, <1>9

FreshPlaces(n) == {j \in 1..n : Fresh(ring[j])}

(* One more item is at most one more fresh one.                            *)
LEMMA FreshGrows ==
    /\ FreshIn(0) = 0
    /\ \A n \in Nat : IsFiniteSet(FreshPlaces(n)) /\ FreshIn(n) \in Nat
    /\ \A n \in Nat \ {0} : FreshIn(n) <= FreshIn(n - 1) + 1
<1>1. \A n \in Nat : IsFiniteSet(FreshPlaces(n))
  <2> SUFFICES ASSUME NEW n \in Nat PROVE IsFiniteSet(FreshPlaces(n))
    OBVIOUS
  <2>1. IsFiniteSet(1..n)
    BY FS_Interval
  <2> QED BY <2>1, FS_Subset DEF FreshPlaces
<1>2. \A n : FreshIn(n) = Cardinality(FreshPlaces(n))
  BY Zenon DEF FreshIn, FreshPlaces
<1>3. \A n \in Nat : FreshIn(n) \in Nat
  BY <1>1, <1>2, FS_CardinalityType
<1>4. FreshIn(0) = 0
  <2>1. FreshPlaces(0) = {}
    BY DEF FreshPlaces
  <2> QED BY <1>2, <2>1, FS_EmptySet
<1>5. ASSUME NEW n \in Nat \ {0} PROVE FreshIn(n) <= FreshIn(n - 1) + 1
  <2>1. PICK m \in Nat : n = m + 1
    BY <1>5
  <2>2. FreshPlaces(n) \subseteq FreshPlaces(m) \cup {n}
    BY <2>1 DEF FreshPlaces
  <2>3. /\ IsFiniteSet(FreshPlaces(m) \cup {n})
        /\ Cardinality(FreshPlaces(m) \cup {n}) = IF n \in FreshPlaces(m)
             THEN Cardinality(FreshPlaces(m)) ELSE Cardinality(FreshPlaces(m)) + 1
    BY <1>1, FS_AddElement
  <2>4. Cardinality(FreshPlaces(n)) <= Cardinality(FreshPlaces(m) \cup {n})
    BY <2>2, <2>3, FS_Subset
  <2>5. FreshIn(m) \in Nat /\ FreshIn(n) \in Nat /\ n - 1 = m
    BY <1>3, <2>1
  <2> QED BY <1>2, <2>3, <2>4, <2>5
<1> QED BY <1>1, <1>3, <1>4, <1>5

(* A batch is finite, and no larger than the fresh part of what was taken.  *)
LEMMA BatchShape ==
    ASSUME SensorTypeOK, NEW n \in 1..Len(ring), NEW batch,
           batch = {ring[j] : j \in {k \in 1..n : Fresh(ring[k])}}
    PROVE  /\ batch \in SUBSET Entry /\ Cardinality(batch) \in Nat
           /\ Cardinality(batch) <= FreshIn(n)
           /\ \A e : e \in batch <=> \E j \in 1..n : Fresh(ring[j]) /\ e = ring[j]
<1>1. /\ Len(ring) \in Nat /\ n \in Nat /\ DOMAIN ring = 1..Len(ring)
      /\ \A j \in 1..n : j \in DOMAIN ring /\ ring[j] \in Entry
  BY RingShape
<1>2. PICK places : places = {k \in 1..n : Fresh(ring[k])}
  OBVIOUS
<1>3. IsFiniteSet(places)
  <2>1. IsFiniteSet(1..n)
    BY <1>1, FS_Interval
  <2> QED BY <1>2, <2>1, FS_Subset
<1>4. batch = {ring[j] : j \in places}
  BY <1>2
<1>5. IsFiniteSet(batch) /\ Cardinality(batch) <= Cardinality(places)
  <2>1. PICK f : f = [j \in places |-> ring[j]]
    OBVIOUS
  <2>2. f \in Surjection(places, batch)
    BY <1>4, <2>1 DEF Surjection
  <2> QED BY <1>3, <2>2, FS_Surjection
<1>6. Cardinality(batch) \in Nat
  BY <1>5, FS_CardinalityType
<1>7. FreshIn(n) = Cardinality(places)
  BY <1>2 DEF FreshIn
<1> QED BY <1>1, <1>5, <1>6, <1>7

LEMMA TakeBatchStep ==
    ASSUME SensorInv, TakeBatch
    PROVE  SensorInv'
<1>1. /\ clock' = clock /\ worker' = worker /\ seen' = seen /\ sweeper' = sweeper
      /\ sending' = sending /\ call = Idle /\ SensorTypeOK /\ clock \in Nat /\ Idle.pc = "idle"
  BY DEF TakeBatch, capture, SensorInv, SensorTypeOK, Idle
<1>2. PICK n \in 1..Len(ring) : \E batch :
        /\ batch = {ring[j] : j \in {k \in 1..n : Fresh(ring[k])}}
        /\ ring' = SubSeq(ring, n + 1, Len(ring))
        /\ \E k \in 0..Cardinality(batch) :
            /\ stats' = stats + k
            /\ owed' = owed + k
            /\ call' = IF k = Cardinality(batch) /\ batch # {}
                       THEN [pc |-> "predict", batch |-> batch, since |-> clock] ELSE Idle
  BY DEF TakeBatch
<1>3. PICK batch :
        /\ batch = {ring[j] : j \in {k \in 1..n : Fresh(ring[k])}}
        /\ ring' = SubSeq(ring, n + 1, Len(ring))
        /\ \E k \in 0..Cardinality(batch) :
            /\ stats' = stats + k
            /\ owed' = owed + k
            /\ call' = IF k = Cardinality(batch) /\ batch # {}
                       THEN [pc |-> "predict", batch |-> batch, since |-> clock] ELSE Idle
  BY <1>2
<1>4. /\ batch \in SUBSET Entry /\ Cardinality(batch) \in Nat
      /\ \A e : e \in batch <=> \E j \in 1..n : Fresh(ring[j]) /\ e = ring[j]
  BY <1>1, <1>3, BatchShape
<1>5. PICK k \in Nat :
        /\ stats' = stats + k /\ owed' = owed + k
        /\ call' = IF k = Cardinality(batch) /\ batch # {}
                   THEN [pc |-> "predict", batch |-> batch, since |-> clock] ELSE Idle
  BY <1>3, <1>4
<1>6. /\ ring' \in Seq(Entry) /\ Len(ring') = Len(ring) - n
      /\ DOMAIN ring' = 1..(Len(ring) - n)
      /\ \A j \in DOMAIN ring' : n + j \in DOMAIN ring /\ ring'[j] = ring[n + j]
  BY <1>1, <1>3, TakeShape
<1>7. /\ Len(ring) \in Nat /\ Len(ring) <= Cap /\ DOMAIN ring = 1..Len(ring)
      /\ n \in DOMAIN ring /\ n \in Nat /\ n >= 1
      /\ \A j \in DOMAIN ring' : j \in Nat /\ n + j > n
  BY <1>1, <1>6, RingShape DEF SensorTypeOK
<1>8. call' = Idle \/ (call' \in PredictState /\ call'.pc = "predict" /\ call'.batch = batch
                       /\ call'.since = clock)
  <2>1. CASE call' = Idle
    BY <2>1
  <2>2. CASE call' = [pc |-> "predict", batch |-> batch, since |-> clock]
    BY <1>1, <1>4, <2>2 DEF PredictState
  <2> QED BY <1>5, <2>1, <2>2
<1>9. SensorTypeOK'
  <2>1. stats' \in Nat /\ owed' \in Int
    BY <1>1, <1>5 DEF SensorTypeOK
  <2>2. Len(ring') <= Cap
    <3>1. PICK len \in Nat : len = Len(ring) /\ len <= Cap
      BY <1>7
    <3>2. Len(ring') = len - n
      BY <1>6, <3>1
    <3> QED BY <1>7, <3>1, <3>2, Times
  <2> QED BY <1>1, <1>6, <1>8, <2>1, <2>2 DEF SensorTypeOK
<1>10. CheckInTime' /\ AdmitInTime' /\ PutInTime' /\ SweepInTime'
  BY <1>1 DEF SensorInv, FlowsInTime, CheckInTime, AdmitInTime, PutInTime, SweepInTime
<1>11. RingInTime'
  <2> SUFFICES ASSUME NEW j \in DOMAIN ring', Fresh(ring'[j])
               PROVE  seen[ring'[j].flow] # Never /\ ring'[j].stamp - seen[ring'[j].flow] <= Lag
    BY <1>1 DEF RingInTime, Fresh
  <2>1. n + j \in DOMAIN ring /\ ring'[j] = ring[n + j]
    BY <1>6
  <2> QED BY <2>1 DEF SensorInv, FlowsInTime, RingInTime
<1>12. CallInTime'
  <2> SUFFICES ASSUME call'.pc = "predict"
               PROVE  /\ clock - call'.since <= CallTime
                      /\ \A e \in call'.batch :
                           seen[e.flow] # Never /\ call'.since - seen[e.flow] <= FlowTtl + Lag
    BY <1>1 DEF CallInTime
  <2>1. call'.batch = batch /\ call'.since = clock
    BY <1>1, <1>8
  <2>2. clock - clock <= CallTime
    BY <1>1, Times
  <2>3. ASSUME NEW e \in batch
        PROVE  seen[e.flow] # Never /\ clock - seen[e.flow] <= FlowTtl + Lag
    <3>1. PICK j \in 1..n : Fresh(ring[j]) /\ e = ring[j]
      BY <1>4
    <3>2. j \in DOMAIN ring /\ e.flow \in Flow /\ e.stamp \in Nat
      BY <1>1, <1>7, <3>1, RingShape
    <3>3. PICK s \in Nat, f \in Flow, t \in Nat \cup {Never} :
            s = e.stamp /\ f = e.flow /\ t = seen[f]
      BY <1>1, <3>2 DEF SensorTypeOK
    <3>4. clock - s <= FlowTtl /\ t # Never /\ s - t <= Lag
      BY <3>1, <3>2, <3>3 DEF SensorInv, FlowsInTime, RingInTime, Fresh
    <3> QED BY <1>1, <3>3, <3>4, Times
  <2> QED BY <2>1, <2>2, <2>3
<1>13. TrafficAddsUp'
  <2>1. stats \in Nat /\ owed \in Int /\ sending \in Int
    BY <1>1 DEF SensorTypeOK, None
  <2> QED BY <1>1, <1>5, <2>1 DEF SensorInv, TrafficAddsUp
<1>14. OneAtATime'
  <2>1. \A i \in Iface, g \in Flow : Holds(i, g)' <=> Holds(i, g)
    BY <1>1 DEF Holds
  <2>2. ASSUME NEW g \in Flow, NEW j \in DOMAIN ring'
        PROVE  n + j \in DOMAIN ring /\ n + j > n /\ (Waits(j, g)' <=> Waits(n + j, g))
    BY <1>1, <1>6, <1>7 DEF Waits, Fresh
  <2>3. ASSUME NEW g \in Flow, Asked(g)'
        PROVE  /\ call'.batch = batch
               /\ \E j \in 1..n : j \in DOMAIN ring /\ Waits(j, g)
    <3>1. call'.pc = "predict" /\ call'.batch = batch
      BY <1>1, <1>8, <2>3 DEF Asked
    <3>2. PICK e \in batch : e.flow = g
      BY <2>3, <3>1 DEF Asked
    <3>3. PICK j \in 1..n : Fresh(ring[j]) /\ e = ring[j]
      BY <1>4, <3>2
    <3> QED BY <1>7, <3>1, <3>2, <3>3 DEF Waits
  <2>4. ASSUME NEW g \in Flow
        PROVE  /\ \A i, m \in Iface : Holds(i, g)' /\ Holds(m, g)' => i = m
               /\ \A j, l \in DOMAIN ring' : Waits(j, g)' /\ Waits(l, g)' => j = l
               /\ \A i \in Iface, j \in DOMAIN ring' : ~(Holds(i, g)' /\ Waits(j, g)')
               /\ Asked(g)' => /\ \A i \in Iface : ~Holds(i, g)'
                               /\ \A j \in DOMAIN ring' : ~Waits(j, g)'
                               /\ Cardinality({x \in call'.batch : x.flow = g}) = 1
    <3>1. \A i, m \in Iface : Holds(i, g)' /\ Holds(m, g)' => i = m
      BY <2>1 DEF SensorInv, OneAtATime
    <3>2. ASSUME NEW j \in DOMAIN ring', NEW l \in DOMAIN ring', Waits(j, g)', Waits(l, g)'
          PROVE  j = l
      <4>1. n + j \in DOMAIN ring /\ Waits(n + j, g) /\ n + l \in DOMAIN ring /\ Waits(n + l, g)
        BY <2>2, <3>2
      <4>2. n + j = n + l
        BY <4>1 DEF SensorInv, OneAtATime
      <4> QED BY <1>7, <4>2
    <3>3. \A i \in Iface, j \in DOMAIN ring' : ~(Holds(i, g)' /\ Waits(j, g)')
      BY <2>1, <2>2 DEF SensorInv, OneAtATime
    <3>4. ASSUME Asked(g)'
          PROVE  /\ \A i \in Iface : ~Holds(i, g)'
                 /\ \A j \in DOMAIN ring' : ~Waits(j, g)'
                 /\ Cardinality({x \in call'.batch : x.flow = g}) = 1
      <4>1. PICK m \in 1..n : m \in DOMAIN ring /\ Waits(m, g) /\ call'.batch = batch
        BY <2>3, <3>4
      <4>2. /\ \A i \in Iface : ~Holds(i, g)
            /\ \A j \in DOMAIN ring : Waits(j, g) => j = m
        BY <4>1 DEF SensorInv, OneAtATime
      <4>3. \A j \in DOMAIN ring' : ~Waits(j, g)'
        BY <1>7, <2>2, <4>1, <4>2
      <4>4. {x \in batch : x.flow = g} = {ring[m]}
        <5>1. ring[m] \in batch /\ ring[m].flow = g
          BY <1>4, <4>1 DEF Waits
        <5>2. ASSUME NEW x \in batch, x.flow = g PROVE x = ring[m]
          <6>1. PICK j \in 1..n : Fresh(ring[j]) /\ x = ring[j]
            BY <1>4
          <6>2. j \in DOMAIN ring /\ Waits(j, g)
            BY <1>7, <5>2, <6>1 DEF Waits
          <6> QED BY <4>2, <6>1, <6>2
        <5> QED BY <5>1, <5>2
      <4>5. Cardinality({x \in batch : x.flow = g}) = 1
        BY <4>4, FS_Singleton
      <4> QED BY <2>1, <4>1, <4>2, <4>3, <4>5
    <3> QED BY <3>1, <3>2, <3>3, <3>4
  <2> QED BY <2>4 DEF OneAtATime
<1> QED BY <1>9, <1>10, <1>11, <1>12, <1>13, <1>14 DEF SensorInv, FlowsInTime

LEMMA CallEndsStep ==
    ASSUME SensorInv, CallEnds
    PROVE  SensorInv'
<1>1. /\ clock' = clock /\ worker' = worker /\ seen' = seen /\ sweeper' = sweeper /\ ring' = ring
      /\ stats' = stats /\ sending' = sending /\ owed' = owed
      /\ call' = Idle /\ Idle.pc = "idle" /\ SensorTypeOK
  BY DEF CallEnds, capture, monitor, SensorInv, Idle
<1>2. SensorTypeOK'
  BY <1>1 DEF SensorTypeOK
<1>3. FlowsInTime' /\ SweepInTime' /\ TrafficAddsUp'
  BY <1>1 DEF SensorInv, FlowsInTime, CheckInTime, AdmitInTime, PutInTime, RingInTime, Fresh,
              CallInTime,
              SweepInTime, TrafficAddsUp
<1>4. OneAtATime'
  <2>1. \A g \in Flow : ~Asked(g)'
    BY <1>1 DEF Asked
  <2>2. \A g \in Flow : /\ \A i \in Iface : Holds(i, g)' <=> Holds(i, g)
                        /\ \A j \in DOMAIN ring : Waits(j, g)' <=> Waits(j, g)
    BY <1>1 DEF Holds, Waits, Fresh
  <2> QED BY <1>1, <2>1, <2>2 DEF SensorInv, OneAtATime
<1> QED BY <1>2, <1>3, <1>4 DEF SensorInv

(* A push takes the counts, and its end gives them up.                     *)
LEMMA PushStep ==
    ASSUME SensorInv, Push \/ SendEnds
    PROVE  SensorInv'
<1>1. /\ clock' = clock /\ worker' = worker /\ seen' = seen /\ sweeper' = sweeper /\ ring' = ring
      /\ call' = call /\ SensorTypeOK
  BY DEF Push, SendEnds, capture, SensorInv
<1>2. stats \in Nat /\ sending \in Nat \cup {None} /\ owed \in Int
  BY <1>1 DEF SensorTypeOK
<1>3. stats' \in Nat /\ sending' \in Nat \cup {None} /\ owed' \in Int /\ TrafficAddsUp'
  <2>1. CASE Push
    BY <1>2, <2>1 DEF Push, SensorInv, TrafficAddsUp, None
  <2>2. CASE SendEnds
    BY <1>2, <2>2 DEF SendEnds, SensorInv, TrafficAddsUp, None
  <2> QED BY <2>1, <2>2
<1>4. SensorTypeOK' /\ SweepInTime'
  BY <1>1, <1>3 DEF SensorTypeOK, SensorInv, SweepInTime
<1>5. FlowsInTime' /\ OneAtATime'
  BY <1>1, NothingMoves
<1> QED BY <1>3, <1>4, <1>5 DEF SensorInv

(* Time passes as long as everyone is in time.                             *)
LEMMA TickStep ==
    ASSUME SensorInv, Tick
    PROVE  SensorInv'
<1>a. PICK c \in Nat : c = clock' /\ c = clock + 1
  BY DEF Tick, SensorInv, SensorTypeOK
<1>1. /\ clock' = c /\ worker' = worker /\ seen' = seen /\ sweeper' = sweeper /\ ring' = ring
      /\ call' = call /\ stats' = stats /\ sending' = sending /\ owed' = owed
      /\ SensorTypeOK /\ clock \in Nat
  BY <1>a DEF Tick, capture, monitor, SensorInv, SensorTypeOK
<1>0. /\ \A i \in Iface : clock - ReadAt(worker[i]) < Lag
      /\ call.pc = "predict" => clock - call.since < CallTime
  BY Zenon DEF Tick
<1>2. SensorTypeOK' /\ TrafficAddsUp'
  BY <1>1 DEF SensorTypeOK, SensorInv, TrafficAddsUp
<1>3. CheckInTime'
  <2> SUFFICES ASSUME NEW i \in Iface, worker[i].pc = "check"
               PROVE  worker[i].now <= c /\ c - worker[i].now <= Lag
    BY <1>1 DEF CheckInTime
  <2>1. PICK m \in Nat : m = worker[i].now
    BY <1>1, WorkerShape DEF CheckState
  <2>2. ReadAt(worker[i]) = m
    BY <2>1 DEF ReadAt
  <2>3. m <= clock /\ clock - m < Lag
    BY <1>0, <2>1, <2>2 DEF SensorInv, FlowsInTime, CheckInTime
  <2> QED BY <1>1, <1>a, <2>1, <2>3, Times
<1>11. AdmitInTime'
  <2> SUFFICES ASSUME NEW i \in Iface, worker[i].pc = "admitted"
               PROVE  /\ worker[i].now <= c /\ c - worker[i].now <= Lag
                      /\ seen[worker[i].flow] = worker[i].now
    BY <1>1 DEF AdmitInTime
  <2>1. PICK m \in Nat : m = worker[i].now
    BY <1>1, WorkerShape DEF AdmitState
  <2>2. ReadAt(worker[i]) = m
    BY <2>1 DEF ReadAt
  <2>3. m <= clock /\ clock - m < Lag /\ seen[worker[i].flow] = m
    BY <1>0, <2>1, <2>2 DEF SensorInv, FlowsInTime, AdmitInTime
  <2> QED BY <1>1, <1>a, <2>1, <2>3, Times
<1>4. PutInTime'
  <2> SUFFICES ASSUME NEW i \in Iface, worker[i].pc = "put"
               PROVE  c - worker[i].stamp <= Lag
    BY <1>1 DEF SensorInv, FlowsInTime, PutInTime
  <2>1. PICK m \in Nat : m = worker[i].stamp
    BY <1>1, WorkerShape DEF PutState
  <2>2. ReadAt(worker[i]) = m
    BY <2>1 DEF ReadAt
  <2>3. clock - m < Lag
    BY <1>0, <2>2
  <2> QED BY <1>1, <1>a, <2>1, <2>3, Times
<1>5. \A e \in Entry : Fresh(e)' => Fresh(e)
  BY <1>1, <1>a, Times DEF Fresh, Entry
<1>6. \A j \in DOMAIN ring : Fresh(ring[j])' => Fresh(ring[j])
  BY <1>1, <1>5, RingShape
<1>7. RingInTime'
  BY <1>1, <1>6 DEF SensorInv, FlowsInTime, RingInTime
<1>8. CallInTime'
  <2> SUFFICES ASSUME call.pc = "predict" PROVE c - call.since <= CallTime
    BY <1>1 DEF SensorInv, FlowsInTime, CallInTime
  <2>1. PICK s \in Nat : s = call.since
    BY <1>1, CallShape DEF PredictState
  <2>2. clock - s < CallTime
    BY <1>0, <2>1
  <2> QED BY <1>1, <1>a, <2>1, <2>2, Times
<1>9. SweepInTime'
  BY <1>1, <1>a DEF SensorInv, SweepInTime, SensorTypeOK
<1>10. OneAtATime'
  <2>1. \A g \in Flow : /\ \A i \in Iface : Holds(i, g)' <=> Holds(i, g)
                        /\ \A j \in DOMAIN ring : Waits(j, g)' => Waits(j, g)
                        /\ Asked(g)' <=> Asked(g)
    BY <1>1, <1>6 DEF Holds, Waits, Asked
  <2> QED BY <1>1, <2>1 DEF SensorInv, OneAtATime
<1> QED BY <1>2, <1>3, <1>4, <1>7, <1>8, <1>9, <1>10, <1>11 DEF SensorInv, FlowsInTime

-------------------------------------------------------------------------------
LEMMA SensorStep == SensorInv /\ [Next]_vars => SensorInv'
<1> SUFFICES ASSUME SensorInv, [Next]_vars PROVE SensorInv'
  OBVIOUS
<1>1. ASSUME NEW i \in Iface, Export(i) PROVE SensorInv'
  BY <1>1, ExportStep
<1>2. ASSUME NEW i \in Iface, IsDuplicate(i) PROVE SensorInv'
  BY <1>2, DropsStep, AdmitsStep
<1>3. ASSUME NEW i \in Iface, Put(i) PROVE SensorInv'
  BY <1>3, PutStep
<1>4. CASE SweepBegins
  BY <1>4, SweepBeginsStep
<1>5. CASE Sweep
  BY <1>5, SweepStep
<1>6. CASE TakeBatch
  BY <1>6, TakeBatchStep
<1>7. CASE CallEnds
  BY <1>7, CallEndsStep
<1>8. CASE Push \/ SendEnds
  BY <1>8, PushStep
<1>9. CASE Tick
  BY <1>9, TickStep
<1>10. CASE UNCHANGED vars
  <2>1. /\ clock' = clock /\ worker' = worker /\ seen' = seen /\ sweeper' = sweeper /\ ring' = ring
        /\ call' = call /\ stats' = stats /\ sending' = sending /\ owed' = owed
    BY <1>10 DEF vars
  <2>2. SensorTypeOK' /\ SweepInTime' /\ TrafficAddsUp'
    BY <2>1 DEF SensorInv, SensorTypeOK, SweepInTime, TrafficAddsUp
  <2>3. FlowsInTime' /\ OneAtATime'
    BY <2>1, NothingMoves
  <2> QED BY <2>2, <2>3 DEF SensorInv
<1>11. ASSUME NEW i \in Iface, Stamp(i) PROVE SensorInv'
  BY <1>11, StampStep
<1> QED BY <1>1, <1>2, <1>3, <1>4, <1>5, <1>6, <1>7, <1>8, <1>9, <1>10, <1>11 DEF Next

(* What leaves the ring while it is fresh.                                 *)
LostFresh ==
    \A j \in DOMAIN ring : clock - ring[j].stamp <= FlowTtl /\ Gone(j) => LeavesWell(j)

LEMMA LossStep == SensorInv /\ [Next]_vars => [LostFresh]_vars
<1> SUFFICES ASSUME SensorInv, Next, NEW j \in DOMAIN ring, Fresh(ring[j]), Gone(j)
             PROVE  LeavesWell(j)
  BY DEF LostFresh, Fresh
<1>1. SensorTypeOK
  BY DEF SensorInv
<1>2. ring' # ring
  BY DEF Gone
<1>3. Len(ring) \in Nat /\ DOMAIN ring = 1..Len(ring) /\ j \in 1..Len(ring) /\ j \in Nat
  BY <1>1, RingShape
<1>4. ASSUME NEW i \in Iface, Put(i) PROVE LeavesWell(j)
  <2>1. worker[i] \in PutState
    BY <1>1, <1>4, WorkerShape DEF Put
  <2>2. PICK e \in Entry : e = [flow |-> worker[i].flow, stamp |-> worker[i].stamp]
    BY <2>1 DEF PutState, Entry
  <2>3. ring' = Append(IF Len(ring) = Cap THEN Tail(ring) ELSE ring, e)
    BY <1>4, <2>2 DEF Put
  <2>4. PICK d \in {0, 1} :
           /\ d = IF Len(ring) = Cap THEN 1 ELSE 0
           /\ ring' \in Seq(Entry) /\ Len(ring') = Len(ring) + 1 - d
           /\ DOMAIN ring' = 1..Len(ring')
           /\ \A k \in 1..(Len(ring') - 1) : k + d \in DOMAIN ring /\ ring'[k] = ring[k + d]
    BY <1>1, <2>3, PutShape
  <2>5. PICK n \in Nat : n = Len(ring)
    BY <1>3
  <2>6. Len(ring') = n + 1 - d /\ DOMAIN ring' = 1..(n + 1 - d)
    BY <2>4, <2>5
  <2>7. CASE n = Cap /\ j = 1
    BY <2>4, <2>5, <2>6, <2>7, Times DEF LeavesWell
  <2>8. CASE ~(n = Cap /\ j = 1)
    <3>1. PICK k \in Int : k = j - d
      BY <1>3
    <3>2. k \in 1..(n - d) /\ k + d = j
      <4>1. j \in Nat /\ j >= 1 /\ j <= n /\ (n = Cap => d = 1) /\ (n # Cap => d = 0)
        BY <1>3, <2>4, <2>5
      <4>2. j > d
        BY <2>8, <4>1
      <4> QED BY <2>5, <3>1, <4>1, <4>2
    <3>3. k \in 1..(n + 1 - d) /\ k \in 1..((n + 1 - d) - 1)
      BY <2>5, <3>2
    <3>4. ring'[k] = ring[j] /\ k \in DOMAIN ring'
      BY <2>4, <2>6, <3>2, <3>3
    <3> QED BY <3>4 DEF Gone
  <2> QED BY <2>7, <2>8
<1>5. ASSUME TakeBatch PROVE LeavesWell(j)
  <2>0. PICK n \in 1..Len(ring) : \E batch :
        /\ batch = {ring[m] : m \in {k \in 1..n : Fresh(ring[k])}}
        /\ ring' = SubSeq(ring, n + 1, Len(ring))
        /\ \E k \in 0..Cardinality(batch) :
             /\ stats' = stats + k
             /\ call' = IF k = Cardinality(batch) /\ batch # {}
                        THEN [pc |-> "predict", batch |-> batch, since |-> clock] ELSE Idle
    BY <1>5 DEF TakeBatch
  <2>1. PICK batch :
        /\ batch = {ring[m] : m \in {k \in 1..n : Fresh(ring[k])}}
        /\ ring' = SubSeq(ring, n + 1, Len(ring))
        /\ \E k \in 0..Cardinality(batch) :
             /\ stats' = stats + k
             /\ call' = IF k = Cardinality(batch) /\ batch # {}
                        THEN [pc |-> "predict", batch |-> batch, since |-> clock] ELSE Idle
    BY <2>0
  <2>2. /\ Len(ring') = Len(ring) - n /\ DOMAIN ring' = 1..(Len(ring) - n)
        /\ \A k \in DOMAIN ring' : n + k \in DOMAIN ring /\ ring'[k] = ring[n + k]
    BY <1>1, <2>1, TakeShape
  <2>3. j \in 1..n
    <3> SUFFICES ASSUME j > n PROVE FALSE
      BY <1>3, <2>1
    <3>1. PICK k \in Int : k = j - n
      BY <1>3, <2>1
    <3>2. k \in 1..(Len(ring) - n) /\ n + k = j
      BY <1>3, <2>1, <3>1
    <3> QED BY <2>2, <3>2 DEF Gone
  <2>4. ring[j] \in batch
    BY <2>1, <2>3
  <2>7. PICK len \in Nat : len = Len(ring)
    BY <1>3
  <2>8. n \in Nat /\ Len(ring) - Len(ring') = n
    <3>1. n \in Nat /\ Len(ring') = len - n /\ len - (len - n) = n
      BY <2>2, <2>7
    <3> QED BY <2>7, <3>1
  <2>5. CASE call' = Idle
    <3>1. Cardinality(batch) \in Nat /\ Cardinality(batch) <= FreshIn(n) /\ FreshIn(n) \in Nat
      <4>1. Cardinality(batch) \in Nat /\ Cardinality(batch) <= FreshIn(n)
        BY <1>1, <2>1, BatchShape
      <4>2. FreshIn(n) \in Nat
        BY <2>8, FreshGrows
      <4> QED BY <4>1, <4>2
    <3>2. PICK k \in 0..Cardinality(batch) :
             /\ stats' = stats + k
             /\ call' = IF k = Cardinality(batch) /\ batch # {}
                        THEN [pc |-> "predict", batch |-> batch, since |-> clock] ELSE Idle
      BY <2>1
    <3>3. k # Cardinality(batch)
      BY <2>4, <2>5, <3>2 DEF Idle
    <3>4. k \in Nat /\ k < FreshIn(n)
      BY <3>1, <3>2, <3>3
    <3>5. stats' - stats = k
      BY <1>1, <3>2, <3>4 DEF SensorTypeOK
    <3>6. stats' - stats < FreshIn(Len(ring) - Len(ring'))
      BY <2>8, <3>4, <3>5
    <3> QED BY <2>5, <3>6 DEF LeavesWell
  <2>6. CASE call' = [pc |-> "predict", batch |-> batch, since |-> clock]
    BY <2>4, <2>6 DEF LeavesWell
  <2> QED BY <2>1, <2>5, <2>6
<1>6. ring' = ring \/ TakeBatch \/ \E i \in Iface : Put(i)
  BY DEF Next, Export, IsDuplicate, Stamp, SweepBegins, Sweep, CallEnds, Push, SendEnds, Tick
<1> QED BY <1>2, <1>4, <1>5, <1>6

(* The state is well typed and the ring within its limit (RingBuffer).     *)
THEOREM SensorTypeCorrect == Spec => []SensorTypeOK
<1>1. SensorInv => SensorTypeOK
  BY DEF SensorInv
<1> QED BY <1>1, SensorInitEstablishes, SensorStep, PTL DEF Spec

(* A flow is on its way to /predict once at a time (FlowDeduplicator,      *)
(* RingBuffer, _consume_ring).                                             *)
THEOREM FlowsComeOnce == Spec => []OneAtATime
<1>1. SensorInv => OneAtATime
  BY DEF SensorInv
<1> QED BY <1>1, SensorInitEstablishes, SensorStep, PTL DEF Spec

(* What is counted is shown once, or was in a send that failed             *)
(* (TrafficStats, WsMonitor._push_once).                                   *)
THEOREM TrafficIsShownOnce == Spec => []TrafficAddsUp
<1>1. SensorInv => TrafficAddsUp
  BY DEF SensorInv
<1> QED BY <1>1, SensorInitEstablishes, SensorStep, PTL DEF Spec

(* A flow that is not too old leaves the ring for /predict, as the oldest  *)
(* of a full one, or with a batch whose payload could not be built, of     *)
(* which a flow was not counted (RingBuffer.put, get_batch, send_batch).   *)
THEOREM LossesHaveACause == Spec => LossHasACause
BY SensorInitEstablishes, SensorStep, LossStep, PTL DEF Spec, LossHasACause, LostFresh

-------------------------------------------------------------------------------
(* What one call of get_batch takes.                                       *)

(* Of numbers there is a least one: intervals are ordered by inclusion.    *)
LEMMA Least ==
    ASSUME NEW T \in SUBSET Nat, T # {}
    PROVE  \E m \in T : \A x \in T : m <= x
<1> DEFINE Below == {0..x : x \in T}
<1>1. Below \subseteq FiniteSubsetsOf(Nat) /\ Below # {}
  <2>1. \A x \in T : 0..x \subseteq Nat /\ IsFiniteSet(0..x)
    BY FS_Interval
  <2> QED BY <2>1 DEF FiniteSubsetsOf
<1> HIDE DEF Below
<1>2. PICK I \in Below : \A J \in Below : <<J, I>> \notin StrictSubsetOrdering(Nat)
  BY <1>1, FS_StrictSubsetOrderingWellFounded, WFMin
<1>3. PICK m \in T : I = 0..m
  BY DEF Below
<1>4. ASSUME NEW x \in T, x < m PROVE FALSE
  <2>1. 0..x \in Below
    BY DEF Below
  <2>2. 0..x \subseteq 0..m /\ m \in 0..m /\ m \notin 0..x
    BY <1>4
  <2>3. <<0..x, I>> \in StrictSubsetOrdering(Nat)
    BY <1>3, <2>2 DEF StrictSubsetOrdering
  <2> QED BY <1>2, <2>1, <2>3
<1> QED BY <1>4

(* No more than a batch, and less only when nothing is left.               *)
LEMMA PopsBounded ==
    ASSUME SensorTypeOK, NEW n \in 1..Len(ring), Pops(n)
    PROVE  FreshIn(n) <= BatchSize /\ (FreshIn(n) < BatchSize => n = Len(ring))
<1>1. /\ Len(ring) \in Nat /\ n \in Nat \ {0} /\ BatchSize \in Nat \ {0}
      /\ FreshIn(n) \in Nat /\ FreshIn(n) <= FreshIn(n - 1) + 1
  BY RingShape, FreshGrows, Times
<1>2. n = Len(ring) \/ FreshIn(n) = BatchSize
  BY DEF Pops
<1>3. FreshIn(n - 1) \in Nat /\ FreshIn(n - 1) < BatchSize
  <2>1. CASE n = 1
    BY <1>1, <2>1, FreshGrows
  <2>2. CASE n # 1
    <3>1. n - 1 \in 1..(n - 1) /\ n - 1 \in Nat
      BY <1>1, <2>2
    <3> QED BY <3>1, FreshGrows DEF Pops
  <2> QED BY <2>1, <2>2
<1> QED BY <1>1, <1>2, <1>3

(* The loop of get_batch ends, wherever the fresh flows are in the ring.   *)
LEMMA LoopEnds ==
    ASSUME SensorTypeOK, ring # <<>>
    PROVE  \E n \in 1..Len(ring) : Pops(n)
<1>1. Len(ring) \in Nat \ {0} /\ BatchSize \in Nat \ {0}
  BY RingShape, Times, EmptySeq
<1> DEFINE Done == {m \in 1..Len(ring) : FreshIn(m) >= BatchSize \/ m = Len(ring)}
<1>2. Len(ring) \in Done /\ Done \subseteq Nat
  BY <1>1
<1>3. PICK n \in Done : \A x \in Done : n <= x
  <2> HIDE DEF Done
  <2> QED BY <1>2, Least
<1>4. n \in 1..Len(ring) /\ n \in Nat \ {0} /\ (FreshIn(n) >= BatchSize \/ n = Len(ring))
  BY <1>1
<1>5. \A m \in 1..(n - 1) : m \in Nat /\ FreshIn(m) \in Nat /\ FreshIn(m) < BatchSize
  <2> SUFFICES ASSUME NEW m \in 1..(n - 1)
               PROVE  m \in Nat /\ FreshIn(m) \in Nat /\ FreshIn(m) < BatchSize
    OBVIOUS
  <2>1. m \in 1..Len(ring) /\ m \in Nat /\ ~(n <= m)
    BY <1>1, <1>4
  <2>2. FreshIn(m) \in Nat /\ m \notin Done
    BY <1>3, <2>1, FreshGrows
  <2>3. ~(FreshIn(m) >= BatchSize)
    BY <2>1, <2>2
  <2> QED BY <1>1, <2>1, <2>2, <2>3
<1>6. CASE n = Len(ring)
  BY <1>4, <1>5, <1>6 DEF Pops
<1>7. CASE n # Len(ring)
  <2>1. FreshIn(n) \in Nat /\ FreshIn(n) >= BatchSize /\ FreshIn(n) <= FreshIn(n - 1) + 1
    BY <1>4, <1>7, FreshGrows
  <2>2. FreshIn(n - 1) \in Nat /\ FreshIn(n - 1) < BatchSize
    <3>1. CASE n = 1
      BY <1>1, <3>1, FreshGrows
    <3>2. CASE n # 1
      <4>1. n - 1 \in 1..(n - 1)
        BY <1>4, <3>2
      <4> QED BY <1>5, <4>1
    <3> QED BY <3>1, <3>2
  <2>3. FreshIn(n) = BatchSize
    BY <1>1, <2>1, <2>2
  <2> QED BY <1>4, <1>5, <2>3 DEF Pops
<1> QED BY <1>6, <1>7

(* No flow is twice among the fresh ones, so that the batch has as many.   *)
LEMMA BatchCount ==
    ASSUME SensorTypeOK, OneAtATime, NEW n \in 1..Len(ring)
    PROVE  Cardinality({ring[j] : j \in FreshPlaces(n)}) = FreshIn(n)
<1> DEFINE batch == {ring[j] : j \in FreshPlaces(n)}
<1> DEFINE at == [j \in FreshPlaces(n) |-> ring[j]]
<1>1. n \in Nat /\ IsFiniteSet(FreshPlaces(n))
  BY RingShape, FreshGrows
<1>2. \A j \in FreshPlaces(n) : j \in DOMAIN ring /\ Fresh(ring[j]) /\ ring[j].flow \in Flow
  BY RingShape DEF FreshPlaces
<1>3. ASSUME NEW i \in FreshPlaces(n), NEW j \in FreshPlaces(n), ring[i] = ring[j]
      PROVE  i = j
  <2>1. Waits(i, ring[i].flow) /\ Waits(j, ring[i].flow)
    BY <1>2, <1>3 DEF Waits
  <2> QED BY <1>2, <2>1 DEF OneAtATime
<1>4. at \in Surjection(FreshPlaces(n), batch)
  BY DEF Surjection
<1>5. at \in Injection(FreshPlaces(n), batch)
  <2>1. \A i, j \in FreshPlaces(n) : at[i] = at[j] => i = j
    BY <1>3
  <2>2. at \in [FreshPlaces(n) -> batch]
    OBVIOUS
  <2> HIDE DEF at, batch
  <2> QED BY Zenon, <2>1, <2>2 DEF Injection, IsInjective
<1>6. Cardinality(batch) = Cardinality(FreshPlaces(n))
  <2> HIDE DEF at, batch
  <2> QED BY <1>1, <1>4, <1>5, FS_Surjection
<1> QED BY <1>6 DEF FreshIn, FreshPlaces

ServesTheRing ==
    [][TakeBatch =>
          /\ Len(ring') < Len(ring)
          /\ \A j \in DOMAIN ring' : ring'[j] = ring[Len(ring) - Len(ring') + j]
          /\ call'.pc = "predict" =>
                /\ Cardinality(call'.batch) \in 1..BatchSize
                /\ Cardinality(call'.batch) < BatchSize => ring' = <<>>]_vars

LEMMA ServesStep ==
    ASSUME SensorInv, TakeBatch
    PROVE  /\ Len(ring') < Len(ring)
           /\ \A j \in DOMAIN ring' : ring'[j] = ring[Len(ring) - Len(ring') + j]
           /\ call'.pc = "predict" =>
                 /\ Cardinality(call'.batch) \in 1..BatchSize
                 /\ Cardinality(call'.batch) < BatchSize => ring' = <<>>
<1>1. SensorTypeOK /\ OneAtATime /\ Len(ring) \in Nat /\ BatchSize \in Nat \ {0}
  BY RingShape, Times DEF SensorInv
<1>2. PICK n \in 1..Len(ring) :
        /\ Pops(n) /\ ring' = SubSeq(ring, n + 1, Len(ring))
        /\ call' = Idle \/ /\ {ring[j] : j \in FreshPlaces(n)} # {}
                           /\ call' = [pc |-> "predict", since |-> clock,
                                       batch |-> {ring[j] : j \in FreshPlaces(n)}]
  BY DEF TakeBatch, FreshPlaces
<1>3. /\ ring' \in Seq(Entry) /\ Len(ring') = Len(ring) - n /\ n \in 1..Len(ring)
      /\ \A j \in DOMAIN ring' : ring'[j] = ring[n + j]
  BY <1>1, <1>2, TakeShape
<1>4. Len(ring') < Len(ring) /\ Len(ring) - Len(ring') = n
  BY <1>1, <1>3
<1>5. ASSUME call'.pc = "predict"
      PROVE  /\ Cardinality(call'.batch) \in 1..BatchSize
             /\ Cardinality(call'.batch) < BatchSize => ring' = <<>>
  <2>1. call'.batch = {ring[j] : j \in FreshPlaces(n)} /\ call'.batch # {}
    <3> DEFINE batch == {ring[j] : j \in FreshPlaces(n)}
    <3>1. call' = Idle \/ (batch # {} /\ call' = [pc |-> "predict", since |-> clock,
                                                batch |-> batch])
      BY <1>2
    <3>2. call' # Idle
      BY <1>5 DEF Idle
    <3> HIDE DEF batch
    <3>3. call'.batch = batch /\ batch # {}
      BY <3>1, <3>2
    <3> QED BY <3>3 DEF batch
  <2>2. Cardinality(call'.batch) = FreshIn(n) /\ FreshIn(n) \in Nat
    <3>1. n \in Nat
      BY <1>1
    <3>2. Cardinality({ring[j] : j \in FreshPlaces(n)}) = FreshIn(n)
      BY <1>1, BatchCount
    <3> QED BY <2>1, <3>1, <3>2, FreshGrows
  <2>3. FreshIn(n) # 0
    <3>1. FreshPlaces(n) # {} /\ IsFiniteSet(FreshPlaces(n))
      BY <1>1, <2>1, FreshGrows
    <3>2. FreshIn(n) = Cardinality(FreshPlaces(n))
      BY Zenon DEF FreshIn, FreshPlaces
    <3> QED BY <3>1, <3>2, FS_EmptySet
  <2>4. FreshIn(n) <= BatchSize /\ (FreshIn(n) < BatchSize => n = Len(ring))
    BY <1>1, <1>2, PopsBounded
  <2>5. n = Len(ring) => ring' = <<>>
    BY <1>1, <1>3, EmptySeq
  <2> QED BY <1>1, <2>2, <2>3, <2>4, <2>5
<1> QED BY <1>3, <1>4, <1>5

(* One get_batch leaves the ring shorter and in its order, asks about one  *)
(* flow at least and BatchSize at most, and asks about fewer only when it  *)
(* has emptied the ring: no flow is passed over (RingBuffer.get_batch,     *)
(* _consume_ring).                                                         *)
THEOREM RingIsEmptied == Spec => ServesTheRing
<1>1. SensorInv /\ [Next]_vars =>
        [TakeBatch =>
          /\ Len(ring') < Len(ring)
          /\ \A j \in DOMAIN ring' : ring'[j] = ring[Len(ring) - Len(ring') + j]
          /\ call'.pc = "predict" =>
                /\ Cardinality(call'.batch) \in 1..BatchSize
                /\ Cardinality(call'.batch) < BatchSize => ring' = <<>>]_vars
  BY ServesStep
<1> QED BY <1>1, SensorInitEstablishes, SensorStep, PTL DEF Spec, ServesTheRing

BatchThere == ring # <<>> => \E n \in 1..Len(ring) : Pops(n)

(* The loop of get_batch comes to an end whatever the ring holds: between  *)
(* calls, only an empty ring keeps the task from taking a batch            *)
(* (RingBuffer.get_batch).  With RingIsEmptied this is what RingServed     *)
(* rests on, but for the fairness of the task.                             *)
THEOREM BatchIsThere == Spec => []BatchThere
<1>1. SensorInv => BatchThere
  BY LoopEnds DEF SensorInv, BatchThere
<1> QED BY <1>1, SensorInitEstablishes, SensorStep, PTL DEF Spec

===============================================================================
