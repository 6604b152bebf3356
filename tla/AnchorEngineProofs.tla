--------------------------- MODULE AnchorEngineProofs --------------------------
(***************************************************************************)
(* What the anchor engine promises for every set of addresses and flows,   *)
(* every threshold and every time to live: the cleanup thread may act on   *)
(* its old clock between any two steps of a call.  The last part is about  *)
(* what one turn of that thread leaves of a silent target.                 *)
(***************************************************************************)
EXTENDS AnchorEngine, FiniteSetTheorems, TLAPS

Verdict == {"Benign", "scanning", "DDoS", "DoS", "rest"}

CallType == [pc : {"look", "update", "answer"}, batch : Seq(Flows),
             verdicts : Seq(Verdict), began : 0 .. LastCall]

(* Nothing is stamped with an instant to come; a window ends no later than *)
(* the session of its pair, and a target's flows at most an instant after  *)
(* its last_update.                                                        *)
TimeInv ==
    /\ clock # Off => clock <= now
    /\ \A ip \in IP : last[ip] <= now
    /\ \A k \in Pair : \A e \in history[k] : e.ts <= now /\ e.ts <= session[k].at
    /\ \A ip \in IP : \A e \in flows[ip] : e.ts <= now /\ e.ts <= last[ip] + 1

FiniteInv ==
    /\ \A k \in Pair : IsFiniteSet(history[k])
    /\ \A ip \in IP : IsFiniteSet(flows[ip]) /\ IsFiniteSet(sources[ip])

CallInv ==
    call # Idle =>
        /\ call.began <= now /\ now <= LastAnswer
        /\ call.pc # "answer" => Len(call.verdicts) < Len(call.batch)
        /\ Len(call.verdicts) <= Len(call.batch)

(* The target of a flow judged DDoS was updated during the call, so that   *)
(* the cleanup cannot find it silent while the agent waits.                *)
Backed(dst) == Cardinality(sources[dst]) >= MinSources /\ call.began <= last[dst]

BackedInv ==
    call # Idle /\ now <= call.began + CallTime =>
        \A i \in 1 .. Len(call.verdicts) :
            call.verdicts[i] = "DDoS" => Backed(call.batch[i].dst)

IInv ==
    /\ TypeOK /\ TimeInv /\ FiniteInv /\ CallInv
    /\ PortsOfSession /\ SourcesCoverFlows /\ BackedInv

-------------------------------------------------------------------------------
LEMMA TimeFacts ==
    /\ TTL \in Nat /\ CallTime \in Nat /\ LastCall \in Nat
    /\ LastAnswer \in Nat /\ EndOfTime \in Nat
    /\ LastCall <= LastAnswer /\ LastAnswer < EndOfTime /\ CallTime <= TTL
BY TimeAssumption DEF LastAnswer, EndOfTime

LEMMA FlowFacts ==
    ASSUME NEW f \in Flows
    PROVE  /\ f.src \in IP /\ f.dst \in IP /\ f.port \in Nat
           /\ PairOf(f) \in Pair
BY FlowsAssumption DEF Flow, PairOf, Pair

(* A call under way is a record of its own, never Idle.                    *)
LEMMA CallShape ==
    ASSUME TypeOK
    PROVE  /\ call # Idle <=> call \in CallType
           /\ call.pc \in {"look", "update", "answer"} => call # Idle
BY DEF TypeOK, CallType, Verdict, Idle

LEMMA FreshFacts ==
    ASSUME NEW w \in Window, IsFiniteSet(w), NEW t
    PROVE  /\ Fresh(w, t) \subseteq w
           /\ Fresh(w, t) \in Window
           /\ IsFiniteSet(Fresh(w, t))
<1>1. Fresh(w, t) \subseteq w
  BY DEF Fresh
<1> QED BY <1>1, FS_Subset DEF Window

(* Enough sources are some sources.                                        *)
LEMMA EnoughSources ==
    ASSUME NEW srcs, Cardinality(srcs) >= MinSources
    PROVE  srcs # {}
<1>1. Cardinality({}) = 0
  BY FS_EmptySet
<1>2. MinSources \in Nat /\ MinSources > 0
  BY ThresholdAssumption
<1> QED BY <1>1, <1>2

(* An entry is added to a window, and nothing is taken out.                *)
LEMMA PushFacts ==
    ASSUME NEW w \in Window, IsFiniteSet(w), NEW t \in 0 .. EndOfTime,
           NEW f \in Flows
    PROVE  /\ Push(w, t, f) \in Window
           /\ IsFiniteSet(Push(w, t, f))
           /\ \A e \in Push(w, t, f) : e \in w \/ (e.ts = t /\ e.flow = f)
<1> DEFINE twins == {e \in w : e.ts = t /\ e.flow = f}
<1> DEFINE new == [ts |-> t, flow |-> f, n |-> Cardinality(twins)]
<1>1. IsFiniteSet(twins)
  BY FS_Subset
<1>2. Cardinality(twins) \in Nat
  BY <1>1, FS_CardinalityType
<1>3. new \in [ts : 0 .. EndOfTime, flow : Flows, n : Nat]
  BY <1>2
<1>4. Push(w, t, f) = w \cup {new}
  BY DEF Push
<1>5. IsFiniteSet(w \cup {new})
  BY FS_AddElement
<1>6. w \cup {new} \in Window
  BY <1>3 DEF Window
<1>7. new.ts = t /\ new.flow = f
  OBVIOUS
<1> HIDE DEF new
<1> QED BY <1>4, <1>5, <1>6, <1>7

-------------------------------------------------------------------------------
LEMMA InitEstablishes == Init => IInv
<1> SUFFICES ASSUME Init PROVE IInv
  OBVIOUS
<1>1. TypeOK
  BY TimeFacts DEF Init, TypeOK, Window, Off, Idle
<1>2. TimeInv /\ PortsOfSession /\ SourcesCoverFlows /\ CallInv /\ BackedInv
  BY DEF Init, TimeInv, PortsOfSession, SourcesCoverFlows, CallInv, BackedInv, Off
<1>3. FiniteInv
  BY FS_EmptySet DEF Init, FiniteInv
<1> QED BY <1>1, <1>2, <1>3 DEF IInv

(* Steps that leave the engine alone and neither move the clock nor add a  *)
(* verdict of DDoS.                                                        *)
LEMMA EngineFrame ==
    ASSUME IInv, UNCHANGED <<now, pairs, targets, session>>
    PROVE  /\ FiniteInv' /\ PortsOfSession' /\ SourcesCoverFlows'
           /\ clock' = clock => TimeInv'
BY DEF IInv, FiniteInv, PortsOfSession, SourcesCoverFlows, TimeInv, pairs, targets

LEMMA BeginStep == IInv /\ BeginCall => IInv'
<1> SUFFICES ASSUME IInv, BeginCall PROVE IInv'
  OBVIOUS
<1>1. PICK n \in 1 .. MaxBatch : \E batch \in [1 .. n -> Flows] :
        call' = [pc |-> "look", batch |-> batch, verdicts |-> << >>, began |-> now]
  BY DEF BeginCall
<1>2. PICK batch \in [1 .. n -> Flows] :
        call' = [pc |-> "look", batch |-> batch, verdicts |-> << >>, began |-> now]
  BY <1>1
<1>3. n \in Nat /\ n >= 1
  BY BoundAssumption
<1>4. batch \in Seq(Flows) /\ Len(batch) = n
  BY <1>3
<1>5. now \in 0 .. LastCall
  BY TimeFacts DEF IInv, TypeOK, BeginCall
<1>6. << >> \in Seq(Verdict) /\ Len(<< >>) = 0
  OBVIOUS
<1>7. call' \in CallType
  BY <1>2, <1>4, <1>5, <1>6 DEF CallType
<1>8. call'.batch = batch /\ call'.verdicts = << >> /\ call'.began = now
  BY <1>2
<1>9. TypeOK'
  BY <1>7 DEF IInv, TypeOK, BeginCall, CallType, Verdict, pairs, targets
<1>10. CallInv'
  BY <1>3, <1>4, <1>5, <1>6, <1>8, TimeFacts DEF CallInv, BeginCall
<1>11. BackedInv'
  BY <1>6, <1>8 DEF BackedInv
<1> QED BY <1>9, <1>10, <1>11, EngineFrame DEF BeginCall, IInv

(* A verdict moves a call on.                                              *)
LEMMA JudgedFacts ==
    ASSUME IInv, NEW label \in Verdict, call.pc \in {"look", "update"},
           call' = Judged(label)
    PROVE  /\ call' \in CallType
           /\ call'.began = call.began /\ call'.batch = call.batch
           /\ call'.verdicts = Append(call.verdicts, label)
           /\ Len(call'.verdicts) = Len(call.verdicts) + 1
           /\ Len(call.verdicts) < Len(call.batch)
           /\ call'.pc # "answer" => Len(call'.verdicts) < Len(call.batch)
           /\ Len(call'.verdicts) <= Len(call.batch)
           /\ CurrentFlow \in Flows
           /\ CurrentFlow = call.batch[Len(call'.verdicts)]
<1>1. call # Idle /\ call \in CallType
  BY CallShape DEF IInv
<1>2. /\ call.verdicts \in Seq(Verdict) /\ call.batch \in Seq(Flows)
      /\ call.began \in 0 .. LastCall
  BY <1>1 DEF CallType
<1>3. Len(call.verdicts) < Len(call.batch)
  BY <1>1 DEF IInv, CallInv
<1> DEFINE verdicts == Append(call.verdicts, label)
<1>4. /\ verdicts \in Seq(Verdict)
      /\ Len(verdicts) = Len(call.verdicts) + 1
  BY <1>2
<1>5. Len(call.verdicts) \in Nat /\ Len(call.batch) \in Nat
  BY <1>2
<1>6. call' = [call EXCEPT !.verdicts = verdicts,
                           !.pc = IF Len(verdicts) = Len(call.batch)
                                  THEN "answer" ELSE "look"]
  BY DEF Judged
<1> HIDE DEF verdicts
<1>7. /\ call'.began = call.began /\ call'.batch = call.batch
      /\ call'.verdicts = verdicts
      /\ call'.pc = IF Len(verdicts) = Len(call.batch) THEN "answer" ELSE "look"
      /\ call' \in CallType
  BY <1>1, <1>4, <1>6 DEF CallType
<1>8. CurrentFlow \in Flows /\ CurrentFlow = call.batch[Len(verdicts)]
  BY <1>2, <1>3, <1>4, <1>5 DEF CurrentFlow
<1> QED BY <1>3, <1>4, <1>5, <1>7, <1>8 DEF verdicts

LEMMA LookStep == IInv /\ Look => IInv'
<1> SUFFICES ASSUME IInv, Look PROVE IInv'
  OBVIOUS
<1>0. call # Idle /\ call \in CallType /\ call.pc = "look"
  BY CallShape DEF IInv, Look
<1>1. UNCHANGED <<now, pairs, targets, clock, session>>
  BY DEF Look
<1>2. CASE call' = Judged("Benign")
  <2>1. "Benign" \in Verdict
    BY DEF Verdict
  <2>2. /\ call' \in CallType
        /\ call'.began = call.began /\ call'.batch = call.batch
        /\ call'.verdicts = Append(call.verdicts, "Benign")
        /\ Len(call'.verdicts) = Len(call.verdicts) + 1
        /\ call'.pc # "answer" => Len(call'.verdicts) < Len(call.batch)
        /\ Len(call'.verdicts) <= Len(call.batch)
    BY <1>0, <1>2, <2>1, JudgedFacts
  <2>3. TypeOK'
    BY <1>1, <2>2 DEF IInv, TypeOK, CallType, Verdict, pairs, targets
  <2>4. CallInv'
    BY <1>0, <1>1, <2>2 DEF IInv, CallInv
  <2>5. BackedInv'
    <3> SUFFICES ASSUME now <= call.began + CallTime,
                        NEW i \in 1 .. Len(call'.verdicts), call'.verdicts[i] = "DDoS"
                 PROVE  Backed(call.batch[i].dst)
      BY <1>1, <2>2 DEF BackedInv, Backed, targets
    <3>1. call.verdicts \in Seq(Verdict)
      BY <1>0 DEF CallType
    <3>2. i \in 1 .. Len(call.verdicts) /\ call.verdicts[i] = "DDoS"
      BY <2>2, <3>1
    <3> QED BY <1>0, <3>2 DEF IInv, BackedInv
  <2> QED BY <1>1, <2>3, <2>4, <2>5, EngineFrame DEF IInv
<1>3. CASE call' = [call EXCEPT !.pc = "update"]
  <2>1. /\ call' \in CallType
        /\ call'.began = call.began /\ call'.batch = call.batch
        /\ call'.verdicts = call.verdicts
    BY <1>0, <1>3 DEF CallType
  <2>2. TypeOK'
    BY <1>1, <2>1 DEF IInv, TypeOK, CallType, Verdict, pairs, targets
  <2>3. CallInv'
    BY <1>0, <1>1, <2>1 DEF IInv, CallInv
  <2>4. BackedInv'
    BY <1>0, <1>1, <2>1 DEF IInv, BackedInv, Backed, targets
  <2> QED BY <1>1, <2>2, <2>3, <2>4, EngineFrame DEF IInv
<1> QED BY <1>2, <1>3 DEF Look

LEMMA AnswerStep == IInv /\ Answer => IInv'
<1> SUFFICES ASSUME IInv, Answer PROVE IInv'
  OBVIOUS
<1>1. call' = Idle /\ UNCHANGED <<now, pairs, targets, clock, session>>
  BY DEF Answer
<1>2. TypeOK'
  BY <1>1 DEF IInv, TypeOK, pairs, targets
<1> QED BY <1>1, <1>2, EngineFrame DEF IInv, CallInv, BackedInv

-------------------------------------------------------------------------------
(* The locked part of update.                                              *)

LEMMA UpdateStep == IInv /\ Update => IInv'
<1> SUFFICES ASSUME IInv, Update PROVE IInv'
  OBVIOUS
<1> DEFINE f == CurrentFlow
<1> DEFINE k == PairOf(f)
<1> DEFINE known == Fresh(history[k], now)
<1> DEFINE label == IF IsDdos(sources'[f.dst], flows'[f.dst]) THEN "DDoS"
                    ELSE Analyze(history'[k], ports'[k], sources'[f.dst],
                                 IsVictim(flows'[f.src]))
<1>1. PICK t1 \in {now, now + 1}, t2 \in {now, now + 1}, t3 \in {now, now + 1} :
        /\ t1 <= t2 /\ t2 <= t3 /\ t3 <= LastAnswer
        /\ now' = t3
        /\ history' = [history EXCEPT ![k] = Push(known, t1, f)]
        /\ ports' = [ports EXCEPT ![k] = KeptPorts(known, ports[k]) \cup {f.port}]
        /\ sources' = [sources EXCEPT ![f.dst] = sources[f.dst] \cup {f.src}]
        /\ last' = [last EXCEPT ![f.dst] = t2]
        /\ flows' = [flows EXCEPT ![f.dst] = Push(Fresh(flows[f.dst], now), t3, f)]
        /\ call' = Judged(label)
        /\ session' = [session EXCEPT ![k] =
              [at |-> t1,
               ports |-> (IF now - session[k].at > TTL THEN {} ELSE session[k].ports)
                            \cup {f.port}]]
  BY Zenon DEF Update
<1>2. call.pc = "update" /\ clock' = clock
  BY DEF Update
<1>3. label \in Verdict
  BY DEF Analyze, Verdict
<1>4. /\ call' \in CallType
      /\ call'.began = call.began /\ call'.batch = call.batch
      /\ call'.verdicts = Append(call.verdicts, label)
      /\ Len(call'.verdicts) = Len(call.verdicts) + 1
      /\ call'.pc # "answer" => Len(call'.verdicts) < Len(call.batch)
      /\ Len(call'.verdicts) <= Len(call.batch)
      /\ f \in Flows
      /\ f = call.batch[Len(call'.verdicts)]
  <2> HIDE DEF label
  <2> QED BY <1>1, <1>2, <1>3, JudgedFacts
<1>5. f.src \in IP /\ f.dst \in IP /\ f.port \in Nat /\ k \in Pair
  BY <1>4, FlowFacts
<1>6. call # Idle /\ call \in CallType /\ call.began <= now
  BY <1>2, CallShape DEF IInv, CallInv
<1> HIDE DEF f, k
<1>7. /\ now \in Nat /\ t1 \in 0 .. EndOfTime /\ t2 \in 0 .. EndOfTime
      /\ t3 \in 0 .. EndOfTime
  BY <1>1, TimeFacts DEF IInv, TypeOK
<1>8. /\ history[k] \in Window /\ IsFiniteSet(history[k])
      /\ flows[f.dst] \in Window /\ IsFiniteSet(flows[f.dst])
      /\ session[k].at \in 0 .. EndOfTime /\ session[k].ports \subseteq Nat
      /\ ports[k] \subseteq Nat /\ sources[f.dst] \subseteq IP
      /\ IsFiniteSet(sources[f.dst])
  BY <1>5 DEF IInv, TypeOK, FiniteInv
<1>9. /\ known \subseteq history[k] /\ known \in Window /\ IsFiniteSet(known)
  BY <1>8, FreshFacts
<1>10. /\ history'[k] \in Window /\ IsFiniteSet(history'[k])
       /\ \A e \in history'[k] : e \in known \/ (e.ts = t1 /\ e.flow = f)
  <2>1. history'[k] = Push(known, t1, f)
    BY <1>1, <1>5 DEF IInv, TypeOK
  <2> QED BY <2>1, <1>4, <1>7, <1>9, PushFacts
<1>11. /\ flows'[f.dst] \in Window /\ IsFiniteSet(flows'[f.dst])
       /\ \A e \in flows'[f.dst] : e \in flows[f.dst] \/ (e.ts = t3 /\ e.flow = f)
  <2>1. flows'[f.dst] = Push(Fresh(flows[f.dst], now), t3, f)
    BY <1>1, <1>5 DEF IInv, TypeOK
  <2> QED BY SMTT(20), <2>1, <1>4, <1>7, <1>8, FreshFacts, PushFacts
<1>12. /\ \A j \in Pair \ {k} : /\ history'[j] = history[j] /\ ports'[j] = ports[j]
                                /\ session'[j] = session[j]
       /\ \A ip \in IP \ {f.dst} : /\ flows'[ip] = flows[ip] /\ last'[ip] = last[ip]
                                   /\ sources'[ip] = sources[ip]
  BY <1>1 DEF IInv, TypeOK
<1>13. /\ ports'[k] = KeptPorts(known, ports[k]) \cup {f.port}
       /\ session'[k] = [at |-> t1,
               ports |-> (IF now - session[k].at > TTL THEN {} ELSE session[k].ports)
                            \cup {f.port}]
       /\ sources'[f.dst] = sources[f.dst] \cup {f.src}
       /\ last'[f.dst] = t2
  BY <1>1, <1>5 DEF IInv, TypeOK
<1>14. /\ DOMAIN history' = Pair /\ DOMAIN ports' = Pair /\ DOMAIN session' = Pair
       /\ DOMAIN flows' = IP /\ DOMAIN last' = IP /\ DOMAIN sources' = IP
  BY <1>1 DEF IInv, TypeOK
<1> HIDE DEF known, label
<1>20. TypeOK'
  <2>1. now' \in 0 .. EndOfTime /\ clock' \in {Off} \cup 0 .. EndOfTime
    BY <1>1, <1>2, <1>7 DEF IInv, TypeOK
  <2>2. history' \in [Pair -> Window]
    <3>1. \A j \in Pair : history'[j] \in Window
      BY <1>10, <1>12 DEF IInv, TypeOK
    <3>2. history' = [j \in Pair |-> history'[j]]
      BY <1>1, <1>14 DEF IInv, TypeOK
    <3> QED BY <3>1, <3>2
  <2>3. flows' \in [IP -> Window]
    <3>1. \A ip \in IP : flows'[ip] \in Window
      BY <1>11, <1>12 DEF IInv, TypeOK
    <3>2. flows' = [ip \in IP |-> flows'[ip]]
      BY <1>1, <1>14 DEF IInv, TypeOK
    <3> QED BY <3>1, <3>2
  <2>4. ports' \in [Pair -> SUBSET Nat]
    BY <1>1, <1>5, <1>8 DEF IInv, TypeOK, KeptPorts
  <2>5. sources' \in [IP -> SUBSET IP] /\ last' \in [IP -> 0 .. EndOfTime]
    BY <1>1, <1>5, <1>7, <1>8 DEF IInv, TypeOK
  <2>6. session' \in [Pair -> [at : 0 .. EndOfTime, ports : SUBSET Nat]]
    BY <1>1, <1>5, <1>7, <1>8 DEF IInv, TypeOK
  <2> QED BY <1>4, <2>1, <2>2, <2>3, <2>4, <2>5, <2>6 DEF TypeOK, CallType, Verdict
<1>21. TimeInv'
  <2>1. clock' # Off => clock' <= now'
    BY <1>1, <1>2, <1>7 DEF IInv, TypeOK, TimeInv, Off
  <2>2. \A ip \in IP : last'[ip] <= now'
    BY <1>1, <1>7, <1>12, <1>13 DEF IInv, TypeOK, TimeInv
  <2>3. ASSUME NEW j \in Pair, NEW e \in history'[j]
        PROVE  e.ts <= now' /\ e.ts <= session'[j].at
    <3>1. CASE j = k
      <4>1. CASE e \in known
        <5>1. e.ts \in Nat /\ e.ts <= now
          BY <3>1, <4>1, <1>8, <1>9 DEF IInv, TimeInv, Window
        <5> QED BY <3>1, <5>1, <1>1, <1>7, <1>13
      <4>2. CASE e.ts = t1
        BY <3>1, <4>2, <1>1, <1>7, <1>13
      <4> QED BY <3>1, <4>1, <4>2, <1>10
    <3>2. CASE j # k
      <4>1. e \in history[j] /\ session'[j] = session[j]
        BY <3>2, <2>3, <1>12
      <4>2. e.ts \in Nat /\ e.ts <= now /\ e.ts <= session[j].at
        BY <4>1 DEF IInv, TimeInv, TypeOK, Window
      <4> QED BY <4>1, <4>2, <1>1, <1>7
    <3> QED BY <3>1, <3>2
  <2>4. ASSUME NEW ip \in IP, NEW e \in flows'[ip]
        PROVE  e.ts <= now' /\ e.ts <= last'[ip] + 1
    <3>1. CASE e \in flows[ip]
      <4>1. e.ts \in Nat /\ e.ts <= now /\ e.ts <= last[ip] + 1
        BY <3>1 DEF IInv, TimeInv, TypeOK, Window
      <4> QED BY <4>1, <1>1, <1>7, <1>12, <1>13
    <3>2. CASE ip = f.dst /\ e.ts = t3
      BY <3>2, <1>1, <1>7, <1>13
    <3> QED BY <2>4, <3>1, <3>2, <1>11, <1>12
  <2> QED BY <2>1, <2>2, <2>3, <2>4 DEF TimeInv
<1>22. FiniteInv'
  <2>0. IsFiniteSet(sources[f.dst] \cup {f.src})
    BY <1>8, FS_AddElement
  <2>1. IsFiniteSet(sources'[f.dst])
    BY <2>0, <1>13
  <2> QED BY <2>1, <1>10, <1>11, <1>12 DEF IInv, FiniteInv
<1>23. CallInv'
  BY <1>1, <1>4, <1>6, <1>7 DEF CallInv, CallType
<1>24. PortsOfSession'
  <2> SUFFICES ASSUME NEW j \in Pair
               PROVE  /\ {e.flow.port : e \in history'[j]} \subseteq ports'[j]
                      /\ ports'[j] \subseteq session'[j].ports
    BY DEF PortsOfSession
  <2>1. CASE j # k
    BY <2>1, <1>12 DEF IInv, PortsOfSession
  <2>2. CASE j = k
    <3>1. \A e \in history[k] : e.flow.port \in ports[k]
      BY <1>5 DEF IInv, PortsOfSession
    <3>2. ports[k] \subseteq session[k].ports
      BY <1>5 DEF IInv, PortsOfSession
    <3>3. ASSUME NEW e \in history'[k] PROVE e.flow.port \in ports'[k]
      <4>1. CASE e \in known
        BY <4>1, <3>1, <1>9, <1>13 DEF KeptPorts
      <4>2. CASE e.flow = f
        BY <4>2, <1>13
      <4> QED BY <4>1, <4>2, <1>10
    <3>4. ports'[k] \subseteq session'[k].ports
      <4>1. CASE known = {}
        BY <4>1, <1>13 DEF KeptPorts
      <4>2. CASE known # {}
        <5>1. PICK e \in known : TRUE
          BY <4>2
        <5>2. e \in history[k] /\ now - e.ts <= TTL
          BY <5>1 DEF known, Fresh
        <5>3. e.ts \in Nat /\ e.ts <= session[k].at
          BY <5>2, <1>5, <1>8 DEF IInv, TimeInv, Window
        <5>4. ~(now - session[k].at > TTL)
          BY <5>2, <5>3, <1>7, <1>8, TimeFacts
        <5> QED BY <5>4, <3>2, <4>2, <1>13 DEF KeptPorts
      <4> QED BY <4>1, <4>2
    <3> QED BY <2>2, <3>3, <3>4
  <2> QED BY <2>1, <2>2
<1>25. SourcesCoverFlows'
  <2> SUFFICES ASSUME NEW ip \in IP, NEW e \in flows'[ip], now' - e.ts < TTL
               PROVE  e.flow.src \in sources'[ip]
    BY DEF SourcesCoverFlows
  <2>1. CASE e \in flows[ip]
    <3>1. e.ts \in Nat
      BY <2>1 DEF IInv, TypeOK, Window
    <3>2. now - e.ts < TTL
      BY <3>1, <1>1, <1>7, TimeFacts
    <3>3. e.flow.src \in sources[ip]
      BY <2>1, <3>2 DEF IInv, SourcesCoverFlows
    <3> QED BY <3>3, <1>12, <1>13
  <2>2. CASE ip = f.dst /\ e.flow = f
    BY <2>2, <1>13
  <2> QED BY <2>1, <2>2, <1>11, <1>12
<1>26. BackedInv'
  <2> SUFFICES ASSUME now' <= call.began + CallTime,
                      NEW i \in 1 .. Len(call'.verdicts), call'.verdicts[i] = "DDoS"
               PROVE  /\ Cardinality(sources'[call.batch[i].dst]) >= MinSources
                      /\ call.began <= last'[call.batch[i].dst]
    BY <1>4 DEF BackedInv, Backed
  <2>1. /\ call.verdicts \in Seq(Verdict) /\ call.began \in Nat
        /\ MinSources \in Nat
    BY <1>6, TimeFacts, ThresholdAssumption DEF CallType
  <2>2. CASE i = Len(call'.verdicts)
    <3>1. label = "DDoS" /\ call.batch[i] = f
      BY <2>1, <2>2, <1>4
    <3>2. Cardinality(sources'[f.dst]) >= MinSources
      BY <3>1 DEF label, IsDdos, Analyze
    <3>3. call.began <= t2
      BY <2>1, <1>1, <1>6, <1>7
    <3> QED BY <3>1, <3>2, <3>3, <1>13
  <2>3. CASE i # Len(call'.verdicts)
    <3>1. i \in 1 .. Len(call.verdicts) /\ call.verdicts[i] = "DDoS"
      BY <2>1, <2>3, <1>4
    <3>2. now <= call.began + CallTime
      BY <2>1, <1>1, <1>7, TimeFacts
    <3> DEFINE d == call.batch[i].dst
    <3>3. Cardinality(sources[d]) >= MinSources /\ call.began <= last[d]
      BY <3>1, <3>2, <1>6 DEF IInv, BackedInv, Backed
    <3>4. d \in IP
      <4>1. call.batch \in Seq(Flows) /\ i \in 1 .. Len(call.batch)
        BY <3>1, <1>4, <1>6, <2>1 DEF CallType
      <4> QED BY <4>1, FlowFacts
    <3>5. CASE d # f.dst
      BY <3>3, <3>4, <3>5, <1>12
    <3>6. CASE d = f.dst
      <4>1. Cardinality(sources'[f.dst]) >= Cardinality(sources[f.dst])
        <5>1. sources[f.dst] \subseteq sources'[f.dst] /\ IsFiniteSet(sources'[f.dst])
          BY <1>5, <1>13, <1>22 DEF FiniteInv
        <5> QED BY <5>1, FS_Subset
      <4>2. /\ Cardinality(sources'[f.dst]) \in Nat
            /\ Cardinality(sources[f.dst]) \in Nat
        BY <1>5, <1>8, <1>22, FS_CardinalityType DEF FiniteInv
      <4>3. call.began <= t2
        BY <2>1, <1>1, <1>6, <1>7
      <4> QED BY <3>3, <3>6, <4>1, <4>2, <4>3, <2>1, <1>13
    <3> QED BY <3>5, <3>6
  <2> QED BY <2>2, <2>3
<1> QED BY <1>20, <1>21, <1>22, <1>23, <1>24, <1>25, <1>26 DEF IInv

-------------------------------------------------------------------------------
(* The cleanup thread and the clock.                                       *)

LEMMA ReadClockStep == IInv /\ ReadClock => IInv'
<1> SUFFICES ASSUME IInv, ReadClock PROVE IInv'
  OBVIOUS
<1>1. clock' = now /\ UNCHANGED <<now, pairs, targets, call, session>>
  BY DEF ReadClock
<1>2. now \in 0 .. EndOfTime
  BY DEF IInv, TypeOK
<1>3. TypeOK'
  BY <1>1, <1>2 DEF IInv, TypeOK, pairs, targets
<1>4. TimeInv'
  BY <1>1, <1>2, TimeFacts DEF IInv, TimeInv, pairs, targets
<1>5. CallInv' /\ BackedInv'
  BY <1>1 DEF IInv, CallInv, BackedInv, Backed, targets
<1> QED BY <1>1, <1>3, <1>4, <1>5, EngineFrame DEF IInv

LEMMA CleanStep == IInv /\ Clean => IInv'
<1> SUFFICES ASSUME IInv, Clean PROVE IInv'
  OBVIOUS
<1>1. /\ now' = now /\ call' = call /\ session' = session /\ clock' = Off
      /\ clock # Off
  BY DEF Clean
<1>2. /\ clock \in 0 .. EndOfTime /\ clock <= now /\ now \in 0 .. EndOfTime
  BY <1>1 DEF IInv, TypeOK, TimeInv
<1>3. \A k \in Pair : /\ history'[k] = Fresh(history[k], clock)
                      /\ ports'[k] = KeptPorts(history'[k], ports[k])
  BY DEF Clean
<1>4. \A ip \in IP :
        /\ flows'[ip] = Fresh(flows[ip], clock)
        /\ sources'[ip] = IF Silent(ip) THEN {} ELSE sources[ip]
        /\ last'[ip] = IF flows'[ip] = {} /\ sources'[ip] = {} THEN 0 ELSE last[ip]
  BY DEF Clean
<1>5. \A k \in Pair : /\ history'[k] \subseteq history[k]
                      /\ history'[k] \in Window /\ IsFiniteSet(history'[k])
  BY <1>3, FreshFacts DEF IInv, TypeOK, FiniteInv
<1>6. \A ip \in IP : /\ flows'[ip] \subseteq flows[ip]
                     /\ flows'[ip] \in Window /\ IsFiniteSet(flows'[ip])
  BY <1>4, FreshFacts DEF IInv, TypeOK, FiniteInv
<1>7. /\ history' = [k \in Pair |-> history'[k]]
      /\ ports' = [k \in Pair |-> ports'[k]]
      /\ flows' = [ip \in IP |-> flows'[ip]]
      /\ sources' = [ip \in IP |-> sources'[ip]]
      /\ last' = [ip \in IP |-> last'[ip]]
  BY DEF Clean
<1>8. TypeOK'
  <2>1. history' \in [Pair -> Window] /\ flows' \in [IP -> Window]
    BY <1>5, <1>6, <1>7
  <2>2. \A k \in Pair : ports'[k] \in SUBSET Nat
    BY <1>3 DEF IInv, TypeOK, KeptPorts
  <2>3. \A ip \in IP : sources'[ip] \in SUBSET IP /\ last'[ip] \in 0 .. EndOfTime
    BY <1>4, TimeFacts DEF IInv, TypeOK
  <2>4. /\ ports' \in [Pair -> SUBSET Nat]
        /\ sources' \in [IP -> SUBSET IP] /\ last' \in [IP -> 0 .. EndOfTime]
    BY <2>2, <2>3, <1>7
  <2> QED BY <1>1, <2>1, <2>4 DEF IInv, TypeOK
<1>9. TimeInv'
  <2>1. \A ip \in IP : last'[ip] <= now'
    BY <1>1, <1>2, <1>4 DEF IInv, TimeInv
  <2>2. \A k \in Pair : \A e \in history'[k] : e.ts <= now' /\ e.ts <= session'[k].at
    BY <1>1, <1>5 DEF IInv, TimeInv
  <2>3. \A ip \in IP : \A e \in flows'[ip] : e.ts <= now' /\ e.ts <= last'[ip] + 1
    BY <1>1, <1>4, <1>6 DEF IInv, TimeInv
  <2> QED BY <1>1, <2>1, <2>2, <2>3 DEF TimeInv
<1>10. FiniteInv'
  <2>1. \A ip \in IP : IsFiniteSet(sources'[ip])
    BY <1>4, FS_EmptySet DEF IInv, FiniteInv
  <2> QED BY <2>1, <1>5, <1>6 DEF FiniteInv
<1>11. CallInv'
  BY <1>1 DEF IInv, CallInv
<1>12. PortsOfSession'
  <2> SUFFICES ASSUME NEW k \in Pair
               PROVE  /\ {e.flow.port : e \in history'[k]} \subseteq ports'[k]
                      /\ ports'[k] \subseteq session'[k].ports
    BY DEF PortsOfSession
  <2>1. /\ {e.flow.port : e \in history[k]} \subseteq ports[k]
        /\ ports[k] \subseteq session[k].ports
    BY DEF IInv, PortsOfSession
  <2> QED BY <2>1, <1>1, <1>3, <1>5 DEF KeptPorts
<1>13. SourcesCoverFlows'
  <2> SUFFICES ASSUME NEW ip \in IP, NEW e \in flows'[ip], now - e.ts < TTL
               PROVE  e.flow.src \in sources'[ip]
    BY <1>1 DEF SourcesCoverFlows
  <2>1. e \in flows[ip]
    BY <1>6
  <2>2. /\ e.ts \in Nat /\ e.ts <= last[ip] + 1 /\ last[ip] \in Nat
    BY <2>1 DEF IInv, TypeOK, TimeInv, Window
  <2>3. ~Silent(ip)
    BY <2>2, <1>2, TimeFacts DEF Silent
  <2>4. e.flow.src \in sources[ip]
    BY <2>1 DEF IInv, SourcesCoverFlows
  <2> QED BY <2>3, <2>4, <1>4
<1>14. BackedInv'
  <2> SUFFICES ASSUME call # Idle, now <= call.began + CallTime,
                      NEW i \in 1 .. Len(call.verdicts), call.verdicts[i] = "DDoS"
               PROVE  /\ Cardinality(sources'[call.batch[i].dst]) >= MinSources
                      /\ call.began <= last'[call.batch[i].dst]
    BY <1>1 DEF BackedInv, Backed
  <2> DEFINE d == call.batch[i].dst
  <2>1. Cardinality(sources[d]) >= MinSources /\ call.began <= last[d]
    BY DEF IInv, BackedInv, Backed
  <2>2. call \in CallType
    BY CallShape DEF IInv
  <2>3. d \in IP
    <3>1. /\ call.batch \in Seq(Flows) /\ call.verdicts \in Seq(Verdict)
          /\ Len(call.verdicts) <= Len(call.batch)
      BY <2>2 DEF IInv, CallInv, CallType
    <3>2. call.batch[i] \in Flows
      BY <3>1
    <3> QED BY <3>2, FlowFacts
  <2>4. call.began \in Nat /\ last[d] \in Nat
    BY <2>2, <2>3, TimeFacts DEF CallType, IInv, TypeOK
  <2>5. ~Silent(d)
    BY <2>1, <2>4, <1>2, TimeFacts DEF Silent
  <2>6. sources'[d] = sources[d]
    BY <2>3, <2>5, <1>4
  <2>7. sources[d] # {}
    BY <2>1, EnoughSources
  <2> QED BY <2>1, <2>3, <2>6, <2>7, <1>4
<1> QED BY <1>8, <1>9, <1>10, <1>11, <1>12, <1>13, <1>14 DEF IInv

LEMMA TickStep == IInv /\ Tick => IInv'
<1> SUFFICES ASSUME IInv, Tick PROVE IInv'
  OBVIOUS
<1>1. /\ now < (IF call = Idle THEN EndOfTime ELSE LastAnswer)
      /\ now' = now + 1
      /\ UNCHANGED <<pairs, targets, clock, call, session>>
  BY DEF Tick
<1>2. now \in 0 .. EndOfTime
  BY DEF IInv, TypeOK
<1>3. now' \in 0 .. EndOfTime
  BY <1>1, <1>2, TimeFacts
<1>4. TypeOK'
  BY <1>1, <1>3 DEF IInv, TypeOK, pairs, targets
<1>5. TimeInv'
  <2>1. clock' # Off => clock' <= now'
    BY <1>1, <1>2 DEF IInv, TypeOK, TimeInv, Off
  <2>2. \A ip \in IP : last'[ip] <= now'
    BY <1>1, <1>2 DEF IInv, TypeOK, TimeInv, targets
  <2>3. ASSUME NEW k \in Pair, NEW e \in history'[k]
        PROVE  e.ts <= now' /\ e.ts <= session'[k].at
    <3>1. e \in history[k]
      BY <1>1, <2>3 DEF pairs
    <3>2. e.ts \in Nat /\ e.ts <= now /\ e.ts <= session[k].at
      BY <3>1 DEF IInv, TypeOK, TimeInv, Window
    <3> QED BY <3>2, <1>1, <1>2
  <2>4. ASSUME NEW ip \in IP, NEW e \in flows'[ip]
        PROVE  e.ts <= now' /\ e.ts <= last'[ip] + 1
    <3>1. e \in flows[ip]
      BY <1>1, <2>4 DEF targets
    <3>2. e.ts \in Nat /\ e.ts <= now /\ e.ts <= last[ip] + 1
      BY <3>1 DEF IInv, TypeOK, TimeInv, Window
    <3> QED BY <3>2, <1>1, <1>2 DEF targets
  <2> QED BY <2>1, <2>2, <2>3, <2>4 DEF TimeInv
<1>6. FiniteInv' /\ PortsOfSession'
  BY <1>1 DEF IInv, FiniteInv, PortsOfSession, pairs, targets
<1>7. CallInv'
  <2> SUFFICES ASSUME call # Idle
               PROVE  /\ call.began <= now' /\ now' <= LastAnswer
                      /\ call.pc # "answer" => Len(call.verdicts) < Len(call.batch)
                      /\ Len(call.verdicts) <= Len(call.batch)
    BY <1>1 DEF CallInv
  <2>1. call.began \in Nat /\ call.began <= now
    BY CallShape, TimeFacts DEF IInv, CallInv, CallType
  <2> QED BY <2>1, <1>1, <1>2, TimeFacts DEF IInv, CallInv
<1>8. SourcesCoverFlows'
  <2> SUFFICES ASSUME NEW ip \in IP, NEW e \in flows[ip], now' - e.ts < TTL
               PROVE  e.flow.src \in sources[ip]
    BY <1>1 DEF SourcesCoverFlows, targets
  <2>1. e.ts \in Nat
    BY DEF IInv, TypeOK, Window
  <2>2. now - e.ts < TTL
    BY <2>1, <1>1, <1>2, TimeFacts
  <2> QED BY <2>2 DEF IInv, SourcesCoverFlows
<1>9. BackedInv'
  <2> SUFFICES ASSUME call # Idle, now' <= call.began + CallTime,
                      NEW i \in 1 .. Len(call.verdicts), call.verdicts[i] = "DDoS"
               PROVE  Backed(call.batch[i].dst)
    BY <1>1 DEF BackedInv, Backed, targets
  <2>1. call.began \in Nat
    BY CallShape, TimeFacts DEF IInv, CallType
  <2>2. now <= call.began + CallTime
    BY <2>1, <1>1, <1>2, TimeFacts
  <2> QED BY <2>2 DEF IInv, BackedInv
<1> QED BY <1>4, <1>5, <1>6, <1>7, <1>8, <1>9 DEF IInv

LEMMA StutterStep == IInv /\ UNCHANGED vars => IInv'
<1> SUFFICES ASSUME IInv, UNCHANGED vars PROVE IInv'
  OBVIOUS
<1>1. UNCHANGED <<now, pairs, targets, session>> /\ clock' = clock /\ call' = call
  BY DEF vars
<1>2. TypeOK'
  BY <1>1 DEF IInv, TypeOK, pairs, targets
<1>3. CallInv' /\ BackedInv'
  BY <1>1 DEF IInv, CallInv, BackedInv, Backed, targets
<1> QED BY <1>1, <1>2, <1>3, EngineFrame DEF IInv

LEMMA Inductive == Spec => []IInv
<1>1. IInv /\ [Next]_vars => IInv'
  BY BeginStep, LookStep, UpdateStep, AnswerStep, ReadClockStep, CleanStep,
     TickStep, StutterStep DEF Next, CallStep
<1> QED BY InitEstablishes, <1>1, PTL DEF Spec

-------------------------------------------------------------------------------
(* The state stays well typed: the stamps of the windows, last_update and  *)
(* the verdicts of a call are what update() may leave.                     *)
THEOREM AnchorTypeCorrect == Spec => []TypeOK
<1>1. IInv => TypeOK
  BY DEF IInv
<1> QED BY Inductive, <1>1, PTL

(* _cleanup_on_request and _background_cleanup, which decides by a clock it *)
(* read before it got the lock, keep the ports of the current session and  *)
(* only those.                                                             *)
THEOREM PortsAreOfSession == Spec => []PortsOfSession
<1>1. IInv => PortsOfSession
  BY DEF IInv
<1> QED BY Inductive, <1>1, PTL

(* The sources of a target, dropped by its last_update, outlast each of    *)
(* its flows, dropped by their own stamps.                                 *)
THEOREM FlowsHaveSources == Spec => []SourcesCoverFlows
<1>1. IInv => SourcesCoverFlows
  BY DEF IInv
<1> QED BY Inductive, <1>1, PTL

(* What _global_target_stats tells the RL stage of a flow judged DDoS has   *)
(* the sources the verdict was based on, while the agent still waits.      *)
THEOREM DdosIsBacked == Spec => []DdosStillBacked
<1>1. IInv => DdosStillBacked
  <2> SUFFICES ASSUME IInv, call # Idle, now <= call.began + CallTime,
                      NEW i \in 1 .. Len(call.verdicts), call.verdicts[i] = "DDoS"
               PROVE  TargetStats(call.batch[i].dst).sources >= MinSources
    BY DEF DdosStillBacked
  <2> DEFINE d == call.batch[i].dst
  <2>1. Cardinality(sources[d]) >= MinSources
    BY DEF IInv, BackedInv, Backed
  <2>2. sources[d] # {}
    BY <2>1, EnoughSources
  <2> QED BY <2>1, <2>2 DEF TargetStats
<1> QED BY Inductive, <1>1, PTL

-------------------------------------------------------------------------------
(* What is given back.  The cleanup finds the windows of a target and of   *)
(* the pairs that lead to it by their stamps, its sources by last_update,  *)
(* and the ports of a pair by its window: the invariant ties the four      *)
(* together.                                                               *)
MemoryInv ==
    /\ \A k \in Pair : history[k] = {} => ports[k] = {}
    /\ \A k \in Pair : \A e \in history[k] : e.ts <= last[k[2]]
    /\ \A k \in Pair : sources[k[2]] = {} => history[k] = {}

LEMMA MemoryUpdate == IInv /\ MemoryInv /\ Update => MemoryInv'
<1> SUFFICES ASSUME IInv, MemoryInv, Update PROVE MemoryInv'
  OBVIOUS
<1> DEFINE f == CurrentFlow
<1> DEFINE k == PairOf(f)
<1> DEFINE known == Fresh(history[k], now)
<1>1. PICK t1 \in {now, now + 1}, t2 \in {now, now + 1}, t3 \in {now, now + 1} :
        /\ t1 <= t2 /\ t3 <= LastAnswer
        /\ history' = [history EXCEPT ![k] = Push(known, t1, f)]
        /\ ports' = [ports EXCEPT ![k] = KeptPorts(known, ports[k]) \cup {f.port}]
        /\ sources' = [sources EXCEPT ![f.dst] = sources[f.dst] \cup {f.src}]
        /\ last' = [last EXCEPT ![f.dst] = t2]
  BY Zenon DEF Update
<1>2. call.pc = "update"
  BY DEF Update
<1>3. f \in Flows
  <2>1. /\ call \in CallType /\ Len(call.verdicts) < Len(call.batch)
        /\ Len(call.verdicts) \in Nat
    BY <1>2, CallShape DEF IInv, CallInv, CallType
  <2>2. call.batch \in Seq(Flows)
    BY <2>1 DEF CallType
  <2> QED BY <2>1, <2>2 DEF CurrentFlow
<1>4. f.src \in IP /\ f.dst \in IP /\ k \in Pair /\ k[2] = f.dst
  BY <1>3, FlowFacts DEF PairOf
<1> HIDE DEF f, k
<1>5. now \in 0 .. EndOfTime /\ last[f.dst] <= now /\ last[f.dst] \in Nat
  BY <1>4 DEF IInv, TypeOK, TimeInv
<1>6. t1 \in 0 .. EndOfTime /\ t2 \in Nat /\ last[f.dst] <= t2
  <2>1. t1 \in 0 .. LastAnswer + 1 /\ LastAnswer < EndOfTime /\ EndOfTime \in Nat
    BY <1>1, <1>5, TimeFacts, CallShape, <1>2 DEF IInv, CallInv
  <2>2. now <= LastAnswer
    BY <1>2, CallShape DEF IInv, CallInv
  <2> QED BY <1>1, <1>5, <2>1, <2>2, TimeFacts
<1>7. history[k] \in Window /\ IsFiniteSet(history[k])
  BY <1>4 DEF IInv, TypeOK, FiniteInv
<1>8. known \subseteq history[k] /\ known \in Window /\ IsFiniteSet(known)
  BY <1>7, FreshFacts
<1>9. /\ \A e \in Push(known, t1, f) : e \in known \/ e.ts = t1
      /\ Push(known, t1, f) # {}
  <2>1. \A e \in Push(known, t1, f) : e \in known \/ (e.ts = t1 /\ e.flow = f)
    <3> HIDE DEF known
    <3> QED BY <1>3, <1>6, <1>8, PushFacts
  <2>2. [ts |-> t1, flow |-> f, n |-> Cardinality({e \in known : e.ts = t1 /\ e.flow = f})]
          \in Push(known, t1, f)
    <3> HIDE DEF known
    <3> QED BY Zenon DEF Push
  <2> QED BY <2>1, <2>2
<1> HIDE DEF known
<1>10. /\ \A i \in Pair : IF i = k THEN history'[i] = Push(known, t1, f)
                          ELSE history'[i] = history[i] /\ ports'[i] = ports[i]
       /\ \A ip \in IP : IF ip = f.dst THEN last'[ip] = t2 /\ sources'[ip] # {}
                         ELSE last'[ip] = last[ip] /\ sources'[ip] = sources[ip]
  BY <1>1, <1>4 DEF IInv, TypeOK
<1>11. ASSUME NEW i \in Pair
       PROVE  /\ history'[i] = {} => ports'[i] = {}
              /\ \A e \in history'[i] : e.ts <= last'[i[2]]
              /\ sources'[i[2]] = {} => history'[i] = {}
  <2>1. i[2] \in IP
    BY DEF Pair
  <2>2. \A e \in history[i] : e.ts \in Nat /\ e.ts <= last[i[2]]
    BY <1>11 DEF MemoryInv, IInv, TypeOK, Window
  <2>3. CASE i = k
    <3>1. last'[i[2]] = t2 /\ sources'[i[2]] # {} /\ history'[i] = Push(known, t1, f)
      BY <1>4, <1>10, <2>3
    <3>2. ASSUME NEW e \in Push(known, t1, f) PROVE e.ts <= t2
      <4>1. CASE e.ts = t1
        BY <1>1, <4>1
      <4>2. CASE e \in known
        <5>1. e.ts \in Nat /\ e.ts <= last[f.dst]
          BY <1>4, <1>8, <2>2, <2>3, <4>2
        <5> QED BY <1>5, <1>6, <5>1
      <4> QED BY <1>9, <4>1, <4>2
    <3> QED BY <1>9, <3>1, <3>2
  <2>4. CASE i # k
    <3>1. history'[i] = history[i] /\ ports'[i] = ports[i]
      BY <1>10, <2>4
    <3>2. sources'[i[2]] = {} => sources[i[2]] = {}
      BY <1>10, <2>1
    <3>3. \A e \in history'[i] : e.ts <= last'[i[2]]
      <4>1. CASE i[2] = f.dst
        <5>1. last'[i[2]] = t2
          BY <1>4, <1>10, <4>1
        <5> SUFFICES ASSUME NEW e \in history'[i] PROVE e.ts <= t2
          BY <5>1
        <5>2. e.ts \in Nat /\ e.ts <= last[f.dst]
          BY <2>2, <3>1, <4>1
        <5> QED BY <1>5, <1>6, <5>2
      <4>2. CASE i[2] # f.dst
        BY <1>10, <2>1, <2>2, <3>1, <4>2
      <4> QED BY <4>1, <4>2
    <3> QED BY <3>1, <3>2, <3>3 DEF MemoryInv
  <2> QED BY <2>3, <2>4
<1> QED BY <1>11 DEF MemoryInv

(* One cleanup of a target that has been silent.                           *)
LEMMA CleanForgets ==
    ASSUME IInv, MemoryInv, Clean, NEW ip \in IP
    PROVE  /\ Silent(ip) => /\ sources'[ip] = {}
                            /\ \A k \in Pair : k[2] = ip => history'[k] = {} /\ ports'[k] = {}
           /\ last[ip] + 1 + TTL < clock => flows'[ip] = {} /\ Silent(ip)
<1>1. clock \in Nat /\ last[ip] \in Nat /\ TTL \in Nat
  BY TimeFacts DEF Clean, IInv, TypeOK
<1>2. ASSUME Silent(ip), NEW k \in Pair, k[2] = ip
      PROVE  history'[k] = {} /\ ports'[k] = {}
  <2>1. ASSUME NEW e \in history[k] PROVE clock - e.ts > TTL
    <3>1. e.ts \in Nat /\ e.ts <= last[ip]
      BY <1>2 DEF MemoryInv, IInv, TypeOK, Window
    <3> QED BY <1>1, <1>2, <3>1 DEF Silent
  <2>2. \A e \in history[k] : ~(clock - e.ts <= TTL)
    <3> SUFFICES ASSUME NEW e \in history[k] PROVE ~(clock - e.ts <= TTL)
      OBVIOUS
    <3>1. e.ts \in Nat
      BY DEF IInv, TypeOK, Window
    <3> QED BY <1>1, <2>1, <3>1
  <2>3. Fresh(history[k], clock) = {}
    BY <2>2 DEF Fresh
  <2> QED BY <2>3 DEF Clean, KeptPorts
<1>3. ASSUME last[ip] + 1 + TTL < clock PROVE flows'[ip] = {} /\ Silent(ip)
  <2>1. ASSUME NEW e \in flows[ip] PROVE ~(clock - e.ts <= TTL)
    <3>1. e.ts \in Nat /\ e.ts <= last[ip] + 1
      BY DEF IInv, TypeOK, TimeInv, Window
    <3> QED BY <1>1, <1>3, <3>1
  <2>2. Fresh(flows[ip], clock) = {}
    BY <2>1 DEF Fresh
  <2> QED BY <1>1, <1>3, <2>2 DEF Clean, Silent
<1> QED BY <1>2, <1>3 DEF Clean

LEMMA MemoryClean == IInv /\ MemoryInv /\ Clean => MemoryInv'
<1> SUFFICES ASSUME IInv, MemoryInv, Clean, NEW k \in Pair
             PROVE  /\ history'[k] = {} => ports'[k] = {}
                    /\ \A e \in history'[k] : e.ts <= last'[k[2]]
                    /\ sources'[k[2]] = {} => history'[k] = {}
  BY DEF MemoryInv
<1>1. k[2] \in IP /\ history'[k] \subseteq history[k]
  BY DEF Pair, Clean, Fresh
<1>2. history'[k] = {} => ports'[k] = {}
  BY DEF Clean, KeptPorts
<1>3. sources'[k[2]] = {} => history'[k] = {}
  <2>1. CASE Silent(k[2])
    BY <1>1, <2>1, CleanForgets
  <2>2. CASE ~Silent(k[2])
    BY <1>1, <2>2 DEF Clean, MemoryInv
  <2> QED BY <2>1, <2>2
<1>4. \A e \in history'[k] : e.ts <= last'[k[2]]
  <2>1. CASE last'[k[2]] = last[k[2]]
    BY <1>1, <2>1 DEF MemoryInv
  <2>2. CASE last'[k[2]] # last[k[2]]
    BY <1>1, <1>3, <2>2 DEF Clean
  <2> QED BY <2>1, <2>2
<1> QED BY <1>2, <1>3, <1>4

LEMMA MemoryStep == IInv /\ MemoryInv /\ [Next]_vars => MemoryInv'
<1>1. UNCHANGED <<pairs, targets>> /\ MemoryInv => MemoryInv'
  BY DEF pairs, targets, MemoryInv
<1>2. BeginCall \/ Look \/ Answer \/ ReadClock \/ Tick \/ UNCHANGED vars
        => UNCHANGED <<pairs, targets>>
  BY DEF BeginCall, Look, Answer, ReadClock, Tick, vars
<1> QED BY <1>1, <1>2, MemoryUpdate, MemoryClean DEF Next, CallStep

ForgetsTheSilent ==
    [][Clean => \A ip \in IP : last[ip] + 1 + TTL < clock =>
                   /\ sources'[ip] = {} /\ flows'[ip] = {}
                   /\ \A k \in Pair : k[2] = ip => history'[k] = {} /\ ports'[k] = {}]_vars

(* One turn of the cleanup thread leaves nothing of a target whose last    *)
(* update is more than TTL and an instant before the clock it has read:    *)
(* no source, no flow, and no window or port of a pair that leads to it    *)
(* (_background_cleanup).  The rest of Forgotten is that the thread has    *)
(* its turn.                                                               *)
THEOREM SilentIsForgotten == Spec => ForgetsTheSilent
<1>1. Init => MemoryInv
  BY DEF Init, MemoryInv
<1>2. IInv /\ MemoryInv /\ [Next]_vars =>
        [Clean => \A ip \in IP : last[ip] + 1 + TTL < clock =>
           /\ sources'[ip] = {} /\ flows'[ip] = {}
           /\ \A k \in Pair : k[2] = ip => history'[k] = {} /\ ports'[k] = {}]_vars
  BY CleanForgets
<1> QED BY <1>1, <1>2, MemoryStep, Inductive, PTL DEF Spec, ForgetsTheSilent

===============================================================================
