----------------------------- MODULE BaselineProofs ----------------------------
(***************************************************************************)
(* What the baselines promise for every set of addresses, every flow and   *)
(* every interleaving of the threads, backups, expiry and restarts.        *)
(***************************************************************************)
EXTENDS Baseline, TLAPS

(* What an update under way has seen is still true when it is used: the    *)
(* updater is the one writer of a baseline while the agent runs.           *)
UpdateInv ==
    /\ ~running => update = NoUpdate /\ queue = {}
    /\ update # NoUpdate => update.rate <= peak[update.ip]
    /\ update.pc = "seed" => base[update.ip] = NoKey
    /\ update.pc \in {"check", "set"} =>
         base[update.ip] \in {NoKey, update.prev} /\ update.prev <= peak[update.ip]
    /\ update.pc = "set" => ~IsSpike(update.rate, update.prev) /\ learned[update.ip] = 0

RateInv == \A ip \in Inside : rate[ip] <= peak[ip]

FlagInv == \A ip \in Inside : (ip \notin flag => learned[ip] = 0) /\ learned[ip] <= 1

IInv == BaselineTypeOK /\ WithinPeak /\ UpdateInv /\ RateInv /\ FlagInv

GrowthStep ==
    \A ip \in Inside :
        running /\ base[ip] # NoKey /\ base'[ip] # NoKey /\ running'
            => 10 * base'[ip] <= 11 * base[ip]

-------------------------------------------------------------------------------
(* An average is no more than the larger of the two, and grows by a tenth  *)
(* at most where the spike guard lets a rate pass.                         *)
LEMMA SmoothedBounds ==
    ASSUME NEW current \in Nat, NEW prev \in Nat
    PROVE  /\ Smoothed(current, prev) \in Nat
           /\ \A top \in Nat : current <= top /\ prev <= top => Smoothed(current, prev) <= top
           /\ ~IsSpike(current, prev) => 10 * Smoothed(current, prev) <= 11 * prev
BY DEF Smoothed, IsSpike

(* What an update may be.                                                  *)
LEMMA UpdateShape ==
    ASSUME BaselineTypeOK, update # NoUpdate
    PROVE  /\ update.pc \in {"rated", "seed", "check", "set"}
           /\ update.ip \in Inside /\ update.rate \in Nat
           /\ update.pc \in {"check", "set"} => update.prev \in Nat
BY DEF BaselineTypeOK

LEMMA IdleShape == NoUpdate.pc = "idle"
BY DEF NoUpdate

-------------------------------------------------------------------------------
LEMMA InitEstablishes == BaselineInit => IInv
<1> SUFFICES ASSUME BaselineInit PROVE IInv
  OBVIOUS
<1>1. BaselineTypeOK
  BY DEF BaselineInit, BaselineTypeOK, Nothing, NoKeys, Value, NoKey
<1>2. WithinPeak /\ RateInv /\ FlagInv
  BY DEF BaselineInit, WithinPeak, RateInv, FlagInv, Nothing, NoKeys, NoKey
<1>3. UpdateInv
  BY IdleShape DEF BaselineInit, UpdateInv
<1> QED BY <1>1, <1>2, <1>3 DEF IInv

(* Steps of the event loop and of the tracker that no baseline depends on. *)
LEMMA CountStep ==
    ASSUME IInv, RecordFlow \/ ForgetIp \/ TakeCounters \/ BeginCycle
    PROVE  IInv' /\ base' = base
<1>1. /\ UNCHANGED <<redis, rate, update, backup, history, running>>
      /\ base' = base
  BY DEF RecordFlow, ForgetIp, TakeCounters, BeginCycle, updater, redis, tracker
<1>2. /\ counter' \in [Inside -> Nat] /\ snapshot' \in [Inside -> Nat]
      /\ tracked' \subseteq Inside /\ queue' \subseteq Inside
  <2>1. CASE RecordFlow
    <3>1. PICK ip \in Inside, n \in Packets : counter' = [counter EXCEPT ![ip] = @ + n]
                                          /\ tracked' = tracked \cup {ip}
      BY <2>1 DEF RecordFlow
    <3>2. n \in Nat
      BY PacketsAssumption
    <3> QED BY <2>1, <3>1, <3>2 DEF RecordFlow, IInv, BaselineTypeOK, updater
  <2>2. CASE ForgetIp
    BY <2>2 DEF ForgetIp, IInv, BaselineTypeOK, updater
  <2>3. CASE TakeCounters
    BY <2>3 DEF TakeCounters, IInv, BaselineTypeOK, updater, Nothing
  <2>4. CASE BeginCycle
    BY <2>4 DEF BeginCycle, IInv, BaselineTypeOK, tracker
  <2> QED BY <2>1, <2>2, <2>3, <2>4
<1>3. BaselineTypeOK'
  BY <1>1, <1>2 DEF IInv, BaselineTypeOK, redis, backup, history
<1>4. running \/ queue' = queue
  BY DEF RecordFlow, ForgetIp, TakeCounters, BeginCycle, updater
<1>5. WithinPeak' /\ UpdateInv' /\ RateInv' /\ FlagInv'
  BY <1>1, <1>4 DEF IInv, WithinPeak, UpdateInv, RateInv, FlagInv, redis, backup, history
<1> QED BY <1>1, <1>3, <1>5 DEF IInv

(* Raising the flag takes nothing back; its end forgets what was learned.  *)
LEMMA FlagStep ==
    ASSUME IInv, RaiseFlag \/ FlagEnds
    PROVE  IInv' /\ base' = base
<1>1. /\ UNCHANGED <<base, mortal, tracker, updater, backup, writes, peak, running>>
      /\ base' = base /\ rate' = rate /\ update' = update /\ queue' = queue
  BY DEF RaiseFlag, FlagEnds, tracker, updater, history
<1>2. flag' \subseteq Inside /\ learned' \in [Inside -> Nat]
  BY DEF RaiseFlag, FlagEnds, IInv, BaselineTypeOK, history
<1>3. /\ \A ip \in Inside : learned'[ip] \in {learned[ip], 0}
      /\ FlagInv'
  <2>1. CASE RaiseFlag
    BY <2>1 DEF RaiseFlag, IInv, FlagInv, history
  <2>2. CASE FlagEnds
    <3>1. PICK ip \in flag : flag' = flag \ {ip} /\ learned' = [learned EXCEPT ![ip] = 0]
      BY <2>2 DEF FlagEnds
    <3> QED BY <3>1 DEF IInv, FlagInv, BaselineTypeOK
  <2> QED BY <2>1, <2>2
<1>4. BaselineTypeOK'
  BY <1>1, <1>2 DEF IInv, BaselineTypeOK, tracker, updater, backup
<1>5. WithinPeak' /\ RateInv'
  BY <1>1 DEF IInv, WithinPeak, RateInv, backup
<1>6. UpdateInv'
  <2>1. update # NoUpdate => update.ip \in Inside
    BY UpdateShape DEF IInv
  <2> QED BY <1>1, <1>3, <2>1, IdleShape DEF IInv, UpdateInv
<1> QED BY <1>1, <1>3, <1>4, <1>5, <1>6 DEF IInv

(* A published rate may only raise the peak.                               *)
LEMMA PublishStep ==
    ASSUME IInv, PublishRate
    PROVE  IInv' /\ base' = base
<1>1. PICK ip \in Inside :
        /\ snapshot[ip] > 0
        /\ rate' = [rate EXCEPT ![ip] = snapshot[ip]]
        /\ peak' = [peak EXCEPT ![ip] = IF snapshot[ip] > @ THEN snapshot[ip] ELSE @]
        /\ snapshot' = [snapshot EXCEPT ![ip] = 0]
  BY DEF PublishRate
<1>2. UNCHANGED <<base, mortal, flag, counter, tracked, queue, update, baseFile, baseCopied,
                  unread, reading, writes, learned, running>>
  BY DEF PublishRate, redis, updater, backup
<1>3. BaselineTypeOK'
  BY <1>1, <1>2 DEF IInv, BaselineTypeOK
<1>4. /\ \A x \in Inside : peak[x] \in Nat /\ peak'[x] \in Nat /\ peak[x] <= peak'[x]
      /\ \A x \in Inside : rate'[x] <= peak'[x]
  BY <1>1 DEF IInv, BaselineTypeOK, RateInv
<1>5. \A x \in Inside : base[x] \in Int /\ baseFile[x] \in Int /\ baseCopied[x] \in Int
  BY DEF IInv, BaselineTypeOK, Value, NoKey
<1>6. WithinPeak'
  BY <1>2, <1>4, <1>5 DEF IInv, WithinPeak
<1>7. UpdateInv'
  <2>1. CASE update = NoUpdate
    BY <1>2, <2>1, IdleShape DEF IInv, UpdateInv
  <2>2. CASE update # NoUpdate
    <3>1. /\ update.ip \in Inside /\ update.rate \in Nat
          /\ update.pc \in {"check", "set"} => update.prev \in Nat
      BY <2>2, UpdateShape DEF IInv
    <3> QED BY <1>2, <1>4, <3>1 DEF IInv, UpdateInv
  <2> QED BY <2>1, <2>2
<1>8. RateInv' /\ FlagInv'
  BY <1>2, <1>4 DEF IInv, RateInv, FlagInv
<1> QED BY <1>2, <1>3, <1>6, <1>7, <1>8 DEF IInv

-------------------------------------------------------------------------------
(* The updater before it writes.                                           *)
LEMMA LookStep ==
    ASSUME IInv, GetRate \/ GetBaseline \/ CheckFlag
    PROVE  IInv' /\ base' = base
<1>1. UNCHANGED <<base, mortal, flag, counter, snapshot, rate, tracked, baseFile, baseCopied,
                  unread, reading, writes, peak, learned, running>>
  BY DEF GetRate, GetBaseline, CheckFlag, redis, tracker, backup, history
<1>2. queue' \subseteq Inside
  BY DEF GetRate, GetBaseline, CheckFlag, IInv, BaselineTypeOK
<1>3. /\ \/ update' = NoUpdate
         \/ update' \in [pc : {"rated", "seed"}, ip : Inside, rate : Nat, prev : {NoKey}]
         \/ update' \in [pc : {"check", "set"}, ip : Inside, rate : Nat, prev : Nat]
      /\ UpdateInv'
  <2>1. CASE GetRate
    <3>1. PICK ip \in queue :
            update' = [pc |-> "rated", ip |-> ip, rate |-> rate[ip], prev |-> NoKey]
      BY <2>1 DEF GetRate
    <3>2. ip \in Inside /\ rate[ip] \in Nat /\ rate[ip] <= peak[ip]
      BY DEF IInv, BaselineTypeOK, RateInv
    <3>3. update' \in [pc : {"rated", "seed"}, ip : Inside, rate : Nat, prev : {NoKey}]
      BY <3>1, <3>2
    <3>4. running
      <4>1. queue # {}
        BY <2>1 DEF GetRate
      <4> QED BY <4>1 DEF IInv, UpdateInv
    <3> QED BY <1>1, <3>1, <3>2, <3>3, <3>4 DEF UpdateInv
  <2>2. CASE GetBaseline
    <3>1. update # NoUpdate /\ running
      BY <2>2, IdleShape DEF GetBaseline, IInv, UpdateInv
    <3>2. /\ update.ip \in Inside /\ update.rate \in Nat /\ base[update.ip] \in Value
          /\ base[update.ip] <= peak[update.ip] /\ update.rate <= peak[update.ip]
      BY <3>1, UpdateShape DEF IInv, BaselineTypeOK, UpdateInv, WithinPeak
    <3>3. update \in [pc : {"rated", "seed"}, ip : Inside, rate : Nat, prev : {NoKey}]
      BY <2>2, <3>1 DEF GetBaseline, IInv, BaselineTypeOK
    <3>4. CASE base[update.ip] = NoKey
      <4>1. update' = [update EXCEPT !.prev = NoKey, !.pc = "seed"]
        BY <2>2, <3>4 DEF GetBaseline
      <4>2. /\ update' \in [pc : {"rated", "seed"}, ip : Inside, rate : Nat, prev : {NoKey}]
            /\ update'.pc = "seed" /\ update'.ip = update.ip /\ update'.rate = update.rate
        BY <3>3, <4>1
      <4> QED BY <1>1, <3>1, <3>2, <3>4, <4>2 DEF UpdateInv
    <3>5. CASE base[update.ip] # NoKey
      <4>1. update' = [update EXCEPT !.prev = base[update.ip], !.pc = "check"]
        BY <2>2, <3>5 DEF GetBaseline
      <4>2. base[update.ip] \in Nat
        BY <3>2, <3>5 DEF Value
      <4>3. /\ update' \in [pc : {"check", "set"}, ip : Inside, rate : Nat, prev : Nat]
            /\ update'.pc = "check" /\ update'.ip = update.ip
            /\ update'.rate = update.rate /\ update'.prev = base[update.ip]
        BY <3>3, <4>1, <4>2
      <4> QED BY <1>1, <3>1, <3>2, <4>3 DEF UpdateInv
    <3> QED BY <3>4, <3>5
  <2>3. CASE CheckFlag
    <3>1. update # NoUpdate /\ running
      BY <2>3, IdleShape DEF CheckFlag, IInv, UpdateInv
    <3>2. CASE update' = NoUpdate
      BY <1>1, <3>1, <3>2, IdleShape DEF UpdateInv
    <3>3. CASE update' # NoUpdate
      <4>1. /\ update' = [update EXCEPT !.pc = "set"]
            /\ update.ip \notin flag /\ ~IsSpike(update.rate, update.prev)
            /\ update.pc = "check"
        BY <2>3, <3>3 DEF CheckFlag
      <4>2. update \in [pc : {"check", "set"}, ip : Inside, rate : Nat, prev : Nat]
        BY <3>1, <4>1 DEF IInv, BaselineTypeOK
      <4>3. /\ update' \in [pc : {"check", "set"}, ip : Inside, rate : Nat, prev : Nat]
            /\ update'.pc = "set" /\ update'.ip = update.ip
            /\ update'.rate = update.rate /\ update'.prev = update.prev
        BY <4>1, <4>2
      <4>4. learned[update.ip] = 0
        BY <4>1, <4>2 DEF IInv, FlagInv
      <4>5. /\ update.rate <= peak[update.ip] /\ update.prev <= peak[update.ip]
            /\ base[update.ip] \in {NoKey, update.prev}
        BY <3>1, <4>1 DEF IInv, UpdateInv
      <4> QED BY <1>1, <3>1, <4>1, <4>3, <4>4, <4>5 DEF UpdateInv
    <3> QED BY <3>2, <3>3
  <2> QED BY <2>1, <2>2, <2>3
<1>4. BaselineTypeOK'
  BY <1>1, <1>2, <1>3 DEF IInv, BaselineTypeOK
<1>5. WithinPeak' /\ RateInv' /\ FlagInv'
  BY <1>1 DEF IInv, WithinPeak, RateInv, FlagInv
<1> QED BY <1>1, <1>3, <1>4, <1>5 DEF IInv

-------------------------------------------------------------------------------
(* The updater's write: the one step that changes a baseline while the     *)
(* agent runs, but for its expiry.                                         *)
LEMMA WriteStep ==
    ASSUME IInv, SeedBaseline \/ SetBaseline
    PROVE  IInv' /\ GrowthStep
<1> DEFINE u == update.ip
           value == IF update.pc = "seed" THEN update.rate
                    ELSE Smoothed(update.rate, update.prev)
<1>1. /\ UNCHANGED <<flag, counter, snapshot, rate, tracked, queue, baseFile, baseCopied,
                     unread, reading, peak, running>>
      /\ update' = NoUpdate /\ writes' = writes + 1
      /\ mortal' = mortal \cup {u} /\ update.pc \in {"seed", "set"}
  BY DEF SeedBaseline, SetBaseline, Write, tracker, backup
<1>2. base' = [base EXCEPT ![u] = value]
  BY DEF SeedBaseline, SetBaseline, Write
<1>3. update # NoUpdate
  BY <1>1, IdleShape
<1>4. /\ u \in Inside /\ update.rate \in Nat
      /\ update.pc = "set" => update.prev \in Nat
  BY <1>1, <1>3, UpdateShape DEF IInv
<1>5. /\ peak[u] \in Nat /\ update.rate <= peak[u]
      /\ update.pc = "seed" => base[u] = NoKey
      /\ update.pc = "set" => /\ base[u] \in {NoKey, update.prev}
                              /\ update.prev <= peak[u]
                              /\ ~IsSpike(update.rate, update.prev)
                              /\ learned[u] = 0
  BY <1>1, <1>3, <1>4 DEF IInv, UpdateInv, BaselineTypeOK
<1>6. /\ value \in Nat /\ value <= peak[u]
      /\ update.pc = "set" => 10 * value <= 11 * update.prev
  <2>1. CASE update.pc = "seed"
    BY <2>1, <1>4, <1>5
  <2>2. CASE update.pc = "set"
    <3>1. value = Smoothed(update.rate, update.prev)
      BY <2>2
    <3> HIDE DEF value
    <3> QED BY <2>2, <3>1, <1>4, <1>5, SmoothedBounds
  <2> QED BY <1>1, <2>1, <2>2
<1> HIDE DEF value
<1>7. /\ base \in [Inside -> Value] /\ base' \in [Inside -> Value]
      /\ base'[u] = value /\ \A ip \in Inside \ {u} : base'[ip] = base[ip]
  BY <1>2, <1>4, <1>6 DEF IInv, BaselineTypeOK, Value
<1>8. learned' \in [Inside -> Nat] /\ FlagInv'
  <2>1. CASE SeedBaseline
    BY <2>1, <1>1 DEF SeedBaseline, IInv, BaselineTypeOK, FlagInv
  <2>2. CASE SetBaseline
    <3>1. learned' = [learned EXCEPT ![u] = IF u \in flag THEN @ + 1 ELSE @]
      BY <2>2 DEF SetBaseline
    <3>2. learned[u] = 0
      BY <2>2, <1>5 DEF SetBaseline
    <3> QED BY <1>1, <1>4, <3>1, <3>2 DEF IInv, BaselineTypeOK, FlagInv
  <2> QED BY <2>1, <2>2
<1>9. mortal' \subseteq {ip \in Inside : base'[ip] # NoKey}
  BY <1>1, <1>4, <1>6, <1>7 DEF IInv, BaselineTypeOK, NoKey
<1>10. BaselineTypeOK'
  BY <1>1, <1>7, <1>8, <1>9 DEF IInv, BaselineTypeOK
<1>11. WithinPeak' /\ RateInv'
  BY <1>1, <1>6, <1>7 DEF IInv, WithinPeak, RateInv
<1>12. UpdateInv'
  <2>1. running
    BY <1>3 DEF IInv, UpdateInv
  <2> QED BY <1>1, <2>1, IdleShape DEF UpdateInv
<1>13. GrowthStep
  <2> SUFFICES ASSUME NEW ip \in Inside, base[ip] # NoKey, base'[ip] # NoKey
               PROVE  10 * base'[ip] <= 11 * base[ip]
    BY DEF GrowthStep
  <2>1. CASE ip = u
    <3>1. update.pc = "set" /\ base[u] = update.prev
      BY <2>1, <1>1, <1>5
    <3> QED BY <2>1, <3>1, <1>6, <1>7
  <2>2. CASE ip # u
    BY <2>2, <1>7 DEF Value, NoKey
  <2> QED BY <2>1, <2>2
<1> QED BY <1>8, <1>10, <1>11, <1>12, <1>13 DEF IInv

(* A baseline that is gone grows into nothing.                             *)
LEMMA GoneStep ==
    ASSUME IInv, BaseExpires \/ BasesLost
    PROVE  /\ IInv'
           /\ \A ip \in Inside : base'[ip] \in {base[ip], NoKey}
<1>1. UNCHANGED <<counter, snapshot, rate, tracked, queue, update, baseFile, baseCopied, unread,
                  reading, writes, peak, running>>
  BY DEF BaseExpires, BasesLost, tracker, updater, backup, history
<1>2. /\ base' \in [Inside -> Value] /\ mortal' \subseteq {ip \in Inside : base'[ip] # NoKey}
      /\ \A ip \in Inside : base'[ip] \in {base[ip], NoKey}
  <2>1. CASE BaseExpires
    BY <2>1 DEF BaseExpires, IInv, BaselineTypeOK, Value
  <2>2. CASE BasesLost
    BY <2>2 DEF BasesLost, NoKeys, IInv, BaselineTypeOK, Value
  <2> QED BY <2>1, <2>2
<1>3. /\ flag' \subseteq Inside /\ learned' \in [Inside -> Nat]
      /\ \A ip \in Inside : learned'[ip] \in {learned[ip], 0}
      /\ FlagInv'
  <2>1. CASE BaseExpires
    BY <2>1 DEF BaseExpires, history, IInv, BaselineTypeOK, FlagInv
  <2>2. CASE BasesLost
    BY <2>2 DEF BasesLost, Nothing, IInv, BaselineTypeOK, FlagInv
  <2> QED BY <2>1, <2>2
<1>4. BaselineTypeOK'
  BY <1>1, <1>2, <1>3 DEF IInv, BaselineTypeOK
<1>5. WithinPeak' /\ RateInv'
  BY <1>1, <1>2 DEF IInv, BaselineTypeOK, WithinPeak, RateInv, NoKey
<1>6. UpdateInv'
  <2>1. update # NoUpdate => update.ip \in Inside
    BY UpdateShape DEF IInv
  <2> QED BY <1>1, <1>2, <1>3, <2>1, IdleShape DEF IInv, UpdateInv
<1> QED BY <1>2, <1>3, <1>4, <1>5, <1>6 DEF IInv

(* The backup copies what is there.                                        *)
LEMMA BackupStep ==
    ASSUME IInv, BeginBaseBackup \/ ReadBase \/ ReplaceBaseFile
    PROVE  IInv' /\ base' = base
<1>1. UNCHANGED <<base, mortal, flag, counter, snapshot, rate, tracked, queue, update,
                  writes, peak, learned, running>>
  BY DEF BeginBaseBackup, ReadBase, ReplaceBaseFile, redis, tracker, updater, history
<1>2. /\ unread' \subseteq Inside /\ reading' \in BOOLEAN
      /\ baseCopied' \in [Inside -> Value] /\ baseFile' \in [Inside -> Value]
      /\ \A ip \in Inside : /\ baseCopied'[ip] \in {baseCopied[ip], base[ip], NoKey}
                        /\ baseFile'[ip] \in {baseFile[ip], baseCopied[ip]}
  <2>1. CASE BeginBaseBackup
    BY <2>1 DEF BeginBaseBackup, IInv, BaselineTypeOK
  <2>2. CASE ReadBase
    BY <2>2 DEF ReadBase, IInv, BaselineTypeOK
  <2>3. CASE ReplaceBaseFile
    BY <2>3 DEF ReplaceBaseFile, IInv, BaselineTypeOK, NoKeys, Value
  <2> QED BY <2>1, <2>2, <2>3
<1>3. BaselineTypeOK'
  BY <1>1, <1>2 DEF IInv, BaselineTypeOK
<1>4. WithinPeak'
  BY <1>1, <1>2 DEF IInv, BaselineTypeOK, WithinPeak, NoKey
<1>5. UpdateInv' /\ RateInv' /\ FlagInv'
  BY <1>1 DEF IInv, UpdateInv, RateInv, FlagInv
<1> QED BY <1>1, <1>3, <1>4, <1>5 DEF IInv

(* A crash leaves Redis and the file, a start takes what the file has.     *)
LEMMA CrashStep ==
    ASSUME IInv, BaselineCrash
    PROVE  IInv' /\ running # running'
<1>1. /\ running /\ running' = FALSE /\ queue' = {} /\ update' = NoUpdate
      /\ UNCHANGED <<base, mortal, flag, baseFile, writes, peak, learned>>
  BY DEF BaselineCrash, redis, history
<1>2. /\ counter' = Nothing /\ snapshot' = Nothing /\ rate' = Nothing /\ tracked' = {}
      /\ baseCopied' = NoKeys /\ unread' = {} /\ reading' = FALSE
  BY DEF BaselineCrash
<1>3. BaselineTypeOK'
  <2>1. /\ Nothing \in [Inside -> Nat]
        /\ NoKeys \in [Inside -> Value]
    BY DEF Nothing, NoKeys, Value
  <2>2. mortal' \subseteq {ip \in Inside : base'[ip] # NoKey}
    BY <1>1 DEF IInv, BaselineTypeOK
  <2> QED BY <1>1, <1>2, <2>1, <2>2 DEF IInv, BaselineTypeOK
<1>4. WithinPeak' /\ RateInv' /\ FlagInv'
  BY <1>1, <1>2 DEF IInv, BaselineTypeOK, WithinPeak, RateInv, FlagInv, Nothing, NoKeys, NoKey
<1>5. UpdateInv'
  BY <1>1, IdleShape DEF UpdateInv
<1> QED BY <1>1, <1>3, <1>4, <1>5 DEF IInv

LEMMA StartStep ==
    ASSUME IInv, BaselineStart
    PROVE  IInv' /\ ~running
<1>1. /\ ~running /\ running' = TRUE
      /\ base' = [ip \in Inside |-> IF baseFile[ip] # NoKey THEN baseFile[ip] ELSE base[ip]]
      /\ mortal' = {ip \in mortal : baseFile[ip] = NoKey}
      /\ UNCHANGED <<flag, counter, snapshot, rate, tracked, queue, update, baseFile, baseCopied,
                     unread, reading, writes, peak, learned>>
  BY DEF BaselineStart, tracker, updater, backup, history
<1>2. base' \in [Inside -> Value] /\ mortal' \subseteq {ip \in Inside : base'[ip] # NoKey}
  BY <1>1 DEF IInv, BaselineTypeOK
<1>3. BaselineTypeOK'
  BY <1>1, <1>2 DEF IInv, BaselineTypeOK
<1>4. WithinPeak' /\ RateInv' /\ FlagInv'
  BY <1>1 DEF IInv, WithinPeak, RateInv, FlagInv
<1>5. UpdateInv'
  <2>1. update' = NoUpdate
    BY <1>1 DEF IInv, UpdateInv
  <2> QED BY <1>1, <2>1, IdleShape DEF UpdateInv
<1> QED BY <1>1, <1>3, <1>4, <1>5 DEF IInv

-------------------------------------------------------------------------------
LEMMA StutterStep ==
    ASSUME IInv, UNCHANGED baselineVars
    PROVE  IInv'
<1>1. UNCHANGED <<base, mortal, flag, counter, snapshot, rate, tracked, queue, update,
                  baseFile, baseCopied, unread, reading, writes, peak, learned, running>>
  BY DEF baselineVars, redis, tracker, updater, backup, history
<1>2. BaselineTypeOK'
  BY <1>1 DEF IInv, BaselineTypeOK
<1>3. WithinPeak' /\ UpdateInv' /\ RateInv' /\ FlagInv'
  BY <1>1 DEF IInv, WithinPeak, UpdateInv, RateInv, FlagInv
<1> QED BY <1>2, <1>3 DEF IInv

(* Where the baselines are what they were, or gone, nothing grows.         *)
LEMMA NoGrowth ==
    ASSUME IInv, \A ip \in Inside : base'[ip] \in {base[ip], NoKey}
    PROVE  GrowthStep
BY DEF IInv, BaselineTypeOK, Value, NoKey, GrowthStep

LEMMA StepPreserves ==
    ASSUME IInv, BaselineNext
    PROVE  IInv' /\ GrowthStep
<1>1. CASE RecordFlow \/ ForgetIp \/ TakeCounters \/ BeginCycle
  BY <1>1, CountStep, NoGrowth
<1>2. CASE RaiseFlag \/ FlagEnds
  BY <1>2, FlagStep, NoGrowth
<1>3. CASE PublishRate
  BY <1>3, PublishStep, NoGrowth
<1>4. CASE GetRate \/ GetBaseline \/ CheckFlag
  BY <1>4, LookStep, NoGrowth
<1>5. CASE SeedBaseline \/ SetBaseline
  BY <1>5, WriteStep
<1>6. CASE BaseExpires \/ BasesLost
  BY <1>6, GoneStep, NoGrowth
<1>7. CASE BeginBaseBackup \/ ReadBase \/ ReplaceBaseFile
  BY <1>7, BackupStep, NoGrowth
<1>8. CASE BaselineCrash
  <2>1. IInv' /\ running # running' /\ running
    BY <1>8, CrashStep DEF BaselineCrash
  <2> QED BY <2>1, <1>8 DEF GrowthStep, BaselineCrash
<1>9. CASE BaselineStart
  BY <1>9, StartStep DEF GrowthStep
<1> QED BY <1>1, <1>2, <1>3, <1>4, <1>5, <1>6, <1>7, <1>8, <1>9 DEF BaselineNext

LEMMA Inductive == BaselineSpec => []IInv
<1>1. IInv /\ [BaselineNext]_baselineVars => IInv'
  BY StepPreserves, StutterStep
<1> QED BY InitEstablishes, <1>1, PTL DEF BaselineSpec

-------------------------------------------------------------------------------
(* The state stays well typed, and an update under way knows a baseline    *)
(* exactly where update() of ewma_store.py has read one.                   *)
THEOREM BaselineTypeCorrect == BaselineSpec => []BaselineTypeOK
<1>1. IInv => BaselineTypeOK
  BY DEF IInv
<1> QED BY Inductive, <1>1, PTL

(* No baseline, in Redis, in a backup or restored from one, is ever above  *)
(* the highest rate that was published for its address.                    *)
THEOREM BaselineWithinPeak == BaselineSpec => []WithinPeak
<1>1. IInv => WithinPeak
  BY DEF IInv
<1> QED BY Inductive, <1>1, PTL

(* update() looks the attack flag up in one call of Redis and writes the   *)
(* baseline in a later one, and yet an attack is learned from at most      *)
(* once.                                                                   *)
THEOREM AttackHardlyLearned == BaselineSpec => []AttackBarelyLearned
<1>1. IInv => AttackBarelyLearned
  <2> SUFFICES ASSUME IInv, NEW ip \in flag
               PROVE  learned[ip] <= 1
    BY DEF AttackBarelyLearned
  <2>1. ip \in Inside
    BY DEF IInv, BaselineTypeOK
  <2> QED BY <2>1 DEF IInv, FlagInv
<1> QED BY Inductive, <1>1, PTL

(* The spike guard bounds what a baseline learns in an update to a tenth   *)
(* of it, for every interleaving with expiry, backups and the tracker.     *)
THEOREM BaselineGrowsSlowly == BaselineSpec => GrowsSlowly
<1>1. IInv /\ [BaselineNext]_baselineVars => [GrowthStep]_baselineVars
  BY StepPreserves
<1>2. BaselineSpec => [][GrowthStep]_baselineVars
  BY Inductive, <1>1, PTL DEF BaselineSpec
<1> QED BY <1>2 DEF GrowsSlowly, GrowthStep
===============================================================================
