-------------------------------- MODULE Baseline -------------------------------
(***************************************************************************)
(* The packet rate of an internal address and its baseline: PpsTracker,    *)
(* ewma_store.py with its updater, and the ewma keys of redis_backup.py.   *)
(*                                                                         *)
(* The event loop counts packets and raises the attack flag, one thread    *)
(* turns the counts into rates, another one the rates into baselines with  *)
(* three or four calls of Redis, and a third one copies the baselines.     *)
(* The flag, which lasts three minutes, and the thirty seconds for which   *)
(* an address is tracked end at any time.                                  *)
(*                                                                         *)
(* Rates and baselines are packets per window, rounded down.               *)
(***************************************************************************)
EXTENDS Integers

CONSTANTS
    Inside,         \* internal addresses
    Packets,        \* packets of a flow
    MaxCount,       \* bound: packets of a window
    MaxWrites       \* bound: baselines written

ASSUME PacketsAssumption == Packets \subseteq Nat \ {0}
ASSUME CountAssumption == MaxCount \in Nat /\ MaxWrites \in Nat

VARIABLES
    counter,        \* _counters
    snapshot,       \* the tracker's snapshot, what is not yet published of it
    rate,           \* _rates
    tracked,        \* addresses with a flow in the last thirty seconds
    queue,          \* addresses left in the updater's cycle
    update,         \* the update under way
    base,           \* Redis ewma:<ip>
    mortal,         \* addresses whose baseline has an expiry
    flag,           \* addresses with an active attack flag in Redis
    baseFile,       \* redis_backup.json
    baseCopied,     \* the backup under way
    unread,         \* the keys it has yet to read
    reading,        \* the backup thread is at work
    running,        \* the agent runs
    writes,         \* bound: baselines written
    peak,           \* history: the highest rate published
    learned         \* history: baselines written since the flag was raised

redis == <<base, mortal, flag>>
tracker == <<counter, snapshot, rate, tracked>>
updater == <<queue, update>>
backup == <<baseFile, baseCopied, unread, reading>>
history == <<writes, peak, learned>>
baselineVars == <<redis, tracker, updater, backup, history, running>>

NoKey == -1
NoUpdate == [pc |-> "idle"]

Nothing == [ip \in Inside |-> 0]
NoKeys == [ip \in Inside |-> NoKey]

\* EWMA_SPIKE_GUARD_MULTIPLIER and EWMA_ALPHA.
IsSpike_Never(current, prev) == FALSE

IsSpike(current, prev) == current > 2 * prev

Smoothed_Sum(current, prev) == (current + 10 * prev) \div 10

Smoothed(current, prev) == (current + 9 * prev) \div 10

BaselineInit ==
    /\ counter = Nothing /\ snapshot = Nothing /\ rate = Nothing
    /\ tracked = {} /\ queue = {}
    /\ update = NoUpdate
    /\ base = NoKeys /\ mortal = {} /\ flag = {}
    /\ baseFile = NoKeys /\ baseCopied = NoKeys /\ unread = {} /\ reading = FALSE
    /\ running = TRUE
    /\ writes = 0 /\ peak = Nothing /\ learned = Nothing

-------------------------------------------------------------------------------
(* The event loop.                                                         *)

\* _enrich, of a flow to an internal address.
RecordFlow ==
    /\ running
    /\ \E ip \in Inside, n \in Packets :
        /\ counter[ip] + n <= MaxCount
        /\ counter' = [counter EXCEPT ![ip] = @ + n]
        /\ tracked' = tracked \cup {ip}
    /\ UNCHANGED <<redis, snapshot, rate, updater, backup, history, running>>

ForgetIp ==
    /\ \E ip \in tracked : tracked' = tracked \ {ip}
    /\ UNCHANGED <<redis, counter, snapshot, rate, updater, backup, history, running>>

\* handle_decision, of any decision but "monitor".
RaiseFlag ==
    /\ running
    /\ \E ip \in Inside : flag' = flag \cup {ip}
    /\ UNCHANGED <<base, mortal, tracker, updater, backup, history, running>>

FlagEnds ==
    /\ \E ip \in flag :
        /\ flag' = flag \ {ip}
        /\ learned' = [learned EXCEPT ![ip] = 0]
    /\ UNCHANGED <<base, mortal, tracker, updater, backup, writes, peak, running>>

-------------------------------------------------------------------------------
(* The tracker's thread.  An address without packets keeps its last rate.  *)

TakeCounters ==
    /\ running /\ snapshot = Nothing /\ counter # Nothing
    /\ snapshot' = counter
    /\ counter' = Nothing
    /\ UNCHANGED <<redis, rate, tracked, updater, backup, history, running>>

PublishRate ==
    /\ \E ip \in Inside :
        /\ snapshot[ip] > 0
        /\ rate' = [rate EXCEPT ![ip] = snapshot[ip]]
        /\ peak' = [peak EXCEPT ![ip] = IF snapshot[ip] > @ THEN snapshot[ip] ELSE @]
        /\ snapshot' = [snapshot EXCEPT ![ip] = 0]
    /\ UNCHANGED <<redis, counter, tracked, updater, backup, writes, learned, running>>

-------------------------------------------------------------------------------
(* EwmaUpdater: its cycle, and update with one step per call of Redis.     *)

BeginCycle ==
    /\ running /\ update = NoUpdate /\ queue = {} /\ tracked # {}
    /\ queue' = tracked
    /\ UNCHANGED <<redis, tracker, update, backup, history, running>>

GetRate ==
    /\ update = NoUpdate
    /\ \E ip \in queue :
        /\ update' = [pc |-> "rated", ip |-> ip, rate |-> rate[ip], prev |-> NoKey]
        /\ queue' = queue \ {ip}
    /\ UNCHANGED <<redis, tracker, backup, history, running>>

GetBaseline ==
    /\ update.pc = "rated"
    /\ update' = [update EXCEPT
          !.prev = base[update.ip],
          !.pc = IF base[update.ip] = NoKey THEN "seed" ELSE "check"]
    /\ UNCHANGED <<redis, tracker, queue, backup, history, running>>

\* SET with an expiry.
Write(ip, value) ==
    /\ writes < MaxWrites /\ writes' = writes + 1
    /\ base' = [base EXCEPT ![ip] = value]
    /\ mortal' = mortal \cup {ip}
    /\ update' = NoUpdate

\* The first rate of an address, under an attack or not.
SeedBaseline ==
    /\ update.pc = "seed"
    /\ Write(update.ip, update.rate)
    /\ UNCHANGED <<flag, tracker, queue, backup, peak, learned, running>>

\* is_attack_flag_active, and the spike guard.
CheckFlag_Late ==
    /\ update.pc = "check"
    /\ update' = IF IsSpike(update.rate, update.prev)
                 THEN NoUpdate ELSE [update EXCEPT !.pc = "set"]
    /\ UNCHANGED <<redis, tracker, queue, backup, history, running>>

CheckFlag ==
    /\ update.pc = "check"
    /\ update' = IF update.ip \in flag \/ IsSpike(update.rate, update.prev)
                 THEN NoUpdate ELSE [update EXCEPT !.pc = "set"]
    /\ UNCHANGED <<redis, tracker, queue, backup, history, running>>

SetBaseline ==
    /\ update.pc = "set"
    /\ Write(update.ip, Smoothed(update.rate, update.prev))
    /\ learned' = [learned EXCEPT ![update.ip] = IF update.ip \in flag THEN @ + 1 ELSE @]
    /\ UNCHANGED <<flag, tracker, queue, backup, peak, running>>

-------------------------------------------------------------------------------
(* Redis, the backup and restarts.                                         *)

BaseExpires ==
    /\ \E ip \in mortal :
        /\ base' = [base EXCEPT ![ip] = NoKey]
        /\ mortal' = mortal \ {ip}
    /\ UNCHANGED <<flag, tracker, updater, backup, history, running>>

\* backup_now: SCAN returns every key that is there all the time.
BeginBaseBackup ==
    /\ running /\ ~reading
    /\ reading' = TRUE
    /\ unread' = {ip \in Inside : base[ip] # NoKey}
    /\ UNCHANGED <<redis, tracker, updater, baseFile, baseCopied, history, running>>

ReadBase ==
    /\ reading
    /\ \E ip \in Inside :
        /\ ip \in unread \/ base[ip] # NoKey
        /\ baseCopied' = [baseCopied EXCEPT ![ip] = base[ip]]
        /\ unread' = unread \ {ip}
    /\ UNCHANGED <<redis, tracker, updater, baseFile, reading, history, running>>

ReplaceBaseFile ==
    /\ reading /\ unread = {}
    /\ baseFile' = baseCopied
    /\ baseCopied' = NoKeys
    /\ reading' = FALSE
    /\ UNCHANGED <<redis, tracker, updater, unread, history, running>>

BaselineCrash ==
    /\ running
    /\ running' = FALSE
    /\ counter' = Nothing /\ snapshot' = Nothing /\ rate' = Nothing
    /\ tracked' = {} /\ queue' = {}
    /\ update' = NoUpdate
    /\ baseCopied' = NoKeys /\ unread' = {} /\ reading' = FALSE
    /\ UNCHANGED <<redis, baseFile, history>>

BasesLost ==
    /\ ~running
    /\ base' = NoKeys /\ mortal' = {} /\ flag' = {}
    /\ learned' = Nothing
    /\ UNCHANGED <<tracker, updater, backup, writes, peak, running>>

\* restore_from_backup, before the threads start: what the file has is set
\* without an expiry.
BaselineStart ==
    /\ ~running
    /\ running' = TRUE
    /\ base' = [ip \in Inside |-> IF baseFile[ip] # NoKey THEN baseFile[ip] ELSE base[ip]]
    /\ mortal' = {ip \in mortal : baseFile[ip] = NoKey}
    /\ UNCHANGED <<flag, tracker, updater, backup, history>>

BaselineNext ==
    \/ RecordFlow \/ ForgetIp \/ RaiseFlag \/ FlagEnds
    \/ TakeCounters \/ PublishRate
    \/ BeginCycle \/ GetRate \/ GetBaseline \/ SeedBaseline \/ CheckFlag \/ SetBaseline
    \/ BaseExpires \/ BasesLost
    \/ BeginBaseBackup \/ ReadBase \/ ReplaceBaseFile
    \/ BaselineCrash \/ BaselineStart

BaselineSpec == BaselineInit /\ [][BaselineNext]_baselineVars

-------------------------------------------------------------------------------
Value == Nat \cup {NoKey}

(* The state is well typed; an update under way knows a baseline exactly   *)
(* where it has read one.                                                  *)
BaselineTypeOK ==
    /\ counter \in [Inside -> Nat] /\ snapshot \in [Inside -> Nat] /\ rate \in [Inside -> Nat]
    /\ tracked \subseteq Inside /\ queue \subseteq Inside
    /\ \/ update = NoUpdate
       \/ update \in [pc : {"rated", "seed"}, ip : Inside, rate : Nat, prev : {NoKey}]
       \/ update \in [pc : {"check", "set"}, ip : Inside, rate : Nat, prev : Nat]
    /\ base \in [Inside -> Value]
    /\ baseFile \in [Inside -> Value] /\ baseCopied \in [Inside -> Value]
    /\ mortal \subseteq {ip \in Inside : base[ip] # NoKey}
    /\ flag \subseteq Inside /\ unread \subseteq Inside
    /\ reading \in BOOLEAN /\ running \in BOOLEAN
    /\ writes \in Nat /\ peak \in [Inside -> Nat] /\ learned \in [Inside -> Nat]

(* A baseline is never above the highest rate the address ever had, be it  *)
(* learned, read by a backup or restored.                                  *)
WithinPeak ==
    \A ip \in Inside : /\ base[ip] <= peak[ip]
                       /\ baseFile[ip] <= peak[ip] /\ baseCopied[ip] <= peak[ip]

(* While the attack flag of an address is up, its baseline learns at most  *)
(* one rate: that of an update which had looked before.  The flag is       *)
(* looked up in one call of Redis and the baseline written in another.  A  *)
(* first baseline, which has nothing to learn from, is not counted.        *)
AttackBarelyLearned == \A ip \in flag : learned[ip] <= 1

(* While the agent runs, a baseline grows by a tenth at most at a time,    *)
(* whatever was published, expired or copied between the calls an update   *)
(* makes.  A baseline of zero therefore stays zero: no rate is below twice *)
(* of nothing.                                                             *)
GrowsSlowly ==
    [][\A ip \in Inside :
         running /\ base[ip] # NoKey /\ base'[ip] # NoKey /\ running'
            => 10 * base'[ip] <= 11 * base[ip]]_baselineVars

===============================================================================
