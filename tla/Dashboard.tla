------------------------------- MODULE Dashboard -------------------------------
(***************************************************************************)
(* The figures on the dashboard, dashboard.socket.js: fetchStats counts    *)
(* the documents of several collections and keeps the counts for thirty    *)
(* seconds, unless a change of an AI rule invalidates them.  fetchStats    *)
(* runs for every client that connects and for every metrics message; the  *)
(* counts are separate queries, awaited together.                          *)
(*                                                                         *)
(* A count is represented by the moment it was taken at: the time, and the *)
(* number of changes the database had seen.                                *)
(***************************************************************************)
EXTENDS Integers

CONSTANTS
    Count,          \* the queries of fetchStats
    Fetch,          \* bound: fetches under way at once
    StatsTtl,       \* STATS_TTL_MS
    QueryTime,      \* the queries end within this
    MaxNow,         \* bound: the clock stops
    MaxChanges      \* bound

ASSUME LimitAssumption == {StatsTtl, QueryTime} \subseteq Nat

VARIABLES
    now,
    changes,        \* changes of the database
    toTell,         \* handlers that have saved a change and have yet to invalidate
    fetch,          \* fetch[x]: the call of fetchStats
    cached,         \* cachedStats and lastStatsFetchAt
    shown,          \* what was last sent to the clients
    due             \* history: what no later figure may be older than

dashVars == <<now, changes, toTell, fetch, cached, shown, due>>

Nothing == [at |-> -1]
NotFetching == [begun |-> -1]
Moment == [time |-> now, change |-> changes]

DashInit ==
    /\ now = 0 /\ changes = 0 /\ toTell = 0
    /\ fetch = [x \in Fetch |-> NotFetching]
    /\ cached = Nothing
    /\ shown = Nothing
    /\ due = 0

-------------------------------------------------------------------------------
Valid == cached # Nothing /\ now - cached.at < StatsTtl

\* fetchStats: from the cache.
ShowCached ==
    /\ Valid
    /\ shown' = [at |-> now, counts |-> cached.counts]
    /\ UNCHANGED <<now, changes, toTell, fetch, cached, due>>

\* fetchStats: the queries, and the end.
FetchBegins(x) ==
    /\ ~Valid /\ fetch[x] = NotFetching
    /\ fetch' = [fetch EXCEPT ![x] = [begun |-> now, counts |-> <<>>]]
    /\ UNCHANGED <<now, changes, toTell, cached, shown, due>>

Query(x, c) ==
    /\ fetch[x] # NotFetching /\ c \notin DOMAIN fetch[x].counts
    /\ fetch' = [fetch EXCEPT ![x].counts =
                    [d \in DOMAIN @ \cup {c} |-> IF d = c THEN Moment ELSE @[d]]]
    /\ UNCHANGED <<now, changes, toTell, cached, shown, due>>

Stamp_AtTheEnd(x) == now

Stamp(x) == fetch[x].begun

FetchEnds(x) ==
    /\ fetch[x] # NotFetching /\ DOMAIN fetch[x].counts = Count
    /\ cached' = [at |-> Stamp(x), counts |-> fetch[x].counts]
    /\ shown' = [at |-> now, counts |-> fetch[x].counts]
    /\ fetch' = [fetch EXCEPT ![x] = NotFetching]
    /\ UNCHANGED <<now, changes, toTell, due>>

FetchFails(x) ==
    /\ fetch[x] # NotFetching
    /\ fetch' = [fetch EXCEPT ![x] = NotFetching]
    /\ UNCHANGED <<now, changes, toTell, cached, shown, due>>

\* A rule, a threat or a static rule is saved; the handlers of AI rules then
\* invalidate, the others do not.
Change ==
    /\ changes < MaxChanges
    /\ changes' = changes + 1
    /\ toTell' \in {toTell, toTell + 1}
    /\ UNCHANGED <<now, fetch, cached, shown, due>>

Invalidate_IfOld ==
    /\ toTell > 0
    /\ toTell' = toTell - 1
    /\ cached' = IF Valid THEN cached ELSE Nothing
    /\ due' = IF \A x \in Fetch : fetch[x] = NotFetching THEN changes ELSE due
    /\ UNCHANGED <<now, changes, fetch, shown>>

\* invalidateStatsCache.
Invalidate ==
    /\ toTell > 0
    /\ toTell' = toTell - 1
    /\ cached' = Nothing
    /\ due' = IF \A x \in Fetch : fetch[x] = NotFetching THEN changes ELSE due
    /\ UNCHANGED <<now, changes, fetch, shown>>

Clock ==
    /\ now < MaxNow
    /\ \A x \in Fetch : fetch[x] # NotFetching => now - fetch[x].begun < QueryTime
    /\ now' = now + 1
    /\ UNCHANGED <<changes, toTell, fetch, cached, shown, due>>

DashNext ==
    \/ ShowCached \/ Change \/ Invalidate \/ Clock
    \/ \E x \in Fetch :
        \/ FetchBegins(x) \/ FetchEnds(x) \/ FetchFails(x)
        \/ \E c \in Count : Query(x, c)

DashSpec == DashInit /\ [][DashNext]_dashVars

-------------------------------------------------------------------------------
(* What is kept has all the counts, none of them from before its stamp.    *)
DashTypeOK ==
    /\ now \in Nat /\ changes \in Nat /\ due \in 0..changes
    /\ cached # Nothing =>
        /\ cached.at \in 0..now
        /\ cached.counts \in [Count -> [time : cached.at..now, change : 0..changes]]

(* Whatever fetches overlap, end in another order than they began, or      *)
(* store counts that an invalidation should have dropped: a figure that is *)
(* sent was true less than thirty seconds ago, or while the queries of     *)
(* that very fetch were under way.                                         *)
FiguresAreRecent ==
    shown # Nothing =>
        \A c \in Count : LET age == shown.at - shown.counts[c].time
                         IN age < StatsTtl \/ age <= QueryTime

(* An invalidation that finds no fetch under way does its work: figures    *)
(* sent after it count the change.  A fetch that is under way may bring    *)
(* older counts back; then FiguresAreRecent is all there is.               *)
InvalidatedIsGone ==
    [][shown' # shown => \A c \in Count : shown'.counts[c].change >= due]_dashVars

===============================================================================
