------------------------------- MODULE NodeProofs -------------------------------
(***************************************************************************)
(* What the dashboard's figures, the accounts and the auto-approve setting *)
(* promise for every number of requests, accounts, counts and ticks.       *)
(***************************************************************************)
EXTENDS AutoApprove, Accounts, Dashboard, FiniteSetTheorems,
        SequenceTheorems, TLAPS

-------------------------------------------------------------------------------
(* The dashboard's figures.                                                *)

(* A fetch under way has begun recently; what it has counted, it counted   *)
(* since, and no change that an invalidation made due is missing.          *)
FetchOK(x) ==
    /\ fetch[x] = [begun |-> fetch[x].begun, counts |-> fetch[x].counts]
    /\ fetch[x].begun \in 0..now /\ now - fetch[x].begun <= QueryTime
    /\ fetch[x].counts \in
         [DOMAIN fetch[x].counts -> [time : fetch[x].begun..now, change : due..changes]]

FetchInv ==
    /\ fetch = [x \in Fetch |-> fetch[x]]
    /\ \A x \in Fetch : fetch[x] = NotFetching \/ FetchOK(x)

CacheInv == cached # Nothing => \A c \in Count : cached.counts[c].change >= due

DashInv == DashTypeOK /\ FetchInv /\ CacheInv /\ FiguresAreRecent

FiguresStep == shown' # shown => \A c \in Count : shown'.counts[c].change >= due

(* A fetch that is under way is not the mark of one that is not.           *)
LEMMA UnderWay ==
    ASSUME NEW x, FetchOK(x)
    PROVE  fetch[x] # NotFetching
BY DEF FetchOK, NotFetching

LEMMA DashInitEstablishes == DashInit => DashInv
<1> SUFFICES ASSUME DashInit PROVE DashInv
  OBVIOUS
<1>1. DashTypeOK
  BY DEF DashInit, DashTypeOK
<1>2. FetchInv
  BY DEF DashInit, FetchInv
<1> QED BY <1>1, <1>2 DEF DashInit, DashInv, CacheInv, FiguresAreRecent

(* Figures from the cache are as old as the cache at most.                 *)
LEMMA ShowCachedStep ==
    ASSUME DashInv, ShowCached
    PROVE  DashInv' /\ FiguresStep
<1>1. /\ cached # Nothing /\ now - cached.at < StatsTtl
      /\ shown' = [at |-> now, counts |-> cached.counts]
      /\ now' = now /\ changes' = changes /\ fetch' = fetch /\ cached' = cached /\ due' = due
  BY DEF ShowCached, Valid
<1>2. /\ now \in Nat /\ cached.at \in 0..now
      /\ cached.counts \in [Count -> [time : cached.at..now, change : 0..changes]]
  BY <1>1 DEF DashInv, DashTypeOK
<1>3. DashTypeOK' /\ FetchInv' /\ CacheInv'
  BY <1>1 DEF DashInv, DashTypeOK, FetchInv, FetchOK, CacheInv
<1>4. \A c \in Count : now - cached.counts[c].time < StatsTtl
  BY <1>1, <1>2, LimitAssumption
<1>5. FiguresAreRecent'
  BY <1>1, <1>4 DEF FiguresAreRecent
<1>6. FiguresStep
  BY <1>1 DEF FiguresStep, DashInv, CacheInv
<1> QED BY <1>3, <1>5, <1>6 DEF DashInv

(* What a fetch stores, and shows, it counted since it began.              *)
LEMMA FetchEndsStep ==
    ASSUME DashInv, NEW x \in Fetch, FetchEnds(x)
    PROVE  DashInv' /\ FiguresStep
<1> DEFINE counts == fetch[x].counts
           begun == fetch[x].begun
<1>1. /\ cached' = [at |-> begun, counts |-> counts]
      /\ shown' = [at |-> now, counts |-> counts]
      /\ fetch' = [fetch EXCEPT ![x] = NotFetching]
      /\ now' = now /\ changes' = changes /\ due' = due
      /\ DOMAIN counts = Count /\ FetchOK(x)
  BY DEF FetchEnds, Stamp, DashInv, FetchInv
<1>2. /\ now \in Nat /\ changes \in Nat /\ due \in 0..changes
      /\ begun \in 0..now /\ now - begun <= QueryTime
      /\ counts \in [Count -> [time : begun..now, change : due..changes]]
  BY <1>1 DEF DashInv, DashTypeOK, FetchOK
<1> HIDE DEF counts, begun
<1>3. counts \in [Count -> [time : begun..now, change : 0..changes]]
  BY <1>2
<1>4. DashTypeOK'
  BY <1>1, <1>2, <1>3 DEF DashTypeOK
<1>5. FetchInv'
  BY <1>1 DEF DashInv, FetchInv, FetchOK
<1>6. CacheInv' /\ FiguresStep
  BY <1>1, <1>2 DEF CacheInv, FiguresStep
<1>7. FiguresAreRecent'
  <2>1. \A c \in Count : now - counts[c].time <= QueryTime
    BY <1>2, LimitAssumption
  <2> QED BY <1>1, <2>1 DEF FiguresAreRecent
<1> QED BY <1>4, <1>5, <1>6, <1>7 DEF DashInv

(* The steps of a fetch before its end.                                    *)
LEMMA FetchStep ==
    ASSUME DashInv, NEW x \in Fetch,
           FetchBegins(x) \/ FetchFails(x) \/ \E c \in Count : Query(x, c)
    PROVE  DashInv' /\ FiguresStep
<1>1. /\ now' = now /\ changes' = changes /\ cached' = cached /\ shown' = shown /\ due' = due
      /\ now \in Nat /\ changes \in Nat /\ due \in 0..changes
  BY DEF FetchBegins, FetchFails, Query, DashInv, DashTypeOK
<1>2. PICK to :
        /\ fetch' = [fetch EXCEPT ![x] = to]
        /\ \/ to = NotFetching
           \/ /\ to = [begun |-> to.begun, counts |-> to.counts]
              /\ to.begun \in 0..now /\ now - to.begun <= QueryTime
              /\ to.counts \in [DOMAIN to.counts -> [time : to.begun..now, change : due..changes]]
  <2>1. CASE FetchBegins(x)
    <3> DEFINE to == [begun |-> now, counts |-> <<>>]
    <3>1. fetch' = [fetch EXCEPT ![x] = to]
      BY <2>1 DEF FetchBegins
    <3>2. now \in 0..now /\ now - now <= QueryTime
      BY <1>1, LimitAssumption
    <3>3. to.counts \in [DOMAIN to.counts -> [time : to.begun..now, change : due..changes]]
      OBVIOUS
    <3> QED BY <3>1, <3>2, <3>3
  <2>2. CASE FetchFails(x)
    BY <2>2 DEF FetchFails
  <2>3. CASE \E c \in Count : Query(x, c)
    <3>1. PICK c \in Count : Query(x, c)
      BY <2>3
    <3> DEFINE old == fetch[x].counts
               Reading == [time : fetch[x].begun..now, change : due..changes]
               new == [d \in DOMAIN old \cup {c} |-> IF d = c THEN Moment ELSE old[d]]
               to == [begun |-> fetch[x].begun, counts |-> new]
    <3>2. FetchOK(x)
      BY <3>1 DEF Query, DashInv, FetchInv
    <3>3. /\ fetch[x] = [begun |-> fetch[x].begun, counts |-> old]
          /\ fetch[x].begun \in 0..now /\ now - fetch[x].begun <= QueryTime
          /\ old \in [DOMAIN old -> Reading]
      BY <3>2 DEF FetchOK
    <3>4. [fetch[x] EXCEPT !.counts = new] = to
      BY <3>3
    <3>5. fetch' = [fetch EXCEPT ![x] = to]
      BY <3>1, <3>4 DEF Query, DashInv, FetchInv
    <3>6. Moment \in Reading
      BY <1>1, <3>3 DEF Moment
    <3>7. new \in [DOMAIN new -> Reading]
      BY <3>3, <3>6
    <3>8. /\ to = [begun |-> to.begun, counts |-> to.counts]
          /\ to.begun \in 0..now /\ now - to.begun <= QueryTime
          /\ to.counts \in [DOMAIN to.counts -> [time : to.begun..now, change : due..changes]]
      BY <3>3, <3>7
    <3> HIDE DEF to
    <3> QED BY <3>5, <3>8
  <2> QED BY <2>1, <2>2, <2>3
<1>3. FetchInv'
  BY <1>1, <1>2 DEF DashInv, FetchInv, FetchOK
<1> QED BY <1>1, <1>3 DEF DashInv, DashTypeOK, CacheInv, FiguresAreRecent, FiguresStep

(* The cache is dropped; the changes become due if no fetch is under way.  *)
LEMMA InvalidateStep ==
    ASSUME DashInv, Invalidate
    PROVE  DashInv' /\ FiguresStep
<1>1. /\ now' = now /\ changes' = changes /\ fetch' = fetch /\ shown' = shown
      /\ cached' = Nothing
      /\ due' = IF \A x \in Fetch : fetch[x] = NotFetching THEN changes ELSE due
  BY DEF Invalidate
<1>2. DashTypeOK' /\ CacheInv'
  BY <1>1 DEF DashInv, DashTypeOK, CacheInv
<1>3. FetchInv'
  <2>1. CASE \A x \in Fetch : fetch[x] = NotFetching
    BY <1>1, <2>1 DEF DashInv, FetchInv
  <2>2. CASE ~(\A x \in Fetch : fetch[x] = NotFetching)
    <3>1. due' = due
      BY <1>1, <2>2
    <3> QED BY <1>1, <3>1 DEF DashInv, FetchInv, FetchOK
  <2> QED BY <2>1, <2>2
<1> QED BY <1>1, <1>2, <1>3 DEF DashInv, FiguresAreRecent, FiguresStep

(* A change of the database, or a tick, only makes what is known older.    *)
LEMMA TimeStep ==
    ASSUME DashInv, Change \/ Clock
    PROVE  DashInv' /\ FiguresStep
<1>1. /\ fetch' = fetch /\ cached' = cached /\ shown' = shown /\ due' = due
      /\ now \in Nat /\ changes \in Nat /\ due \in 0..changes
      /\ now' \in Nat /\ changes' \in Nat /\ now <= now' /\ changes <= changes'
  BY DEF Change, Clock, DashInv, DashTypeOK
<1>2. \A x \in Fetch : FetchOK(x) => now' - fetch[x].begun <= QueryTime
  <2>1. CASE Change
    BY <2>1 DEF Change, FetchOK
  <2>2. CASE Clock
    <3> SUFFICES ASSUME NEW x \in Fetch, FetchOK(x)
                 PROVE  now' - fetch[x].begun <= QueryTime
      OBVIOUS
    <3>1. now - fetch[x].begun < QueryTime
      BY <2>2, UnderWay DEF Clock
    <3>2. fetch[x].begun \in 0..now /\ now' = now + 1
      BY <2>2 DEF Clock, FetchOK
    <3> QED BY <1>1, <3>1, <3>2, LimitAssumption
  <2> QED BY <2>1, <2>2
<1>3. FetchInv'
  <2> SUFFICES ASSUME NEW x \in Fetch, FetchOK(x)
               PROVE  /\ fetch[x].begun \in 0..now'
                      /\ fetch[x].counts \in
                           [DOMAIN fetch[x].counts ->
                              [time : fetch[x].begun..now', change : due..changes']]
    BY <1>1, <1>2 DEF DashInv, FetchInv, FetchOK
  <2>1. fetch[x].begun..now \subseteq fetch[x].begun..now' /\ due..changes \subseteq due..changes'
    BY <1>1 DEF FetchOK
  <2>2. fetch[x].begun \in 0..now'
    BY <1>1 DEF FetchOK
  <2>3. [time : fetch[x].begun..now, change : due..changes]
          \subseteq [time : fetch[x].begun..now', change : due..changes']
    BY <2>1
  <2> QED BY <2>2, <2>3 DEF FetchOK
<1>4. DashTypeOK'
  <2> SUFFICES ASSUME cached # Nothing
               PROVE  /\ cached.at \in 0..now'
                      /\ cached.counts \in [Count -> [time : cached.at..now', change : 0..changes']]
    BY <1>1 DEF DashTypeOK
  <2>1. /\ cached.at \in 0..now
        /\ cached.counts \in [Count -> [time : cached.at..now, change : 0..changes]]
    BY DEF DashInv, DashTypeOK
  <2>2. cached.at..now \subseteq cached.at..now' /\ 0..changes \subseteq 0..changes'
    BY <1>1, <2>1
  <2>3. [time : cached.at..now, change : 0..changes]
          \subseteq [time : cached.at..now', change : 0..changes']
    BY <2>2
  <2> QED BY <1>1, <2>1, <2>3
<1> QED BY <1>1, <1>3, <1>4 DEF DashInv, CacheInv, FiguresAreRecent, FiguresStep

LEMMA DashStep == DashInv /\ [DashNext]_dashVars => DashInv' /\ FiguresStep
<1> SUFFICES ASSUME DashInv, [DashNext]_dashVars PROVE DashInv' /\ FiguresStep
  OBVIOUS
<1>1. CASE UNCHANGED dashVars
  BY <1>1 DEF dashVars, DashInv, DashTypeOK, FetchInv, FetchOK, CacheInv, FiguresAreRecent,
              FiguresStep
<1>2. CASE ShowCached
  BY <1>2, ShowCachedStep
<1>3. CASE Change \/ Clock
  BY <1>3, TimeStep
<1>4. CASE Invalidate
  BY <1>4, InvalidateStep
<1>5. CASE \E x \in Fetch : FetchEnds(x)
  BY <1>5, FetchEndsStep
<1>6. CASE \E x \in Fetch : FetchBegins(x) \/ FetchFails(x) \/ \E c \in Count : Query(x, c)
  BY <1>6, FetchStep
<1> QED BY <1>1, <1>2, <1>3, <1>4, <1>5, <1>6 DEF DashNext

LEMMA DashInvariant == DashSpec => []DashInv
<1> QED BY DashInitEstablishes, DashStep, PTL DEF DashSpec

(* What is kept of the figures has all the counts, none of them from       *)
(* before its stamp (fetchStats).                                          *)
THEOREM FiguresTyped == DashSpec => []DashTypeOK
<1>1. DashInv => DashTypeOK
  BY DEF DashInv
<1> QED BY <1>1, DashInvariant, PTL

(* Whatever fetches overlap, a figure that is sent was true less than      *)
(* thirty seconds ago, or during the queries of its fetch (fetchStats).    *)
THEOREM FiguresRecent == DashSpec => []FiguresAreRecent
<1>1. DashInv => FiguresAreRecent
  BY DEF DashInv
<1> QED BY <1>1, DashInvariant, PTL

(* An invalidation that finds no fetch under way does its work             *)
(* (invalidateStatsCache).                                                 *)
THEOREM InvalidationWorks == DashSpec => InvalidatedIsGone
<1>1. DashInv /\ [DashNext]_dashVars => [FiguresStep]_dashVars
  BY DashStep
<1>2. FiguresStep <=> (shown' # shown => \A c \in Count : shown'.counts[c].change >= due)
  BY DEF FiguresStep
<1> QED BY <1>1, <1>2, DashInvariant, PTL DEF DashSpec, InvalidatedIsGone

-------------------------------------------------------------------------------
(* The accounts.                                                           *)

Doc == [role : Role, mail : Mail]

Creating ==
    [pc : {"create"}, by : {"signup"}, role : {"super_admin"}, mail : Mail]
      \cup [pc : {"create"}, by : {"add"}, role : Role \ {"super_admin"}, mail : Mail]

Deleting == [pc : {"delete"}, user : User]
Saving == [pc : {"save"}, user : User, old : Doc, new : Doc]

(* What a handler has checked is still true of the account when it acts,   *)
(* if the account is still there: no handler takes the role of the super   *)
(* administrator away or gives it to an account that exists.               *)
StillTrue(r) ==
    /\ r \in Deleting => users[r.user].role \in {"deleted", "admin", "analyst"}
    /\ r \in Saving =>
        /\ users[r.user].role # "unused" /\ MayBecome(r.old.role, r.new.role)
        /\ \/ users[r.user].role = "deleted"
           \/ users[r.user].role = "super_admin" <=> r.old.role = "super_admin"

HandlerInv ==
    /\ handler \in [Handler -> {NoHandler} \cup Creating \cup Deleting \cup Saving]
    /\ \A h \in Handler : StillTrue(handler[h])

AccountsInv == AccountsTypeOK /\ HandlerInv

(* How the accounts that exist may change.                                 *)
Gentle ==
    \A u \in User :
        /\ users[u].role # "unused" => users'[u].role # "unused"
        /\ users[u].role = "deleted" => users'[u].role = "deleted"
        /\ users[u].role = "super_admin" => users'[u].role = "super_admin"
        /\ users[u].role \in {"admin", "analyst"} => users'[u].role \in {"deleted", "admin", "analyst"}

RootStep ==
    /\ Roots \subseteq Roots'
    /\ Roots' # Roots => \E h \in SigningUp : handler'[h] = NoHandler

(* What an account may be.                                                 *)
LEMMA AccountShape ==
    ASSUME AccountsTypeOK, NEW u \in User
    PROVE  /\ users[u] \in {Unused, Deleted} \cup Doc
           /\ Present(u) <=> users[u] \in Doc
           /\ users[u] = Unused <=> users[u].role = "unused"
           /\ users[u].role \in Role \cup {"unused", "deleted"}
<1>1. users[u] \in {Unused, Deleted} \cup Doc
  BY DEF AccountsTypeOK, Doc
<1>2. Unused.role = "unused" /\ Deleted.role = "deleted"
  BY DEF Unused, Deleted
<1>3. \A d \in Doc : d.role \in Role /\ d.role # "unused" /\ d.role # "deleted"
  BY DEF Doc, Role
<1>4. "unused" \notin Role /\ "deleted" \notin Role
  BY DEF Role
<1> QED BY <1>1, <1>2, <1>3, <1>4 DEF Present

(* The kinds of requests have different marks.                             *)
LEMMA HandlerShape ==
    ASSUME HandlerInv, NEW h \in Handler
    PROVE  /\ handler[h].pc = "create" => handler[h] \in Creating
           /\ handler[h].pc = "delete" => handler[h] \in Deleting
           /\ handler[h].pc = "save" => handler[h] \in Saving
BY DEF HandlerInv, NoHandler, Creating, Deleting, Saving

LEMMA NoHandlerTrue == StillTrue(NoHandler) /\ StillTrue(NoHandler)'
BY DEF StillTrue, NoHandler, Deleting, Saving

(* Where the accounts change gently, what was checked stays true.          *)
LEMMA GentleKeeps ==
    ASSUME AccountsInv, Gentle, NEW r, StillTrue(r)
    PROVE  StillTrue(r)'
<1>1. ASSUME r \in Deleting
      PROVE  users'[r.user].role \in {"deleted", "admin", "analyst"}
  <2>1. r.user \in User /\ users[r.user].role \in {"deleted", "admin", "analyst"}
    BY <1>1 DEF Deleting, StillTrue
  <2> QED BY <2>1 DEF Gentle
<1>2. ASSUME r \in Saving
      PROVE  /\ users'[r.user].role # "unused" /\ MayBecome(r.old.role, r.new.role)
             /\ \/ users'[r.user].role = "deleted"
                \/ users'[r.user].role = "super_admin" <=> r.old.role = "super_admin"
  <2>1. r.user \in User
    BY <1>2 DEF Saving
  <2>2. users[r.user].role \in {"super_admin", "admin", "analyst", "unused", "deleted"}
    BY <2>1, AccountShape DEF AccountsInv, Role
  <2>3. /\ users[r.user].role # "unused" /\ MayBecome(r.old.role, r.new.role)
        /\ \/ users[r.user].role = "deleted"
           \/ users[r.user].role = "super_admin" <=> r.old.role = "super_admin"
    BY <1>2 DEF StillTrue
  <2> QED BY <2>1, <2>2, <2>3 DEF Gentle
<1> QED BY <1>1, <1>2 DEF StillTrue

(* The same with no change of the accounts, and for one request's step.    *)
LEMMA RequestStep ==
    ASSUME AccountsInv, Gentle, NEW h \in Handler,
           NEW to \in {NoHandler} \cup Creating \cup Deleting \cup Saving, StillTrue(to)',
           handler' = [handler EXCEPT ![h] = to]
    PROVE  HandlerInv'
<1>1. handler' \in [Handler -> {NoHandler} \cup Creating \cup Deleting \cup Saving]
  BY DEF AccountsInv, HandlerInv
<1>2. ASSUME NEW g \in Handler PROVE StillTrue(handler[g])'
  <2>1. PICK r : r = handler'[g]
    OBVIOUS
  <2>2. r = to \/ r = handler[g]
    BY <2>1 DEF AccountsInv, HandlerInv
  <2>3. StillTrue(handler[g])
    BY DEF AccountsInv, HandlerInv
  <2>4. CASE r = to
    BY <2>1, <2>4 DEF StillTrue
  <2>5. CASE r = handler[g]
    <3>1. StillTrue(r)
      BY <2>3, <2>5
    <3>2. StillTrue(r)'
      BY <3>1, GentleKeeps
    <3> QED BY <2>1, <3>2 DEF StillTrue
  <2> QED BY <2>2, <2>4, <2>5
<1> QED BY <1>1, <1>2 DEF HandlerInv

LEMMA AccountsInitEstablishes == AccountsInit => AccountsInv
<1> SUFFICES ASSUME AccountsInit PROVE AccountsInv
  OBVIOUS
<1>1. users = [u \in User |-> Unused] /\ handler = [h \in Handler |-> NoHandler]
  BY DEF AccountsInit
<1>2. AccountsTypeOK
  BY <1>1 DEF AccountsTypeOK, Present, Unused, Role
<1> QED BY <1>1, <1>2, NoHandlerTrue DEF AccountsInv, HandlerInv

(* A request begins: it has checked what it will rely on.                  *)
LEMMA BeginStep ==
    ASSUME AccountsInv, NEW h \in Handler,
           SignupCounts(h) \/ AddFinds(h) \/ DeleteFinds(h) \/ UpdateFinds(h)
    PROVE  AccountsInv' /\ users' = users
<1>1. users' = users
  BY DEF SignupCounts, AddFinds, DeleteFinds, UpdateFinds
<1>2. Gentle
  BY <1>1 DEF Gentle
<1>3. AccountsTypeOK'
  BY <1>1 DEF AccountsInv, AccountsTypeOK, Present
<1>4. HandlerInv'
  <2>1. CASE SignupCounts(h) \/ AddFinds(h)
    <3>1. PICK to : to \in Creating /\ handler' = [handler EXCEPT ![h] = to]
      BY <2>1 DEF SignupCounts, AddFinds, Becomes, Creating
    <3>2. StillTrue(to)'
      BY <3>1 DEF StillTrue, Creating, Deleting, Saving
    <3> QED BY <1>2, <3>1, <3>2, RequestStep
  <2>2. CASE DeleteFinds(h)
    <3>1. PICK u \in User : /\ Present(u) /\ users[u].role # "super_admin"
                            /\ handler' = [handler EXCEPT ![h] = [pc |-> "delete", user |-> u]]
      BY <2>2 DEF DeleteFinds, Becomes
    <3> DEFINE to == [pc |-> "delete", user |-> u]
    <3>2. to \in Deleting /\ to \notin Saving
      BY DEF Deleting, Saving
    <3>3. users'[u].role \in {"admin", "analyst"}
      BY <1>1, <3>1 DEF Present, Role
    <3>4. StillTrue(to)'
      BY <3>2, <3>3 DEF StillTrue
    <3> HIDE DEF to
    <3>5. handler' = [handler EXCEPT ![h] = to]
      BY <3>1 DEF to
    <3> QED BY <1>2, <3>2, <3>4, <3>5, RequestStep
  <2>3. CASE UpdateFinds(h)
    <3>1. PICK u \in User, r \in Role, m \in Mail :
            /\ Present(u) /\ MayBecome(users[u].role, r)
            /\ handler' = [handler EXCEPT ![h] =
                 [pc |-> "save", user |-> u, old |-> users[u], new |-> [role |-> r, mail |-> m]]]
      BY <2>3 DEF UpdateFinds, Becomes
    <3> PICK to : to = [pc |-> "save", user |-> u, old |-> users[u], new |-> [role |-> r, mail |-> m]]
      OBVIOUS
    <3>2. users[u] \in Doc /\ users[u].role # "unused"
      BY <3>1, AccountShape DEF AccountsInv, Present, Role
    <3>3. to \in Saving /\ to \notin Deleting
      BY <3>2 DEF Deleting, Saving, Doc
    <3>4. StillTrue(to)'
      BY <1>1, <3>1, <3>2, <3>3 DEF StillTrue
    <3>5. handler' = [handler EXCEPT ![h] = to]
      BY <3>1
    <3> QED BY <1>2, <3>3, <3>4, <3>5, RequestStep
  <2> QED BY <2>1, <2>2, <2>3
<1> QED BY <1>1, <1>3, <1>4 DEF AccountsInv

(* One account changes, and no other one has its new e-mail.               *)
LEMMA OneAccount ==
    ASSUME AccountsTypeOK, NEW u \in User, NEW doc \in {Deleted} \cup Doc,
           users' = [users EXCEPT ![u] = doc],
           \A v \in User \ {u} : Present(v) /\ doc \in Doc => users[v].mail # doc.mail
    PROVE  AccountsTypeOK'
<1>1. users' \in [User -> {Unused, Deleted} \cup Doc]
  BY DEF AccountsTypeOK, Doc
<1>2. \A v \in User : users'[v] = IF v = u THEN doc ELSE users[v]
  BY DEF AccountsTypeOK
<1>3. Present(u)' => doc \in Doc
  BY <1>2 DEF Present, Deleted, Role
<1>4. \A v \in User \ {u} : Present(v)' <=> Present(v)
  BY <1>2 DEF Present
<1>5. ASSUME NEW v \in User, NEW w \in User, Present(v)', Present(w)', users'[v].mail = users'[w].mail
      PROVE  v = w
  <2>1. CASE v # u /\ w # u
    BY <1>2, <1>4, <1>5, <2>1 DEF AccountsTypeOK
  <2>2. CASE v = u \/ w = u
    BY <1>2, <1>3, <1>4, <1>5, <2>2
  <2> QED BY <2>1, <2>2
<1> QED BY <1>1, <1>5 DEF AccountsTypeOK, Doc

LEMMA NoSteps ==
    ASSUME users' = users
    PROVE  RootStep /\ ChangeAsked
BY DEF RootStep, ChangeAsked, Roots

(* A user is created, with the role of the request that asked for it.      *)
LEMMA CreateStep ==
    ASSUME AccountsInv, NEW h \in Handler, CreateUser(h)
    PROVE  AccountsInv' /\ RootStep /\ ChangeAsked
<1> PICK r : r = handler[h]
  OBVIOUS
<1>1. r \in Creating /\ handler' = [handler EXCEPT ![h] = NoHandler]
  BY HandlerShape DEF CreateUser, Becomes, AccountsInv
<1>2. r.role \in Role /\ r.mail \in Mail /\ (r.role = "super_admin" => r.by = "signup")
  BY <1>1 DEF Creating, Role
<1>3. handler'[h] = NoHandler
  BY <1>1 DEF AccountsInv, HandlerInv
<1>4. CASE users' = users
  <2>1. Gentle /\ AccountsTypeOK'
    BY <1>4 DEF Gentle, AccountsInv, AccountsTypeOK, Present
  <2>2. HandlerInv'
    BY <1>1, <2>1, NoHandlerTrue, RequestStep
  <2> QED BY <1>4, <2>1, <2>2, NoSteps DEF AccountsInv
<1>5. CASE users' # users
  <2> PICK doc : doc = [role |-> r.role, mail |-> r.mail]
    OBVIOUS
  <2>1. PICK u \in User : /\ users[u] = Unused /\ ~Taken(r.mail)
                          /\ users' = [users EXCEPT ![u] = doc]
    BY <1>5 DEF CreateUser
  <2>2. doc \in Doc /\ doc.mail = r.mail /\ doc.role = r.role
    BY <1>2 DEF Doc
  <2>3. users[u].role = "unused"
    BY <2>1 DEF Unused
  <2>4. AccountsTypeOK'
    <3>1. AccountsTypeOK /\ doc \in {Deleted} \cup Doc
      BY <2>2 DEF AccountsInv
    <3>2. \A v \in User \ {u} : Present(v) /\ doc \in Doc => users[v].mail # doc.mail
      BY <2>1, <2>2 DEF Taken
    <3> QED BY <2>1, <3>1, <3>2, OneAccount
  <2>5. \A v \in User : users'[v] = IF v = u THEN doc ELSE users[v]
    BY <2>1 DEF AccountsInv, AccountsTypeOK
  <2>6. Gentle
    BY <2>3, <2>5, AccountShape DEF Gentle, AccountsInv, Role
  <2>7. HandlerInv'
    BY <1>1, <2>6, NoHandlerTrue, RequestStep
  <2>8. RootStep
    <3>1. Roots \subseteq Roots'
      BY <2>6 DEF Gentle, Roots
    <3>2. ASSUME Roots' # Roots PROVE \E g \in SigningUp : handler'[g] = NoHandler
      <4>1. doc.role = "super_admin"
        BY <2>3, <2>5, <3>2 DEF Roots
      <4>2. r.by = "signup"
        BY <1>2, <2>2, <4>1
      <4>3. h \in SigningUp
        BY <4>2 DEF SigningUp, CreateUser
      <4> QED BY <1>3, <4>3
    <3> QED BY <3>1, <3>2 DEF RootStep
  <2>9. ChangeAsked
    <3>1. ~Present(u)
      BY <2>3 DEF Present, Role
    <3> QED BY <2>5, <3>1 DEF ChangeAsked
  <2> QED BY <2>4, <2>7, <2>8, <2>9 DEF AccountsInv
<1> QED BY <1>4, <1>5

(* Who is deleted is not the super administrator.                          *)
LEMMA DeleteStep ==
    ASSUME AccountsInv, NEW h \in Handler, DeleteOne(h)
    PROVE  AccountsInv' /\ RootStep /\ ChangeAsked
<1> PICK u : u = handler[h].user
  OBVIOUS
<1>1. handler[h] \in Deleting /\ handler' = [handler EXCEPT ![h] = NoHandler]
  BY HandlerShape DEF DeleteOne, Becomes, AccountsInv
<1>2. u \in User /\ users[u].role \in {"deleted", "admin", "analyst"}
  BY <1>1 DEF AccountsInv, HandlerInv, StillTrue, Deleting
<1>3. users' = [users EXCEPT ![u] = Deleted]
  BY DEF DeleteOne
<1>4. /\ \A v \in User : users'[v] = IF v = u THEN Deleted ELSE users[v]
      /\ Deleted.role = "deleted" /\ Deleted \notin Doc
  BY <1>3 DEF AccountsInv, AccountsTypeOK, Deleted, Doc, Role
<1>5. AccountsTypeOK'
  BY <1>2, <1>3, <1>4, OneAccount DEF AccountsInv
<1>6. Gentle
  BY <1>2, <1>4 DEF Gentle
<1>7. HandlerInv'
  BY <1>1, <1>6, NoHandlerTrue, RequestStep
<1>8. RootStep
  BY <1>2, <1>4 DEF RootStep, Roots
<1>9. ChangeAsked
  <2>1. ~Present(u)'
    BY <1>2, <1>4 DEF Present, Role
  <2> QED BY <1>4, <2>1 DEF ChangeAsked
<1> QED BY <1>5, <1>7, <1>8, <1>9 DEF AccountsInv

(* A save writes the fields that its request changes, and no others.       *)
LEMMA SaveStep ==
    ASSUME AccountsInv, NEW h \in Handler, SaveUser(h)
    PROVE  AccountsInv' /\ RootStep /\ ChangeAsked
<1> PICK u, old, new : u = handler[h].user /\ old = handler[h].old /\ new = handler[h].new
  OBVIOUS
<1>1. /\ handler[h] \in Saving /\ handler' = [handler EXCEPT ![h] = NoHandler]
      /\ handler[h].pc = "save"
  BY HandlerShape DEF SaveUser, Becomes, AccountsInv
<1>2. u \in User /\ old \in Doc /\ new \in Doc /\ handler'[h] = NoHandler
  BY <1>1 DEF Saving, AccountsInv, HandlerInv
<1>3. CASE users' = users
  <2>1. Gentle /\ AccountsTypeOK'
    BY <1>3 DEF Gentle, AccountsInv, AccountsTypeOK, Present
  <2>2. HandlerInv'
    BY <1>1, <2>1, NoHandlerTrue, RequestStep
  <2> QED BY <1>3, <2>1, <2>2, NoSteps DEF AccountsInv
<1>4. CASE users' # users
  <2> PICK doc : doc = Saved(users[u], old, new)
    OBVIOUS
  <2>1. /\ Present(u) /\ users' = [users EXCEPT ![u] = doc]
        /\ new.mail # old.mail => ~\E v \in User \ {u} : Present(v) /\ users[v].mail = new.mail
    BY <1>2, <1>4 DEF SaveUser, AccountsInv, AccountsTypeOK
  <2>2. users[u] \in Doc /\ users[u].role # "deleted"
    BY <1>2, <2>1, AccountShape DEF AccountsInv, Present, Role
  <2>3. /\ doc \in Doc
        /\ doc.role = IF new.role = old.role THEN users[u].role ELSE new.role
        /\ doc.mail = IF new.mail = old.mail THEN users[u].mail ELSE new.mail
    BY <1>2, <2>2 DEF Saved, Doc
  <2>4. /\ new.role = "super_admin" <=> old.role = "super_admin"
        /\ users[u].role = "super_admin" <=> old.role = "super_admin"
    BY <1>1, <2>2 DEF AccountsInv, HandlerInv, StillTrue, MayBecome
  <2>6. doc.role \in Role /\ (doc.role = "super_admin" <=> users[u].role = "super_admin")
    BY <2>3, <2>4 DEF Doc
  <2>7. \A v \in User : users'[v] = IF v = u THEN doc ELSE users[v]
    BY <2>1 DEF AccountsInv, AccountsTypeOK
  <2>8. AccountsTypeOK'
    <3>1. \A v \in User \ {u} : Present(v) /\ doc \in Doc => users[v].mail # doc.mail
      BY <1>2, <2>1, <2>3 DEF AccountsInv, AccountsTypeOK
    <3>2. AccountsTypeOK /\ u \in User /\ doc \in {Deleted} \cup Doc
      BY <1>2, <2>3 DEF AccountsInv
    <3>3. users' = [users EXCEPT ![u] = doc]
      BY <2>1
    <3> QED BY ZenonT(30), <3>1, <3>2, <3>3, OneAccount
  <2>9. Gentle
    BY <2>1, <2>6, <2>7 DEF Gentle, Present, Role
  <2>10. HandlerInv'
    BY <1>1, <2>9, NoHandlerTrue, RequestStep
  <2>11. RootStep
    BY <1>2, <2>6, <2>7 DEF RootStep, Roots
  <2>12. ChangeAsked
    <3>1. \A v \in User : users'[v] # users[v] => v = u
      BY <2>7
    <3>2. users'[u] = doc
      BY <1>2, <2>7
    <3> QED BY <1>1, <1>2, <2>3, <3>1, <3>2 DEF ChangeAsked
  <2> QED BY <2>8, <2>10, <2>11, <2>12 DEF AccountsInv
<1> QED BY <1>3, <1>4

LEMMA AccountsStep == AccountsInv /\ [AccountsNext]_accountVars => AccountsInv' /\ [RootStep /\ ChangeAsked]_accountVars
<1> SUFFICES ASSUME AccountsInv, [AccountsNext]_accountVars
             PROVE  AccountsInv' /\ [RootStep /\ ChangeAsked]_accountVars
  OBVIOUS
<1>1. CASE UNCHANGED accountVars
  BY <1>1 DEF accountVars, AccountsInv, AccountsTypeOK, Present, HandlerInv, StillTrue
<1>2. ASSUME NEW h \in Handler, SignupCounts(h) \/ AddFinds(h) \/ DeleteFinds(h) \/ UpdateFinds(h)
      PROVE  AccountsInv' /\ RootStep /\ ChangeAsked
  BY <1>2, BeginStep, NoSteps
<1>3. ASSUME NEW h \in Handler, CreateUser(h)
      PROVE  AccountsInv' /\ RootStep /\ ChangeAsked
  BY <1>3, CreateStep
<1>4. ASSUME NEW h \in Handler, DeleteOne(h)
      PROVE  AccountsInv' /\ RootStep /\ ChangeAsked
  BY <1>4, DeleteStep
<1>5. ASSUME NEW h \in Handler, SaveUser(h)
      PROVE  AccountsInv' /\ RootStep /\ ChangeAsked
  BY <1>5, SaveStep
<1> QED BY <1>1, <1>2, <1>3, <1>4, <1>5 DEF AccountsNext

(* The documents are well typed, and an e-mail address has one account     *)
(* (User.js, signup, addUser, updateUser).                                 *)
THEOREM AccountsTyped == AccountsSpec => []AccountsTypeOK
<1>1. AccountsInv => AccountsTypeOK
  BY DEF AccountsInv
<1> QED BY <1>1, AccountsInitEstablishes, AccountsStep, PTL DEF AccountsSpec

(* Nothing takes a super administrator away, and only a signup that had    *)
(* counted no accounts adds one (signup, deleteUser, updateUser).          *)
THEOREM RootIsThere == AccountsSpec => RootStays
<1>1. [RootStep /\ ChangeAsked]_accountVars => [RootStep]_accountVars
  OBVIOUS
<1> QED BY <1>1, AccountsInitEstablishes, AccountsStep, PTL
        DEF AccountsSpec, RootStays, RootStep

(* No update of an account is lost (updateUser).                           *)
THEOREM UpdatesKept == AccountsSpec => ChangesAreAsked
<1>1. [RootStep /\ ChangeAsked]_accountVars => [ChangeAsked]_accountVars
  OBVIOUS
<1> QED BY <1>1, AccountsInitEstablishes, AccountsStep, PTL
        DEF AccountsSpec, ChangesAreAsked

-------------------------------------------------------------------------------
(* The auto-approve setting.                                               *)

Calling == [by : {"toggle"}, pc : {"post", "posted", "late"}, value : BOOLEAN]
Writing == [pc : {"save"}, by : {"toggle"}, value : BOOLEAN, at : Nat, old : BOOLEAN]
Looking == [pc : {"create", "get"}, by : {"status"}, at : Nat, old : BOOLEAN,
            met : Nat, alone : BOOLEAN]
Mending == [pc : {"save"}, by : {"status"}, value : BOOLEAN, at : Nat, old : BOOLEAN,
            met : Nat, alone : BOOLEAN]
Requests == {NoRequest} \cup Calling \cup Writing \cup Looking \cup Mending

(* The requests that will add a document.                                  *)
Adds(r) == r.pc = "create" \/ (r.by = "toggle" /\ r.pc = "save" /\ r.at = New)
Adders == {c \in Caller : Adds(req[c])}

AutoTyped ==
    /\ flag \in BOOLEAN /\ trouble \in BOOLEAN /\ docs \in Seq(BOOLEAN)
    /\ req \in [Caller -> Requests]
    /\ \A c \in Caller : req[c].pc = "save" => req[c].at \in 0..Len(docs)
    /\ \A c \in Caller :
         req[c].by = "status" /\ req[c].pc # "create" => req[c].at \in 1..Len(docs)
    /\ Len(docs) + Cardinality(Adders) <= Cardinality(Caller)

(* A status that has been alone knows the setting as it is.                *)
AloneInv ==
    \A c \in Reads : req[c].alone =>
        /\ Alone(c) /\ req[c].met = 0 /\ req[c].old = Value
        /\ req[c].pc = "create" => docs = <<>>
        /\ req[c].pc # "create" => docs # <<>> /\ req[c].at = 1
        /\ req[c].pc = "save" => req[c].value = flag

(* With no trouble there is one toggle at most, and the document is the    *)
(* flag until the agent is called; from then on nobody who may still write *)
(* it, and has not seen two toggles, writes anything but the flag.         *)
ToggleCalm(t) ==
    /\ req[t].pc # "late"
    /\ req[t].pc = "post" => Value = flag
    /\ req[t].pc \in {"posted", "save"} => req[t].value = flag
    /\ req[t].pc = "save" =>
        /\ req[t].at = New => docs = <<>> /\ Reads = {}
        /\ req[t].at # New => docs # <<>> /\ req[t].at = 1
        /\ req[t].old = req[t].value => Value = req[t].value
    /\ \A c \in Reads : req[c].met >= 1

ReadCalm(c) ==
    /\ req[c].pc = "create" => docs = <<>>
    /\ req[c].pc # "create" => docs # <<>> /\ req[c].at = 1
    /\ req[c].met = 0 \/ (req[c].met = 1 /\ \E t \in Toggles : req[t].pc = "post") =>
        req[c].pc # "save" /\ req[c].old = flag
    /\ req[c].met = 1 /\ req[c].pc = "save" => req[c].value = flag

Calm ==
    /\ \A s, t \in Toggles : s = t
    /\ \A t \in Toggles : ToggleCalm(t)
    /\ \A c \in Reads : ReadCalm(c)
    /\ Toggles = {} => Value = flag
    /\ docs = <<>> => \A c, d \in Reads : c = d

AutoInv == AutoTyped /\ AloneInv /\ (~trouble => Calm)

(* What a request may be.                                                  *)
LEMMA RequestShape ==
    ASSUME AutoTyped, NEW c \in Caller
    PROVE  /\ req[c] \in Requests
           /\ req[c] = NoRequest <=> req[c].by = "none"
           /\ req[c].pc \in {"post", "posted", "late"} <=> req[c] \in Calling
           /\ req[c].pc \in {"create", "get"} <=> req[c] \in Looking
           /\ req[c].pc = "save" /\ req[c].by = "toggle" <=> req[c] \in Writing
           /\ req[c].pc = "save" /\ req[c].by = "status" <=> req[c] \in Mending
           /\ c \in Toggles <=> req[c] \in Calling \cup Writing
           /\ c \in Reads <=> req[c] \in Looking \cup Mending
<1>1. req[c] \in Requests
  BY DEF AutoTyped
<1>2. CASE req[c] = NoRequest
  BY <1>2 DEF NoRequest, Requests, Calling, Writing, Looking, Mending, Toggles, Reads
<1>3. CASE req[c] \in Calling
  BY <1>3 DEF NoRequest, Requests, Calling, Writing, Looking, Mending, Toggles, Reads
<1>4. CASE req[c] \in Writing
  BY <1>4 DEF NoRequest, Requests, Calling, Writing, Looking, Mending, Toggles, Reads
<1>5. CASE req[c] \in Looking
  BY <1>5 DEF NoRequest, Requests, Calling, Writing, Looking, Mending, Toggles, Reads
<1>6. CASE req[c] \in Mending
  BY <1>6 DEF NoRequest, Requests, Calling, Writing, Looking, Mending, Toggles, Reads
<1> QED BY <1>1, <1>2, <1>3, <1>4, <1>5, <1>6 DEF Requests

(* The document that findOne returns.                                      *)
LEMMA ValueShape ==
    ASSUME docs \in Seq(BOOLEAN)
    PROVE  /\ docs = <<>> => Value = FALSE /\ Found = New /\ Len(docs) = 0
           /\ docs # <<>> => Value = docs[1] /\ Found = 1 /\ Len(docs) >= 1
           /\ Value \in BOOLEAN /\ Found \in 0..Len(docs)
<1>1. docs # <<>> => Len(docs) \in Nat \ {0}
  OBVIOUS
<1>2. CASE docs = <<>>
  BY <1>2 DEF Value, Found, New
<1>3. CASE docs # <<>>
  <2>1. docs[1] \in BOOLEAN
    BY <1>1, <1>3
  <2> QED BY <1>1, <1>3, <2>1 DEF Value, Found, New
<1> QED BY <1>2, <1>3

(* A write of a document that is there, or a new one.                      *)
LEMMA WriteShape ==
    ASSUME docs \in Seq(BOOLEAN), NEW v \in BOOLEAN, NEW i \in 1..Len(docs)
    PROVE  LET new == [docs EXCEPT ![i] = v]
           IN /\ new \in Seq(BOOLEAN) /\ Len(new) = Len(docs) /\ new # <<>>
              /\ i = 1 => new[1] = v
<1>1. /\ [docs EXCEPT ![i] = v] \in Seq(BOOLEAN) /\ Len([docs EXCEPT ![i] = v]) = Len(docs)
      /\ [docs EXCEPT ![i] = v][i] = v
  BY ExceptSeq
<1>2. [docs EXCEPT ![i] = v] # <<>>
  BY <1>1, EmptySeq
<1> QED BY <1>1, <1>2

LEMMA AppendShape ==
    ASSUME docs \in Seq(BOOLEAN), NEW v \in BOOLEAN
    PROVE  /\ Append(docs, v) \in Seq(BOOLEAN) /\ Len(Append(docs, v)) = Len(docs) + 1
           /\ Append(docs, v) # <<>>
           /\ docs = <<>> => Append(docs, v)[1] = v
           /\ docs # <<>> => Append(docs, v)[1] = docs[1]
<1>1. /\ Append(docs, v) \in Seq(BOOLEAN) /\ Len(Append(docs, v)) = Len(docs) + 1
      /\ Append(docs, v) # <<>>
      /\ \A i \in 1..Len(docs) : Append(docs, v)[i] = docs[i]
      /\ Append(docs, v)[Len(docs) + 1] = v
  BY AppendProperties
<1>2. Len(docs) \in Nat /\ (docs # <<>> => Len(docs) >= 1) /\ (docs = <<>> => Len(docs) = 0)
  OBVIOUS
<1> QED BY <1>1, <1>2

(* There are no more documents than there may be first requests.           *)
LEMMA AddersCount ==
    ASSUME AutoTyped, docs' \in Seq(BOOLEAN), DOMAIN req' = Caller,
           \/ Len(docs') = Len(docs) /\ Adders' \subseteq Adders
           \/ Len(docs') = 0 /\ Adders' \subseteq Caller
           \/ \E c \in Adders : Len(docs') = Len(docs) + 1 /\ Adders' \subseteq Adders \ {c}
    PROVE  Len(docs') + Cardinality(Adders') <= Cardinality(Caller)
<1>1. IsFiniteSet(Caller) /\ Adders \subseteq Caller /\ Adders' \subseteq Caller
  BY CallerAssumption DEF Adders
<1>2. IsFiniteSet(Adders) /\ IsFiniteSet(Adders')
  BY <1>1, FS_Subset
<1>3. /\ Cardinality(Caller) \in Nat /\ Cardinality(Adders) \in Nat /\ Cardinality(Adders') \in Nat
      /\ Len(docs) \in Nat /\ Len(docs) + Cardinality(Adders) <= Cardinality(Caller)
  BY <1>1, <1>2, FS_CardinalityType DEF AutoTyped
<1>4. CASE Len(docs') = Len(docs) /\ Adders' \subseteq Adders
  <2>1. Cardinality(Adders') <= Cardinality(Adders)
    BY <1>2, <1>4, FS_Subset
  <2> QED BY <1>3, <1>4, <2>1
<1>5. CASE Len(docs') = 0
  <2>1. Cardinality(Adders') <= Cardinality(Caller)
    BY <1>1, FS_Subset
  <2> QED BY <1>3, <1>5, <2>1
<1>6. CASE \E c \in Adders : Len(docs') = Len(docs) + 1 /\ Adders' \subseteq Adders \ {c}
  <2>1. PICK c \in Adders : Len(docs') = Len(docs) + 1 /\ Adders' \subseteq Adders \ {c}
    BY <1>6
  <2>2. IsFiniteSet(Adders \ {c}) /\ Cardinality(Adders \ {c}) = Cardinality(Adders) - 1
    BY <1>2, FS_RemoveElement
  <2>3. Cardinality(Adders') <= Cardinality(Adders \ {c})
    BY <2>1, <2>2, FS_Subset
  <2> QED BY <1>3, <2>1, <2>2, <2>3
<1> QED BY <1>4, <1>5, <1>6

(* A request moves on.                                                     *)
LEMMA OneMoves ==
    ASSUME AutoTyped, NEW c \in Caller, NEW to \in Requests, req' = [req EXCEPT ![c] = to]
    PROVE  /\ req' \in [Caller -> Requests]
           /\ \A d \in Caller : req'[d] = IF d = c THEN to ELSE req[d]
           /\ \A d \in Caller : d \in Toggles' <=> IF d = c THEN to.by = "toggle" ELSE d \in Toggles
           /\ \A d \in Caller : d \in Reads' <=> IF d = c THEN to.by = "status" ELSE d \in Reads
           /\ \A d \in Caller : d \in Adders' <=> IF d = c THEN Adds(to) ELSE d \in Adders
<1>1. /\ req' \in [Caller -> Requests]
      /\ \A d \in Caller : req'[d] = IF d = c THEN to ELSE req[d]
  BY DEF AutoTyped
<1>2. /\ \A d \in Caller : d \in Toggles' <=> req'[d].by = "toggle"
      /\ \A d \in Caller : d \in Toggles <=> req[d].by = "toggle"
      /\ \A d \in Caller : d \in Reads' <=> req'[d].by = "status"
      /\ \A d \in Caller : d \in Reads <=> req[d].by = "status"
  BY DEF Toggles, Reads
<1>3. \A d \in Caller : d \in Adders' <=> IF d = c THEN Adds(to) ELSE d \in Adders
  BY <1>1 DEF Adders, Adds
<1> QED BY <1>1, <1>2, <1>3

(* A request moves on and the rest stays well typed.                       *)
LEMMA MoveTyped ==
    ASSUME AutoTyped, NEW c \in Caller, NEW to \in Requests, req' = [req EXCEPT ![c] = to],
           flag' \in BOOLEAN, trouble' \in BOOLEAN, docs' \in Seq(BOOLEAN),
           Len(docs') >= Len(docs),
           to.pc = "save" => to.at \in 0..Len(docs'),
           to.by = "status" /\ to.pc # "create" => to.at \in 1..Len(docs'),
           \/ Len(docs') = Len(docs) /\ (Adds(to) => Adds(req[c]))
           \/ Len(docs') = 0
           \/ Adds(req[c]) /\ ~Adds(to) /\ Len(docs') = Len(docs) + 1
    PROVE  AutoTyped'
<1>1. /\ req' \in [Caller -> Requests]
      /\ \A d \in Caller : req'[d] = IF d = c THEN to ELSE req[d]
      /\ \A d \in Caller : d \in Adders' <=> IF d = c THEN Adds(to) ELSE d \in Adders
      /\ Adders \subseteq Caller /\ Adders' \subseteq Caller /\ (c \in Adders <=> Adds(req[c]))
  BY OneMoves DEF Adders
<1>2. Len(docs') + Cardinality(Adders') <= Cardinality(Caller)
  <2>1. CASE Len(docs') = Len(docs) /\ (Adds(to) => Adds(req[c]))
    <3>1. Adders' \subseteq Adders
      BY <1>1, <2>1
    <3> QED BY <1>1, <2>1, <3>1, AddersCount
  <2>2. CASE Len(docs') = 0
    BY <1>1, <2>2, AddersCount
  <2>3. CASE Adds(req[c]) /\ ~Adds(to) /\ Len(docs') = Len(docs) + 1
    <3>1. c \in Adders /\ Adders' \subseteq Adders \ {c}
      BY <1>1, <2>3
    <3> QED BY <1>1, <2>3, <3>1, AddersCount
  <2> QED BY <2>1, <2>2, <2>3
<1>3. \A d \in Caller :
        /\ req'[d].pc = "save" => req'[d].at \in 0..Len(docs')
        /\ req'[d].by = "status" /\ req'[d].pc # "create" => req'[d].at \in 1..Len(docs')
  <2>1. Len(docs) \in Nat /\ Len(docs') \in Nat
    BY DEF AutoTyped
  <2> SUFFICES ASSUME NEW d \in Caller
               PROVE  /\ req'[d].pc = "save" => req'[d].at \in 0..Len(docs')
                      /\ req'[d].by = "status" /\ req'[d].pc # "create" =>
                           req'[d].at \in 1..Len(docs')
    OBVIOUS
  <2>2. CASE d = c
    BY <1>1, <2>2
  <2>3. CASE d # c
    <3>1. /\ req[d].pc = "save" => req[d].at \in 0..Len(docs)
          /\ req[d].by = "status" /\ req[d].pc # "create" => req[d].at \in 1..Len(docs)
      BY DEF AutoTyped
    <3> QED BY <1>1, <2>1, <2>3, <3>1
  <2> QED BY <2>2, <2>3
<1> QED BY <1>1, <1>2, <1>3 DEF AutoTyped

LEMMA MoveSame ==
    ASSUME AutoTyped, NEW c \in Caller, NEW to \in Requests, req' = [req EXCEPT ![c] = to],
           flag' \in BOOLEAN, trouble' \in BOOLEAN, docs' = docs,
           to.pc = "save" => to.at \in 0..Len(docs),
           to.by = "status" /\ to.pc # "create" => to.at \in 1..Len(docs),
           Adds(to) => Adds(req[c]) \/ docs = <<>>
    PROVE  AutoTyped'
<1>1. /\ docs' \in Seq(BOOLEAN) /\ Len(docs') = Len(docs) /\ Len(docs') >= Len(docs)
      /\ docs = <<>> => Len(docs') = 0
  BY DEF AutoTyped
<1>2. \/ Len(docs') = Len(docs) /\ (Adds(to) => Adds(req[c]))
      \/ Len(docs') = 0
      \/ Adds(req[c]) /\ ~Adds(to) /\ Len(docs') = Len(docs) + 1
  BY <1>1
<1>3. /\ to.pc = "save" => to.at \in 0..Len(docs')
      /\ to.by = "status" /\ to.pc # "create" => to.at \in 1..Len(docs')
  BY <1>1
<1> QED BY <1>1, <1>2, <1>3, MoveTyped

LEMMA NoRequestShape ==
    NoRequest \in Requests /\ NoRequest.by = "none" /\ NoRequest.pc = "none" /\ ~Adds(NoRequest)
BY DEF NoRequest, Requests, Adds

LEMMA LeaveTyped ==
    ASSUME AutoTyped, NEW c \in Caller, req' = [req EXCEPT ![c] = NoRequest],
           flag' \in BOOLEAN, trouble' \in BOOLEAN, docs' = docs
    PROVE  AutoTyped'
<1>1. PICK to \in Requests : to = NoRequest
  BY NoRequestShape
<1>2. /\ req' = [req EXCEPT ![c] = to]
      /\ to.pc = "save" => to.at \in 0..Len(docs)
      /\ to.by = "status" /\ to.pc # "create" => to.at \in 1..Len(docs)
      /\ Adds(to) => Adds(req[c]) \/ docs = <<>>
  BY <1>1, NoRequestShape
<1> QED BY <1>2, MoveSame

(* A status that has been alone has seen no toggle.                        *)
LEMMA ToggleNotAlone ==
    ASSUME AutoInv, Toggles # {}, NEW c \in Reads
    PROVE  ~req[c].alone
<1>1. PICK t \in Toggles : TRUE
  OBVIOUS
<1>2. t # c
  BY DEF Toggles, Reads
<1> QED BY <1>1, <1>2 DEF AutoInv, AloneInv, Alone

LEMMA AutoInitEstablishes == AutoInit => AutoInv
<1> SUFFICES ASSUME AutoInit PROVE AutoInv
  OBVIOUS
<1>1. /\ flag = FALSE /\ docs = <<>> /\ trouble = FALSE
      /\ req = [c \in Caller |-> NoRequest]
  BY DEF AutoInit
<1>2. \A c \in Caller : req[c].pc = "none" /\ req[c].by = "none"
  BY <1>1 DEF NoRequest
<1>3. Toggles = {} /\ Reads = {} /\ Adders = {}
  BY <1>2 DEF Toggles, Reads, Adders, Adds
<1>4. Len(docs) + Cardinality(Adders) <= Cardinality(Caller)
  <2>1. Cardinality(Adders) = 0 /\ Cardinality(Caller) \in Nat
    BY <1>3, FS_EmptySet, FS_CardinalityType, CallerAssumption
  <2>2. Len(docs) = 0
    BY <1>1
  <2> QED BY <2>1, <2>2
<1>5. AutoTyped
  <2>1. docs \in Seq(BOOLEAN)
    BY <1>1
  <2>2. req \in [Caller -> Requests]
    BY <1>1 DEF Requests
  <2> QED BY <1>1, <1>2, <1>4, <2>1, <2>2 DEF AutoTyped
<1>6. Value = flag
  BY <1>1 DEF Value
<1> QED BY <1>3, <1>5, <1>6 DEF AutoInv, AloneInv, Calm

(* A toggle begins: every status has seen it.                              *)
LEMMA ToggleBeginsStep ==
    ASSUME AutoInv, NEW c \in Caller, ToggleBegins(c)
    PROVE  AutoInv'
<1>1. PICK v \in BOOLEAN :
        req' = [d \in Caller |->
                  IF d = c THEN Posting("post", v)
                  ELSE IF d \in Reads
                  THEN [req[d] EXCEPT !.met = IF @ < 2 THEN @ + 1 ELSE @, !.alone = FALSE]
                  ELSE req[d]]
  BY DEF ToggleBegins
<1>2. /\ flag' = flag /\ docs' = docs /\ Value' = Value
      /\ trouble' = (trouble \/ Toggles # {})
      /\ req[c].by = "none" /\ req[c].pc = "none"
  <2>1. Value' = Value
    BY DEF ToggleBegins, Value
  <2>2. /\ req[c] = NoRequest /\ flag' = flag /\ docs' = docs
        /\ trouble' = (trouble \/ Toggles # {})
    BY Zenon DEF ToggleBegins
  <2>3. req[c].by = "none" /\ req[c].pc = "none"
    BY <2>2 DEF NoRequest
  <2> QED BY Zenon, <2>1, <2>2, <2>3
<1>3. AutoTyped
  BY DEF AutoInv
<1>4. /\ req'[c] \in Calling /\ req'[c].by = "toggle"
      /\ req'[c].pc = "post" /\ req'[c].value = v
  BY <1>1 DEF Calling, Posting
<1>5. ASSUME NEW d \in Caller, d # c, d \in Reads
      PROVE  /\ req'[d] \in Looking \cup Mending
             /\ req'[d].by = "status" /\ req'[d].pc = req[d].pc
             /\ req'[d].at = req[d].at /\ req'[d].old = req[d].old
             /\ req[d].pc = "save" => req'[d].value = req[d].value
             /\ req[d].met \in Nat /\ ~req'[d].alone
             /\ req'[d].met = IF req[d].met < 2 THEN req[d].met + 1 ELSE req[d].met
  <2>1. req'[d] = [req[d] EXCEPT !.met = IF @ < 2 THEN @ + 1 ELSE @, !.alone = FALSE]
    BY <1>1, <1>5
  <2>2. req[d] \in Looking \/ req[d] \in Mending
    BY <1>3, <1>5, RequestShape
  <2>3. CASE req[d] \in Looking
    <3>1. req[d].met \in Nat /\ (IF req[d].met < 2 THEN req[d].met + 1 ELSE req[d].met) \in Nat
      BY <2>3 DEF Looking
    <3>2. PICK m \in Nat : m = IF req[d].met < 2 THEN req[d].met + 1 ELSE req[d].met
      BY <3>1
    <3>3. req'[d] = [req[d] EXCEPT !.met = m, !.alone = FALSE]
      BY <2>1, <3>2
    <3>4. req'[d] \in Looking
      BY <2>3, <3>3 DEF Looking
    <3>5. /\ req'[d].by = "status" /\ req'[d].pc = req[d].pc /\ req'[d].at = req[d].at
          /\ req'[d].old = req[d].old /\ req'[d].met = m /\ ~req'[d].alone
          /\ req[d].pc = "save" => req'[d].value = req[d].value
      BY <2>3, <3>3 DEF Looking
    <3> QED BY <3>1, <3>2, <3>4, <3>5
  <2>4. CASE req[d] \in Mending
    <3>1. req[d].met \in Nat /\ (IF req[d].met < 2 THEN req[d].met + 1 ELSE req[d].met) \in Nat
      BY <2>4 DEF Mending
    <3>2. PICK m \in Nat : m = IF req[d].met < 2 THEN req[d].met + 1 ELSE req[d].met
      BY <3>1
    <3>3. req'[d] = [req[d] EXCEPT !.met = m, !.alone = FALSE]
      BY <2>1, <3>2
    <3>4. req'[d] \in Mending
      BY <2>4, <3>3 DEF Mending
    <3>5. /\ req'[d].by = "status" /\ req'[d].pc = req[d].pc /\ req'[d].at = req[d].at
          /\ req'[d].old = req[d].old /\ req'[d].met = m /\ ~req'[d].alone
          /\ req[d].pc = "save" => req'[d].value = req[d].value
      BY <2>4, <3>3 DEF Mending
    <3> QED BY <3>1, <3>2, <3>4, <3>5
  <2> QED BY <2>2, <2>3, <2>4
<1>6. ASSUME NEW d \in Caller, d # c, d \notin Reads
      PROVE  req'[d] = req[d]
  BY <1>1, <1>6
<1>7. /\ \A d \in Caller : d \in Toggles' <=> d = c \/ d \in Toggles
      /\ \A d \in Caller : d \in Reads' <=> d # c /\ d \in Reads
      /\ c \notin Reads /\ c \notin Toggles
      /\ Toggles \subseteq Caller /\ Reads \subseteq Caller
      /\ Toggles' \subseteq Caller /\ Reads' \subseteq Caller
  BY <1>2, <1>4, <1>5, <1>6 DEF Toggles, Reads
<1>8. AutoTyped'
  <2>1. req' \in [Caller -> Requests]
    <3>1. \A d \in Caller : req'[d] \in Requests
      BY <1>3, <1>4, <1>5, <1>6, RequestShape DEF Requests
    <3> QED BY <1>1, <3>1
  <2>2. \A d \in Caller : Adds(req'[d]) => Adds(req[d])
    BY <1>4, <1>5, <1>6 DEF Adds, Reads
  <2>3. Adders' \subseteq Adders
    BY <2>2 DEF Adders, Adds
  <2>4. Len(docs') + Cardinality(Adders') <= Cardinality(Caller)
    <3>1. Len(docs') = Len(docs) /\ docs' \in Seq(BOOLEAN) /\ DOMAIN req' = Caller
      BY <1>2, <1>3, <2>1 DEF AutoTyped
    <3> QED BY <1>3, <2>3, <3>1, AddersCount
  <2>5. \A d \in Caller : /\ req'[d].pc = "save" => req'[d].at \in 0..Len(docs)
                          /\ req'[d].by = "status" /\ req'[d].pc # "create" =>
                               req'[d].at \in 1..Len(docs)
    BY <1>3, <1>4, <1>5, <1>6 DEF AutoTyped, Reads
  <2> QED BY <1>2, <1>3, <2>1, <2>4, <2>5 DEF AutoTyped
<1>9. AloneInv'
  BY <1>5, <1>7 DEF AloneInv
<1>10. ASSUME ~trouble' PROVE Calm'
  <2>1. Calm /\ Toggles = {}
    BY <1>2, <1>10 DEF AutoInv
  <2>2. \A t \in Toggles' : t = c
    BY <1>7, <2>1
  <2>3. \A d \in Reads' : req'[d].met >= 1
    BY <1>5, <1>7
  <2>4. ToggleCalm(c)'
    BY <1>2, <1>4, <2>1, <2>3 DEF Calm, ToggleCalm
  <2>5. ASSUME NEW d \in Reads' PROVE ReadCalm(d)'
    <3>1. d \in Caller /\ d # c /\ d \in Reads /\ ReadCalm(d)
      BY <1>7, <2>1, <2>5 DEF Calm
    <3> QED BY <1>2, <1>5, <2>1, <3>1 DEF ReadCalm, Calm
  <2>6. docs' = <<>> => \A d, e \in Reads' : d = e
    BY <1>2, <1>7, <2>1 DEF Calm
  <2>7. c \in Toggles'
    BY <1>7
  <2>8. \A t \in Toggles' : ToggleCalm(t)'
    BY <2>2, <2>4
  <2> QED BY <2>2, <2>5, <2>6, <2>7, <2>8 DEF Calm
<1> QED BY <1>8, <1>9, <1>10 DEF AutoInv

(* The agent takes the new setting.                                        *)
LEMMA AgentSetsStep ==
    ASSUME AutoInv, NEW c \in Caller, AgentSets(c)
    PROVE  AutoInv'
<1>1. AutoTyped /\ req[c] \in Calling /\ req[c].pc = "post" /\ c \in Toggles
  BY RequestShape DEF AgentSets, AutoInv
<1>2. PICK v \in BOOLEAN : v = req[c].value
  BY <1>1 DEF Calling
<1>3. PICK to \in Calling : /\ to = Posting("posted", v) /\ to.by = "toggle" /\ to.pc = "posted"
                            /\ to.value = v /\ ~Adds(to)
  <2>1. Posting("posted", v) \in Calling
    BY DEF Calling, Posting
  <2>2. /\ Posting("posted", v).by = "toggle" /\ Posting("posted", v).pc = "posted"
        /\ Posting("posted", v).value = v
    BY DEF Posting
  <2>3. ~Adds(Posting("posted", v))
    BY <2>2 DEF Adds
  <2> QED BY <2>1, <2>2, <2>3
<1>4. /\ req' = [req EXCEPT ![c] = to] /\ to \in Requests
      /\ flag' = v /\ docs' = docs /\ Value' = Value /\ trouble' = trouble
  BY <1>2, <1>3 DEF AgentSets, Goes, Value, Requests
<1>5. /\ req' \in [Caller -> Requests]
      /\ \A d \in Caller : req'[d] = IF d = c THEN to ELSE req[d]
      /\ \A d \in Caller : d \in Toggles' <=> d \in Toggles
      /\ \A d \in Caller : d \in Reads' <=> d # c /\ d \in Reads
      /\ \A d \in Caller : d \in Adders' => d \in Adders
      /\ Toggles' \subseteq Caller /\ Reads' \subseteq Caller
      /\ Toggles \subseteq Caller /\ Reads \subseteq Caller
      /\ c \notin Reads
  BY ZenonT(30), <1>1, <1>3, <1>4, OneMoves DEF Toggles, Reads
<1>6. AutoTyped'
  <2>1. Len(docs') + Cardinality(Adders') <= Cardinality(Caller)
    <3>1. Adders' \subseteq Adders
      BY <1>5 DEF Adders
    <3>2. Len(docs') = Len(docs) /\ docs' \in Seq(BOOLEAN) /\ DOMAIN req' = Caller
      BY <1>1, <1>4, <1>5 DEF AutoTyped
    <3> QED BY <1>1, <3>1, <3>2, AddersCount
  <2> QED BY <1>1, <1>3, <1>4, <1>5, <2>1 DEF AutoTyped
<1>7. AloneInv'
  <2> SUFFICES ASSUME NEW d \in Reads', req'[d].alone PROVE FALSE
    BY DEF AloneInv
  <2>1. d \in Reads /\ d # c /\ req[d].alone
    BY <1>5
  <2>2. Alone(d)
    BY <2>1 DEF AutoInv, AloneInv
  <2> QED BY <1>1, <2>1, <2>2 DEF Alone
<1>8. ASSUME ~trouble' PROVE Calm'
  <2>1. Calm /\ Toggles = {c} /\ ToggleCalm(c)
    BY <1>1, <1>4, <1>8 DEF AutoInv, Calm
  <2>2. Toggles' = {c}
    BY <1>5, <2>1
  <2>3. ToggleCalm(c)'
    BY <1>3, <1>4, <1>5, <2>1 DEF ToggleCalm
  <2>4. ASSUME NEW d \in Reads' PROVE ReadCalm(d)'
    <3>1. d \in Caller /\ d # c /\ d \in Reads /\ ReadCalm(d) /\ req'[d] = req[d] /\ req[d].met >= 1
      BY <1>5, <2>1, <2>4 DEF Calm, ToggleCalm
    <3>2. req[d].met = 1 => req[d].pc # "save"
      BY <1>1, <3>1 DEF ReadCalm
    <3>3. ~(req'[d].met = 0) /\ ~(\E t \in Toggles' : req'[t].pc = "post")
      BY <1>3, <1>5, <2>2, <3>1, RequestShape, <1>1 DEF Looking, Mending
    <3> QED BY <1>4, <3>1, <3>2, <3>3 DEF ReadCalm
  <2>5. docs' = <<>> => \A d, e \in Reads' : d = e
    BY <1>4, <1>5, <2>1 DEF Calm
  <2> QED BY <2>2, <2>3, <2>4, <2>5 DEF Calm
<1> QED BY <1>6, <1>7, <1>8 DEF AutoInv

(* A request ends, and nothing else changes.                               *)
LEMMA LeaveStep ==
    ASSUME AutoInv, NEW c \in Caller, req' = [req EXCEPT ![c] = NoRequest],
           flag' = flag, docs' = docs, trouble' \in BOOLEAN
    PROVE  /\ AutoTyped' /\ AloneInv' /\ (Calm /\ c \notin Toggles => Calm')
           /\ Toggles' = Toggles \ {c} /\ Reads' = Reads \ {c} /\ Value' = Value
<1>1. /\ \A d \in Caller : req'[d] = IF d = c THEN NoRequest ELSE req[d]
      /\ Toggles' = Toggles \ {c} /\ Reads' = Reads \ {c}
      /\ Toggles \subseteq Caller /\ Reads \subseteq Caller /\ Value' = Value
  <2>1. AutoTyped /\ Value' = Value
    BY DEF AutoInv, Value
  <2>2. Toggles \subseteq Caller /\ Reads \subseteq Caller /\ Toggles' \subseteq Caller /\ Reads' \subseteq Caller
    BY DEF Toggles, Reads
  <2> QED BY <2>1, <2>2, OneMoves, NoRequestShape
<1>2. AutoTyped'
  <2>1. AutoTyped /\ flag' \in BOOLEAN
    BY DEF AutoInv, AutoTyped
  <2> QED BY <2>1, LeaveTyped
<1>3. AloneInv'
  BY <1>1 DEF AutoInv, AloneInv, Alone
<1>4. ASSUME Calm, c \notin Toggles PROVE Calm'
  <2>1. Toggles' = Toggles /\ \A t \in Toggles : req'[t] = req[t]
    BY <1>1, <1>4
  <2>2. ASSUME NEW t \in Toggles PROVE ToggleCalm(t)'
    <3>1. ToggleCalm(t) /\ req'[t] = req[t] /\ \A d \in Reads' : req'[d] = req[d]
      BY <1>1, <1>4, <2>1 DEF Calm
    <3> QED BY <1>1, <3>1 DEF ToggleCalm
  <2>3. ASSUME NEW d \in Reads' PROVE ReadCalm(d)'
    <3>1. ReadCalm(d) /\ req'[d] = req[d]
      BY <1>1, <1>4 DEF Calm
    <3> QED BY <2>1, <3>1 DEF ReadCalm
  <2> QED BY <1>1, <1>4, <2>1, <2>2, <2>3 DEF Calm
<1> QED BY <1>1, <1>2, <1>3, <1>4

(* The call of the agent failed, or will be served late: trouble.          *)
LEMMA ToggleFailsStep ==
    ASSUME AutoInv, NEW c \in Caller, ToggleFails(c)
    PROVE  AutoInv'
<1>1. AutoTyped /\ req[c] \in Calling /\ c \in Toggles
  BY RequestShape DEF ToggleFails, AutoInv
<1>2. flag' = flag /\ docs' = docs /\ trouble' = TRUE
  BY DEF ToggleFails
<1>3. CASE req[c].pc # "post"
  <2>1. req' = [req EXCEPT ![c] = NoRequest]
    BY <1>3 DEF ToggleFails, Goes
  <2> QED BY <1>2, <2>1, LeaveStep DEF AutoInv
<1>4. CASE req[c].pc = "post"
  <2>1. PICK v \in BOOLEAN : v = req[c].value
    BY <1>1 DEF Calling
  <2>2. PICK to : to = Posting("late", v)
    OBVIOUS
  <2>3. to \in Requests /\ to.by = "toggle" /\ to.pc = "late"
    BY <2>2 DEF Posting, Calling, Requests
  <2>4. ~Adds(to) /\ req' = [req EXCEPT ![c] = to]
    BY <1>4, <2>1, <2>2, <2>3 DEF ToggleFails, Goes, Adds
  <2>5. flag' \in BOOLEAN /\ trouble' \in BOOLEAN /\ docs' = docs
    BY <1>1, <1>2 DEF AutoTyped
  <2>6. AutoTyped'
    BY <1>1, <2>3, <2>4, <2>5, MoveSame
  <2>7. ASSUME NEW d \in Reads' PROVE ~req'[d].alone
    <3>1. d \in Reads /\ req'[d] = req[d]
      BY <1>1, <2>3, <2>4, <2>7, OneMoves DEF Reads
    <3> QED BY <1>1, <3>1, ToggleNotAlone
  <2> QED BY <1>2, <2>6, <2>7 DEF AutoInv, AloneInv
<1> QED BY <1>3, <1>4

(* A late call is served, or not: there was trouble before.                *)
LEMMA LateCallStep ==
    ASSUME AutoInv, NEW c \in Caller, LateCall(c)
    PROVE  AutoInv'
<1>1. AutoTyped /\ req[c] \in Calling /\ c \in Toggles /\ req[c].value \in BOOLEAN
  BY RequestShape DEF LateCall, AutoInv, Calling
<1>2. /\ req' = [req EXCEPT ![c] = NoRequest] /\ flag' \in BOOLEAN
      /\ docs' = docs /\ trouble' = trouble
  BY <1>1 DEF LateCall, Goes, AutoTyped
<1>3. trouble
  BY <1>1 DEF LateCall, AutoInv, Calm, ToggleCalm
<1>4. docs \in Seq(BOOLEAN) /\ Len(docs) \in Nat /\ trouble \in BOOLEAN
  BY <1>1 DEF AutoTyped
<1>5. AutoTyped'
  BY <1>1, <1>2, <1>4, LeaveTyped
<1>6. ASSUME NEW d \in Reads' PROVE ~req'[d].alone
  <2>1. d \in Reads /\ req'[d] = req[d]
    BY <1>1, <1>2, <1>6, OneMoves, NoRequestShape DEF Reads
  <2> QED BY <1>1, <2>1, ToggleNotAlone
<1> QED BY <1>2, <1>3, <1>5, <1>6 DEF AutoInv, AloneInv

(* The toggle has found the document, or none and is alone.                *)
LEMMA ToggleFindsStep ==
    ASSUME AutoInv, NEW c \in Caller, ToggleFinds(c)
    PROVE  AutoInv'
<1>1. /\ AutoTyped /\ req[c] \in Calling /\ c \in Toggles /\ req[c].pc = "posted"
      /\ docs \in Seq(BOOLEAN) /\ Len(docs) \in Nat /\ flag \in BOOLEAN /\ trouble \in BOOLEAN
  BY RequestShape DEF ToggleFinds, AutoInv, AutoTyped
<1>2. PICK v \in BOOLEAN : v = req[c].value
  BY <1>1 DEF Calling
<1>3. PICK at \in 0..Len(docs), old \in BOOLEAN : at = Found /\ old = Value
  BY <1>1, ValueShape
<1>4. PICK to : to = [pc |-> "save", by |-> "toggle", value |-> v, at |-> at, old |-> old]
  OBVIOUS
<1>5. /\ to \in Requests /\ to.by = "toggle" /\ to.pc = "save" /\ to.value = v /\ to.at = at
      /\ to.old = old
  BY <1>1, <1>4 DEF Writing, Requests
<1>6. /\ req' = [req EXCEPT ![c] = to] /\ flag' = flag /\ docs' = docs /\ Value' = Value
  BY <1>2, <1>3, <1>4 DEF ToggleFinds, Goes, Value
<1>7. trouble' = (trouble \/ (docs = <<>> /\ ~Alone(c)))
  BY Zenon DEF ToggleFinds
<1>8. AutoTyped'
  <2>1. Adds(to) => docs = <<>>
    BY <1>1, <1>3, <1>5, ValueShape DEF Adds, New
  <2>2. /\ to.pc = "save" => to.at \in 0..Len(docs)
        /\ to.by = "status" /\ to.pc # "create" => to.at \in 1..Len(docs)
    BY <1>3, <1>5
  <2>3. flag' \in BOOLEAN /\ trouble' \in BOOLEAN
    BY <1>1, <1>6, <1>7
  <2> QED BY <1>1, <1>5, <1>6, <2>1, <2>2, <2>3, MoveSame
<1>9. /\ \A d \in Caller : req'[d] = IF d = c THEN to ELSE req[d]
      /\ Toggles' = Toggles /\ Reads' = Reads /\ c \notin Reads
  <2>1. Toggles \subseteq Caller /\ Reads \subseteq Caller /\ Toggles' \subseteq Caller /\ Reads' \subseteq Caller
    BY DEF Toggles, Reads
  <2>2. c \notin Reads
    BY <1>1 DEF Toggles, Reads
  <2>3. /\ \A d \in Caller : req'[d] = IF d = c THEN to ELSE req[d]
        /\ \A d \in Caller : d \in Toggles' <=> IF d = c THEN to.by = "toggle" ELSE d \in Toggles
        /\ \A d \in Caller : d \in Reads' <=> IF d = c THEN to.by = "status" ELSE d \in Reads
    BY <1>1, <1>5, <1>6, OneMoves
  <2>4. /\ \A d \in Caller : d \in Toggles' <=> d \in Toggles
        /\ \A d \in Caller : d \in Reads' <=> d \in Reads
    BY <1>1, <1>5, <2>2, <2>3
  <2> QED BY <2>1, <2>2, <2>3, <2>4
<1>10. AloneInv'
  <2> SUFFICES ASSUME NEW d \in Reads' PROVE ~req'[d].alone
    BY DEF AloneInv
  <2>1. d \in Reads /\ req'[d] = req[d]
    BY <1>9 DEF Reads
  <2> QED BY <1>1, <2>1, ToggleNotAlone
<1>11. ASSUME ~trouble' PROVE Calm'
  <2>1. Calm /\ ToggleCalm(c) /\ \A t \in Toggles : t = c
    BY <1>1, <1>7, <1>11 DEF AutoInv, Calm
  <2>2. docs = <<>> => Reads = {}
    BY <1>7, <1>9, <1>11 DEF Alone
  <2>3. ToggleCalm(c)'
    <3>1. v = flag /\ \A d \in Reads' : req'[d].met >= 1
      BY <1>1, <1>2, <1>9, <2>1 DEF ToggleCalm, Reads
    <3>2. /\ at = New => docs = <<>>
          /\ at # New => docs # <<>> /\ at = 1
      BY <1>1, <1>3, ValueShape DEF New
    <3> QED BY <1>1, <1>3, <1>5, <1>6, <1>9, <2>2, <3>1, <3>2 DEF ToggleCalm
  <2>4. ASSUME NEW d \in Reads' PROVE ReadCalm(d)'
    <3>1. ReadCalm(d) /\ req'[d] = req[d] /\ d \in Reads /\ req[d].met >= 1
      BY <1>9, <2>1, <2>4 DEF Calm, ToggleCalm, Reads
    <3>2. ~(req'[d].met = 0) /\ ~(\E t \in Toggles' : req'[t].pc = "post")
      <4>1. req[d].met \in Nat
        BY <1>1, <3>1, RequestShape DEF Looking, Mending, Reads
      <4> QED BY <1>1, <1>5, <1>9, <2>1, <3>1, <4>1
    <3> QED BY <1>6, <3>1, <3>2 DEF ReadCalm
  <2> QED BY <1>1, <1>6, <1>9, <2>1, <2>3, <2>4 DEF Calm
<1> QED BY <1>8, <1>10, <1>11 DEF AutoInv

(* A save leaves the documents well typed.                                 *)
LEMMA SaveTyped ==
    ASSUME AutoInv, NEW c \in Caller, Save(c), trouble' \in BOOLEAN
    PROVE  /\ AutoTyped' /\ AutoTyped /\ flag' = flag
           /\ req[c].value \in BOOLEAN /\ req[c].old \in BOOLEAN
           /\ \A d \in Caller : req'[d] = IF d = c THEN NoRequest ELSE req[d]
           /\ Toggles' = Toggles \ {c} /\ Reads' = Reads \ {c}
           /\ req[c].at = New => docs' = Append(docs, req[c].value)
           /\ req[c].at # New /\ req[c].value = req[c].old => docs' = docs
           /\ req[c].at # New /\ req[c].value # req[c].old =>
                docs' = [docs EXCEPT ![req[c].at] = req[c].value]
<1>1. AutoTyped /\ docs \in Seq(BOOLEAN) /\ Len(docs) \in Nat /\ flag \in BOOLEAN
  BY DEF AutoInv, AutoTyped
<1>2. req[c] \in Writing \cup Mending /\ req[c].at \in 0..Len(docs)
  <2>1. req[c].pc = "save"
    BY DEF Save
  <2>2. req[c] \in Requests
    BY <1>1, RequestShape
  <2>3. req[c] \in Writing \cup Mending
    BY <2>1, <2>2 DEF Requests, NoRequest, Calling, Looking
  <2> QED BY <1>1, <2>1, <2>3 DEF AutoTyped
<1>3. PICK v \in BOOLEAN, old \in BOOLEAN, at \in 0..Len(docs) :
        v = req[c].value /\ old = req[c].old /\ at = req[c].at
  BY <1>2 DEF Writing, Mending
<1>4. /\ docs' = IF at = New THEN Append(docs, v)
                 ELSE IF v = old THEN docs ELSE [docs EXCEPT ![at] = v]
      /\ flag' = flag
  BY <1>3 DEF Save
<1>5. req' = [req EXCEPT ![c] = NoRequest]
  BY DEF Save, Goes
<1>6. /\ \A d \in Caller : req'[d] = IF d = c THEN NoRequest ELSE req[d]
      /\ Toggles' = Toggles \ {c} /\ Reads' = Reads \ {c}
  <2>1. Toggles \subseteq Caller /\ Reads \subseteq Caller /\ Toggles' \subseteq Caller /\ Reads' \subseteq Caller
    BY DEF Toggles, Reads
  <2> QED BY <1>1, <1>5, <2>1, OneMoves, NoRequestShape
<1>7. AutoTyped'
  <2>1. CASE at = New
    <3>1. docs' \in Seq(BOOLEAN) /\ Len(docs') = Len(docs) + 1
      BY <1>1, <1>4, <2>1, AppendShape
    <3>2. Adds(req[c])
      <4>1. CASE req[c] \in Writing
        BY <1>3, <2>1, <4>1 DEF Adds, Writing
      <4>2. CASE req[c] \in Mending
        <5>1. req[c].by = "status" /\ req[c].pc # "create"
          BY <4>2 DEF Mending
        <5>2. req[c].at \in 1..Len(docs)
          BY <1>1, <5>1 DEF AutoTyped
        <5> QED BY <1>1, <1>3, <2>1, <5>2 DEF New
      <4> QED BY <1>2, <4>1, <4>2
    <3>3. PICK to \in Requests : to = NoRequest
      BY NoRequestShape
    <3>4. /\ req' = [req EXCEPT ![c] = to] /\ ~Adds(to)
          /\ to.pc = "save" => to.at \in 0..Len(docs')
          /\ to.by = "status" /\ to.pc # "create" => to.at \in 1..Len(docs')
      BY <1>5, <3>3, NoRequestShape
    <3>5. flag' \in BOOLEAN /\ Len(docs') >= Len(docs)
      BY <1>1, <1>4, <3>1
    <3>6. \/ Len(docs') = Len(docs) /\ (Adds(to) => Adds(req[c]))
          \/ Len(docs') = 0
          \/ Adds(req[c]) /\ ~Adds(to) /\ Len(docs') = Len(docs) + 1
      BY <3>1, <3>2, <3>4
    <3> QED BY <1>1, <3>1, <3>4, <3>5, <3>6, MoveTyped
  <2>2. CASE at # New
    <3>1. docs' \in Seq(BOOLEAN) /\ Len(docs') = Len(docs)
      BY <1>1, <1>3, <1>4, <2>2, WriteShape DEF New
    <3>3. PICK to \in Requests : to = NoRequest
      BY NoRequestShape
    <3>4. /\ req' = [req EXCEPT ![c] = to] /\ ~Adds(to)
          /\ to.pc = "save" => to.at \in 0..Len(docs')
          /\ to.by = "status" /\ to.pc # "create" => to.at \in 1..Len(docs')
      BY <1>5, <3>3, NoRequestShape
    <3>5. flag' \in BOOLEAN /\ Len(docs') >= Len(docs)
      BY <1>1, <1>4, <3>1
    <3>6. \/ Len(docs') = Len(docs) /\ (Adds(to) => Adds(req[c]))
          \/ Len(docs') = 0
          \/ Adds(req[c]) /\ ~Adds(to) /\ Len(docs') = Len(docs) + 1
      BY <3>1, <3>4
    <3> QED BY <1>1, <3>1, <3>4, <3>5, <3>6, MoveTyped
  <2> QED BY <2>1, <2>2
<1> QED BY <1>1, <1>3, <1>4, <1>6, <1>7

(* A toggle saves what the agent has.                                      *)
LEMMA ToggleSavesStep ==
    ASSUME AutoInv, NEW c \in Caller, Save(c), req[c].by = "toggle"
    PROVE  AutoInv'
<1>1. trouble' = trouble /\ trouble' \in BOOLEAN
  BY DEF Save, AutoInv, AutoTyped
<1>11. PICK v, old, at : v = req[c].value /\ old = req[c].old /\ at = req[c].at
  OBVIOUS
<1>2. /\ v \in BOOLEAN /\ old \in BOOLEAN
      /\ v = req[c].value /\ old = req[c].old /\ at = req[c].at
      /\ AutoTyped' /\ AutoTyped /\ flag' = flag
      /\ \A d \in Caller : req'[d] = IF d = c THEN NoRequest ELSE req[d]
      /\ Toggles' = Toggles \ {c} /\ Reads' = Reads \ {c}
      /\ at = New => docs' = Append(docs, v)
      /\ at # New /\ v = old => docs' = docs
      /\ at # New /\ v # old => docs' = [docs EXCEPT ![at] = v]
  <2>1. Save(c) /\ trouble' \in BOOLEAN
    BY <1>1
  <2> QED BY <1>11, <2>1, SaveTyped
<1>3. c \in Toggles /\ c \notin Reads /\ req[c].pc = "save" /\ Reads \subseteq Caller
  BY DEF Save, Toggles, Reads
<1>4. AloneInv'
  BY <1>2, <1>3, ToggleNotAlone DEF AloneInv, Reads
<1>5. ASSUME ~trouble' PROVE Calm'
  <2>1. Calm /\ ToggleCalm(c) /\ Toggles' = {}
    BY <1>1, <1>2, <1>3, <1>5 DEF AutoInv, Calm
  <2>2. /\ docs \in Seq(BOOLEAN) /\ docs' \in Seq(BOOLEAN) /\ v = flag
        /\ at = New => docs = <<>> /\ Reads = {}
        /\ at # New => docs # <<>> /\ at = 1
        /\ old = v => Value = v
    BY <1>2, <1>3, <2>1 DEF AutoTyped, ToggleCalm
  <2>3. docs' # <<>> /\ Value' = v
    <3>1. CASE at = New
      <4>1. docs' # <<>> /\ docs'[1] = v
        BY <1>2, <2>2, <3>1, AppendShape
      <4> QED BY <4>1 DEF Value
    <3>2. CASE at # New /\ v = old
      <4>1. docs' = docs /\ docs # <<>> /\ Value = v
        BY <1>2, <2>2, <3>2
      <4> QED BY <4>1 DEF Value
    <3>3. CASE at # New /\ v # old
      <4>1. Len(docs) >= 1 /\ at \in 1..Len(docs)
        BY <2>2, <3>3, ValueShape
      <4>2. docs' # <<>> /\ docs'[1] = v
        BY <1>2, <2>2, <3>3, <4>1, WriteShape
      <4> QED BY <4>2 DEF Value
    <3> QED BY <3>1, <3>2, <3>3
  <2>4. ASSUME NEW d \in Reads' PROVE ReadCalm(d)'
    <3>1. /\ d \in Reads /\ req'[d] = req[d] /\ ReadCalm(d) /\ req[d].met >= 1
          /\ at # New /\ docs # <<>> /\ req[d].met \in Nat
      <4>1. d \in Reads /\ d # c /\ d \in Caller /\ at # New
        BY <1>2, <1>3, <2>2, <2>4
      <4>2. req[d].met \in Nat
        BY <1>2, <4>1, RequestShape DEF Looking, Mending
      <4> QED BY <1>2, <1>3, <2>1, <2>2, <4>1, <4>2 DEF Calm, ToggleCalm
    <3> QED BY <1>2, <2>1, <2>3, <3>1 DEF ReadCalm
  <2> QED BY <1>2, <2>1, <2>2, <2>3, <2>4 DEF Calm
<1> QED BY <1>2, <1>4, <1>5 DEF AutoInv

(* A status saves what the agent has, unless it saw two toggles.           *)
LEMMA StatusSavesStep ==
    ASSUME AutoInv, NEW c \in Caller, Save(c), req[c].by = "status"
    PROVE  AutoInv'
<1>0. AutoTyped /\ c \in Reads /\ c \notin Toggles /\ req[c].pc = "save" /\ req[c] \in Mending
      /\ docs \in Seq(BOOLEAN) /\ Reads \subseteq Caller /\ Toggles \subseteq Caller
  BY RequestShape DEF Save, Toggles, Reads, AutoInv, AutoTyped
<1>1. /\ trouble' = ((trouble /\ ~req[c].alone) \/ req[c].met > 1)
      /\ req[c].met \in Nat /\ req[c].alone \in BOOLEAN /\ trouble' \in BOOLEAN
  <2>1. trouble' = ((trouble /\ ~req[c].alone) \/ req[c].met > 1)
    BY DEF Save
  <2> QED BY <1>0, <2>1 DEF Mending
<1>11. PICK v, old, at : v = req[c].value /\ old = req[c].old /\ at = req[c].at
  OBVIOUS
<1>2. /\ v \in BOOLEAN /\ old \in BOOLEAN
      /\ v = req[c].value /\ old = req[c].old /\ at = req[c].at
      /\ AutoTyped' /\ AutoTyped /\ flag' = flag
      /\ \A d \in Caller : req'[d] = IF d = c THEN NoRequest ELSE req[d]
      /\ Toggles' = Toggles \ {c} /\ Reads' = Reads \ {c}
      /\ at = New => docs' = Append(docs, v)
      /\ at # New /\ v = old => docs' = docs
      /\ at # New /\ v # old => docs' = [docs EXCEPT ![at] = v]
  <2>1. Save(c) /\ trouble' \in BOOLEAN
    BY <1>1
  <2> QED BY <1>11, <2>1, SaveTyped
<1>3. at \in 1..Len(docs) /\ at # New
  BY <1>0, <1>2 DEF AutoTyped, New
<1>4. AloneInv'
  <2> SUFFICES ASSUME NEW d \in Reads', req'[d].alone PROVE FALSE
    BY DEF AloneInv
  <2>1. d \in Reads /\ d # c /\ req[d].alone
    BY <1>0, <1>2
  <2>2. Alone(d)
    BY <2>1 DEF AutoInv, AloneInv
  <2> QED BY <1>0, <2>1, <2>2 DEF Alone
(* What a status that has been alone, or has seen one toggle, writes.      *)
<1>5. ASSUME at = 1, v = flag, docs # <<>>, v = old => Value = v
      PROVE  docs' # <<>> /\ Value' = flag
  <2>1. CASE v = old
    <3>1. docs' = docs /\ Value = v
      BY <1>2, <1>3, <1>5, <2>1
    <3> QED BY <1>5, <3>1 DEF Value
  <2>2. CASE v # old
    <3>1. docs' # <<>> /\ docs'[1] = v
      BY <1>0, <1>2, <1>3, <1>5, <2>2, WriteShape
    <3> QED BY <1>5, <3>1 DEF Value
  <2> QED BY <2>1, <2>2
<1>6. ASSUME ~trouble' PROVE Calm'
  <2>1. CASE req[c].alone
    <3>1. /\ Alone(c) /\ old = Value /\ docs # <<>> /\ at = 1 /\ v = flag
      BY <1>0, <1>2, <2>1 DEF AutoInv, AloneInv
    <3>2. Toggles' = {} /\ Reads' = {}
      BY <1>0, <1>2, <3>1 DEF Alone
    <3>3. Value' = flag
      BY <1>5, <3>1
    <3> QED BY <1>2, <3>2, <3>3 DEF Calm
  <2>2. CASE ~req[c].alone
    <3>1. Calm /\ ReadCalm(c) /\ req[c].met <= 1
      <4>1. ~trouble /\ ~(req[c].met > 1)
        BY Zenon, <1>1, <1>6, <2>2
      <4>2. Calm
        BY <4>1 DEF AutoInv
      <4>3. ReadCalm(c)
        BY <1>0, <4>2 DEF Calm
      <4> QED BY <1>1, <4>1, <4>2, <4>3
    <3>2. /\ req[c].met = 1 /\ v = flag /\ at = 1 /\ docs # <<>>
          /\ ~\E t \in Toggles : req[t].pc = "post"
      BY <1>0, <1>1, <1>2, <3>1 DEF ReadCalm
    <3>3. docs' # <<>> /\ (Value' = flag \/ (Value' = Value /\ v = old))
      <4>1. CASE v = old
        <5>1. docs' = docs
          BY <1>2, <1>3, <4>1
        <5> QED BY <3>2, <4>1, <5>1 DEF Value
      <4>2. CASE v # old
        BY <1>5, <3>2, <4>2
      <4> QED BY <4>1, <4>2
    <3>4. /\ Toggles' = Toggles
          /\ \A t \in Toggles : req'[t] = req[t]
          /\ \A d \in Reads' : d \in Reads /\ req'[d] = req[d]
      BY <1>0, <1>2
    <3>5. ASSUME NEW t \in Toggles PROVE ToggleCalm(t)'
      <4>1. ToggleCalm(t) /\ req[t].pc # "post"
        BY <3>1, <3>2 DEF Calm
      <4>2. req[t].pc = "save" => req[t].at # New
        BY <1>0, <4>1 DEF ToggleCalm
      <4>3. req[t].pc = "save" /\ req[t].old = req[t].value => Value' = req[t].value
        BY <3>3, <4>1 DEF ToggleCalm
      <4>4. req'[t] = req[t] /\ \A d \in Reads' : req'[d].met >= 1
        BY <3>4, <4>1 DEF ToggleCalm
      <4> QED BY <1>2, <3>3, <4>1, <4>2, <4>3, <4>4 DEF ToggleCalm
    <3>6. ASSUME NEW d \in Reads' PROVE ReadCalm(d)'
      <4>1. ReadCalm(d) /\ req'[d] = req[d] /\ d \in Reads
        BY <3>1, <3>4, <3>6 DEF Calm
      <4>2. req[d].pc # "create"
        BY <3>2, <4>1 DEF ReadCalm
      <4> QED BY <1>2, <3>3, <3>4, <4>1, <4>2 DEF ReadCalm
    <3>7. Toggles = {} => Value' = flag
      BY <3>1, <3>3 DEF Calm
    <3> QED BY <1>2, <3>1, <3>3, <3>4, <3>5, <3>6, <3>7 DEF Calm
  <2> QED BY <2>1, <2>2
<1> QED BY <1>2, <1>4, <1>6 DEF AutoInv

(* Several requests change at once, and no document does.                  *)
LEMMA ManyMove ==
    ASSUME AutoTyped, req' \in [Caller -> Requests], flag' \in BOOLEAN, trouble' \in BOOLEAN,
           docs' = docs,
           \A d \in Caller :
             /\ Adds(req'[d]) => Adds(req[d]) \/ docs = <<>>
             /\ req'[d].pc = "save" => req'[d].at \in 0..Len(docs)
             /\ req'[d].by = "status" /\ req'[d].pc # "create" => req'[d].at \in 1..Len(docs)
    PROVE  AutoTyped'
<1>1. docs' \in Seq(BOOLEAN) /\ Len(docs') = Len(docs) /\ DOMAIN req' = Caller
  BY DEF AutoTyped
<1>2. \/ Len(docs') = Len(docs) /\ Adders' \subseteq Adders
      \/ Len(docs') = 0 /\ Adders' \subseteq Caller
  <2>1. CASE docs = <<>>
    <3>1. Len(docs') = 0
      BY <2>1
    <3>2. Adders' \subseteq Caller
      BY DEF Adders
    <3> QED BY <3>1, <3>2
  <2>2. CASE docs # <<>>
    <3>1. Adders' \subseteq Adders
      BY <2>2 DEF Adders, Adds
    <3> QED BY <1>1, <3>1
  <2> QED BY <2>1, <2>2
<1>3. Len(docs') + Cardinality(Adders') <= Cardinality(Caller)
  BY <1>1, <1>2, AddersCount
<1> QED BY <1>1, <1>3 DEF AutoTyped

(* A status that is not alone any more is the same otherwise.              *)
LEMMA NotAloneShape ==
    ASSUME AutoTyped, NEW d \in Caller, d \in Reads,
           NEW r, r = [req[d] EXCEPT !.alone = FALSE]
    PROVE  /\ r \in Requests /\ r.by = "status" /\ r.pc = req[d].pc /\ r.at = req[d].at
           /\ r.old = req[d].old /\ r.met = req[d].met /\ ~r.alone
           /\ r.pc = "save" => r.value = req[d].value
           /\ Adds(r) => Adds(req[d])
<1>1. req[d] \in Looking \/ req[d] \in Mending
  BY RequestShape
<1>2. CASE req[d] \in Looking
  <2>1. r \in Looking
    BY <1>2 DEF Looking
  <2>2. /\ r.by = "status" /\ r.pc = req[d].pc /\ r.at = req[d].at
        /\ r.old = req[d].old /\ r.met = req[d].met /\ ~r.alone
        /\ r.pc = "save" => r.value = req[d].value
    BY <1>2 DEF Looking
  <2> QED BY <2>1, <2>2 DEF Adds, Requests
<1>3. CASE req[d] \in Mending
  <2>1. r \in Mending
    BY <1>3 DEF Mending
  <2>2. /\ r.by = "status" /\ r.pc = req[d].pc /\ r.at = req[d].at
        /\ r.old = req[d].old /\ r.met = req[d].met /\ ~r.alone
        /\ r.pc = "save" => r.value = req[d].value
    BY <1>3 DEF Mending
  <2> QED BY <2>1, <2>2 DEF Adds, Requests
<1> QED BY <1>1, <1>2, <1>3

(* A status begins: it knows whether it is alone.                          *)
LEMMA StatusBeginsStep ==
    ASSUME AutoInv, NEW c \in Caller, StatusBegins(c)
    PROVE  AutoInv'
<1>1. /\ AutoTyped /\ docs \in Seq(BOOLEAN) /\ Len(docs) \in Nat
      /\ flag \in BOOLEAN /\ trouble \in BOOLEAN
  BY DEF AutoInv, AutoTyped
<1>2. PICK at \in 0..Len(docs), old \in BOOLEAN : at = Found /\ old = Value
  BY <1>1, ValueShape
<1>3. PICK pc : pc = IF docs = <<>> THEN "create" ELSE "get"
  OBVIOUS
<1>4. PICK met : met = IF Toggles = {} THEN 0 ELSE 1
  OBVIOUS
<1>5. PICK alone \in BOOLEAN : alone = Alone(c)
  BY DEF Alone
<1>6. PICK to : to = [pc |-> pc, by |-> "status", at |-> at, old |-> old,
                      met |-> met, alone |-> alone]
  OBVIOUS
<1>7. /\ to \in Requests /\ to.by = "status" /\ to.pc = pc /\ to.at = at /\ to.old = old
      /\ to.met = met /\ to.alone = alone /\ to.pc # "save"
  <2>1. met \in Nat /\ pc \in {"create", "get"} /\ at \in Nat
    BY <1>1, <1>2, <1>3, <1>4
  <2>2. to \in Looking
    BY <1>2, <1>5, <1>6, <2>1 DEF Looking
  <2>3. /\ to.by = "status" /\ to.pc = pc /\ to.at = at /\ to.old = old
        /\ to.met = met /\ to.alone = alone
    BY <1>6
  <2> QED BY <2>1, <2>2, <2>3 DEF Requests
<1>8. to = [Asking(c, Found, Value) EXCEPT !.pc = IF docs = <<>> THEN "create" ELSE "get"]
  <2>1. Asking(c, Found, Value) = [pc |-> "get", by |-> "status", at |-> at, old |-> old,
                                   met |-> met, alone |-> alone]
    BY Zenon, <1>2, <1>4, <1>5 DEF Asking
  <2> QED BY <1>3, <1>6, <2>1
<1>9. req' = [d \in Caller |->
                IF d = c THEN to
                ELSE IF d \in Reads THEN [req[d] EXCEPT !.alone = FALSE] ELSE req[d]]
  BY <1>8 DEF StatusBegins
<1>10. /\ req[c] = NoRequest /\ flag' = flag /\ docs' = docs
       /\ trouble' = (trouble \/ (docs = <<>> /\ ~Alone(c)))
  BY Zenon DEF StatusBegins
<1>11. Value' = Value /\ c \notin Reads /\ c \notin Toggles
  BY <1>10 DEF Value, NoRequest, Reads, Toggles
<1>12. /\ req'[c] = to
       /\ \A d \in Caller : d # c /\ d \in Reads => req'[d] = [req[d] EXCEPT !.alone = FALSE]
       /\ \A d \in Caller : d # c /\ d \notin Reads => req'[d] = req[d]
  BY <1>9
<1>13. ASSUME NEW d \in Caller, d # c, d \in Reads
       PROVE  /\ req'[d] \in Requests /\ req'[d].by = "status" /\ req'[d].pc = req[d].pc
              /\ req'[d].at = req[d].at /\ req'[d].old = req[d].old
              /\ req'[d].met = req[d].met /\ ~req'[d].alone
              /\ req'[d].pc = "save" => req'[d].value = req[d].value
              /\ Adds(req'[d]) => Adds(req[d])
  <2>1. PICK r : r = [req[d] EXCEPT !.alone = FALSE]
    OBVIOUS
  <2>2. req'[d] = r
    BY <1>12, <1>13, <2>1
  <2> QED BY ZenonT(30), <1>1, <1>13, <2>1, <2>2, NotAloneShape
<1>14. /\ Toggles' = Toggles /\ Reads' = Reads \cup {c}
       /\ Toggles \subseteq Caller /\ Reads \subseteq Caller
  <2>1. \A d \in Caller : /\ d \in Toggles' <=> req'[d].by = "toggle"
                          /\ d \in Reads' <=> req'[d].by = "status"
                          /\ d \in Toggles <=> req[d].by = "toggle"
                          /\ d \in Reads <=> req[d].by = "status"
    BY DEF Toggles, Reads
  <2>2. Toggles \subseteq Caller /\ Reads \subseteq Caller /\ Toggles' \subseteq Caller /\ Reads' \subseteq Caller
    BY DEF Toggles, Reads
  <2>3. \A d \in Caller : /\ d \in Toggles' <=> d \in Toggles
                          /\ d \in Reads' <=> (d = c \/ d \in Reads)
    BY <1>7, <1>11, <1>12, <1>13, <2>1
  <2> QED BY <2>2, <2>3
<1>15. AutoTyped'
  <2>1. req' \in [Caller -> Requests]
    <3>1. \A d \in Caller : req'[d] \in Requests
      BY <1>1, <1>7, <1>12, <1>13 DEF AutoTyped
    <3> QED BY <1>9, <3>1
  <2>2. flag' \in BOOLEAN /\ trouble' \in BOOLEAN /\ docs' = docs
    BY <1>1, <1>10
  <2>3. ASSUME NEW d \in Caller
        PROVE  /\ Adds(req'[d]) => Adds(req[d]) \/ docs = <<>>
               /\ req'[d].pc = "save" => req'[d].at \in 0..Len(docs)
               /\ req'[d].by = "status" /\ req'[d].pc # "create" => req'[d].at \in 1..Len(docs)
    <3>1. /\ req[d].pc = "save" => req[d].at \in 0..Len(docs)
          /\ req[d].by = "status" /\ req[d].pc # "create" => req[d].at \in 1..Len(docs)
      BY <1>1 DEF AutoTyped
    <3>2. CASE d = c
      <4>1. docs # <<>> => at \in 1..Len(docs)
        BY <1>1, <1>2, ValueShape
      <4> QED BY <1>3, <1>7, <1>12, <3>2, <4>1 DEF Adds
    <3>3. CASE d # c /\ d \in Reads
      <4>1. req[d].by = "status"
        BY <3>3 DEF Reads
      <4> QED BY <1>13, <3>1, <3>3, <4>1
    <3>4. CASE d # c /\ d \notin Reads
      BY <1>12, <3>1, <3>4
    <3> QED BY <3>2, <3>3, <3>4
  <2> QED BY <1>1, <2>1, <2>2, <2>3, ManyMove
<1>16. AloneInv'
  <2> SUFFICES ASSUME NEW d \in Reads', req'[d].alone
               PROVE  /\ Alone(d)' /\ req'[d].met = 0 /\ req'[d].old = Value'
                      /\ req'[d].pc = "create" => docs' = <<>>
                      /\ req'[d].pc # "create" => docs' # <<>> /\ req'[d].at = 1
                      /\ req'[d].pc = "save" => req'[d].value = flag'
    BY DEF AloneInv
  <2>1. d = c
    BY <1>13, <1>14
  <2>2. Toggles = {} /\ Reads = {}
    BY <1>5, <1>7, <1>11, <1>12, <2>1 DEF Alone
  <2>3. Alone(d)'
    BY <1>14, <2>1, <2>2 DEF Alone
  <2>4. docs # <<>> => at = 1
    BY <1>1, <1>2, ValueShape
  <2> QED BY <1>2, <1>3, <1>4, <1>7, <1>10, <1>11, <1>12, <2>1, <2>2, <2>3, <2>4
<1>17. ASSUME ~trouble' PROVE Calm'
  <2>1. ~trouble /\ (docs = <<>> => Alone(c))
    BY Zenon, <1>10, <1>17
  <2>2. Calm /\ (docs = <<>> => Toggles = {} /\ Reads = {})
    BY <1>11, <2>1 DEF AutoInv, Alone
  <2>3. ASSUME NEW t \in Toggles PROVE ToggleCalm(t)'
    <3>1. ToggleCalm(t) /\ docs # <<>> /\ t # c /\ t \notin Reads /\ t \in Caller
      BY <1>11, <1>14, <2>2, <2>3 DEF Calm, Toggles, Reads
    <3>2. req'[t] = req[t]
      BY <1>12, <3>1
    <3>3. req'[c].met >= 1
      BY <1>4, <1>7, <1>12, <2>3
    <3>4. \A d \in Reads' : req'[d].met >= 1
      BY <1>11, <1>13, <1>14, <3>1, <3>3 DEF ToggleCalm
    <3> QED BY <1>10, <1>11, <3>1, <3>2, <3>4 DEF ToggleCalm
  <2>4. \A t \in Toggles : req'[t] = req[t]
    BY <1>11, <1>12, <1>14 DEF Toggles, Reads
  <2>5. ReadCalm(c)'
    <3>1. docs # <<>> => at = 1
      BY <1>1, <1>2, ValueShape
    <3>2. met = 0 => Value = flag
      BY <1>4, <2>2 DEF Calm
    <3>3. (\E t \in Toggles' : req'[t].pc = "post") => Value = flag
      BY <1>14, <2>2, <2>4 DEF Calm, ToggleCalm
    <3> QED BY <1>2, <1>3, <1>7, <1>10, <1>12, <3>1, <3>2, <3>3 DEF ReadCalm
  <2>6. ASSUME NEW d \in Reads PROVE ReadCalm(d)'
    <3>1. ReadCalm(d) /\ d # c /\ d \in Caller
      BY <1>11, <1>14, <2>2, <2>6 DEF Calm
    <3>2. /\ req'[d].pc = req[d].pc
          /\ req'[d].at = req[d].at /\ req'[d].old = req[d].old
          /\ req'[d].met = req[d].met
          /\ req'[d].pc = "save" => req'[d].value = req[d].value
      BY <1>13, <2>6, <3>1
    <3>3. (\E t \in Toggles' : req'[t].pc = "post") => \E t \in Toggles : req[t].pc = "post"
      BY <1>14, <2>4
    <3> QED BY <1>10, <3>1, <3>2, <3>3 DEF ReadCalm
  <2>7. docs' = <<>> => \A d, e \in Reads' : d = e
    BY <1>10, <1>14, <2>2
  <2> QED BY <1>10, <1>11, <1>14, <2>2, <2>3, <2>5, <2>6, <2>7 DEF Calm
<1> QED BY <1>15, <1>16, <1>17 DEF AutoInv

(* The first status creates the document.                                  *)
LEMMA DocCreatedStep ==
    ASSUME AutoInv, NEW c \in Caller, Create(c)
    PROVE  AutoInv'
<1>1. /\ AutoTyped /\ docs \in Seq(BOOLEAN) /\ Len(docs) \in Nat
      /\ flag \in BOOLEAN /\ trouble \in BOOLEAN
      /\ req[c] \in Looking /\ c \in Reads /\ c \notin Toggles /\ req[c].pc = "create"
      /\ Toggles \subseteq Caller /\ Reads \subseteq Caller
  BY RequestShape DEF Create, AutoInv, AutoTyped, Toggles, Reads
<1>2. PICK n \in Nat : n = Len(docs) + 1
  BY <1>1
<1>3. PICK to : to = [req[c] EXCEPT !.pc = "get", !.at = n]
  OBVIOUS
<1>4. /\ to \in Requests /\ to.by = "status" /\ to.pc = "get" /\ to.at = n /\ to.old = req[c].old
      /\ to.met = req[c].met /\ to.alone = req[c].alone
  <2>1. to \in Looking
    BY <1>1, <1>3 DEF Looking
  <2>2. /\ to.by = "status" /\ to.pc = "get" /\ to.at = n /\ to.old = req[c].old
        /\ to.met = req[c].met /\ to.alone = req[c].alone
    BY <1>1, <1>3 DEF Looking
  <2> QED BY <2>1, <2>2 DEF Requests
<1>5. /\ req' = [req EXCEPT ![c] = to] /\ docs' = Append(docs, FALSE)
      /\ flag' = flag /\ trouble' = trouble
  BY <1>2, <1>3 DEF Create, Goes
<1>6. /\ docs' \in Seq(BOOLEAN) /\ Len(docs') = n /\ docs' # <<>>
      /\ docs = <<>> => docs'[1] = FALSE /\ n = 1
  <2>1. PICK v \in BOOLEAN : v = FALSE
    OBVIOUS
  <2>2. docs' = Append(docs, v)
    BY <1>5, <2>1
  <2>3. docs = <<>> => Len(docs) = 0
    OBVIOUS
  <2> QED BY <1>1, <1>2, <2>1, <2>2, <2>3, AppendShape
<1>7. AutoTyped'
  <2>1. /\ Adds(req[c]) /\ ~Adds(to)
        /\ to.pc = "save" => to.at \in 0..Len(docs')
        /\ to.by = "status" /\ to.pc # "create" => to.at \in 1..Len(docs')
    BY <1>1, <1>2, <1>4, <1>6 DEF Adds
  <2>2. flag' \in BOOLEAN /\ trouble' \in BOOLEAN /\ Len(docs') >= Len(docs)
    BY <1>1, <1>2, <1>5, <1>6
  <2>3. \/ Len(docs') = Len(docs) /\ (Adds(to) => Adds(req[c]))
        \/ Len(docs') = 0
        \/ Adds(req[c]) /\ ~Adds(to) /\ Len(docs') = Len(docs) + 1
    BY <1>2, <1>6, <2>1
  <2> QED BY <1>1, <1>4, <1>5, <1>6, <2>1, <2>2, <2>3, MoveTyped
<1>8. /\ \A d \in Caller : req'[d] = IF d = c THEN to ELSE req[d]
      /\ Toggles' = Toggles /\ Reads' = Reads
  <2>1. Toggles' \subseteq Caller /\ Reads' \subseteq Caller
    BY DEF Toggles, Reads
  <2>2. /\ \A d \in Caller : req'[d] = IF d = c THEN to ELSE req[d]
        /\ \A d \in Caller : d \in Toggles' <=> IF d = c THEN to.by = "toggle" ELSE d \in Toggles
        /\ \A d \in Caller : d \in Reads' <=> IF d = c THEN to.by = "status" ELSE d \in Reads
    BY <1>1, <1>4, <1>5, OneMoves
  <2>3. \A d \in Caller : (d \in Toggles' <=> d \in Toggles) /\ (d \in Reads' <=> d \in Reads)
    BY <1>1, <1>4, <1>5, <2>2
  <2> QED BY <1>1, <2>1, <2>2, <2>3
<1>9. docs = <<>> => Value' = FALSE /\ Value = FALSE
  BY <1>6 DEF Value
<1>10. AloneInv'
  <2> SUFFICES ASSUME NEW d \in Reads', req'[d].alone
               PROVE  /\ Alone(d)' /\ req'[d].met = 0 /\ req'[d].old = Value'
                      /\ req'[d].pc = "create" => docs' = <<>>
                      /\ req'[d].pc # "create" => docs' # <<>> /\ req'[d].at = 1
                      /\ req'[d].pc = "save" => req'[d].value = flag'
    BY DEF AloneInv
  <2>1. d \in Reads /\ req[d].alone
    BY <1>1, <1>4, <1>8
  <2>2. Alone(d) /\ d = c
    BY <1>1, <2>1 DEF AutoInv, AloneInv, Alone
  <2>3. req[c].met = 0 /\ req[c].old = Value /\ docs = <<>>
    BY <1>1, <2>1, <2>2 DEF AutoInv, AloneInv
  <2>4. Alone(d)'
    BY <1>8, <2>2 DEF Alone
  <2> QED BY <1>1, <1>4, <1>6, <1>8, <1>9, <2>2, <2>3, <2>4
<1>11. ASSUME ~trouble' PROVE Calm'
  <2>1. Calm /\ ReadCalm(c)
    BY <1>1, <1>5, <1>11 DEF AutoInv, Calm
  <2>2. docs = <<>> /\ Reads = {c}
    BY <1>1, <2>1 DEF Calm, ReadCalm
  <2>3. \A t \in Toggles : req'[t] = req[t]
    BY <1>1, <1>8
  <2>4. ASSUME NEW t \in Toggles PROVE ToggleCalm(t)'
    <3>1. ToggleCalm(t)
      BY <2>1 DEF Calm
    <3>2. req[t].pc # "save"
      BY <2>2, <3>1 DEF ToggleCalm
    <3>3. \A d \in Reads' : req'[d].met >= 1
      BY <1>1, <1>4, <1>8, <2>2, <3>1 DEF ToggleCalm
    <3> QED BY <1>5, <1>9, <2>2, <2>3, <3>1, <3>2, <3>3 DEF ToggleCalm
  <2>5. ReadCalm(c)'
    <3>1. (\E t \in Toggles' : req'[t].pc = "post") => \E t \in Toggles : req[t].pc = "post"
      BY <1>8, <2>3
    <3>2. n = 1
      BY <1>6, <2>2
    <3> QED BY <1>1, <1>4, <1>5, <1>6, <1>8, <2>1, <3>1, <3>2 DEF ReadCalm
  <2>6. Toggles' = {} => Value' = flag'
    BY <1>5, <1>8, <1>9, <2>1, <2>2 DEF Calm
  <2> QED BY <1>6, <1>8, <2>1, <2>2, <2>4, <2>5, <2>6 DEF Calm
<1> QED BY <1>7, <1>10, <1>11 DEF AutoInv

(* The agent answers, and the document will be saved.                      *)
LEMMA AnswerDiffersStep ==
    ASSUME AutoInv, NEW c \in Caller, AgentAnswers(c), flag # req[c].old
    PROVE  AutoInv'
<1>1. /\ AutoTyped /\ docs \in Seq(BOOLEAN) /\ Len(docs) \in Nat
      /\ flag \in BOOLEAN /\ trouble \in BOOLEAN
      /\ req[c] \in Looking /\ c \in Reads /\ c \notin Toggles /\ req[c].pc = "get"
      /\ req[c].by = "status" /\ req[c].at \in 1..Len(docs)
      /\ Toggles \subseteq Caller /\ Reads \subseteq Caller
  <2>1. req[c].pc = "get" /\ AutoTyped
    BY DEF AgentAnswers, AutoInv
  <2>2. req[c] \in Looking /\ c \in Reads
    BY <2>1, RequestShape
  <2>3. req[c].by = "status"
    BY <2>2 DEF Reads
  <2>4. req[c].at \in 1..Len(docs)
    BY <2>1, <2>3 DEF AutoTyped
  <2>5. docs \in Seq(BOOLEAN) /\ Len(docs) \in Nat /\ flag \in BOOLEAN /\ trouble \in BOOLEAN
    BY <2>1 DEF AutoTyped
  <2>6. c \notin Toggles /\ Toggles \subseteq Caller /\ Reads \subseteq Caller
    BY <2>3 DEF Toggles, Reads
  <2> QED BY <2>1, <2>2, <2>3, <2>4, <2>5, <2>6
<1>2. PICK to : to = [pc |-> "save", by |-> "status", value |-> flag, at |-> req[c].at,
                      old |-> req[c].old, met |-> req[c].met, alone |-> req[c].alone]
  OBVIOUS
<1>3. /\ to \in Requests /\ to.by = "status" /\ to.pc = "save" /\ to.value = flag
      /\ to.at = req[c].at /\ to.old = req[c].old
      /\ to.met = req[c].met /\ to.alone = req[c].alone
  <2>1. to \in Mending
    BY <1>1, <1>2 DEF Looking, Mending
  <2>2. /\ to.by = "status" /\ to.pc = "save" /\ to.value = flag
        /\ to.at = req[c].at /\ to.old = req[c].old
        /\ to.met = req[c].met /\ to.alone = req[c].alone
    BY <1>2
  <2> QED BY <2>1, <2>2 DEF Requests
<1>4. /\ req' = [req EXCEPT ![c] = to] /\ docs' = docs /\ flag' = flag /\ trouble' = trouble
      /\ Value' = Value
  <2>1. req' = [req EXCEPT ![c] = to] /\ docs' = docs /\ flag' = flag /\ trouble' = trouble
    BY <1>2 DEF AgentAnswers, Goes
  <2> QED BY <2>1 DEF Value
<1>5. AutoTyped'
  <2>1. /\ Adds(to) => Adds(req[c]) \/ docs = <<>>
        /\ to.pc = "save" => to.at \in 0..Len(docs)
        /\ to.by = "status" /\ to.pc # "create" => to.at \in 1..Len(docs)
    BY <1>1, <1>3 DEF Adds
  <2>2. flag' \in BOOLEAN /\ trouble' \in BOOLEAN
    BY <1>1, <1>4
  <2> QED BY <1>1, <1>3, <1>4, <2>1, <2>2, MoveSame
<1>6. /\ \A d \in Caller : req'[d] = IF d = c THEN to ELSE req[d]
      /\ Toggles' = Toggles /\ Reads' = Reads
  <2>1. Toggles' \subseteq Caller /\ Reads' \subseteq Caller
    BY DEF Toggles, Reads
  <2>2. /\ \A d \in Caller : req'[d] = IF d = c THEN to ELSE req[d]
        /\ \A d \in Caller : d \in Toggles' <=> IF d = c THEN to.by = "toggle" ELSE d \in Toggles
        /\ \A d \in Caller : d \in Reads' <=> IF d = c THEN to.by = "status" ELSE d \in Reads
    BY <1>1, <1>3, <1>4, OneMoves
  <2>3. \A d \in Caller : (d \in Toggles' <=> d \in Toggles) /\ (d \in Reads' <=> d \in Reads)
    BY <1>1, <1>3, <1>4, <2>2
  <2> QED BY <1>1, <2>1, <2>2, <2>3
<1>7. AloneInv'
  <2> SUFFICES ASSUME NEW d \in Reads', req'[d].alone
               PROVE  /\ Alone(d)' /\ req'[d].met = 0 /\ req'[d].old = Value'
                      /\ req'[d].pc = "create" => docs' = <<>>
                      /\ req'[d].pc # "create" => docs' # <<>> /\ req'[d].at = 1
                      /\ req'[d].pc = "save" => req'[d].value = flag'
    BY DEF AloneInv
  <2>1. d \in Reads /\ req[d].alone
    BY <1>1, <1>3, <1>6
  <2>2. Alone(d) /\ d = c
    BY <1>1, <2>1 DEF AutoInv, AloneInv, Alone
  <2>3. req[c].met = 0 /\ req[c].old = Value /\ docs # <<>> /\ req[c].at = 1
    BY <1>1, <2>1, <2>2 DEF AutoInv, AloneInv
  <2>4. Alone(d)'
    BY <1>6, <2>2 DEF Alone
  <2> QED BY <1>1, <1>3, <1>4, <1>6, <2>2, <2>3, <2>4
<1>8. ASSUME ~trouble' PROVE Calm'
  <2>1. Calm /\ ReadCalm(c)
    BY <1>1, <1>4, <1>8 DEF AutoInv, Calm
  <2>2. /\ \A t \in Toggles : req'[t] = req[t]
        /\ \A d \in Reads : d # c => req'[d] = req[d]
        /\ req'[c] = to
    BY <1>1, <1>6
  <2>3. ASSUME NEW t \in Toggles PROVE ToggleCalm(t)'
    <3>1. ToggleCalm(t)
      BY <2>1 DEF Calm
    <3>2. \A d \in Reads' : req'[d].met >= 1
      BY <1>1, <1>3, <1>6, <2>2, <3>1 DEF ToggleCalm
    <3> QED BY <1>4, <1>6, <2>2, <3>1, <3>2 DEF ToggleCalm
  <2>4. (\E t \in Toggles' : req'[t].pc = "post") => \E t \in Toggles : req[t].pc = "post"
    BY <1>6, <2>2
  <2>5. ReadCalm(c)'
    BY <1>1, <1>3, <1>4, <1>6, <2>1, <2>2, <2>4 DEF ReadCalm
  <2>6. ASSUME NEW d \in Reads, d # c PROVE ReadCalm(d)'
    <3>1. ReadCalm(d) /\ req'[d] = req[d]
      BY <2>1, <2>2, <2>6 DEF Calm
    <3> QED BY <1>4, <2>4, <3>1 DEF ReadCalm
  <2> QED BY <1>4, <1>6, <2>1, <2>3, <2>5, <2>6 DEF Calm
<1> QED BY <1>5, <1>7, <1>8 DEF AutoInv

(* The agent answers what the document says.                               *)
LEMMA AnswerAgreesStep ==
    ASSUME AutoInv, NEW c \in Caller, AgentAnswers(c), flag = req[c].old
    PROVE  AutoInv'
<1>1. /\ req[c].pc = "get" /\ req' = [req EXCEPT ![c] = NoRequest]
      /\ flag' = flag /\ docs' = docs
  BY DEF AgentAnswers, Goes
<1>2. trouble' = (trouble /\ ~req[c].alone)
  BY DEF AgentAnswers
<1>3. AutoTyped /\ req[c] \in Looking /\ c \in Reads /\ trouble' \in BOOLEAN /\ c \notin Toggles
  BY <1>1, <1>2, RequestShape DEF AutoInv, Toggles, Reads
<1>4. /\ AutoTyped' /\ AloneInv' /\ (Calm /\ c \notin Toggles => Calm')
      /\ Toggles' = Toggles \ {c} /\ Reads' = Reads \ {c} /\ Value' = Value
  BY <1>1, <1>3, LeaveStep
<1>5. ASSUME ~trouble' PROVE Calm'
  <2>1. CASE ~trouble
    BY <1>3, <1>4, <2>1 DEF AutoInv
  <2>2. CASE trouble
    <3>1. req[c].alone
      BY Zenon, <1>2, <1>5, <2>2
    <3>2. Alone(c) /\ req[c].old = Value
      BY <1>3, <3>1 DEF AutoInv, AloneInv
    <3>3. Toggles' = {} /\ Reads' = {}
      BY <1>4, <3>2 DEF Alone
    <3> QED BY <1>1, <1>4, <3>2, <3>3 DEF Calm
  <2> QED BY <2>1, <2>2
<1> QED BY <1>4, <1>5 DEF AutoInv

(* The agent does not answer.                                              *)
LEMMA AgentSilentStep ==
    ASSUME AutoInv, NEW c \in Caller, AgentSilent(c)
    PROVE  AutoInv'
<1>1. /\ req[c].pc = "get" /\ req' = [req EXCEPT ![c] = NoRequest]
      /\ flag' = flag /\ docs' = docs /\ trouble' = trouble
  BY DEF AgentSilent, Goes
<1>2. AutoTyped /\ c \in Reads /\ trouble' \in BOOLEAN /\ c \notin Toggles
  BY <1>1, RequestShape DEF AutoInv, Toggles, Reads, AutoTyped
<1>3. AutoTyped' /\ AloneInv' /\ (Calm /\ c \notin Toggles => Calm')
  BY <1>1, <1>2, LeaveStep
<1> QED BY <1>1, <1>2, <1>3 DEF AutoInv

LEMMA AutoUnchanged ==
    ASSUME AutoInv, UNCHANGED autoVars
    PROVE  AutoInv'
<1>1. flag' = flag /\ docs' = docs /\ req' = req /\ trouble' = trouble
  BY DEF autoVars
<1>2. Value' = Value /\ Toggles' = Toggles /\ Reads' = Reads /\ Adders' = Adders
  BY <1>1 DEF Value, Toggles, Reads, Adders
<1>3. AutoTyped'
  BY <1>1, <1>2 DEF AutoInv, AutoTyped
<1>4. AloneInv'
  BY <1>1, <1>2 DEF AutoInv, AloneInv, Alone
<1>5. ASSUME ~trouble' PROVE Calm'
  <2>1. Calm
    BY <1>1, <1>5 DEF AutoInv
  <2>2. \A t \in Toggles : ToggleCalm(t)'
    BY <1>1, <1>2, <2>1 DEF Calm, ToggleCalm
  <2>3. \A d \in Reads : ReadCalm(d)'
    BY <1>1, <1>2, <2>1 DEF Calm, ReadCalm
  <2> QED BY <1>1, <1>2, <2>1, <2>2, <2>3 DEF Calm
<1> QED BY <1>3, <1>4, <1>5 DEF AutoInv

(* The agent restarts, and its flag is off.                                *)
LEMMA AgentRestartsStep ==
    ASSUME AutoInv, AgentRestarts
    PROVE  AutoInv'
<1>1. /\ AutoTyped /\ flag \in BOOLEAN /\ trouble \in BOOLEAN
      /\ docs \in Seq(BOOLEAN) /\ DOMAIN req = Caller /\ req \in [Caller -> Requests]
  BY DEF AutoInv, AutoTyped
<1>2. flag' = FALSE /\ docs' = docs /\ trouble' = (trouble \/ flag)
  BY Zenon DEF AgentRestarts
<1>3. req' = [c \in Caller |-> IF flag /\ c \in Reads THEN [req[c] EXCEPT !.alone = FALSE]
                               ELSE req[c]]
  BY DEF AgentRestarts
<1>4. CASE ~flag
  <2>1. flag' = flag /\ req' = req
    BY <1>1, <1>2, <1>3, <1>4
  <2>2. trouble' = trouble
    BY Zenon, <1>2, <1>4, <1>1
  <2> QED BY <1>2, <2>1, <2>2, AutoUnchanged DEF autoVars
<1>5. CASE flag
  <2>1. trouble' = TRUE
    BY Zenon, <1>2, <1>5
  <2>2. ASSUME NEW d \in Caller
        PROVE  /\ req'[d] \in Requests /\ req'[d].by = req[d].by /\ req'[d].pc = req[d].pc
               /\ Adds(req'[d]) => Adds(req[d])
               /\ req'[d].pc = "save" => req'[d].at = req[d].at
               /\ req'[d].by = "status" => req'[d].at = req[d].at /\ ~req'[d].alone
    <3>1. CASE d \in Reads
      <4>1. PICK r : r = [req[d] EXCEPT !.alone = FALSE]
        OBVIOUS
      <4>2. req'[d] = r /\ req[d].by = "status"
        BY <1>3, <1>5, <3>1, <4>1 DEF Reads
      <4> QED BY <1>1, <3>1, <4>1, <4>2, NotAloneShape
    <3>2. CASE d \notin Reads
      <4>1. req'[d] = req[d] /\ req[d].by # "status"
        BY <1>3, <3>2 DEF Reads
      <4> QED BY <1>1, <4>1
    <3> QED BY <3>1, <3>2
  <2>3. AutoTyped'
    <3>1. req' \in [Caller -> Requests]
      BY <1>3, <2>2
    <3>2. flag' \in BOOLEAN /\ trouble' \in BOOLEAN /\ docs' = docs
      BY <1>2, <2>1
    <3>3. \A d \in Caller :
            /\ Adds(req'[d]) => Adds(req[d]) \/ docs = <<>>
            /\ req'[d].pc = "save" => req'[d].at \in 0..Len(docs)
            /\ req'[d].by = "status" /\ req'[d].pc # "create" => req'[d].at \in 1..Len(docs)
      BY <1>1, <2>2 DEF AutoTyped
    <3> QED BY <1>1, <3>1, <3>2, <3>3, ManyMove
  <2>4. AloneInv'
    BY <2>2 DEF AloneInv, Reads
  <2> QED BY <2>1, <2>3, <2>4 DEF AutoInv
<1> QED BY <1>1, <1>4, <1>5

(* Node restarts: of its requests only calls under way are left.           *)
LEMMA NodeRestartsStep ==
    ASSUME AutoInv, NodeRestarts
    PROVE  AutoInv'
<1>1. AutoTyped /\ flag \in BOOLEAN /\ trouble \in BOOLEAN /\ docs \in Seq(BOOLEAN)
  BY DEF AutoInv, AutoTyped
<1>2. flag' = flag /\ docs' = docs /\ trouble' = (trouble \/ Toggles # {}) /\ Value' = Value
  <2>1. flag' = flag /\ docs' = docs /\ trouble' = (trouble \/ Toggles # {})
    BY Zenon DEF NodeRestarts
  <2>2. Value' = Value
    BY DEF NodeRestarts, Value
  <2> QED BY Zenon, <2>1, <2>2
<1>3. req' = [c \in Caller |-> IF req[c].pc \in {"post", "late"}
                               THEN Posting("late", req[c].value) ELSE NoRequest]
  BY DEF NodeRestarts
<1>4. ASSUME NEW d \in Caller
      PROVE  /\ req'[d] \in Requests /\ req'[d].pc \in {"late", "none"} /\ req'[d].by # "status"
             /\ ~Adds(req'[d])
             /\ d \in Toggles \/ req'[d] = NoRequest
  <2>1. CASE req[d].pc \in {"post", "late"}
    <3>1. d \in Toggles /\ req[d] \in Calling
      BY <1>1, <2>1, RequestShape
    <3>2. PICK v \in BOOLEAN : v = req[d].value
      BY <3>1 DEF Calling
    <3>3. req'[d] = Posting("late", v)
      BY <1>3, <2>1, <3>2
    <3> QED BY <3>1, <3>3 DEF Posting, Calling, Requests, Adds
  <2>2. CASE req[d].pc \notin {"post", "late"}
    <3>1. req'[d] = NoRequest
      BY <1>3, <2>2
    <3> QED BY <3>1, NoRequestShape
  <2> QED BY <2>1, <2>2
<1>5. AutoTyped'
  <2>1. req' \in [Caller -> Requests]
    BY <1>3, <1>4
  <2>2. flag' \in BOOLEAN /\ trouble' \in BOOLEAN /\ docs' = docs
    BY <1>1, <1>2
  <2>3. \A d \in Caller :
          /\ Adds(req'[d]) => Adds(req[d]) \/ docs = <<>>
          /\ req'[d].pc = "save" => req'[d].at \in 0..Len(docs)
          /\ req'[d].by = "status" /\ req'[d].pc # "create" => req'[d].at \in 1..Len(docs)
    BY <1>4
  <2> QED BY <1>1, <2>1, <2>2, <2>3, ManyMove
<1>6. Reads' = {}
  BY <1>4 DEF Reads
<1>7. ASSUME ~trouble' PROVE Calm'
  <2>1. ~trouble /\ Toggles = {}
    BY Zenon, <1>2, <1>7
  <2>2. Toggles' = {}
    BY <1>4, <2>1, NoRequestShape DEF Toggles
  <2>3. Value = flag
    BY <2>1 DEF AutoInv, Calm
  <2> QED BY <1>2, <1>6, <2>2, <2>3 DEF Calm
<1> QED BY <1>5, <1>6, <1>7 DEF AutoInv, AloneInv

LEMMA AutoStep == AutoInv /\ [AutoNext]_autoVars => AutoInv'
<1> SUFFICES ASSUME AutoInv, [AutoNext]_autoVars PROVE AutoInv'
  OBVIOUS
<1>1. ASSUME NEW c \in Caller, ToggleBegins(c) PROVE AutoInv'
  BY <1>1, ToggleBeginsStep
<1>2. ASSUME NEW c \in Caller, AgentSets(c) PROVE AutoInv'
  BY <1>2, AgentSetsStep
<1>3. ASSUME NEW c \in Caller, ToggleFails(c) PROVE AutoInv'
  BY <1>3, ToggleFailsStep
<1>4. ASSUME NEW c \in Caller, LateCall(c) PROVE AutoInv'
  BY <1>4, LateCallStep
<1>5. ASSUME NEW c \in Caller, ToggleFinds(c) PROVE AutoInv'
  BY <1>5, ToggleFindsStep
<1>6. ASSUME NEW c \in Caller, Save(c) PROVE AutoInv'
  <2>1. req[c].by = "toggle" \/ req[c].by = "status"
    <3>1. req[c].pc = "save" /\ req[c] \in Requests
      BY <1>6, RequestShape DEF Save, AutoInv
    <3> QED BY <3>1 DEF Requests, NoRequest, Calling, Writing, Looking, Mending
  <2> QED BY <1>6, <2>1, ToggleSavesStep, StatusSavesStep
<1>7. ASSUME NEW c \in Caller, StatusBegins(c) PROVE AutoInv'
  BY <1>7, StatusBeginsStep
<1>8. ASSUME NEW c \in Caller, Create(c) PROVE AutoInv'
  BY <1>8, DocCreatedStep
<1>9. ASSUME NEW c \in Caller, AgentAnswers(c) PROVE AutoInv'
  BY <1>9, AnswerDiffersStep, AnswerAgreesStep
<1>10. ASSUME NEW c \in Caller, AgentSilent(c) PROVE AutoInv'
  BY <1>10, AgentSilentStep
<1>11. CASE AgentRestarts
  BY <1>11, AgentRestartsStep
<1>12. CASE NodeRestarts
  BY <1>12, NodeRestartsStep
<1>13. CASE UNCHANGED autoVars
  BY <1>13, AutoUnchanged
<1> QED BY <1>1, <1>2, <1>3, <1>4, <1>5, <1>6, <1>7, <1>8, <1>9, <1>10, <1>11, <1>12, <1>13
        DEF AutoNext

(* The setting is well typed, and there are no more documents than first   *)
(* requests that may have come at once (getAutoApproveStatus,              *)
(* toggleAutoApprove).                                                     *)
THEOREM AutoIsTyped == AutoSpec => []AutoTypeOK
<1>1. AutoInv => AutoTypeOK
  <2> SUFFICES ASSUME AutoInv PROVE AutoTypeOK
    OBVIOUS
  <2>1. AutoTyped
    BY DEF AutoInv
  <2>2. \A c \in Caller :
          /\ req[c].pc \in {"none", "post", "posted", "late", "create", "get", "save"}
          /\ req[c].pc = "save" => req[c].at \in 0..Len(docs)
    <3> SUFFICES ASSUME NEW c \in Caller
                 PROVE  /\ req[c].pc \in {"none", "post", "posted", "late", "create", "get", "save"}
                        /\ req[c].pc = "save" => req[c].at \in 0..Len(docs)
      OBVIOUS
    <3>1. req[c] \in Requests
      BY <2>1, RequestShape
    <3>2. req[c].pc \in {"none", "post", "posted", "late", "create", "get", "save"}
      BY <3>1 DEF Requests, NoRequest, Calling, Writing, Looking, Mending
    <3> QED BY <2>1, <3>2 DEF AutoTyped
  <2>3. Len(docs) <= Cardinality(Caller)
    <3>1. IsFiniteSet(Adders)
      BY CallerAssumption, FS_Subset DEF Adders
    <3>2. Cardinality(Adders) \in Nat /\ Cardinality(Caller) \in Nat
      BY <3>1, CallerAssumption, FS_CardinalityType
    <3> QED BY <2>1, <3>2 DEF AutoTyped
  <2> QED BY <2>1, <2>2, <2>3 DEF AutoTyped, AutoTypeOK
<1> QED BY <1>1, AutoInitEstablishes, AutoStep, PTL DEF AutoSpec

(* The document is the agent's flag whenever nothing is under way, unless  *)
(* something got in between (toggleAutoApprove, getAutoApproveStatus).     *)
THEOREM SettingIsFollowed == AutoSpec => []SettingFollows
<1>1. AutoInv => SettingFollows
  BY DEF AutoInv, Calm, SettingFollows
<1> QED BY <1>1, AutoInitEstablishes, AutoStep, PTL DEF AutoSpec

===============================================================================
