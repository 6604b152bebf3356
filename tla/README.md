# Net-Knight: TLA+ specifications

Net-Knight watches a network, lets a model classify every flow, lets a second
model choose a mitigation, and puts the mitigation into force with nftables,
at once or after an administrator approved it.  This directory specifies the
part of it where several processes, threads and stores have to agree: what the
firewall agent captures and decides, the kernel state it manages, the documents
the backend keeps about it, and the rules the AI engine decides by, is trained
with and explains.  The modules are written from the source; paths below are
relative to `src/`.

## 1. Inventory

The system has four parts: a Flutter front end (`Frontend`), a Node/Express
backend with MongoDB (`Backend`), the Python firewall agent
(`Network_Scripts`) and the AI engine, a FastAPI service with one
endpoint that matters here, `/predict` (`AI_engine`).

| component | state | operations | interacts with | correct when |
|---|---|---|---|---|
| permanent blocks (`enforcement/nft_rules.py`) | kernel set `nk_perm_block`, `perm_blocks.json` | block, delete, restore at start, create the table | reboot, `save_rules` of the static firewall | an acknowledged block is recorded and in force until it is deleted |
| executor and dynamic rules (`action_executor.py`, `nft_rules.py`) | set elements with a kernel timeout, rules by handle | execute a decision, delete by handle or element | scheduler, kernel | what is applied can be undone, and ends |
| rule scheduler (`rule_scheduler.py`) | a heap in memory | schedule, pop, delete | its own thread, kernel | each rule by handle is deleted, and no other |
| approval gateway (`gateway/approval_gateway.py`) | `_pending`, `_auto_approve` | decide, approve, reject, clean up | pipeline, executor, windows, Node | one verdict per request, executed once at most |
| active windows (`state/active_window_store.py`) | Redis keys with an expiry | open, read | gateway, pipeline, AI engine | one alert per attack and cooldown |
| flow pipeline (`gateway/flow_pipeline.py`) | the batch, keys handled in it | enrich, send, handle the reply | AI engine, gateway | the same |
| enforcement API (`api/enforcement_api.py`) | none | approve, reject, delete, auto approve | Node | answers say what happened |
| AIRule life cycle (`controllers/ai.controller.js`) | MongoDB documents | receive, review, delete, toggle, expire | agent over HTTP with a timeout of 8 s | a document says what the agent did |
| IP history, EWMA baseline, pps tracker (`state/`) | Redis, memory | count, raise flag, update | threads and event loop | the baseline follows what was measured, slowly, and does not learn from an attack |
| Redis backup (`state/redis_backup.py`) | a JSON file | back up, restore | Redis, restart | nothing newer is overwritten |
| flow capture (`capture/unified_capture.py`, `main.py`) | ring, deduplicators | export, deduplicate, put, get a batch | capture threads, event loop | a flow is on its way to `/predict` once at a time, and is lost only where the code gives it up |
| traffic monitor (`gateway/ws_monitor.py`) | counters | count, snapshot and reset, push | event loop, Node | what was counted is shown once |
| static firewall and NAT (`firewall.py`, `helpers.py`, `firewall.controller.js`, `NAT.controller.js`) | tables, registry file, `/etc/nftables.conf`, documents | create, add, delete, save | Flask threads, reboot | documents and rules agree |
| mitigation decision (`AI_engine/decision/rl_inference.py`, `state/state_adapter.py`) | none | category, mask, choice | `/predict` | a masked action is never chosen |
| anchor engine (`AI_engine/api/api_for_anomaly_IDS.py`) | windows of pairs and targets, in memory | judge a flow, clean up | `/predict`, its own thread, the mitigation decision | a verdict rests on what the current session showed |
| detection models (`AI_engine/api/api_for_anomaly_IDS.py`) | what was loaded at the start | load, answer a batch | `/predict`, files | every flow gets its own verdict, and an alert has a cause |
| explanations (`AI_engine/decision/explainability.py`) | none | give the reason of an action | mitigation decision, admins | the reason is true of the flow |
| training of the agent (`AI_engine/RL_V9.ipynb`) | an episode | reset, step, reward | mask and table of the decision | the table's action earns most |
| auto-approve setting (`ai.controller.js`, `approval_gateway.py`) | a document, a flag | toggle, ask | agent over HTTP, restarts | the document says what the agent does |
| statistics cache (`sockets/dashboard.socket.js`) | cached counts | fetch, show, invalidate | requests across awaits | figures are recent, and an invalidation works |
| accounts (`auth.controller.js`, `user.controller.js`) | users | sign up, add, update, delete | concurrent requests | a super admin stays, no update is lost |
| notifications and audit log, interfaces, front end, training of the IDS, `new_capture.py` | | | | not modelled, see section 8 |

What makes it hard:

* The agent is one asyncio event loop with threads beside it (rule scheduler,
  pps tracker, EWMA updater, Redis backup, deduplicator clean-up, two captures,
  the Flask pool).  Decisions, approvals, rejections and deletions run on the
  loop without an await and so exclude each other.  The one await of the
  decision path is the call of `/predict`; what was read before it is used
  after it.
* An alert is sent with a blocking `requests.post` (5 s), so the loop may be
  blocked for longer than the 8 s after which Node gives up on a call.  Node
  then reports a failure of something the agent does a moment later.
* Every handler of Node interleaves with every other at each await; documents
  are read, the agent is called, and the document is written.
* Four stores live and die separately: the agent's memory (pending requests,
  auto approve, scheduler heap), Redis (windows), the kernel (sets, rules; gone
  at a reboot), MongoDB, and two files.

`enforcement_api.py:30` has an indentation that Python rejects as it stands in
the repository; the module is modelled as its indentation is evidently meant.

## 2. Modules

| module | models | kind |
|---|---|---|
| `DurableSet` | what a store of blocks promises: record, forget, lose everything | abstract |
| `PermBlocks` | `perm_blocks.json`, the set `nk_perm_block`, restore, reboot | detailed; implements `DurableSet` |
| `PermBlocksProofs` | four theorems about `PermBlocks` | proofs |
| `Enforcement` | executor, set elements, rules by handle, scheduler thread, reboot | detailed |
| `Verdicts` | what the gateway promises of a request | abstract |
| `ApprovalGateway` | extends `Enforcement` with pipeline, windows, gateway | composition; implements `Verdicts` |
| `Mitigation` | extends `ApprovalGateway` with Node's documents and handlers | composition |
| `GatewayProofs` | thirteen theorems about `Enforcement`, `ApprovalGateway` and `Mitigation` | proofs |
| `StaticFirewall` | the Flask application: registry, saved ruleset, concurrent threads, boot | detailed |
| `StaticRules` | extends `StaticFirewall` with Node's documents of static and NAT rules | composition |
| `StaticProofs` | four theorems about `StaticFirewall` and `StaticRules` | proofs |
| `RLRules` | attack type, category, mask, decision table, severity | operators |
| `RLDecision` | extends `RLRules` with the history of a source in Redis and its backup | detailed |
| `RLDecisionProofs` | fourteen theorems about `RLDecision`, `Training` and `Engine` | proofs |
| `Baseline` | pps tracker, EWMA updater and attack flag; the baselines in Redis and their backup | detailed |
| `BaselineProofs` | four theorems about `Baseline` | proofs |
| `AnchorEngine` | the windows `FinalAnchorEngine` judges flows by, its thread, the calls of `/predict` | detailed |
| `AnchorEngineProofs` | five theorems about `AnchorEngine` | proofs |
| `Engine` | extends `RLRules` with what the AI engine loads, `/predict` over a batch, the reasons | detailed |
| `Training` | extends `RLRules` with scenarios, environment and reward of the agent's training | detailed |
| `Sensor` | capture threads, deduplicator, ring, the task that empties it, traffic counters | detailed |
| `SensorProofs` | six theorems about `Sensor` | proofs |
| `AutoApprove` | the setting's document and the agent's flag under overlapping requests | detailed |
| `Accounts` | the accounts under overlapping requests | detailed |
| `Dashboard` | the cached figures of the dashboard | detailed |
| `NodeProofs` | eight theorems about `AutoApprove`, `Accounts` and `Dashboard` | proofs |
| `MCPermBlocks`, `MCEnforcement`, `MCApprovalGateway`, `MCMitigation`, `MCStaticRules`, `MCAnchorEngine`, `MCSensor` | instances for TLC | |
| `MCFirewall` | `StaticRules` and `PermBlocks` side by side | instance |
| `MCEngine` | `Training` and then `Engine`, with `RLDecision` and `Baseline` side by side | instance, composition |
| `MCNode` | `AutoApprove`, `Accounts` and `Dashboard` side by side | instance |

### PermBlocks

`kern` is the kernel set, `file` what the next read of the file returns.  An
operation has three steps, because a crash or a save of the static ruleset may
fall between them: up to `open(path, "w")` (`AddPermBlock`, `DeletePermBlock`), the
truncation (`Truncate`), the dump (`Dump`).  A truncated or partly written file
reads as the empty list.  `StartAgent` is `ensure_base_structures`: it restores
into an existing table, fails silently in a table that lacks the agent's sets
(`"bare"`, as the one in Debian's default `/etc/nftables.conf`), or creates the
table.  `Reboot` brings back what `/etc/nftables.conf` holds (`bootFile`).
`TextIn` says which address occurs in the text of which other one, because the
restore tests for a substring; the instance has the addresses 10.0.0.1 and
10.0.0.10, and the containment they have.  A power failure that loses file data already written is not
modelled: a reboot is orderly.  The file `persist()` writes is read by nothing
in the repository and left out.

### Enforcement

A decision is `[action, cat, src, dst]`; rates, ports and chains are
abstracted.  `elem[e]` is the expiry of set element `e` (the kernel's own
timeout), `rules` the rules known by handle, `heap` the scheduler's heap and
`doomed` the deletion it has popped and not yet run: `_loop` releases its lock
in between.  `Execute` is the whole of `ActionExecutor.execute`, with any part
of its rules refused by nft (all but `added`) or added without a handle that
can be read from nft's output (all but `read`, `nft_rules.py:215-218`): such a
rule is in `rules`, but no result, no alert and no deletion names it, and it is
not in `ours`, the handles this run of the agent has learnt (`KnownRules`).  `Crash` loses heap and `doomed`, `Reboot` numbers
handles afresh and loads the table if the static firewall saved it
(`Registered`).

### ApprovalGateway

`SendBatch` reads the windows of every flow (`Enrich`), `PredictReplies` or
`PredictFails` ends the call, `HandleFlow` and `SkipFlow` handle the flows of
the reply one at a time; `LoopFree` keeps the admins' calls out of a reply
being handled, while threads, clock and crashes come in between.  The AI
engine may choose any decision for a flow but none in a category whose window
was active (`Decisions`).  Redis keeps `windows` across crashes.  `alerts`,
`runs` and `refused` are history variables.

### Mitigation

`hnd[h]` is a handler of Node: the request it serves, the calls it still has
to make and what the agent answered.  `CallServed`, `CallRefused` and
`CallTimesOut` are the three ends of a call; a call that timed out may remain
as a stray that the agent still serves.  `Write` is the handler's write, on a
document that may have been deleted meanwhile.  The expiry job first takes the
documents its query returns (`FoundBy`, kept in `found`) and then deals with one after the other.
Alerts may be lost or arrive late.

### StaticFirewall and StaticRules

`thr[k]` is the Flask thread of request `k`; its `pc` follows the handler from
nft command to nft command and from file access to file access, for Flask
serves each request in a thread of its own and takes no lock: `add_nat` makes
its table (`EnsureNat`) and registers it, `create_table` registers, an added
rule's handle is found by its comment (`Lookup`), and every success ends in
`save_rules` (`Collect`, one `ListTable` or `Unregister` per table,
`TruncateFile`, `WriteFile`).  `registry` and `saved` are the two files as
their readers take them: truncated or garbled they count as empty.  Writing a
file that another thread has open leaves the other to write over it (`over`).
`Boot` loads `saved` with the rules numbered from the start.

In `StaticRules` a handler of Node (`hnd[k]`) waits for request `k`; `Answer` is
its write.  `GiveUp` leaves the thread running, as a timeout or the end of
Node does.  `deleteRule` deletes its document whatever the agent answers,
`deleteNatRule` only if it succeeded (`RuleDeleted`).  A comment is the
millisecond of its request; two requests under way together may share it.
`rough`, `clean` and `booted` are history variables that name the exceptions of
the properties; `of` in a rule is the document it was added for and is read by
properties only.

### RLRules and RLDecision

The operators of `RLRules` are the functions of `rl_inference.py` and
`state_adapter.py`: `AttackOf` (the first key that occurs in the label),
`Normalized`, `CategoryOf`, `Allowed` (the mask as the set of actions it
leaves), `Recommended` and the severities.  Confidences, scores and their
thresholds are integers of the scales the module names.  The trained agent
chooses any action of the mask; models without a `decision_function`, which give
an outlier the score 0, are not modelled.

`RLDecision` is the history the mask is asked of.  `hist[ip]` is the Redis
hash of a source, read for every flow of a batch (`Enrich`), used and counted
when the reply is handled (`HandleFlow`), and gone after three days (`Expire`).
The backup thread (`BeginBackup`, `ReadKey`, `ReplaceFile`) reads one key after
the other; `Start` writes the file over whatever Redis still has, field by
field.  `made` and `issued` are history variables: the decisions really made
and the last one.  `last_action` is left out, because `_parse_action` does not
recover it from the text that is stored (see section 5).

This module has no windows and no requests, and `ApprovalGateway` has no
history: what they share is one flow of a reply, whose action is arbitrary
there and restricted by the mask here.

### Baseline

`counter`, `snapshot` and `rate` are the tracker's counts, the copy its thread
has taken (`TakeCounters`) and the rates it publishes from it one by one
(`PublishRate`).  `queue` and `update` are the updater's cycle and the update
under way; each call of Redis that `update` makes is an action (`GetBaseline`,
then `SeedBaseline`, or `CheckFlag` and `SetBaseline`), so that the event loop
(`RecordFlow`, `RaiseFlag`), the tracker, the backup and the expiry of keys come
in between.  `mortal` has the keys with an expiry: a restored one has none
(`redis_backup.py:47`).  The three minutes of a flag and the thirty seconds of
tracking are not timed; both may end at any moment.  Rates and baselines are
packets per window rounded down, where the code has floating point.  `peak` and
`learned` are history variables.  Redis loses its data only while the agent is
down: an exception of Redis ends the updater's thread, which has no handler for
it, and nothing is left to check.

### AnchorEngine

`history`, `ports`, `sources`, `last` and `flows` are the fields of the engine,
`call` is the call of `/predict` under way: the handlers do not await once they
have the body, so there is one at a time.  Each flow is looked at without the
lock (`Look`: whitelist, answers of a known victim) and then judged in one
locked step (`Update`: `_cleanup_on_request`, the appends, `_check_ddos`,
`_analyze`), inside which the clock, read four times, may advance.  `Answer`
stands for the RL stage of the alerts (it reads `TargetStats`) and for the
exception that ends a call: neither changes the engine.  The cleanup thread
reads the clock (`ReadClock`) and acts on it when it gets the lock (`Clean`),
after whatever came in between.  A window is a set of numbered entries, which
has the entries of the deque without their order.  The unlocked loops and tests
of other threads are single steps: `list(deque)` and `len` are atomic in
CPython.  The later patterns of `_analyze` and the label of the classifier are one
verdict, `"rest"`.  `session` is a history variable.

### Engine and Training

`Engine` starts by loading (`LoadIds`, `LoadAnomaly`, `LoadAgent`): each file
may be missing or broken, and the IDS may be left half loaded (`"partial"`), for
its artifacts are globals set one after the other.  `Predict` is
`predict_combined`, which does not await between reading the batch and its
answer: the flows of a kind are picked out (`Group`), scored together and put
back at their places (`ScoreOf`); a scaler or a model may fail for all flows of
its kind.  What a network or a tree computes is a property of the flow.
`Responses` takes an alert through category, mask and action, and `Reason` gives
the words `build_rl_explanation` starts with.  A flow has `rc`, the decisions about
its source (`repeat_count`), and `same`, those about this attack
(`same_attack_count`), because the reason speaks of the attack and is chosen by
the first (`IsTrue`).  The label and the confidence are
those after the anchor engine, whose state `AnchorEngine` has.

`Training` is the notebook's environment: `Reset` draws a scenario, `Step` lets
the agent take any action the mask leaves, with the reward of the state before
and the feedback after it.  The mask and the table the notebook defines have the
text of `rl_inference.py`; both modules use those of `RLRules`.  A scenario
draws from ranges, and the model takes their ends.  Learning itself is left out:
what matters here is what the reward prefers.

### Sensor

`worker[i]` is the capture thread of an interface.  It reads the clock
(`Export`), gets the deduplicator's lock (`IsDuplicate`), reads the clock again
(`Stamp`) and gets the ring's lock (`Put`); its clean-up thread also reads the clock first (`SweepBegins`,
`Sweep`).  `Lag` bounds the time from a reading to the lock.  `TakeBatch` is
`get_batch` and the part of `send_batch` up to its await, which may end with an
exception of Redis after some of the flows are counted; `call` is the await.
`Push` and `SendEnds` are the two halves of a push of the counters.  A flow is its
key; whether its addresses are whitelisted was decided before.

### AutoApprove, Accounts, Dashboard

Three parts of Node's own records, which share no state.  In each, a request is
a handler that holds what it read of the database across an await.  mongoose
saves the fields that differ from the document as it was found, so that `Save`
and `SaveUser` change those alone.  In `AutoApprove` a call that timed out may
still be served (`LateCall`), and `trouble` is a history variable that names the
exceptions of `SettingFollows`.  In `Accounts` the e-mail stands for the two unique
fields.  In `Dashboard` a count is represented by the moment it was taken at;
the counts of a fetch are separate queries, and `due` is a history variable:
the changes no later figure may leave out.

## 3. Runs

| run | instance | shows |
|---|---|---|
| `firewall` | two requests at a time, two static rules and a NAT rule, three calls, timeouts, restarts, boots; or three addresses blocked for good, table absent or bare at first, nft may fail | `StaticTypeOK`, `HandleIsOwn`, `DocsMatchKernel`, `DocsPersist`; acknowledged blocks are recorded (`AckedIsRecorded`) and in force (`AckedIsEnforced`) with the exceptions the properties name; the file implements `DurableSet` |
| `enforcement` | three decisions, three handles, nft may fail or print no handle, the table may be saved | every rule whose handle is known has a deletion scheduled (`OwnRulesScheduled`), which can only hit that rule (`DeletionHitsItsRule`) and is tried in the end (`OwnRulesEnd`) |
| `gateway` | two sources of one DDoS and a DoS, batches of two, two requests | `AlertSpacing`, and the gateway implements `Verdicts` |
| `mitigation` | two admins, one expiry job, one request, both processes may crash | `StatusTruthful`, `DocumentsMoveOn`, and if Node is not restarted for ever, `ExpiredDocsGo` |
| `engine` | episodes of six steps over all scenarios, then two kinds of models, batches of two of nine flows; or one source, two labels, three confidences, three scores, batches of two, four decisions; or one address, flows of two sizes, four baselines written | `OwnVerdict`, `AlertsHaveCause`, `ReasonsHold`, `RewardPrefersTable`, `PermOnlyConfirmed`; `NeverOvercounts`, `PermNeedsRepeats`, `RecommendedIsAllowed`; `WithinPeak`, `AttackBarelyLearned`, `GrowsSlowly` |
| `anchor` | two sources, a target, a trusted address, calls of two flows, three flows remembered | `PortsOfSession`, `SourcesCoverFlows`, `DdosStillBacked`, `Forgotten` |
| `sensor` | two flows on two interfaces, a ring of two, five units of time | `SensorTypeOK`, `OneAtATime`, `TrafficAddsUp`, `LossHasACause`, `RingServed` |
| `node` | three requests on the setting, two handlers on three accounts, two fetches of two counts | `SettingFollows`, `RootStays`, `ChangesAreAsked`, `FiguresAreRecent`, `InvalidatedIsGone` |
| `static_stale_handle` | one request at a time, one boot | against `DisabledIsRemoved`: after a boot, disabling a rule deletes another one |
| `perm_text` | the addresses of `firewall` | against `BlocksSurviveReboots`: 10.0.0.1 is not restored where 10.0.0.10 is |
| `root` | as `node` | against `OneSuperAdmin`: two signups make two super administrators |
| `orphans` | as `mitigation` | against `NoOrphans`: a document expires while its rule goes on working |

The last four runs end with a violation: their properties state what a message
or a comment of the code says, quoted in the property's comment, and the code
does otherwise (section 5).  The largest runs are `engine` (three million
states) and `node` (two million), then `sensor` and `firewall` (a million each);
each takes three minutes at most.

Where a run has components that share no state (`firewall`, `engine`, `node`), a
behaviour takes the steps of one of them: their product says no more than they
do one by one.

The type invariants `StaticTypeOK` and `SensorTypeOK` are checked by runs and
proved; the others that section 4 names are proved only.

### Bounds

`MaxTime` stops the clock, `MaxHandle` bounds the handles of a boot, `MaxReq`
the requests raised, `MaxBatch` the flows of a batch, `MaxStray` the calls Node
gave up on and the agent has yet to serve.  Three addresses are the
two of a rewrite and a third to be lost; two flows are enough for a batch to
repeat a key, two requests for a pair of alerts, three handles for a DDoS
response and a rule after it.  Times keep the order the settings have, not
their values: no cooldown is shorter than the monitor's.  In `enforcement` a
decision is taken only while its rules end within `MaxTime`, so that
`OwnRulesEnd` is not cut off by the end of time; `ExpiredDocsGo` speaks only of
documents that become due.  In the runs of `Mitigation` there is one request:
every property there is about one document, and the calls of the handlers on
it.  `CHECK_DEADLOCK FALSE` is set where all requests may be raised and
settled and the clock at its bound.

In `firewall` three calls are enough to add, disable and enable a rule, or to add
two concurrently and touch one again; the table of the static rules exists at
first (`Prepared`) and the NAT table does not.  `NftMayFail` is off there, which
still leaves the refusals that follow from the kernel's state (a rule that is
gone, a table that is missing); with it on the state space is too large for a
routine run.  Rules and requests are interchangeable, and TLC uses the symmetry.

In `engine` one source is enough for the history, for every property is about one address
and two of them meet only in the order the backup reads them.  Four decisions
are one more than the strictest rule asks for, so that a permanent block is
issued, counted, lost, restored and issued again.  The confidences are one that
rounds down to 0.6, one that is confirmed and one of strong agreement; the
scores are none, one above half the scale that is no outlier, and an outlier.

One address is enough for the baselines, for the properties are about one and the
updater deals with one after the other.  A window has 10 or 20 packets, so that
a rate may be the double of a baseline and pass the spike guard, or of a seed of
0 and not pass it; four writes are a seed, two steps of the average and one
more, in an update overtaken by the flag.

In `anchor` the window lasts one unit of time and a call is waited for as long;
calls begin within three instants, enough for a pair to be active, silent and
active again, and time ends when everything can have expired.  The flows are
SYN floods on two ports from two sources, a trusted one and an answer of the
target; the thresholds are two, so that a scan, a flood of one source and one
of two are all seen.

In `sensor` two flows that both interfaces see are enough for a duplicate and
for a full ring of two; the times keep the order the settings have: a flow
expires in the ring (15 s) and a call ends (30 s) before the deduplicator forgets
it (60 s), and the waits for a lock are shorter than all of them.  Time ends
after the first clean-up.

`Engine` has nine flows: one of no interest, one of the whitelist, and
attacks, outliers and an active window that reach every row of the table and
every reason; of two that differ in nothing else, one comes from a source known
for other attacks too.  Batches of two have two flows of one kind, of two kinds, and of
a kind without a model.  The third kind of models differs from these in its
thresholds only.  The engine starts when the training is over; one batch for each
start is enough, since a batch changes nothing.

In `node` three requests are two toggles
and a status that sees both; two handlers are the two that overlap, and three
accounts let an e-mail be taken and given up meanwhile; the figures last two
units of time and a query takes one.

### Fairness

`EnforcementSpec` assumes weak fairness of `PopDue` and `RunDeletion`, the
scheduler thread, which waits five seconds at most, and of the clock.
`MitigationSpec` assumes it of the clock and of the expiry job: `setInterval`
runs it every minute and axios ends each call after eight seconds at the
latest.  Nothing is assumed of admins, nft, crashes or restarts, nor that the
agent answers.  `AnchorEngine` assumes it of the clock, of the steps of a call
that has begun and of the cleanup thread, which waits 30 seconds and holds no
lock that is not given back; nothing is assumed of calls.  `Sensor` assumes it of
`TakeBatch`, for the ring is polled ten times a second, and of `CallEnds`, for
aiohttp ends the call after thirty seconds; nothing is assumed of captures,
pushes or clocks.  `ExpiredDocsGo` presupposes that Node is restarted finitely
often: a Node that crashes for ever expires nothing.

## 4. Proofs

`PermBlocksProofs` proves for every set of addresses, every textual overlap,
every initial ruleset and with nft failing or not:

* `TypeCorrect`: `Spec => []TypeOK`;
* `AckedRecorded`: `Spec => []AckedIsRecorded`.  The property is not inductive:
  while an operation is under way its list is only in memory.  `IInv` adds what
  the three steps of an operation have done so far (`OpInv`, `RewriteInv`) and
  that the list in memory carries every acknowledged block (`ListInv`);
* `AckedEnforced`: `Spec => []AckedIsEnforced`, whatever occurs in the text of
  what.  The property itself speaks only of the addresses whose text occurs in no other
  one (`Alone`); that the others are not always in force is the run
  `perm_text`.  `ForceInv` adds that the block under way is in the kernel already;
* `RefinesDurableSet`: `Spec => ImplementsDurableSet`, by step simulation under
  `IInv`.

`GatewayProofs` proves in three parts, one on top of the other, for any
decisions, addresses, lifetimes, cooldowns and bounds, with nft failing or not:

* `EnforcementTypeCorrect`, `RulesAreOwned`, `DeletionsAreExact`:
  `EnforcementSpec` keeps `EnforcementTypeOK`, `OwnRulesScheduled` and
  `DeletionHitsItsRule`.  A rule is owned if the agent learnt its handle; one
  it did not learn has no owner and no deletion, and nothing is claimed of it
  but that no deletion made for another rule hits it.  The last two are inductive only together with three
  facts about handles.  `HandlesBelow`: no rule and no scheduled deletion has a
  handle the kernel has yet to give, so a new rule cannot be mistaken for an old
  one.  `DownIsEmpty`: a process that is down holds neither heap nor deletion,
  so a boot that numbers the rules afresh leaves no deletion with an old number.
  `FiniteRules`: there are finitely many rules, so that the numbers a boot gives
  stay below the next handle;
* `GatewayTypeCorrect`, `AlertsAreSpaced`, `GatewayKeepsPromise`: `Spec` keeps
  `TypeOK` and `AlertSpacing` and implements `Verdicts`.  `GatewayInv` adds that a
  request has one verdict (`OneVerdict`), that a window covers the cooldown of
  the alert that opened it (`WindowsCover`), and that a batch on its way knows
  every alert sent since it was enriched, or has the key among those it handled
  (`BatchTold`): this is what makes up for windows read before the await;
* `MitigationTypeCorrect`, `StatusIsTruthful`: `MitigationSpec` keeps
  `MitigationTypeOK` and `StatusTruthful`.  `HandlersTrue` says that what a handler
  of Node has been told and has yet to write is true; it stays true because a
  verdict is final (`VerdictsStay`), whoever else calls the agent meanwhile;
* `AgentUnderNode`, `CompositionKeeps`: `MitigationSpec => Spec`, step by step, so
  that what is proved of the agent alone holds of the agent that Node's handlers,
  strays and restarts act on, the implementation of `Verdicts` included;
* `VerdictsAreFinal`: what `Verdicts` calls applied, refused or lapsed stays so, in
  `Spec` and in `MitigationSpec`;
* `DocsMoveOn`: `MitigationSpec => DocumentsMoveOn`.  Handlers of Node decide on what
  they read before their calls and write without reading again, so that the
  property says nothing of a single handler.  `LifeInv` says what saves it: a
  handler that has an answer to write met the document in a stage it may still
  be in (`HandlersInStage`, `FoundInStage`), an alert arrives for a document that
  is absent (`DocsInStage`), and of the reviews of one request the agent grants
  one (`OneAnswer`), so that a second one fails and writes nothing;
* `HandlesNotShared`: as long as the host does not boot (`[][~Reboot]_evars`), no
  rule handle is named to two requests, wherever it is held: in an alert on its
  way, a document, a handler or a stray.  `NamesInv` adds that no one names a
  handle the kernel has yet to give.  Without the condition it is false, for a
  boot numbers the rules afresh; for set elements it is false anyway, since
  two requests may block one pair (`nft_rules.py:165`, among the hazards).

`StaticProofs` proves for any tables, documents, threads and bounds, with nft
failing or not, and whatever is given up, repeated or restarted:

* `StaticTypeCorrect`: `StaticSpec => []StaticTypeOK`, from `TypeInv`, which says
  what a thread does at each `pc` by its operation;
* `HandlesAreOwn`: `StaticSpec => []HandleIsOwn`.  `HandleInv`: until a boot a rule
  has the table and the comment of its document and a handle of its own, and
  whoever holds a handle holds that of a rule with the same comment;
* `DocsAreInKernel`: `StaticSpec => []DocsMatchKernel`.  `MatchInv` says for each
  document outside the exceptions that at most one handler serves it, and where
  its request stands relative to the kernel;
* `DocsSurviveBoot`: `StaticSpec => []DocsPersist`.  `SaveInv`: while one thread at a
  time was busy, registry and file cover the kernel up to what that thread still
  has to save, so that the file has the rules of the active documents and the
  registry their tables.  That a lookup by comment finds a least handle (`Least`) is
  by well-founded inclusion of intervals.

`SensorProofs` proves for any flows and interfaces, and for all times with
`FlowTtl + CallTime + Lag < DedupTtl`:

* `SensorTypeCorrect`, `FlowsComeOnce`, `TrafficIsShownOnce` and
  `LossesHaveACause`: `Spec` keeps the three invariants of the run `sensor` and
  its action property, which names the three causes of a loss: age, a full
  ring, and a batch whose payload ended with an exception.  `FlowsInTime` bounds the age of a flow wherever it is;
  so the deduplicator still remembers whoever has a live flow (`LiveIsKnown`),
  admits no second one and does not forget it in a clean-up;
* `RingIsEmptied`, `BatchIsThere`: one `get_batch` shortens the ring, keeps its
  order, and sends fewer than `BatchSize` flows only when it has emptied it; and
  its loop ends whatever the ring holds (`LoopEnds`, from the least place at
  which it may stop).  That the batch, a set, has as many flows as were popped
  is by `OneAtATime`.  This is the part of `RingServed` that is not fairness.

`NodeProofs` proves for any number of requests, users, counts and ticks:

* `AutoIsTyped`, `SettingIsFollowed`: `AutoSpec` keeps `AutoTypeOK` and
  `SettingFollows`.  `AloneInv` says what one request has done so far, `Calm` that
  outside `trouble` document and flag agree but for that request;
* `AccountsTyped`, `RootIsThere`, `UpdatesKept`: `AccountsSpec` keeps
  `AccountsTypeOK`, `RootStays` and `ChangesAreAsked`.  A handler's copy of a
  document may be old, but its role and its exceptions are what `HandlerInv`
  says;
* `FiguresTyped`, `FiguresRecent`, `InvalidationWorks`: `DashSpec` keeps `DashTypeOK`,
  `FiguresAreRecent` and `InvalidatedIsGone`.  `FetchInv` bounds what a fetch under
  way has counted by the moment it began.

`RLDecisionProofs` proves for every set of addresses, of labels of the IDS, of
confidences, scores and metrics:

* `DdosNeverAllowed`, `AlertsHaveACategory`, `SeverityIsMonotone`, which are
  about single decisions;
* `DecisionTypeCorrect`, `HistoryIsTrue`, `PermanentNeedsRepeats` and
  `TableIsAllowed`: `Spec` keeps `TypeOK` and the three invariants of `RLDecision`
  that the run `engine` checks;
* `TrainedOnConfirmed` and `RewardTeachesTable`: `TrainSpec` keeps
  `PermOnlyConfirmed` and `RewardPrefersTable`, for episodes of any length;
* `EvidenceEscalates`: a higher confidence, a higher score and more decisions on
  record never make the table recommend a weaker action, nor take an action
  from the mask;
* `EngineTypeCorrect`, `VerdictIsOwn`, `AlertsCaused` and `ReasonsAreTrue`:
  `EngineSpec` keeps `EngineTypeOK`, `OwnVerdict`, `AlertsHaveCause` and
  `ReasonsHold`, for batches of any length.  `ReasonsHold` takes the sentence about a
  repeated attack for what it says only of a source known for this attack
  alone; of the others it claims what `AsCounted` leaves (section 5).

The strengthening `IInv` says of each copy of the history what `NeverOvercounts`
says of Redis: the snapshot under way and the file (`Below`), and the numbers
the flows of a batch carry (`BatchBelow`) are at most the decisions made when
they are used, since those only grow.  With this the numbers `a3_ok` compares
are lower bounds of the truth, whatever was lost or restored.
`AlertsHaveACategory` supplies that a permanent block has a category: a
confidence above 0.8 does not round to 0.6.

The invariant of the training (`EpisodeInv`) keeps the kinds of traffic apart
whatever the environment does in answer to the agent: a benign label never has a
confidence above 0.4, an attack always has one above 0.6, and the anomaly of
benign traffic stays below the threshold of its model.  Then the action of the
table is paid at least 15 in an attack (`TablePays`), and every other action, with
all the terms of the shaping, less than 0 (`OthersCost`); in benign traffic the
table asks for `monitor`, which is paid 5, and the rest cost 50.  One term pays
for blocking a source the IDS is not sure of, from the third repeat on, whatever
the table says: `TableOnDoubt` shows that from there on the table blocks it too.

The invariant of the engine (`EngineInv`) says that a reply comes of an engine
that is up, with what it has loaded, and that each entry is one
`_build_full_response` gives (`Accounted`).  `OwnVerdict` rests on what a place
in the batch and a place in its group have to do with each other: the places of
a kind have different ranks (`RanksDiffer`), the flow of a place stands at its
rank in the group (`GroupHasPlace`), so that the score put back is its own
(`OwnScore`); and what the stage finds of a flow it would find of the flow alone
(`FoundAlone`).  `AlertsHaveCause` follows.  `TableIsExplained` goes through the
table case by case; it needs that no label of the IDS becomes a DDoS.

`BaselineProofs` proves for every set of addresses and every flow:

* `BaselineTypeCorrect`, `BaselineWithinPeak`, `AttackHardlyLearned` and
  `BaselineGrowsSlowly`: `BaselineSpec` keeps `BaselineTypeOK`, `WithinPeak`,
  `AttackBarelyLearned` and `GrowsSlowly`.

The strengthening is about the update under way (`UpdateInv`): what it has read
of Redis is still there when it writes, or has expired, because the updater's
thread is the one writer while the agent runs; and where it has passed the
flag, nothing has been learned since the flag was raised.  With
`SmoothedBounds`, what the average of two numbers is bounded by, each write is
within the peak and within a tenth of the old baseline.

`AnchorEngineProofs` proves for every set of addresses and flows, all thresholds
and every time to live that is not shorter than the agent's patience:

* `AnchorTypeCorrect`, `PortsAreOfSession`, `FlowsHaveSources` and
  `DdosIsBacked`: `Spec` keeps the four invariants of the run `anchor`.

The strengthening compares the three times at which something is forgotten
(`TimeInv`): a window has no entry after the end of its session, a flow is
stamped an instant after its target's `last_update` at most, and the clock the
thread acts on is never ahead.  `BackedInv` adds that the target of a DDoS
verdict was updated during the call, so that it is not silent while the agent
waits: this is where `CallTime <= TTL` is used (30 seconds and 60).

`SilentIsForgotten` says that one turn of the cleanup thread leaves nothing of a
target whose last update lies more than TTL and an instant before the clock the
thread has read: no source, flow, window or port.  The thread finds windows by
their stamps and sources by `last_update`; `MemoryInv` says that a window is no
newer than the update of its target, that there are no ports without a window,
and no window without a source.  The rest of `Forgotten` is fairness.

The assumptions used are those the modules declare of their constants.

Only model-checked: the liveness properties `OwnRulesEnd`, `ExpiredDocsGo`,
`Forgotten` and `RingServed`, which like ENABLED are out of the prover's reach.
What they need of single steps is proved: a rule stays in the scheduler's hands
until its deletion is tried (`RulesAreOwned`), a document that is gone stays gone
(`DocsMoveOn`), one clean-up forgets all that is silent (`SilentIsForgotten`), and
one batch is always there to take and shortens the ring (`BatchIsThere`,
`RingIsEmptied`).

## 5. Findings

Four runs end with a violation:

* `static_stale_handle`: handles kept in MongoDB are used after the boot that
  numbered the rules afresh.  Disabling a rule then deletes another one, and
  the answer says "Rule disabled (Removed from Firewall)"
  (`firewall.controller.js:249`);
* `perm_text`: `_restore_permanent_blocks` tests for an address in the text of a
  listing (`nft_rules.py:135`), so that 10.0.0.1 counts as restored where
  10.0.0.10 is.  The comment at `nft_rules.py:180` has a permanent block survive any
  reboot;
* `root`: two signups that both counted no user make two super administrators,
  where the comment above the count says "Only one super_admin is allowed"
  (`auth.controller.js:18`);
* `orphans`: `removeRuleFromFirewall` returns true also when the agent refused
  or could not be reached (`ai.controller.js:37`), so that the expiry job deletes a
  document whose rule is still in force.  The comment at
  `ai.controller.js:641` keeps such a document for the next cycle rather than make it an
  orphan; the one at `ai.controller.js:36` has the job go on.

Exceptions that properties name, each a history TLC finds when the exception is
left out.  What they except is what the code does, and no property catches it:

* rewriting `perm_blocks.json` in place can lose every block: a crash after the
  truncation leaves an empty list (`AckedIsRecorded`, and `LoseAll` of `DurableSet`);
* a rule that nft added and whose handle could not be read stays in the kernel
  with no deletion scheduled, and no alert names it (`nft_rules.py:215-218`,
  `OwnRulesScheduled`);
* a rejection shortens the window of a block in force, and an alert may follow
  after the shortest cooldown (`AlertSpacing`);
* a document may say pending for good after the answer to its review was lost, and a 404 of the agent is reported as "The rule was not applied",
  which a call served late, or another admin's, makes false (`StatusTruthful`);
* two saves overlap and the older one is written last, so that an acknowledged
  rule is missing after the next boot; two writers of the registry lose a table
  (`DocsPersist`, which speaks of one request at a time);
* a rule enabled twice is in the kernel twice, and one of the two stays
  (`DocsMatchKernel`);
* the snapshot of a send that failed is lost (`TrafficAddsUp`);
* a toggle that failed, timed out, was overtaken by another or by a restart may
  leave the document and the flag apart (`SettingFollows`);
* a fetch under way at an invalidation may bring the old counts back
  (`InvalidatedIsGone`);
* the reason "has repeated a high-severity attack" names one
  attack and gives the number of all the decisions about its source
  (`explainability.py:381-385`, `state_adapter.py:40`), while `same_attack_count` is
  computed and not used here (`ReasonsHold`).

Seen in the source and not made into a run, as one handler on its own shows it:
`deleteAIRule` ends at the first deletion that fails, although the comment at
`ai.controller.js:36` says that it continues; `receiveAlert` records a monitor
decision executed in auto mode as awaiting approval; `deleteRule` ignores the
agent's answer (`firewall.controller.js:308`); enabling a static rule again
leaves out its interface (`firewall.controller.js:255`).

Of the decision: `ids_label_to_int` takes "ddos" for "dos", which occurs in it
and comes first (`rl_inference.py:48`), so that the DDoS response is never
allowed (`DdosNeverAllowed`); the agent accepts it nevertheless, and
`Enforcement` and `ApprovalGateway` are checked with it.  `a3_ok` says that
Rule 12 applies to "ANY confirmed attack type" (`rl_inference.py:363`) and does
not ask whether the label is an attack: a flow the IDS holds for benign with
more than 0.8 may be blocked for good as an anomaly.  `_parse_action`
(`state_adapter.py:18`) reads "a2" and is given "A2_TEMP_BLOCK", so that the last
action of a source is never known to the agent.

Of the baselines: a first rate read before the tracker has published one is 0
(`pps_tracker.py:32`), and a baseline of 0 stays 0, because every rate is a
spike against it (`ewma_store.py:54`), until its key expires; a restored key
does not expire until it is written again, which it then never is.  Until then
`pressure_ratio` answers 1.0.  The first rate becomes the baseline even while
the attack flag is up (`ewma_store.py:45`).  The tracker never forgets the rate
of an address without packets (`pps_tracker.py:28`).

Of the detection and the reasons: an IDS that was loaded in part makes every
`/predict` fail until a restart, because the guard asks for the model alone
(`api_for_anomaly_IDS.py:1198`) and the scaler or the classes may be missing.
Outside the conditions of `ReasonsHold` a reason may say what is not so: where the
agent deviates from the table, a rate limit is explained by a first occurrence
although the source has a history; an outlier the IDS did not confirm is called
confirmed when it is blocked; and a monitored flow is said to be below both
thresholds also when its window was active or no agent was loaded.

Of the training: a benign scenario never has a confidence above 0.4, an attack
never one below 0.62, so that what `a3_ok` leaves open (above) does not occur
there (`PermOnlyConfirmed`) and is never unlearnt; the scenarios' weights `w` are not
used by `sample`; a comment gives the state 25 features where `STATE_DIM` is 28.

Of the sensor: after an outage of the connection the counters of all its intervals
are divided by the length of one (`ws_monitor.py:138`), so that packets per
second and the alert "has exceeded 80%" (`node_client.py:48`) overstate what
was seen; `_active_flows` is pruned only when its size is a multiple of 200
(`flow_pipeline.py:88`).

Of Node's records: two first requests for the setting may both create a
document, of which one is used from then on.

Of the anchor engine: the sources of a target are forgotten only when it had no
flow at all for a minute (line 170), so that "ten sources" may have come in the
course of hours while the flows counted beside them are of one minute; so may
the ports of a pair that is never silent.  `last_update` and the stamp of a flow
are read one after the other, so that the sources may be cleared an instant
before the flow that renewed them ends (`SourcesCoverFlows` names it).

## 6. Plan

What is left, in this order:

1. The windows of `ApprovalGateway` and the history of `RLDecision` in one
   pipeline, so that the mask of a flow is that of its source.
2. The fall-back of `ai.controller.js` for documents without deletions, and two
   overlapping cycles of the expiry job (the model has them, `Job` may hold two,
   the run uses one).

## 7. Running

    tlc -config Gateway.cfg MCApprovalGateway
    tlapm PermBlocksProofs.tla
    tlapm GatewayProofs.tla
    tlapm StaticProofs.tla
    tlapm SensorProofs.tla
    tlapm NodeProofs.tla
    tlapm RLDecisionProofs.tla
    tlapm BaselineProofs.tla
    tlapm AnchorEngineProofs.tla

The other runs are started like the first one, with the module and the
configuration that `PROJECT.json` gives for them.

## 8. Not modelled

* What a network or a tree computes (the autoencoder, the classifier, the
  forests, the Q network) and how the agent learns: numerical functions without
  state.  What they may answer is arbitrary in the models.  The plots and the
  evaluation of `RL_V9.ipynb`, and `IDS_model.ipynb`, are about these.
* Packet parsing and feature extraction: pure data.  The traffic classes and the
  bandwidth alert of the monitor: sums of the counters `Sensor` has.
* Wording, logging and layout of the reasons beyond the words they start with.
* `/predict/ids`, `/predict/anomaly` and the debug end points, which repeat
  `/predict` in parts and change no state; `AlertDeduplicator`, which decides what is
  logged only; the legacy end points.
* Passwords, tokens and verification codes; `getStats` and the relay of metrics,
  which read and pass on; notifications and the audit log, which are appended
  and never read by a decision.
* `addChain`, `create_chain` and the validation of rules: a chain is a constant of
  the models, and a request that is not valid changes nothing.
* Interfaces: I/O on the host.  The front end issues the requests that the models
  take from an arbitrary admin.  `new_capture.py` is not started by `main.py`.
* Failures of MongoDB, and those of Redis but for the exception in
  `_build_payload`: no handler of the code deals with them.
