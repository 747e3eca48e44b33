# Formal models of bk-plugin-runtime-go

The runtime executes BlueKing plugins. A caller invokes a plugin over HTTP; the
plugin's first step runs inside that request. A step ends the invocation
(SUCCESS or FAIL), asks to be polled again later (POLL), or waits for a third
party to post to a callback URL (CALLBACK). Later steps run in worker
processes. Server and worker processes share nothing but one table,
`schedules`: every guarantee the runtime gives rests on the conditional updates
of that table, on leases, and on two expiry checks made by different parties.
That is what these modules model.

## 1. Inventory

| Component (source) | State it keeps | Operations | Interacts by |
|---|---|---|---|
| Schedule store (`internal/store`) | one row per trace: state, invoke count, data, next run, token hash and expiry, received callback, lease, finished_at | Create, Get, MarkPoll, MarkCallback, MarkSuccess, MarkFail, UpdateContextData, UpdateOutputs, ReceiveCallback, ExpireCallbacks, RenewLock, ClaimDue | SQL statements of any process |
| Scheduler worker (`internal/scheduler`, `cmd/worker.go`) | in memory: the claimed batch, the rows it expired, the heartbeat | Run, RunOnce: expire, claim, then runItem for each item | the store; finish callbacks |
| Step runtime (`internal/runtimeadapter`) | the callback prepared in a step | SetPoll, PrepareCallback, SetCallback, SetSuccess, SetFail, object stores | the store; tokens |
| Callback tokens (`internal/callback`) | none (a secret) | Issue, Verify | given to third parties, checked by the server |
| HTTP handlers (`internal/server`) | none between requests | Invoke, Callback; Schedule, Meta, Detail (read only) | the store; finish callbacks |
| Finish callback (`internal/finishcallback`) | the attempt a goroutine is at | NotifyWithRetry: three posts, 0.5 s apart | launched by handlers and workers |
| Plugin API dispatch (`internal/server/plugin_api*.go`) | the routes plugins registered | Handle; PluginAPIDispatch, which turns one request into another | registrars, the router |
| Request scope (`internal/auth`) | none (the plugin's AllowScope) | AllowRequest, CallerApp, Operator | the handlers |
| API gateway sync (`internal/apigwsync`) | the gateway's stages and versions (external) | definition, resources, version, release, grants, key | deployment |
| Bootstrap, commands (`internal/blueappsadapter`, `cmd`, `runner`) | configuration | load, migrate, start | once, before anything runs |

**What is hard in it, and what makes each component correct**

* *Store.* A row is read by one statement and written by a later one; other
  processes write in between. ReceiveCallback, ExpireCallbacks, RenewLock and
  ClaimDue test the row again in the update; the four Mark statements test
  nothing. Correct means: a final state is never lost, a lease has an owner, a
  callback is recorded once, a timed-out row never gets one, and the limited
  queries starve no row.
* *Workers.* Lease, heartbeat and snapshot must together keep two workers from
  executing the same step, through errors, crashes and slow steps; an end must
  be told to the caller, and only if it lasts; and every trace must be carried
  to its end although workers die, hosts disagree on the time and leases lapse.
* *Handlers.* A callback can come before the row knows its token, twice at the
  same time, after the plugin went on, or in the last second before it expires.
* *Finish callback.* Posts and answers get lost or come late: success must not
  be claimed falsely, and no goroutine may hang or repeat without a reason.
* *Gateway sync.* Six calls, each of which may fail after the gateway carried it
  out, on a gateway shared with other deployments: a repeated deployment must
  get through, and publish what it declares.
* *Plugin API.* The same path in several spellings must be one route, and a
  dispatched request must reach the handler, with the input and the caller, that
  a direct request would.
* *Together.* The first step is in one process and later steps are in others;
  what the caller sees must be a single sequence of steps.

PROJECT.json lists each hazard with its source line and the property that
would catch it.

## 2. Modules and their correspondence to the code

| Module | Models | Depends on |
|---|---|---|
| `ScheduleStore` | the table: one action per SQL statement that writes, an operator per query | – |
| `ScheduleStoreProofs` | its theorems | `ScheduleStore` |
| `CallbackToken` | the expiry arithmetic of Issue and Verify | – |
| `ExecuteRuntime` | what a step can do to its row; clock, tokens issued, faults | `ScheduleStore`, `CallbackToken` |
| `ExecuteRuntimeProofs` | lemmas on tokens and expiries both processes' proofs use | `ExecuteRuntime`, `ScheduleStoreProofs` |
| `FinishCallback` | how often a trace's end was notified | – |
| `Scheduler` | RunOnce, runItem, heartbeat | `ExecuteRuntime`, `FinishCallback` |
| `SchedulerProofs` | its theorems | `Scheduler`, `ExecuteRuntimeProofs` |
| `ScheduleLifecycle` | abstract: what the caller of a plugin sees, and that it is carried on | – |
| `SchedulerProgress` | Run over unbounded time: tickers, restarts, fairness | `Scheduler` |
| `Server` | Invoke and Callback | `ExecuteRuntime`, `FinishCallback` |
| `ServerProofs` | its theorems | `Server`, `ExecuteRuntimeProofs` |
| `PluginRuntime` | servers and workers together | `Scheduler`, `Server` |
| `PluginRuntimeProofs` | its theorems | `PluginRuntime`, `ServerProofs`, `SchedulerProofs` |
| `FinishDelivery` | NotifyWithRetry, the network and the caller's endpoint | – |
| `FinishDeliveryProofs` | its theorems | `FinishDelivery` |
| `ApigwSync` | Sync and what it relies on of the gateway | – |
| `ApigwSyncProofs` | its theorems | `ApigwSync` |
| `PluginApiRouter` | the routes of the plugin API | – |
| `RequestScope` | AllowRequest and the headers it reads | – |
| `PluginApiDispatch` | PluginAPIDispatch on any table of routes | `PluginApiRouter`, `RequestScope` |
| `PluginApiDispatchProofs` | theorems on the routes and the dispatch | `PluginApiDispatch` |
| `MC*` | instances for TLC | the module each is named after |

**Store.** `rows[t]` is the row of trace `t` or `Null`. A column that only
carries text (inputs, messages, plugin version) is left out; JSON columns are
opaque values, with `EmptyMap` for `{}`. `finished_at` is a flag because the
code only tests it for NULL; the instants that are compared (`next_run_at`,
`callback_expires_at`, `callback_received_at`, `locked_until`) are ticks. The
conditions of an UPDATE are `...Matches`, its assignments a row transformer
`...Row`. A query with ORDER BY and LIMIT may return rows with equal keys in
either order, so `OrderedResults` is a set of sequences.

**Step runtime.** A token is known by the order in which it was issued: the
nonce and the HMAC guarantee that tokens are distinct and cannot be made up,
and nothing else about them matters here. `clock` is the time of the servers'
hosts; a worker on a `Fast` host reads it `Skew` ticks ahead (`HostClock`), and
what it writes is compared with other hosts' clocks. The model keeps
the order of PrepareCallback and SetCallback: between the two the third party
has a URL whose token no row holds. A step is any sequence of writes and at
most one mark; a plugin step that marks and then returns an error is outside
the model.

**Scheduler.** `worker[w]` is the program counter of RunOnce and what the
process holds in memory. An action is one SQL statement with the computation up
to the next, so every statement of other processes may fall in between. A
round begins by reading the time once (`now`); the claimed lease ends at
`now + LockFor`, the renewed one at the current time plus `LockFor`. The
heartbeat renews the running item only, every `LockFor / 3`, from the start of
the step until it has stopped, which is after the mark. A database error may
leave a statement's effect in place or not; a crash loses everything in memory
and leaves leases in the table. A stopped worker (context cancelled) is a
crash: every later statement of it fails. A restarted process has a new worker
id, so a crashed worker stays `dead`.

**Progress.** `SchedulerProgress` adds to `Scheduler` the ticker of Run and
restarts, and lets time run for ever: the clock stands at `Present`, and `Pass`
moves every instant on record one tick back (an instant in the past stops at
0). No statement does more with two instants than to compare them, so only
distances matter; for a past one only the order, which with a single trace is
never asked for. A restarted worker takes its old id again: RenewLock alone
tests the id, and only for an item this process claimed.

**Server.** One Invoke request per trace; a handler is split at its
statements. `Posts` are the callback requests of a behaviour, each with any
issued token and any payload. The handler ignores an error of its own
MarkSuccess and MarkFail, but takes an error of the runtime's SetPoll and
SetCallback for an error of the step, which it marks failed (`InvokeFails`).
With `LostAcks` such a mark may have taken effect. A callback request may be
refused before it reaches the table (`Verdicts`): for a token that does not
verify, a missing secret or a body that cannot be read. Its two readings of the
clock (`handlers.go:241`, `token.go:71`) are one instant; the second is the later
and could only refuse more.

**Composition.** `Scheduler` sees the server as `ServerStep`, and `Server` sees
workers as `WorkerStep`: the statements of the other side without its memory.
`PluginRuntime` drops both and puts the handlers and the workers themselves
side by side.

**Finish delivery.** `FinishCallback` counts launches; `FinishDelivery` follows
the launched goroutines. `notifier[n]` is the goroutine's place in the loop and
its attempt, `wire` what is under way. A post that was given up may still reach
the caller, and its answer reaches nobody. `failures` counts what went wrong
for a goroutine, for the properties only. The caller, the network and the end
of the process are external. The context of both launches is
`context.Background()`, so the cancellation branch of the pause is not taken.

**Gateway sync.** `Settings[d]` is what deployment `d` is configured with: name,
stage, environment and preallocated addresses, from which `ApiName`,
`StageName` and `StageBackend` are resolved as the code does, an environment
other than staging being production. A deployment without a name or a backend
ends before its first call; so does one whose templates or manager cannot be
made (`BeginFails`). An address without a scheme passes the code's check as the
host `http://`; here every address that is present is a backend. `run[d]` is the
call `d` makes next. The gateway is
external: resources (each known by the deployment that synced it last),
versions with the resources they were cut from, the version each stage serves
and the backend it calls.
A call may fail before or after the gateway carried it out. A version is the
second it is stamped with, or a pinned name.

**Plugin API routes.** A path is its base, whether it starts with a slash and
whether it ends with one. `given` counts what gin is given, because gin panics
when it is given a route twice.

**Dispatch.** A request is the headers the runtime reads, the route, and three
sets of parameter names: in the url, in `data`, in `dumped_data`. What is
refused, how the parts are merged and where they are put for GET, JSON and
multipart is as in the code; a value is known by the place it was taken from,
so that the properties can say which place wins. The inner request then goes
through the same scope check and the table of routes; gin is external (lookup,
and a redirect if only the other spelling is registered). Dispatches share
nothing but the table: one is in hand at a time, on every table.

Definitions whose name has a suffix (`ClaimMatches_IgnoreLease`) are faulty
variants of the definition that follows them. Nothing refers to them: each
shows, put in place of that definition, that the property it is listed with in
PROJECT.json can fail.

## 3. Runs

`EndIsReported`, `EveryNotifierEnds` and `RetriedDeploymentSucceeds` are
liveness properties, `ImplementsLifecycle` and `ImplementsFairLifecycle` are
refinements (the second with the liveness of the abstract specification), and
the rest are invariants and action properties. `Null` and the named constants
are model values.

| Run | What it shows | Bounds | States |
|---|---|---|---|
| `store` | what the guards of the statements keep true under any clients, any order, any arguments | 1 row, 2 workers, 2 tokens, 3 instants, 2 payloads | 7 k |
| `due_selection` | ClaimDue picks the rows that have been due longest, whatever the limit and the ties | 3 rows in every phase, limits 1 to 3 | 110 k |
| `scheduler_single` | two workers claiming one row at a time on hosts one tick apart: mutual exclusion of steps, leases as every host sees them, snapshots, ends that last | 1 trace, 3 invoke counts, 5 ticks, lease 4, polls after 2, 2 faults | 1.3 M |
| `scheduler_progress` | time without end: every trace is carried to its end and the end is reported, through crashes, restarts and lost statements; refinement of the fair lifecycle | 1 trace, 2 workers, 3 invoke counts, 1 token, 2 faults | 68 k |
| `lease_of_queued_item` | counterexample, see section 5 | 2 traces, 2 workers, punctual | |
| `server` | Invoke and Callback against workers' writes | 1 trace, 2 posts, 2 tokens, 2 ticks to a second, 3 ticks, 1 fault, lost acknowledgements | 4.5 M |
| `early_callback`, `repeated_callback` | counterexamples, see section 5 | as `server`, no fault | |
| `plugin_runtime` | both sides at once: the first step is alone, every end is notified and not more often than it was read, a callback step reads an accepted payload, expiry and late callback exclude each other, refinement | 1 trace, 2 workers, 1 post, 3 ticks, 1 fault | 1.4 M |
| `finish_delivery` | success is claimed only when the caller accepted, repeats have a reason, giving up takes three failures, no goroutine hangs | 2 goroutines, 3 failures each, crashes | 250 k |
| `apigw_sync` | a reported success is published and complete; one alone serves its own resources; a repeated deployment gets through | 3 deployments and one that lacks a backend, 2 stages, 2 resources, 1 failing call, 3 seconds | 580 k |
| `plugin_api` | no route is given twice, a slash at the end makes no difference, and a dispatch reaches its handler with its input | 81 tables (a path and `/` in all spellings, 2 methods, 2 handlers), 800 requests | 92 k |

*Why these bounds are enough.* No statement touches two rows, so one row shows
everything a statement can do to it; two traces matter only to batches and
three only to the order of selection, and those have runs of their own. Two
workers are what a race over a row takes. With a lease of three or four ticks
and a heartbeat every tick, five ticks let a lease lapse and be taken over, and
the former owner come back; a lease of four is the shortest that survives, on
hosts one tick apart, a failed heartbeat that the two faults allow. Three invoke counts allow two waits in a row, so a
second wait can be confused with the first. Two faults allow a crash of the
worker that took over from a crashed one. Two ticks to a second make the
token's cut visible; `Timeouts = {0}` takes the default, which is one and a
half seconds in that run, so the two expiry checks do differ.

Three failures exhaust the attempts of a goroutine and two do not. One failing
call lets a deployment fail at any call, be repeated and collide with the
version of its first attempt; three deployments put a pinned version created by
one in the way of another while a third syncs resources in between. Calls do not
fail in the last second of the bound, so that a deployment which collides with
its own earlier version always has a fresh second left. A dispatch depends on
the route of its own path and method only, so one path beside `/` is enough;
two parameter names show fields that are and are not in each place, and one of
them is `dumped_data` itself, which the multipart form treats specially.

*Fairness.* `ProgressSpec`: time passes (`Pass`); a worker process goes on
(`GoesOn`: Run never leaves its loop, statements return, a plugin's step
returns, and the platform starts a dead process again); and while a step runs
the heartbeat goroutine ticks (`Heartbeat`). Each is weak fairness per worker.
Nothing is asked of the server, of third parties, or of which kind of statement
comes next. `EndIsReported` starts at a row whose first step has been marked,
because no worker can repeat that one, and gives up a report only to a fault
that came later than the last time the trace was seen unfinished: any number of
earlier faults is survived, up to the bound. `CarriesOn`, the liveness of the
abstract lifecycle, is the same promise in its terms.
`DeliverySpec`: a goroutine goes on while its process lives, because
`http.Client.Timeout` ends every post and `time.After` every pause; and a post
that is not lost or refused reaches a caller who accepts it. Nothing is assumed
of lost posts or of a caller that fails. `FairSyncSpec`: time passes, a
running hook goes on, and the platform repeats a failed one, which is what the
comment at `sync.go:354-357` counts on. No other run assumes fairness.

*Assumptions of particular runs.*

* `Prompt`: between two of its statements, and when its heartbeat is due, a
  worker is not delayed by a whole tick (a third of the lease). A step itself
  takes any time. Without it a lease can lapse while its holder is paused, and
  nothing in the code prevents two executions then.
* `scheduler_single`, `scheduler_progress` and `plugin_runtime` claim one row at
  a time (`Limit = 1`) because with a larger batch steps are re-executed
  (section 5).
* `HoldsItsLeases` (`scheduler_progress`): a lease does not run out while its
  owner still works on the row. Where it does, two workers run the row, and the
  later of their marks may leave it finished and in POLL or CALLBACK, which no
  query ever returns. Faults that end the owner's work do let leases run out.
* `Skew` (`scheduler_single`): the hosts' clocks differ by less than the margin
  the heartbeat leaves, and by less than a poll interval. Otherwise a lease
  looks free to the fast host while the slow one's step runs.
* `LostAcks` is on in `server` and off in `plugin_runtime`: a mark of the first
  step that fails for the server and takes effect is followed by MarkFail, which
  tests nothing; a worker may have run the row by then, and the caller's
  lifecycle is not implemented. `server` checks what holds all the same.
* `scheduler_single` and `plugin_runtime` poll after at least one tick, and
  after more than the skew, and issue one token. A worker selects rows and claims them later; another may
  claim a row, run it, and leave it due again in between. The claim tests the
  state and the due time but not the invoke count, so it succeeds, and the step
  runs on the old snapshot: with `Delays = {0}`, a delay within the skew, or two
  tokens, `StepFollowsRow` and the refinement fail. With a poll interval longer
  than the gap between select and claim this cannot happen, and the runs check
  that case.
* `scheduler_single` and the server's runs do not check for deadlock: both
  workers may have crashed, and a server whose requests have all been answered
  at the last tick has nothing left to do. Nor do `finish_delivery` and
  `apigw_sync`, where goroutines and deployments come to an end.

## 4. Proofs

TLAPS proves, for any number of traces, workers, requests, tokens, deployments
and routes and any clock, every safety invariant and every safety action property
of the passing runs, and that the scheduler and the whole runtime implement
`ScheduleLifecycle`. Theorems about the table, the tokens, the handlers, the
delivery, the sync and the routes hold for any number of faults. What rests on
leases holds under hypotheses, which each theorem names:

| Hypothesis | What it asks | Who breaks it |
|---|---|---|
| `Punctual` | statements and heartbeats in time, one row to a round, no more faults and skew than the lease is sized for | `Limit > 1` does (section 5), long pauses, many faults |
| `~LostAcks` | no mark of a first step both fails and takes effect | a lost database answer |
| `PollsOutlastSkew` | a poll is asked for after more than the clocks differ by | a plugin that polls at once |
| `AnswersAwaitClaims` | no answer to a later wait comes while a worker is still to claim the row for an earlier answer | a third party faster than a worker is from select to claim |

The main inductive invariants below were checked by TLC on the instance of a run
before they were proved. PROJECT.json lists the theorems with the property each states.

* **The table** (`ScheduleStoreProofs`). Every statement changes one row, so
  the argument is about rows. `RowInv` is the conjunction of the row's type and
  the four row invariants; they need each other: that a claim never leases a
  finished row needs `finished` to be tested, and that expiry leaves a row
  timed out *for ever* needs both that a finished row gets no callback and that
  a mark which writes over a timed-out row replaces its error code or keeps the
  row finished and unreceived. One lemma per row transformer shows that it
  keeps `RowInv`; `OneRow` lifts that to `StoreInv`. For the two action
  properties, `StepsAreRowSteps` says what a step can make of a row.
  `StatementInv` and the `...Effect` lemmas are about any statement with any
  arguments, so the proofs about workers and handlers cite them.
* **Selection** (`OldestRowsFirst`, `OldestRowsAnyLimit`). ClaimDue cuts off two
  queries at the limit, merges them and cuts off the merge. A cut result leaves
  out only rows that are not older than any it has (`FiniteTable` is needed:
  the number of rows that can be older is compared with the limit), and the
  merge keeps that. The theorem holds for every limit, the run tries three.
* **Tokens** (`ExecuteRuntimeProofs`). From the division bounds of the cut to
  whole seconds: a token that verifies belongs to a row that has not expired; a
  token is refused less than a second early. They hold for every `SecondTicks`.
* **Handlers** (`ServerProofs`). `HandlerInv` adds to the types and to `StoreInv`
  what ties requests to rows: a token belongs to a stored trace and a row carries
  a token of its own (`TokenInv`); a row whose first step runs is EMPTY and waits
  for nothing (`InvokeOf`), so no step gives it a token somebody has used; an
  accepted request is in the row while the row has its token (`KeptBy`). That a
  token is accepted once follows because the conditional update finds no
  callback in the row, and an accepted request would be there. That an accepted
  wait does not time out is `KeptBy` with the row invariant that timed-out rows
  hold no callback. An action of a request keeps to a frame (`InvokeFrame`,
  `PostFrame`) and each frame keeps `HandlerInv`. Workers enter only through
  `OtherStep`, what a step of another process may do to rows and tokens.
* **Workers** (`SchedulerProofs`). `WorkerInv`, what a worker holds in memory
  fits its place in the code, the table and the tokens, holds whatever the
  settings: each action keeps to a `WorkerFrame`, each frame keeps `WorkerInv`.
  `HeldInv` adds that without faults a step that has ended gave its lease back,
  which is what `LeasedRowIsHeld` needs to survive a read back. `LeaseInv` is the
  invariant of the lease protocol, under the hypotheses named `Punctual`:
  statements and heartbeats come in time, one row to a round, and
  `(MaxFaults + 1) * HeartbeatInterval + Skew <= LockFor`. It says of a running
  step that the lease outlasts the next heartbeat by all but one interval, and
  by one more for each fault so far; so no host takes it for expired, no claim
  matches, and no statement of another worker touches the row (`TouchedByWorker`).
  `StepMutex`, `LeaseCoversStep`, `NotifiedIsFinal` and `FinalRowFrozen` follow.
  The instance of `scheduler_single` satisfies the hypotheses with equality
  (lease 4, interval 1, skew 1, two faults); beyond them section 3 says what
  goes wrong.
* **Steps and their rows** (`SchedulerProofs`). The claim tests a row's state and
  due time, not its count nor its payload (`gorm_store.go:246`), so that a step
  runs on the row as it is (`StepFollowsRow`) rests on what may happen between
  select and claim. `FollowInv` says that an item found either is the row as it
  is (`Follows`) or the row is not what a claim of it looks for (`Unclaimable`).
  A poll marked meanwhile is due after every host's present, which is the
  hypothesis `PollsOutlastSkew`; `RowMoves` lists what a statement may do to a
  row, and a snapshot that fits survives each of them but one: a row that waited,
  was answered and waits again can be answered again before the claim, and the
  item then claims the second callback with the first one's payload and count.
  The code does not prevent this (section 3). `AnswersAwaitClaims` excludes it and
  no more: a row may wait any number of times. It is an action formula about
  plugins and third parties, a hypothesis of the theorems: `SchedulerSpec /\
  AnswersAwaitClaims => []StepFollowsRow`. `PollFollowInv` is the same invariant
  without what is found for an answer; it needs no hypothesis of that kind, and
  `StaleStepsHaveWaitedAgain` concludes from it, for the whole runtime, that a
  stale step can only be one for a callback, on a row that has been answered too.
* **The lifecycle** (`SchedulerImplementsLifecycle`). The refinement mapping is
  `Phase` and `StepsDone`. `LegalMove` says what the lifecycle allows one trace;
  a mark of a step whose item follows its row counts exactly one step on
  (`MarkIsStep`); every other statement of a worker (`RowByIsLegal`) and of the
  server (`OutsideRowIsLegal`) leaves phase and count or is an expiry, an answer
  or a first step.
* **Servers and workers together** (`PluginRuntimeProofs`). `RuntimeInv` is
  `HandlerInv` and `WorkerInv` and three facts neither side can know: what a
  worker selected or claimed is past its first step (`ItemsPastFirst`); the token
  a running step prepared is in no row, accepted by no request and prepared by no
  other step (`PreparedOwn`); and while nothing fails a final row was notified
  or somebody is about to (`FinishOwed`). With the first two a step of a worker
  is an `OtherStep` to the handlers, and a step of a handler leaves the workers
  what `OthersKeep` asks for. None of this needs `Punctual`: that the first step
  runs alone, that no end is dropped, that an accepted callback is kept and does
  not time out, hold even where leases lapse. Nor does `ReceivedInv`: while nothing
  fails, whatever a row received was posted by a request that was told so.
* **Leases and lifecycle of the whole runtime** (`PluginRuntimeProofs`). Under
  `Punctual` the invariants of the workers hold among the real handlers too:
  the row a handler touches is new, still in its first step or waits for the
  callback that has come, so no worker holds it (`HandlerIsOutside`), and it
  changes as `OutsideRow` allows, which is what the lease, follow and lifecycle
  arguments ask of a server. These theorems assume `~LostAcks`: where a mark of
  the first step fails and takes effect, the MarkFail that follows may hit a row
  some worker already steps. With `ReceivedInv` and `FollowInv` a step run for a
  callback reads an accepted payload (`StepsReadAcceptedCallbacks`). `AnswersAwaitClaims`
  is met wherever no row waits again once it has received a callback
  (`OneWaitIsNotOvertaken`: what a worker has found answered stays answered), and
  that by every behaviour that issues at most one token (`OneTokenIsOneWait`), as
  in `plugin_runtime`, because a token a row has received a callback for is in use
  and no step can have it prepared.
* **How often an end is reported** (`PluginRuntimeProofs`). `NotifiedPerStep` is
  not inductive: a process that has read a final row back is free to notify. So
  `ReaderInv` counts, for each trace, the callbacks sent, the workers still to
  read the row they changed or to report what they read (`Readers`) and the
  request still to read its first step (`FirstReads`); together they are no more
  than the steps the row has seen and its expiry (`BoundOf`). A mark or an
  expiry adds one to both sides, a notification moves one from the readers to
  the callbacks. A step that could not be marked has ended too and is read back,
  but counts for nothing in the row; it is no danger only because its lease is
  still in the row and in force (`UnmarkedOf`), so that its worker reads a row
  nobody ended (`UnmarkedUntouched`). That is where the hypotheses come in:
  `Punctual`, for a lapsed lease lets another worker end the step;
  `AnswersAwaitClaims` and `PollsOutlastSkew`, without which a step may start from a stale count and
  the mark may fail to raise the row's. TLC checked `ReaderInv` as an invariant of
  the instance of `plugin_runtime`, one fault included, before it was proved.
* **Finish delivery** (`FinishDeliveryProofs`). `DeliveryInv` ties each
  goroutine's attempt to what it has under way and to the failures it met: an
  answer in the network that says success comes from a caller that accepted, and
  attempts are numbered by failures.
* **Gateway sync** (`ApigwSyncProofs`). `SyncInv` ties the call a deployment
  makes next to what the gateway holds by then. Versions are unique because
  the gateway refuses a name it has, so the name a stage is released to stands
  for one set of resources. What another deployment syncs or deletes between a
  deployment's sync and its version shows in that version: `SuccessIsPublished`
  lets a declared resource be missing only where another one deleted it.
* **Routes and dispatch** (`PluginApiDispatchProofs`). `RouterInv` says that gin
  was given exactly the routes the table holds, each once; it is inductive
  because what Handle adds is free (`NewRoutesAreFree`). From `HandleEffect`: no
  route is given twice, none is taken over, and a path and its twin stay equal
  because a registration adds both or neither. `DispatchInv` keeps that of
  every table a dispatch meets; with it, and with the scope check reading the
  same headers the second time, a dispatch reaches its handler.

The assumptions are the ASSUMEs of the modules, which TLC evaluates in every run:
instants are naturals, `{}` is a payload, a second and the default lifetime are
positive; `Null` is none of the values it stands in for, a row among them
(`NoRowAssumption`; in `ApigwSync`, no instant); the invoke counts have 1, which
Invoke writes, and 2, the first a worker writes; a dispatched request has the
headers the runtime reads and a path from the root, and `None` is nothing a
handler can be given. The bound on invoke counts is part
of the model, and a step is run only where its count fits (`Countable`).

**Only model-checked**, because they are out of the prover's reach: liveness under
fairness (`EndIsReported`, `ImplementsFairLifecycle`, `EveryNotifierEnds`,
`RetriedDeploymentSucceeds`), ENABLED, and what a recursive definition computes
for all inputs.

## 5. Where the code and what is said of it differ

* `lease_of_queued_item` (`worker.go:78`). The comments at `worker.go:107-108`
  and `gorm_store.go:194-197` say that a slow step is not re-claimed and
  re-executed. RunOnce claims up to `Limit` rows whose leases all end at the
  same time and runs them one by one with a heartbeat for the running one
  only. Behind a slow step the other leases run out; another worker claims and
  runs those rows, and this worker then runs them again.
* `early_callback` (`execute_runtime.go:70`). README.md:150 of the repository
  says that a POST to the callback URL brings the plugin back. The URL is given
  out by PrepareCallback, before SetCallback writes the token to the row: a POST
  in between is answered 404 and the row waits until it times out.
* `repeated_callback` (`gorm_store.go:132`). `gorm_store.go:100-101` says a
  duplicate callback for a trace that is still pending is recognised. It is only
  while the row is still in CALLBACK with the same token; after the worker has
  run the step and the plugin waits again, the repeated request gets a 404.

Behaviour nothing in the code promises otherwise, and so no property: after a fault between the mark and the read back nobody
notifies; a row whose Invoke died before its first mark stays EMPTY and is never
picked up; a plugin deployed to an environment that is not named, or named
other than staging, is published to the production stage with that
environment's backend; two deployments in the same second derive the same version although
`sync.go:354-357` calls it fresh, and the gateway refuses one of them until it
is repeated; a repeated deployment with a pinned version is refused for the
version its own failed attempt created, and never released; a deployment that
syncs resources while another is between its own sync and its version is
published in that version too.

## 6. Not modelled

Bootstrap and commands run once, before anything concurrent starts, and keep no
shared state. The read-only handlers (Schedule, Meta, Detail) change nothing. URL
assembly, JSON coding, the HTTP envelope, logging and the database schema are
data or layout. The memory of GORM, the driver and MySQL is a table whose
statements are atomic. Registered paths with two slashes in a row are left out,
because gin cleans them and the router's table does not. In a dispatch, values
are strings and numbers: null and nested values are written differently into a
query, a form and JSON (`fmt.Sprint`, `pluginAPIFormFieldValue`,
`json.Marshal`), which is not modelled; nor are the copying of headers beyond
those the runtime reads, and a `dumped_data` of `{}`, which is taken for none.
Of the gateway sync, templates and the public key command are data.

## 7. Plan

Done, in this order: `ScheduleStore`, `CallbackToken`, `ExecuteRuntime`,
`Scheduler` with `ScheduleLifecycle`, `Server`, `PluginRuntime`,
`FinishDelivery`, `ApigwSync`, `PluginApiRouter`, then the hosts' clocks,
`SchedulerProgress`, `RequestScope`, `PluginApiDispatch`, lost acknowledgements of
the first step and the settings of the gateway sync, and the theorems of section
4 component by component, and the hypothesis on repeated waits weakened to
`AnswersAwaitClaims`. Possible extensions: the text encoding of dispatched values,
and a run with two waits under a constraint that no answer overtakes a claim.
