# Verification of the voice assistant hub

TLA+ models of the hub in `src/project/vahub`, checked by TLC on small
instances, with theorems checked by TLAPS. The reference is the code; line
numbers below are those of the files under `src/`.

The hub is one Python process on one asyncio event loop. Every model takes the
code between two `await`s that can suspend as one atomic action and interleaves
the coroutines freely. What is awaited (a module process, the SQLite thread, a
timer, the operating system) answers at any time, in any order, or not at all,
unless a fairness condition says otherwise.

## 1. Inventory

| Part | State it keeps | Operations | What makes it correct |
|---|---|---|---|
| **Module API** `core/moduleapi.py` | none of its own; rows of `pending_calls` and `tool_calls`, the lock of each module | `call`, `confirm`, `_dispatch`, `_audit` | a call runs only on the gate's *allow* or on one confirmed question with its frozen arguments, once; one request in flight per module; every call returns; the audit trail says what happened |
| **Supervisor** `core/supervisor.py` | per module: state, process, client, restart counter, `ready_since`; one supervise and one health task | `discover`, `start`, `_supervise`, `_health_loop`, `_kill`, `stop` | the state is backed by a process and a task; bounded restarts; one process at a time; `stop` returns and leaves nothing behind |
| **MCP client** `core/mcpclient.py` | `_next_id`, `_pending` (id -> future), read task, `_closed` | `request`, read loop, `_dispatch`, `_fail_all`, `close` | a request ends once, with its own answer or a failure; no entry of the map outlives its request |
| **Event bus** `core/bus.py` | per topic a set of subscriptions, each a bounded queue and a flag | `publish`, `subscribe`, `unsubscribe`, `events` | the publisher never waits; DISCONNECT_SLOW has no gaps, DROP_OLDEST keeps the newest; a closed subscription ends its consumer |
| **Store** `storage/store.py` | SQLite tables | one statement and commit per method | confirmations survive a restart; status changes are not lost |
| **Policy gate** `agent/policy.py` | rules and principals, read once | `evaluate`, `visible_to` (pure) | default deny; no argument without a constraint; a hidden tool is never allowed |
| **Agent loop** `agent/loop.py`, `session.py` | message list per session, tokens per day | `run_turn`, `trim` | budgets end a turn; messages of concurrent turns; tool results follow their calls |
| **Scheduler** `scheduler/scheduler.py` | schedules, APScheduler jobs | cron and manual runs, `stop` | a failing step aborts; overlap is skipped |
| **Runtime** `core/runtime.py` | the order of start and shutdown, the persister task | `run`, `_persist_module_state` | shutdown ends; states are mirrored |
| **Web API** `web/api.py` | feeders and merged queue per event socket | endpoints, `/ws/events` | a console that lags reconnects or is up to date |
| **Registry** `core/registry.py` | none | catalogue filters (pure) | shows what may be called |
| Configuration, logging, metrics, LLM/STT/TTS adapters, tool modules, console page, sandbox | | | no concurrency of their own; not modelled |

How they interact: the agent loop, the scheduler, the dev endpoint and the
confirm endpoint are the callers of the module API. It reads `Module.state` and
`Module.client`, which the supervisor writes, and sends requests through the
MCP client while it holds `Module.lock`; the health loop of the supervisor takes
the same lock. Supervisor, module API, agent and scheduler publish on the bus;
event sockets and the persister consume it. The store is shared by the module
API, the agent loop and the persister.

The hard behaviours are listed, each at its line, in `PROJECT.json` under
`hazards`: checks that are stale after an `await`, a lock handed on through
cancellations, timeouts that race answers, shutdown meeting every `await` of the
supervise tasks, full queues, a crash between two statements.

## 2. Modules

| Module | Models | Notes |
|---|---|---|
| `Authority.tla` | what the gated call path promises | abstract: a right is given by the policy or by a question that was open when it was taken up, and used once |
| `ModuleApi.tla` | `moduleapi.py`, the two tables it writes, the lock it shares with the health probe | implements `Authority` |
| `ModuleApiProofs.tla` | theorems about `ModuleApi`: the lock | TLAPS |
| `CallPathProofs.tla` | theorems about `ModuleApi`: what callers and the audit trail are told, an answered question stays answered | TLAPS, on top of the former |
| `AuthorityProofs.tla` | `ModuleApi` implements `Authority` | TLAPS, on top of both |
| `Supervisor.tla` | `supervisor.py` | in full; `ModuleApi` has it as an environment that moves `phase` and `link` |
| `SupervisorProofs.tla` | theorems about `Supervisor` | TLAPS |
| `Rpc.tla` | what a caller of `request` is promised | abstract |
| `McpClient.tla` | `mcpclient.py` | implements `Rpc` |
| `McpClientProofs.tla` | theorems about `McpClient` | TLAPS |
| `EventBus.tla` | `bus.py` | a library: `Events` says who publishes and consumes |
| `Events.tla` | the event socket of `api.py`, the persister of `runtime.py` | composed with `EventBus` |
| `EventsProofs.tla` | theorems about `EventBus` and `Events` | TLAPS |
| `Gate.tla` | `policy.py`, `registry.py` | pure operators |
| `Scheduler.tla` | `scheduler.py` | asks `Gate` at every step; a library for `Runtime` |
| `Runtime.tla` | `runtime.py`, the requests the web server serves meanwhile | composed with `Scheduler` |
| `AgentLoop.tla` | `loop.py`, `session.py`, the handlers that call them, `budget_usage` | the module API is a call that returns (`CallReturns` of `ModuleApi`) or raises |
| `AgentLoopProofs.tla` | theorems about `AgentLoop` | TLAPS |
| `RuntimeProofs.tla` | theorems about `Runtime`, `Scheduler`, `Gate` | TLAPS |
| `MC*.tla` | constants and symmetry for TLC | |

Definitions whose comment says *Seeded fault* are no part of a specification:
each is a plausible bug of the definition below it, and shows that the
properties would notice.

### ModuleApi

A *task* is a coroutine that enters the module API once. `pc` is the `await` it
is suspended on: `create` (INSERT of the pending row), `read` (SELECT), `saw...`
(the SELECT has been executed, its row is on the way back: what is known may be
stale), `expire` and `mark` (UPDATE), `marked` (the row says confirmed, the
coroutine is yet to be resumed), `lock` (queued on the module lock), `flight`
(request written), `auditHeld` (error path: audited with the lock still
held), `audit`. `asyncio.Lock` is a FIFO queue whose head is the holder; a free
lock is taken without a suspension, which is why `Enter` may send at once. The
health probe of module `m` is the actor `m`. `running[m]` are the requests the
process has received and not finished, so that a timeout and the end of the work
are different things. `link` distinguishes a dead process nobody has noticed
from a closed client. A crash of the hub loses coroutines, locks and processes
and keeps the two tables. `pending[t]` is the row that task `t` created; `via[t]`
is the row a confirm names. `earlier[t]` is a history variable: the confirms of
that row that had run or returned when `t` began, so that *again* and *at the same
time* are told apart.

Data: a tool with its arguments is a member of `Ops`; the gate is the function
`Policy`; the checks before the gate share one outcome.

### Supervisor

`sup[m]`, `health[m]` and `stopAt[m]` are the `await`s of the supervise task, the
health task and `stop()`. A cancellation is a request (`cancelled`) that is met
at the `await` of the task; the two places that swallow it (`except
(CancelledError, Exception)` after the health task, `close()`) are modelled.
A process is `exited` when its return code is known and `reaped` when its pipes
are closed too, which is when `proc.wait()` returns. `attempts` is a history
variable that counts starts independently of the code's counter.

### McpClient

A request is known by its number; ids are what the code allocates. Lines carry,
as history, the number of the request they answer, which is what lets
`NoCrossTalk` say that an answer belongs to its request. The client does not
serialise its callers, so they overlap in the model (the hub's lock makes it a
special case). Between the decision of a future and the resumption of its caller
anything may happen; a timer that fires in between wins. The module may answer
what it was sent late, repeatedly, in any order or malformed, write other lines
(`other`: its own requests, notifications, bad JSON; `flood`: a line past the
limit), exit, or close its stdin. `close()` fails what is in the map twice: when
its read task ends, and again when that task has been `joined`.

### EventBus and Events

`publish` is one action over all subscribers of a topic, since it has no `await`;
messages are known by the order in which they were published. A consumer is
`busy` with an item, suspended on `get`, `absent` (subscribed, and nobody
iterates yet) or `done`. `Events` has the two consumers of the hub.

The *socket* subscribes to its topics and takes its snapshot without an `await` in
between, and is suspended on the send of the snapshot, on `merged.get()` or on a
send (`socket`). A feeder holds the item it was given until the merged queue has
room: `fed` counts what it has put there, so the item in its hand is the one
after. The client may leave at any time (`peer`), which the handler finds out at a
send only. The *persister* saves each state, and `row` is the state that
`module_state` holds, `raised` (history) the last state whose save raised, which
may be in the row or not. It is cancelled by the shutdown when
the web server, and so the socket, is gone. Two topics stand for four: those of
confirmations and routines have the policy and the size of the states.

### Gate

`Evaluate` follows the order of `evaluate()`, `VisibleTo` that of `visible_to()`. A
pattern is the set of strings it finds, a value is known by what a constraint can
ask of it. `NoRule` is a rule that the file names and leaves empty (YAML `null`):
`_rules.get` then returns None and `key in _rules` still holds.

### Scheduler and Runtime

APScheduler is external: the job of a schedule may be due at any time, one run of a
job at a time (`max_instances=1`); a run by hand is no instance of a job. A step is
one call of the module API, which returns (`StepReturns`), or raises when the row
of a confirmation cannot be written (`StepRaises`). Steps the module API rejects
before its first `await` take no time (`GoesOn`). `reached` remembers which steps
a module was asked for. The shutdown of the scheduler is scheduled by `stop()`, and
happens a turn of the event loop later (`Halts`).

`at` is how far `Runtime.run` has come. uvicorn is external as well: with
`should_exit` it takes nothing new, closes its connections and waits for
the handlers. The handler of an event socket does not notice that its connection is
gone before it has something to send: it is `parked`, `woken` once an event is on its
way to it through subscription and feeder, and `closed` when the send has raised.
Modules are known by whether they are ready; `Supervisor` has the rest.

### AgentLoop

A turn is one request to `/api/chat` or `/api/voice`; `pc` is the `await` it is
suspended on, `frame` the locals of `run_turn`. `begin` and `added` are the time
between a statement of the store and the resumption of the turn, in which others
may write the same row. Messages are known by role, turn and iteration, a call and
its result also by their number; the note on unavailable modules is a message
of its own before the question (`Note`), which `trim` counts and may cut. Content
and truncation are left out. Results of unknown tools take no `await`, so they are appended together with what precedes
them (`Proceed`). The wall clock may be found past its limit before any iteration
but the first. `torn` remembers sessions whose turns overlapped or failed: their
history is mixed or broken off by design, and only `PromptFirst` is asked of them.

## 3. Runs

| Run | Instance | Question |
|---|---|---|
| `ma_confirm` | 3 tasks, 1 module, 2 operations (one allowed, one to confirm), 1 crash | Does a question that was answered stay answered, does what runs match the audit trail, does the path implement `Authority`, with confirms that overlap? |
| `ma_faults` | 2 tasks, one cancellable, agent and scheduler, failing store | Is the lock always handed on, one request in flight, does every call return, and is who was refused told the truth? |
| `ma_twice`, `ma_unaudited` | 3 tasks, one cancellable in `ma_unaudited` | two statements of the docs the code does not keep, section 4 |
| `su_safe` | 2 modules, 1 retry | states backed, one generation, bounded retries, clean stop, `failed` final |
| `su_live` | 1 module, 2 retries | starting ends, exits are noticed, stop returns |
| `su_leak` | 1 module | a statement of the tests the code does not keep |
| `mc` | 2 callers, 2 requests, 2 unread lines | no cross-talk, no leaked waiter, `Rpc` implemented; every request ends |
| `ev` | the persister, a socket with 2 feeders; 2 states with a queue of 1, 3 log lines with a queue of 2, a merged queue of 1, failing store | what each policy keeps, and in which order; is the console shown, and the database given, every state, however many log lines compete; does a handler leave anything behind, do consumers end? |
| `rt` | 2 runs of 3 routines (good cron, none, bad cron; one with a malformed step), 2 modules, 4 tools, 5 policies, 1 socket, failing store | does a routine report what became of its steps; do catalogue and gate agree; does the hub stop, after everything that uses modules and store? |
| `ag_turns` | 2 turns of one session (interchangeable), 2 iterations, answers with none or 2 calls, a history of 4, budgets of 1 token | is the model shown a history that fits, how far can the daily budget be overshot? |
| `ag_trim` | the same, 1 iteration, a history of 6 (a turn fits) | a statement the code does not keep |

Bounds. Three tasks are an asker and two confirmers, or two confirmers of
different rows and a direct call: the smallest instances in which a row can be
spent twice or a lock be handed on past a waiter. One crash separates the two
halves of any pair of statements. Two retries exercise reset and exhaustion of
the counter. Two requests let an answer of a timed-out request meet its
successor; the theorems cover any number. A history of four is cut within the first
turn or the second; sessions share nothing but the daily budget, so one is enough.
Two states meet a queue of one, so that the second waits behind one in the
consumer's hand or overflows; three log lines meet a queue of two, so that two wait
in order, with one in hand or the oldest dropped. With the merged queue and the send,
an item can be held at each of the places between the bus and the client. The
theorems of section 5 cover all sizes. Two runs are two of a job, one of a
job and one by hand, or two by hand, of the same routine or of two. The five
policies cross both defaults with a principal that is denied and one that has to
confirm, and add a rule without a body. `rt` checks deadlock (`Done` is the
stopped hub); the others say `CHECK_DEADLOCK FALSE`: callers end, a hub that is
not called rests, and bounded histories run out.

One assumption of the passing runs is not in the code: `PipesHeld = FALSE`
(Supervisor), no child of a module keeps the module's pipes open for longer than a
backoff. With `TRUE`, `NoProcessAfterStop` fails: `stop()` waits for the old client
while the supervise task, on its way out of a handshake timeout, starts a new
process. Nothing is assumed of how confirms overlap: `AnsweredOnce` speaks of a
confirm that begins when another has run or returned, `Authority` lets several
tasks have an open question in hand, and what overlapping confirms break is finding 1.

Fairness. `ModuleApi`: each task and probe is resumed when its `await` is over
and each request has a timer (`wait_for`); nothing is assumed of modules,
callers or the supervisor. `Supervisor`: tasks are resumed; spawn, handshake,
probe and the wait after SIGTERM end by themselves (timeouts); SIGKILL kills and
the pipes of an exited process close; a handshake need never succeed and `stop()`
never be called. `McpClient`: timers fire and callers are resumed; the module and
the read loop owe nothing. `Events`: a consumer that can go on is resumed; a send
ends, since the server pings its clients and closes the connection of one that is
silent; a statement of the store ends. Publishers and clients owe nothing.
`Runtime`: a call of the module API returns (`CallReturns`), the event loop runs
what is scheduled, a woken handler ends, and uvicorn closes the open sockets once it
is told to stop; nobody has to stop the hub, and no module has to say anything.

## 4. What the code does not keep

1. **A confirmed call can run twice** (`ma_twice`). `confirm()` reads the status
   (91), awaits, and writes `confirmed` unconditionally (107; `store.py` 138). Two
   overlapping confirms of one row both pass the check. The same window lets a
   confirm and an expiry overlap: the confirm marks the row and executes, the other
   looks at the time later (96) and overwrites the status by `expired` (97), so that
   the row of an executed call says expired, whose one status is "pending |
   confirmed | expired | cancelled" (`store.py` 50). The run shows the two executions.
2. **A cancelled call is not audited** (`ma_unaudited`): a scheduler shutdown
   while a request is in flight.
3. **A stopped module can turn degraded** (`su_leak`): `stop()` cancels a supervise
   task waiting for the pipes of an exited process before it could cancel its
   health task, which lives on.
4. **trim() cuts within a turn** (`ag_trim`): it keeps the newest messages, not the
   newest turns, and leaves results without their calls behind the system prompt.

Seen while modelling, and without a run of their own. Where a property is named, it
says what holds all the same, or has the case as its exception.

* Module API. READY is checked before the wait for the module lock and not after
  it, so that a request can reach a module that is not ready (`CallReturns`). A
  timeout releases the lock while the module still works, so that the next call or
  a probe runs beside it. A store statement other than the audit raises out of the
  module API (`RefusalIsTrue`), whose head promises "never a raw exception".
* Supervisor. The diagram at the head of `supervisor.py` (6-14) lacks the restart
  edges to `starting` (`RetriesBounded`), and draws `failed` before `stopped`, while
  `stop()` leaves a failed module as it is (375-377: `if mod.state not in
  (State.UNCONFIGURED, State.FAILED)`). `FailedIsFinal` takes no side: it allows
  `stopped` after `failed`, and nothing else.
* Event socket. When its state subscription is disconnected, the feeder returns
  (`api.py` 203) and the socket stays open: the console goes on showing log lines
  and old states. `bus.py` 9-10 counts on a reconnection ("The UI reconnects and
  reloads state over REST"), and the page reconnects when the socket closes only
  (`index.html` 116). `ConsumersEnd` holds; `NothingMissed` holds up to the
  disconnection and says nothing after it.
* Persister. It subscribes after the supervisor has started and is cancelled before
  it stops: `module_state` lacks the first and the last transitions. Disconnected
  when 256 transitions come during one save, its loop (`runtime.py` 111) ends without
  a word and the table is stale from then on, although it is to "mirror module state
  transitions into the DB for post-mortem" (108). `Delivered` has that as its
  exception.
* Shutdown. A parked handler of a socket ends at the next event only. With no module
  left to say anything, `await server_task` (`runtime.py` 94) does not return, and
  the hub does not "then exit" (3-6). It is the exception of `ShutdownEnds`, which
  shows that nothing else keeps the hub from stopping.
* Scheduler. Jobs go on firing while the server drains, although `runtime.py` 3-6
  begins with "stop accepting new work" (`ShutdownOrder`: none outlives the
  modules). A run by hand overlaps with one of the job; "overlap is skip" holds
  between runs of the job. A malformed step, or a store that fails, raises out of
  `run_schedule` and ends a routine without an event, although "a failing step aborts
  the routine and lands on the bus" (`scheduler.py` 8-9). `FiredTruthful` says that
  such a routine published nothing.
* Registry. A tool whose rule is `null` is in the catalogue of the agent and never
  allowed, although "a tool the principal can never call is not shown"
  (`registry.py` 46; `CatalogAgrees`).

## 5. What is proved

All theorems hold for every value of the constants that satisfies the named
assumptions of the modules (`ModuleApiAssumption`: tasks and modules are
disjoint, the policy is a function into the three outcomes, ...;
`McpClientAssumption`: the bounds are natural numbers). Sets of tasks, modules,
turns and subscribers need not be finite. One further assumption, `~PipesHeld`
(section 3), is stated by the theorem that needs it. Each strengthened invariant below has been checked by TLC on
the instance of its run before it was proved.

### The gated call path

`ModuleApiProofs.tla`

* `LockDiscipline`: `Spec => []IInv`. `OneInFlight` is not inductive: nothing in it
  says that the head of a queue is alone past the wait. `IInv` adds that every
  entry of a module's queue is an actor suspended on that lock, once (`LockOwned`),
  that whoever is past the wait is at the head (`HolderAtHead`), and that whoever
  acts on a call has one (`JobKnown`, which gives `ModuleOf` its module). The proof
  has one lemma per way an action touches the queue (join, hold, leave, stay
  outside); `DropAtProperties` is what leaving from the middle of a FIFO keeps.
* `TypeCorrect`: `Spec => []TypeOK`, from the same invariant.
* `MutualExclusion`: `Spec => []OneInFlight`. Two actors in flight on one module are
  both at the head of its queue.

`CallPathProofs.tla`

* `TellsTruth`: `Spec => []TellInv`. What a caller is told is decided an `await` or
  two before it is told, so for each value of `pc` the invariant says what has been
  sent, answered and audited there (`Answered`), whose call it is (`Attributed`: a
  confirmed call carries the confirming subject, in the call and in the audit trail),
  and that a question is one the gate wants asked, a confirm the call of its row
  (`Entitled`).
* `RefusalsAreTrue`, `AuditMatches`: `Spec => []RefusalIsTrue`, `[]AuditTruthful`, with
  any cancellations, store failures and crashes.
* `AnsweredForGood`: `Spec => []AnsweredOnce`. The property looks at confirms that have
  run; what refuses the later one is the row. `OnceInv` ties the two: the row of a
  confirm that is past its UPDATE, or was told that the row has expired, is not
  pending, and stays so (`Decided`, `RowsClosed`); the confirms in the history
  `earlier[t]` are through or have run, so they decide nothing any more; and `t` acts
  on the row only if none of them decided it (`Took`), since it read the row after
  them. Two confirms that overlap are in no history of each other, which is where
  finding 1 of section 4 is left room.

`AuthorityProofs.tla`

* `PathImplementsAuthority`: `Spec => ImplementsAuthority`, without a further assumption.
  Under `Standing`, the job of a task that has a right and the question it has in
  hand, an allowed call is `Permit`, an INSERT is `Ask`, a SELECT that finds the row
  pending is `TakeUp`, the UPDATE to `confirmed` is `Approve` and that to `expired` is
  `Lapse`; the request uses the right, and a cancellation or a failure abandons it.
  There is one lemma for each of these abstract steps (`ByPermit`, `ByTakeUp`, ...); with
  `OneMoves`, a step of the code moves the right of one task. The proof rests on
  `TellInv` (the gate said so, and the call is that of the row).

### Supervisor

`SupervisorProofs.tla`

* `StatesBacked`: `Spec => []BackedInv`. It ties `Module.state` to the `await` of the
  supervise task, to the process and to the health task (`Backed`), the history
  variable `attempts` to the restart counter (`Counted`: each start but the
  one under way has been counted as a failure), and cancellation to `stop()`
  (`Stopped`).
* `StateHasTask`, `NoOverlap`, `RestartsBounded`, `TypeCorrect`: `[]StateIsBacked`,
  `[]OneGeneration`, `[]RetriesBounded`, `[]TypeOK` follow from it, with or without
  pipes that are held.
* `StopLeavesNoProcess`: `ASSUME ~PipesHeld PROVE Spec => []NoProcessAfterStop`. `Halts`
  says what each stage of `stop()` has behind it: from the kill on, the process is
  gone, and a supervise task that could start another has its cancellation coming.
  It holds since a supervise task that asks for a process never has an open client
  for `stop()` to wait for, which is what held pipes would break.
* `FailedStays`: `Spec => FailedIsFinal`, an action property, from `BackedInv`: a failed
  module has no task left that could move it.

### MCP client

`McpClientProofs.tla`

* `IdsAgree`: `Spec => []IInv`. That a caller gets its own answer (`NoCrossTalk`)
  speaks of the end of a request only. `IInv` carries the reason from the request
  to the answer: the id of a request is its number, in the map, at the caller, at the
  module and in every answer still in the pipe (`OwnAnswers`); whoever is in the map
  is the future of exactly one suspended caller, and a future not yet asked for is
  undecided (`Suspended`); and a closed client reads no more (`ClosedReadsNot`).
* `OwnResults`, `CloseFreesAll`, `WaitersHaveOwners`: `Spec => []NoCrossTalk`,
  `[]ClosedIsEmpty` and `[]WaitersOwned`, from the same invariant.
* `Refinement`: `Spec => ImplementsRpc`. Under `Stage`, `request()` is `Ask`, or
  `Refuse` when stdin is gone, the resumption of a caller is `Answer` or `Fail`, and
  everything else stutters.

### Event bus and event socket

`EventsProofs.tla`

* `EventsKept`: `FairSpec => [](EventsInv /\ SocketTypes)`. `NoSilentGap` and
  `NewestSurvive` look at messages only; what makes them inductive is where a
  sentinel can be. `Life` says that a queue has one only when its subscription is
  closed, as its last item, and that a closed subscription is off the bus. `Gapless`
  puts the two halves of a stream, given and waiting, end to end; `Newest` says how
  far below the newest message a queue begins. The operations of the bus
  (`SubscribeBus`, `UnsubscribeBus`, `PublishBus`, `TakesBus`, `AsksBus`) keep the
  invariant whoever calls them. `SocketInv` adds where the feeders are while the
  handler of the socket is somewhere.
* `NothingLostSilently`, `NewestWait`, `NothingStays`, `TypeCorrect`: `[]NoSilentGap`,
  `[]NewestSurvive`, `[]LeavesNothing`, `[]TypeOK`. That no consumer is gone for good
  while it is subscribed comes from `Life`: only a closed queue has a sentinel.
* `ConsoleMissesNothing`: `FairSpec => []NothingMissed`, from `EventsAssumption` (the
  topic of states is DISCONNECT_SLOW, `bus.py` 29). The property counts the items of a
  subscription that are in line ahead of another (`Ahead`, a cardinality); `OrderInv`
  adds that what is shown and what is in line is as much as the feeder has put
  (`fed`), and that only a feeder at work holds an item besides. The lemmas about
  `Count` and `InLine` say what an item at the end of the line, and the loss of its
  first, do to the order of each subscription, its own and the others.

### Scheduler, gate and shutdown

`RuntimeProofs.tla`, from `SchedulerAssumption` (the steps of a schedule are a
sequence, tools belong to modules)

* `CatalogMatchesGate`: `FairSpec => []CatalogAgrees`. `Agreement` proves it of any
  state: two pieces of code decide alike for every policy.
* `RoutinesReport`: `FairSpec => []FiredTruthful`. The property does not say why the
  next result may be appended. `RunInv` adds that a run under way has only
  successes behind it, has a step to come, and that this step is with a module
  exactly if the gate allows it (`UnderWay`). `GoesOnTold` follows a routine from
  one `await` to the next; what other runs do does not matter (`OthersTold`).
* `ModulesOutliveRoutines`: `FairSpec => []ShutdownOrder`. `ShutdownInv` says what each
  stage of `Runtime.run` has behind it: `should_exit` and the scheduler's state
  follow from the stage (`StageInv`); once the server has been awaited no routine by
  hand and no socket is left, and once the scheduler is off no run of a job
  (`NothingLeft`). `UnderWay` is used again: a run is a job's or by hand.

### Agent loop

`AgentLoopProofs.tla`

* `TurnsAgree`: `Spec => []AgentInv`. Only the first message of an empty history is a
  prompt, so that `PromptFirst` needs that a turn past its beginning has a history,
  which `trim` never empties, and `Framed` bounds what a turn has spent by what its
  iterations may cost.
* `PromptStaysFirst`, `TypeCorrect`: `[]PromptFirst`, `[]TypeOK`.
* `OffOnceSpent`: `Spec => []OffForTheDay`. A turn that passed the check when the
  budget was not spent yet may go on spending, so the bound on `spent` has to count
  what each turn under way may still store. `Owed` is that, as a finite set of pairs
  of a turn and a token; once the budget is spent, `spent` and the size of `Owed`
  together do not grow (`BudgetInv`), and no turn passes the check any more.
* `ModelShownWhole`: `Spec => []HistoryFits`. The property speaks of the moments the
  model is asked; `FitInv` speaks of every `await`. A history is `Whole` (every call
  with its results behind it) wherever a turn waits except between two tools, where
  the last calls are answered up to the one that is out (`Half`) and `HalfGrows`,
  `HalfDone` append what comes; behind the question there is only what its turn did
  (`Mine`); and a session that is not `torn` has one turn (`Alone`) or a whole history
  at rest, which is what the next turn begins with. `TrimWhole` is the lemma on
  `trim()`: whatever the length, a call it keeps keeps its results.

### Only model-checked

* Liveness under fairness, which the prover does not do: `CallReturns`, `StartingEnds`,
  `ExitIsNoticed`, `StopReturns`, `RequestsEnd`, `ConsumersEnd`, `Delivered`,
  `LeavingIsNoticed`, `ShutdownEnds`.

## 6. Plan

The composition of `ModuleApi` with the phases as `Supervisor` moves them, in place of
the environment it has now.

## 7. Not modelled

* Configuration, logging and metrics: read once, or written only.
* The adapters of language and speech services (one HTTP request each; an answer is
  any answer), the tool modules, the console page and the sandbox: other processes
  or their clients. The models allow them any behaviour.
* Of the web API: endpoints that only read, and the checks of origin and token.
* Argument redaction, result unwrapping and the extraction of payloads: data
  conversions no property is about. stderr draining, uid and environment of module
  processes.
* Of the store: opening, migration and the queries behind the read-only endpoints.

## 8. Running

    tlc -config ModuleApi_confirm.cfg MCModuleApi.tla
    tlapm ModuleApiProofs.tla
