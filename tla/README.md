# A verification of rust-tcpproxy in TLA+

The program is a TCP proxy: it listens on the ports of a configuration and
forwards every client connection to one of the targets configured for the port.
Its own logic is concurrent: one task per port, one task per connection, two
semaphores and a cancellation token shared by all of them, and per-target
statuses updated without locks from every connection task. This project models
that logic, checks it with TLC and proves the main safety properties with TLAPS
for every number of ports, connections, callers and targets and for all limits.

## Inventory

| Part (source) | State | Operations | Interacts with | Correct when |
|---|---|---|---|---|
| `ProxyServer::run` (`src/src/proxy.rs`) | bound listeners, JoinSet of `listen` tasks, `first_error` | bind serially, spawn, join, return | token, listeners | a failed bind leaves nothing behind; one failing listener stops all; the result is what happened |
| `listen` (`proxy.rs`) | listener socket, JoinSet `connections`, `accept_res` | reap, accept, stop on cancellation, drain for at most 10 s | token, semaphores, connection tasks | every task is joined or aborted; shutdown ends |
| `accept_connection` (`proxy.rs`) | none of its own | classify errors; try the open semaphore, then the queue semaphore; spawn, queue or reject | semaphores, JoinSet | the limits hold; rejection only at the limits |
| connection tasks, `do_connection` (`proxy.rs`) | a permit, perhaps a queue slot | acquire, release the slot, connect, copy; panic; abort | semaphores, balancer | permits and slots are given back exactly once; the queue moves |
| `RoundRobinBalancer` (`src/src/balancer/roundrobin.rs`) | one counter per port | `connect_backend`, `connect` | handler, resolver, connector | the whole pool is searched, in order, once; every call returns |
| `SimpleCooldownHandler` (`src/src/balancer/simplecooldownhandler.rs`), `TargetState` (`src/src/state.rs`) | a status per target, in an ArcSwap | get, report an attempt, drain | clock, concurrent callers | cooldowns are bounded; what a drain stored stays |
| `RawConfig` (`src/src/config.rs`), `ProxyConfig` (`state.rs`) | pools, port-to-pool map | load, construction as two nested loops, `get_pool`, `ports` | `main`, balancer | each port has one pool; a duplicate port is an error; pools, counters and statuses agree |
| `ProxyError` (`src/src/errors.rs`), Tokio adapters (`src/src/network/tokio.rs`) | none | classification of errors; bind, accept, lookup, connect | operating system, DNS | a failure of a target is told from a fatal error |
| `main` (`src/src/main.rs`) | exit code, signal task | arguments, wiring, signal task, run, exit code | all | a signal ends the program; the exit code is honest |
| proxy test harness (`src/src/proxyharness.rs`), tests of `proxy.rs` | command channels, numbered streams | scripted accepts and connects, assertions | `ProxyServer` | a test's outcome does not depend on the order of the proxy's tasks; streams belong together |
| balancer test harness (`src/src/balancer/roundrobinharness.rs`), tests of `roundrobin.rs` | script per target, event log | scripted statuses, lookups, dials; log | balancer | what is asserted follows from the script |
| `LogsWriter` (`src/src/logswriter.rs`) | none | choice of log stream | | |

What is hard here: two semaphore operations that are not one step; permits that
pass from an ending task to a parked one without ever being free; tasks dropped
at any await by an abort or a panic; a deadline racing the tasks it waits for;
cancellation racing accepts; a status that is loaded, and used or stored back with
other callers in between; a search of the pool whose statuses change under it, and
that is dropped with its task; a counter that wraps; a signal racing the start.
`PROJECT.json` lists these hazards at their lines with the properties that would
catch them.

## Modules

`ProxyServer` models `run`, `listen`, `accept_connection` and the connection
tasks. A step is what a task does between two points where another task can see
it: an await, or an operation on a semaphore, on the token or on a JoinSet.

| Variable | Code |
|---|---|
| `run_pc`, `first_error` | where `run` is; its `first_error`, and what it returned |
| `cancelled` | the `CancellationToken` |
| `listener[p]`, `accept_res[p]` | where the `listen` task of port p is; its `accept_res` ("panic": the task unwound) |
| `in_sock[p]` | the accepted socket between the two `try_acquire_owned` calls |
| `connections[p]` | the JoinSet of the listen task |
| `task[c]` | where a connection task is ("leaving": aborted in its acquire, and its queue slot not yet returned) |
| `aborted` | live tasks whose JoinSet was dropped and whose future was not dropped yet |
| `open_permits`, `queue_permits`, `waiters` | the two semaphores and the FIFO of the first |

`Conns` are names of connections: a name is free again once its task was reaped,
so behaviours with any number of clients are covered. Tokio is external and
modelled from how `proxy.rs` uses it: a returned permit goes to the first parked
task and is never visible in between (`Release`); dropping a pending `acquire`
leaves the FIFO (`Unpark`); dropping a JoinSet requests the abort of its tasks,
and the runtime drops each future some time later (`DropJoinSet`). Dropping the
future of a task in its `acquire` is two operations on two semaphores, and two steps:
the acquire goes first, with the permit it was handed or its place in the FIFO
(`DropAcquire`), then the queue slot the task holds (`DropAborted`).
`connect_backend` and the copy are single awaits here (`Proxy` opens the first).
`New` is the constructor, with its two limits. The `Err` branch of
`acquire_owned` is left out: the semaphore is never closed. Time is abstracted:
the 10 s deadline may fire at any moment of the drain.

`SimpleCooldownHandler` models `TargetState` and the handler. One report is three
steps: load, read the clock and decide, store. `drain` is an action although
`main` never calls it, because the trait offers it. The clock counts ticks and
stops at `MaxClock`.

`RoundRobinBalancer` extends it with `connect_backend` and `connect`. Each caller
has one record: the pool, the start, the position of the first pass, the status
loaded for it, the positions put aside, and two history fields, the positions tried
and those seen drained. The first pass loads a status in one step (`LoadStatus`) and
acts on the copy in the next (`ScanDrained`, `ScanCooling`, `ScanTry`), so a drain
or a report can fall between `roundrobin.rs:82` and its use; the clock is read when
the copy is used, as in the code. It composes the two components: the status changes
only through the handler's actions, which is itself checked (`HandlerRespected`) and
proved. The counter and the sum of start and position are `usize`, taken modulo
`UsizeMod`. `LookupHost` is the resolver adapter: `AddrForm` says how the
configuration writes each address. A socket address stands for itself, a name is
looked up and gives 0 to `MaxAddrs` addresses or a DNS error, anything else is
refused with `BadAddressError`, which ends the call (`ResolveFatal`). `DropCall`
drops a call at an await.

`Proxy` composes `ProxyServer` and `RoundRobinBalancer`: a connecting task begins
a call for its port (`port_of`), the call goes on step by step, its result decides
between the copy and the end of the task, and an abort or a panic drops the call
with the task (`DropTask`). A report is synchronous, so a task is never dropped
inside one. It implements both components: hiding the calls it is a `ProxyServer`
(`ImplementsServer`), hiding the server it is a `RoundRobinBalancer` whose callers
are the connections (`ImplementsBalancer`).

`AdmissionPool` says what admission is meant to be, with no listener, semaphore or
task: a bounded set of served connections, a bounded queue, a FIFO of those parked,
places handed over to the longest parked. `ProxyAdmission` maps the server to it:
the served are the tasks that hold an open permit, the starting ones those granted
and not yet polled, the fresh ones those spawned and not yet polled, the parked
ones the semaphore's waiters. Rejections, listeners, results and shutdown are
stutters of the pool. An abort is a `Leave` or a `Withdraw`; when it falls into the
acquire the pool sees the first of its two steps, so a task that is "leaving" has left
the pool while it still counts against the queue's limit.

`Startup` models `main::run` from the command line to the exit code: `Load` and
its errors, the two loops of `ProxyConfig::try_from` (`IngestApp`, `IngestPort`),
`TargetState::try_from`, the spawn of the signal task, the balancer's counters,
the panic of a semaphore with more than `MAX_PERMITS` permits (`NewPanic`),
the server's return and the exit. The signal task (`watcher`) installs its handlers
when it is first polled, may panic there, and cancels the token on a signal; a
signal nobody waits for kills the process. `ctrl_c()` may fail instead
(`CtrlCFails`): the `select!` drops its error and takes the branch like a SIGINT, so
the token is cancelled and the process exits with success although nobody asked for
it, and a SIGINT meanwhile still kills it. The server is one step here, because
`ProxyServer` is about it.

`ProxyHarness` puts `ProxyServer` between the fakes of `proxyharness.rs`: accept and
connect take commands from channels, an accept is acknowledged, a client and a
backend carry one number. The runtime of the tests is single-threaded with a
paused clock: spawned tasks are first polled in spawn order, otherwise any ready
task may be next, and the clock advances only when none is (`Idle`). Bytes are
abstracted to whether they were written and arrive; a write and the read at the other
end are separate steps, so that `connections_half_close_properly` writes, shuts down
and then reads, as the test does. A connect for which no command waits panics while it
holds the guard of the channel's mutex: the mutex is poisoned (`poisoned`) and every
later connect on that port panics on the lock. `ProxyTests` holds the eight tests of
`proxy.rs` as scripts, each with its limits, and three that its list of missing
tests (`proxy.rs:638-642`) names. Of these, `shutdown_forces_close` has clients that
are still queued at the deadline, and `connection_task_panics` asserts what the harness
allows: the proxy goes on accepting and shuts down well, but the next client of the
port is closed too, because of the poisoned mutex. The fourth, a panicking listener,
cannot be scripted with the harness as it is.

`RoundRobinHarness` puts `RoundRobinBalancer` between the fakes of
`roundrobinharness.rs`: a script per target, an event log, the paused clock.
`RoundRobinTests` holds the twelve tests of `roundrobin.rs` with what they assert
and, beside them, every script of one or two targets and many of three, compared
with a definition of the result and of the log that has no loop and no state.

`ProxyServerProofs`, `ProxyAdmissionProofs`, `SimpleCooldownHandlerProofs`,
`RoundRobinBalancerProofs`, `RoundRobinOrderProofs`, `RoundRobinProgressProofs`,
`StartupProofs` and `ProxyProofs` hold the proofs. The `MC` modules hold the values TLC
uses. Definitions whose comment begins with "Mutant" are plausible bugs that
`PROJECT.json` uses to show that each property can fail; no specification uses
them.

## Runs

Passing:

| Run | Checks | Bounds, and why they are enough |
|---|---|---|
| `proxy_safety` | `TypeOK`, `PermitsConserved`, `QueueNeverStuck`, `NoOrphans`, `ResultFaithful`, `BindFailureLeavesNothing`, `AdmissionBound`, the action properties `ServedInOrder` and `DrainRunsDown`, and the refinement `ImplementsPool` | 2 ports, 4 connections, 1 permit, 2 slots: a served connection, two in the queue (so that the FIFO has an order and a middle to be removed) and one refused, across two listeners |
| `proxy_live` | `ShutdownTerminates`, `QueueProgress` | 2 ports, 3 connections, 1 permit, 1 slot: one listener fails while the other serves; a newcomer on either port competes with a queued task for the permit |
| `proxy_calls` | `CallsHoldPermits`, `ConnectFairness`, and the refinements `ImplementsServer` and `ImplementsBalancer` | 1 port, 2 connections, 1 permit, 1 slot, 2 targets, one a name and one a socket address: a task that calls, a queued one that must not, every failure of lookups and connects, and a drop at every await. What two calls at once do to each other is the balancer's, and `balancer_shared` checks it |
| `balancer_shared` | `TypeOK`, `CooldownBounded`, `SearchComplete`, the action properties `DrainSeals`, `SearchRunsDown` and `DrainStopsNewCandidates`, and the refinement `HandlerRespected` | 2 callers on one pool of two targets, an empty pool and an unknown port; the counter wraps at 3, no multiple of the pool's length, so the starts of successive calls jump there; a cooldown of one tick that runs out |
| `balancer_order` | `RoundRobinOrder`, `BadAddressEndsCall`, `CallReturns` | 1 caller, 4 positions, one target twice, one target whose address is none; the counter wraps at 7, the least that `UsizeAssumption` allows, in the middle of a rotation; a cooldown of 2 of 4 ticks, and drains at any moment, stand for what other calls do |
| `balancer_tests` | `FollowsScript`, `AssertionsHold` | the 12 tests; every script of 1 and 2 targets (40 per target), 10 per target for 3; one call more than targets, so that the rotation starts over |
| `startup` | `StartupTypeOK`, `ConfigFaithful`, `WiringComplete`, `ExitFaithful`, `SignalEnds` | up to 2 apps with 2 ports and a target, or 3 apps with a port: duplicates within an app, in the next one and in the one after; a limit of 0 and one above `MAX_PERMITS`; a `ctrl_c()` that fails |
| `harness_tests` | `TestsPass`, `StreamsAligned`, `TestsEnd` | 11 tests with their own limits (10/10, 2/2, 2/1, 1/2) and up to 4 clients. A test that has ended stops: no deadlock check |

Violated, each a statement of the repository that the code does not keep:

| Run | Statement | What happens |
|---|---|---|
| `proxy_reject` | `RejectOnlyWhenFull`: `proxy.rs:185`, `README.md:164` | a permit comes back between the two `try_acquire_owned` calls, and the client is rejected with the pool not full |
| `proxy_panic` | `PanicReaped`: `proxy.rs:124` | the comment speaks of a bounded delay of the log of a panic; on an idle port `accept` never completes and the panic is never logged |
| `balancer_drain` | `NoAttemptOnDrained`: `balancer/traits.rs:34` | a target whose status the first pass loaded as cooling, and drained after that, is tried by the second pass, which reads no status |
| `startup_drain` | `DrainOnSignal`: `README.md:121` | the signal task is spawned and installs its handlers when first polled: a signal before that, or after its `expect` has panicked, kills the process while the server serves |

A drain is missed in three ways. A report that loaded the status before it and stores
after it overwrites it; the first pass may have loaded the status before it and match
on that copy after it; and the second pass tries what was put aside before it. The
repository's README (Backend Drain) calls drains best effort; two properties say what
is left. `DrainSeals`, proved as `DrainIsSealed`: a drain that no report in flight has
overtaken is final. `DrainStopsNewCandidates`, proved as `DrainKeepsNewCallsAway`:
while a target is drained no call gets it in hand, where a position is in hand once
its status was loaded as not drained, and stays so while it is put aside and tried. So
a call that begins while the target is drained never tries it, and an older one only
where it had loaded the status before.

### Fairness

Safety runs assume none. `proxy_live` and `proxy_panic` assume weak fairness of
each step a task can take on its own: tokio polls woken tasks, binds end,
`connect_backend` ends, timers fire. Nothing is assumed of clients, signals, panics
or the length of a copy; `QueueProgress` has the end of copies as its hypothesis.
`Stop` is strongly fair: while connections keep arriving the accept loop leaves
and re-enters `accept`, but each accept uses up the task's cooperative budget,
after which the accept branch yields and the same `select!` polls `cancelled()`.

That `connect_backend` ends is itself checked: `proxy_calls` assumes only that the
task inside a call is polled and that its lookup or connect ends (every connect has
`CONNECT_TIMEOUT`), and `ConnectFairness` is the assumption of `proxy_live`.
`balancer_order` assumes the same of a call on its own.

`startup` assumes that `main` goes on, and that the server returns once cancelled,
which is `ShutdownTerminates`. `harness_tests` assumes that some ready task is
polled; the order is left open.

Deadlock is checked in all other runs: the only states without a successor are
ends of the program, which `Terminated` and `Over` name. The balancer and the
handler can always be called again.

## Proofs

All for every value of the constants; the assumptions are the named `ASSUME`s of
the modules: ports are a finite set of naturals, connections a finite set, limits
naturals (0 included), pools sequences of targets, the cooldown positive, a pool's
length about half of the counter's modulus at most (`UsizeAssumption`: a `Vec` holds
fewer than half as many elements as a `usize` has values, so the sum of a start and a
position does not wrap), an address a socket address, a name or neither, configuration
files sequences of apps of any length, each with its ports and its targets.
Each inductive invariant was checked by TLC on the run of its module before it was
proved.

* `ProxyServerProofs`. `PermitsConserved` is not inductive: to know that a parked
  task that receives a permit was not already counted one needs that the FIFO holds
  exactly the waiting tasks, each once (`QueueNeverStuck`), and that an aborted task
  is live needs the ownership invariants. The inductive invariant `IInv` is the
  conjunction of `TypeOK`, `PermitsConserved`, `QueueNeverStuck`, the three parts of
  `NoOrphans` and `Outcomes`. `ReleaseEffect` says what `Release` does to the
  counts; every end of a task cites it, and so does `AcquireDropped`, the first half
  of an abort in the acquire, which keeps the slot counted. Results: `TypeCorrect`,
  `PermitsAreConserved`, `QueueIsNeverStuck`, `NoConnectionOrphaned`,
  `AdmissionIsBounded` (tasks from the counts, sockets from an injection of the
  undecided ones into the ports), `ResultIsFaithful` (with `ResultInv`, which
  relates `first_error` to the listeners joined so far), and `BindFailureIsClean`,
  which needs nothing but `IInv`: until the last port is bound no listener accepts,
  so there is no task to leave behind. `DrainIsBounded` is the safety core of
  `ShutdownTerminates`: the positions of `run`, of the listeners and of the tasks
  are ranked by what is left to do, and once the listeners have stopped no rank
  rises and each step but the signal lowers one. A permit handed over by an ending
  task is where two ranks change at once; that no socket is still undecided
  (`StoppedHoldsNoSocket`) is why no task appears.
* `ProxyAdmissionProofs`. `ServerImplementsPool`: every step of the server is a step
  of `AdmissionPool` or a stutter. `IInv` gives what the mapping needs: a free
  permit means fewer served than the capacity, a free slot fewer in the pool's queue
  than its limit (`PoolTerms`, from `PermitsConserved`), and the waiters are the
  waiting tasks. `ReleaseLeaves` shows that returning a permit, whoever returns it,
  is the pool's hand-over. `ParkedAreServedInOrder` is proved of the pool's steps
  (`PoolStepInOrder`): the only changes of the FIFO are an append, the removal of
  its head with a permit, and the removal of one that gave up (`RemovalKeepsOrder`,
  `AppendKeepsOrder`). It is the safety core of `QueueProgress`.
* `SimpleCooldownHandlerProofs`. `HandlerTypeOK /\ CooldownBounded` is inductive
  because `CooldownBounded` includes the statuses loaded by reports in flight.
  Results: `CooldownIsBounded`, and the action property `DrainIsSealed`.
* `RoundRobinBalancerProofs`. `SearchComplete` is made inductive by what a call
  knows while it searches: each position passed was tried, seen drained, or is
  still among those put aside. The positions are distances from the start;
  `IndexReached` turns them into entries of the pool, which needs that the start lies
  in the pool (`InPool`, part of `TypeOK`) and that the sum does not wrap. A call
  changes its own record only, so the invariant is proved of one record per action.
  Results: `SearchIsComplete`,
  `BalancerTypeCorrect`, and `BalancerImplementsHandler`, by which the handler's
  theorems hold in the composition.
* `RoundRobinOrderProofs`. `RoundRobinOrder` allows the attempts one step back, which
  says too little about where: the inductive `OrderOK` names the place where the
  first pass ended. The attempts of each pass ascend, what is still put aside
  ascends, was not tried, and lies beyond what the second pass has tried. Result:
  `AttemptsInOrder`. `BadAddressEndsCall` becomes inductive with the fact that a
  target whose address is none is never reported on (`BadInv`), reports in flight
  included. Result: `BadAddressIsFatal`.
* `RoundRobinProgressProofs`. `SearchIsBounded`, the safety core of `CallReturns`:
  what a call has before it is a pair, compared lexicographically, of the positions
  left (twice those not looked at, once those put aside) and of the steps left in the
  attempt, its lookup, addresses and report. That a report is under way only while its
  call waits for it (`ReportsInside`) makes the second part well defined. Nothing another
  call does to the statuses raises either. `DrainKeepsNewCallsAway`: only the load of a
  status adds to the positions a call has in hand, and the status of a drained target
  loads as drained; acting on the copy, however late, only moves a position from the
  copy to those put aside or tried.
* `StartupProofs`. `ConfigFaithful` speaks of the finished maps; `BuildInv` says
  what they hold at every moment of the two nested loops: the pools of the apps
  begun, and the ports at the positions gone through (`Seen`), each once and leading
  to its app. A refused port was listed at an earlier position, and a file gone
  through to the end lists none twice. `WiringInv` and `ExitInv` add what the steps
  after the loops keep: `ExitInv` ties the token to how the signal task ended, so
  that a success with ports comes after a signal or a failed `ctrl_c()`. Results:
  `StartupTypeCorrect`, `ConfigIsFaithful`, `WiringIsComplete`, `ExitIsFaithful`.
* `ProxyProofs`. `ProxyImplementsServer`: a step inside a call is a stutter of the
  server, the others are its own. Hence `IInv` holds of the composition, and with it
  the server's results (`ServerGuaranteesHold`). `ProxyImplementsBalancer`: a task
  calls, goes on and drops its call only as the balancer allows; the invariant needed
  is that a live task has a configured port (`PortsKnown`), also after its connection
  name was used before. `CallsAreBounded`: a task in a call is connecting
  and a report lies inside a call (`CallInv`); the tasks in calls hold permits, so
  `PermitsConserved` bounds their number. A parked task that a finishing one hands its
  permit to is in no call, which is where the FIFO part of `IInv` is needed. The prover
  cannot cite a theorem through `INSTANCE`, so that the balancer's theorems hold of
  the composition is the conclusion a reader draws from `ProxyImplementsBalancer`, not
  a theorem of its own.

Only model-checked. The liveness properties (`ShutdownTerminates`, `QueueProgress`,
`CallReturns`, `SignalEnds`, `TestsEnd`) and `ConnectFairness`: fairness is beyond
the prover. For three of them the step that matters is proved: `DrainIsBounded`,
`ParkedAreServedInOrder` and `SearchIsBounded` say that each step goes towards the
end, and what is left to TLC is that the steps are taken. `TestsPass`: the paused
clock advances when no task is ready, which is `ENABLED`, beyond it too.
`FollowsScript`, `AssertionsHold` and `StreamsAligned` are about the finite list of
the repository's tests and scripts; their reference definitions are folds over the
script, and there is no larger instance to generalise to: `StreamsAligned`, for one,
is a matter of the order of each test's calls, since a rejected client leaves its
backend's command in the channel for the next. The violated statements have
counterexamples, no proofs.

## Not modelled

Log output and `LogsWriter`: no state. The text of the configuration file and of
the arguments; the model starts from what they say. The bytes copied, which are
tokio's `copy_bidirectional`; of a copy the model knows whether both sides have
stopped writing. `set_nodelay`, whose failure is one more failed connect. Resolver
caching. The errors for a missing counter and `BackendNotFound`, which
`WiringComplete` shows cannot happen outside the harness.

## Plan

Done: all parts of the inventory but the log stream. The safety and action
properties the passing runs check are theorems, except those of the two test
harnesses. What could follow if the code changes: a drain that `main` can request,
with the second pass reading the status again, would turn `NoAttemptOnDrained` into
an invariant to prove beside `DrainKeepsNewCallsAway`; a backoff in `accept`, as the
comment at `proxy.rs:124` supposes, would make `PanicReaped` a liveness property of
`proxy_live`; handlers installed before the server runs would do the same for
`DrainOnSignal` in `startup`.
