# A TLA+ model of tokio-graceful

tokio-graceful lets a tokio application shut down gracefully: a `Shutdown` waits
for a signal, tells the tasks of the application that it came, and waits until
their guards are dropped (or a limit or an overwrite ends the wait). The crate
is small, and nearly all of it is about order: between threads that poll, clone
and drop futures, between the tasks it spawns, between a counter and the event
that must follow when it reaches zero. This directory models that order in TLA+,
checks it with TLC on small instances and proves the safety part with TLAPS for
instances of any size. The programs under `examples/` are modelled on top of the
crate. File names without a directory are those of the crate's `src/`.

## The system

| Component | State | Operations | Interacts with |
|---|---|---|---|
| Trigger (`trigger.rs`) | an `AtomicBool`, a mutex around a slab of wakers; each receiver: Open with an optional slab key, Closed or Pending | `Sender::trigger`; `Receiver` poll, clone, drop | the executor, through wakers; four instances are the wiring of everything else |
| Guards (`guard.rs`) | `ref_count`, and the receivers and sender a guard holds | clone, clone_weak, downgrade, upgrade, drop, four spawn functions; `cancelled`, `shutdown_signal_triggered`, `into_cancelled` | pulls the *zero* trigger; waits on *signal* and *shutdown_signal* |
| Shutdown (`shutdown.rs`) | its own guard, the receivers of *zero* and *zero_overwrite*; the signal task and the overwrite task | three `build()`s, `guard`, `guard_weak`, `spawn_task*`, `shutdown`, `shutdown_with_limit` | pulls *shutdown_signal*, *signal*, *zero_overwrite*; waits on *signal*, *zero*, *zero_overwrite* |
| ShutdownBuilder (`shutdown.rs`) | signal, delay, overwrite function, in the type of the builder | `with_*`, `maybe_with_delay`, `set_delay`, `without_signal`, `build` | decides which of the tasks and triggers exist |
| default_signal (`shutdown.rs`) | none | a `select!` over SIGINT and SIGTERM | the operating system |
| Example servers (`examples/hyper*.rs`, `tokio_tcp*.rs`) | the guards of the accept loop, the connections and the monitor | spawn, accept, close, break; the monitor's `select!` | use Shutdown through its public calls; dropped by the runtime when main returns |
| sync (`sync/`) | none | re-exports of std's or loom's primitives | |

What is hard, component by component:

* **Trigger.** A poll loads the flag, takes the lock, loads the flag again, and
  stores its waker; `trigger()` swaps the flag, takes the lock and wakes. Any two
  of these steps of different threads can be swapped. Futures are cancelled
  (dropped with their waker in the slab), move between tasks, and are cloned after
  they were polled. Dropping an open receiver takes the same lock that the poll
  which drops it has just held. Correct means: no wakeup is lost, no slab key
  dangles, is shared or leaks, no call hangs.
* **Guards.** A drop is two steps, `fetch_sub` and `trigger()`; other threads
  clone, upgrade and drop in between. Conversions move a value out of a
  `ManuallyDrop`. Tasks end by returning, panicking, being aborted or never being
  polled. Correct means: the counter equals the number of strong guards, and the
  zero trigger is pulled when and only when it reached zero.
* **Shutdown.** The signal task, the overwrite task, the tasks of the application
  and the shutdown future all run concurrently; user futures may panic or never
  end; the shutdown future may be dropped at any await; several branches of its
  `select!`s may be ready at once. Correct means: no return before the signal, a
  graceful return only when the guards are gone, and a return when they are.
  The shutdown future is itself a task that must be woken, polls the branches of
  each `select!` one after the other, and changes from one `select!` to the next
  in the middle of a poll.
* **Durations.** Two clocks are started in each shutdown future, one per `select!`,
  and the delay and the limit are sleeps of two different tasks. Correct means: the
  delay is kept, the limit bounds the wait, and the Duration returned is that of the wait.
* **default_signal.** Handlers are registered by the first poll, one after the other,
  and may fail; the same Ctrl-C may be listened to as the signal and as the overwrite.
* **Examples.** Guards are cloned ahead of what they protect, moved into tasks
  and dropped on error paths; the runtime cuts off what is left when main returns.
  Correct means: no guard leaks, a graceful end cuts nobody off, main always ends.

`PROJECT.json` lists these hazards one by one at their lines, each with the
properties that would catch it.

## The modules

| Module | What it is |
|---|---|
| `Latch` | abstract: what a trigger promises, with no lock, slab or waker |
| `Trigger` | `trigger.rs`, one action per atomic access, lock and unlock; `ImplementsLatch` |
| `TriggerProofs` | theorems about `Trigger` |
| `WaitGroup` | abstract: what counting guards promises |
| `Guards` | `guard.rs`; `ImplementsWaitGroup` |
| `GuardsProofs` | theorems about `Guards` |
| `Shutdown` | extends `Guards` with the signal task, the overwrite task and the shutdown future of `shutdown.rs`; `ImplementsPromise` |
| `GracefulShutdown` | abstract: what a Shutdown promises its users, with no task, trigger or `select!` |
| `ShutdownProofs` | theorems about `Shutdown`, on top of `GuardsProofs` |
| `Polling` | `Shutdown` with the wakers and polls of the shutdown future; `ImplementsShutdown` |
| `Timed` | `Shutdown` with a clock: the delay, the limit, the returned Durations |
| `Signals` | `Shutdown` with `default_signal` and a `ctrl_c` overwrite, and the operating system that delivers |
| `Server` | `Shutdown` inside the six example servers |
| `PollingProofs`, `TimedProofs`, `SignalsProofs`, `ServerProofs` | theorems about these, each on top of `ShutdownProofs` |
| `Builder`, `BuilderProofs` | the calls of `ShutdownBuilder`, with a history of what was asked for, and theorems about it |
| `MC*` | the modules TLC is run on, with the symmetry where it is sound; the instances are in the `.cfg` files |

`Polling`, `Timed`, `Signals` and `Server` each extend `Shutdown` and conjoin its
actions with what they add, so that every safety property of `Shutdown` holds in all of
them. That is so by construction; what is checked is what the additions are about.

Operators whose comment says *faulty variant* stand before the one they vary.
They belong to no specification: they record the mistakes each property is known
to catch (`PROJECT.json`, "mutants").

**Trigger.** `pc[r]` says where the poll of receiver `r` stands: `Poll` is the first
load (trigger.rs:62), `PollLock` 66, `PollRecheck` 72, `PollStore` 76-86, and `Close`
the assignment of `Closed` (186), which drops the old state: if it has a key, that
takes the lock again and frees the slot. `Drop` is the drop of a receiver between
two polls and `Clone` takes everything but the key. On the other side `Swap` is line 210,
`SenderLock` 214, `Wake` one turn of the loop, `SenderUnlock` its end. A waker is
the name of its task. `task[r]` is the task that polled `r` last and `woken[r]` says
whether it was woken since. Steps that only touch what their thread owns are
merged with the shared access before them. Slab keys are any vacant slot, where
the real slab prefers the one freed last; there is always a vacant slot
(`RoomAssumption`), as the real slab grows. Sequential consistency is the code's
own: every access is `SeqCst`.

**Guards.** A handle is a ShutdownGuard (`"strong"`), a WeakShutdownGuard (`"weak"`),
`"gone"`, or a last strong guard between `fetch_sub` and `trigger()`
(`"dropping"`, `"downgrading"`). Handles are reused, so that a run is unbounded
though the handles are few. `owner` is `"task"` for the guards sealed in the wrapper of
`spawn_task` and `into_spawn_task`: nobody can clone or convert these, they are
dropped when the task ends (`TaskEnds`: return, panic, abort, runtime gone). With
`spawn_task_fn` and `into_spawn_task_fn` the guard is passed to user code, which
is `CloneStrong` (or nothing) followed by whatever user code does. The four triggers are flags
here: module `Trigger` shows that this is what they are. `revived` is a history
variable: has a guard been upgraded while no strong guard was left?

**Shutdown.** `setup` is what the builder built, one of five: no signal; a signal,
with or without a delay; the same with an overwrite function. `signal_task`
follows the task of `build()`: waiting for the signal, calling `overwrite_fn`, at
the test for a delay, sleeping, done, or dead of a panic in user code.
`overwrite_task` is the task it spawns. `main` is the `Shutdown` struct
(`"held"`), then the future: in its first `select!` (`"cancel"`), in its second
(`"drain"`), `"returned"`, or `"dropped"`. `Begin` is its first poll and contains the whole
`downgrade()`, of which the call of `trigger()`, when it is due, is the step
`OwnTriggersZero`: the `select!`s are not reached before it. A `select!` may take any
branch that is ready. `Return` drops the weak guard of the future.
The application's own steps (`UserStep`) are those of module `Guards`, on
any guard but the struct's, and sharing through the struct's as long as it exists.

**GracefulShutdown.** A signal that is received and then told, a wait group in which the
Shutdown is a member until it begins to wait, an overwrite that may be used once
the signal was received, and a wait that may end in three ways, each with its
condition (`Possible`). `Signal` and `Wait` at the end of module `Shutdown` are the
refinement mapping: a signal is "known" when `cancelled()` is ready, "lost" when the
user code that had to deliver it panicked.

**Polling.** `Shutdown` lets the future take a branch whenever one is ready. Here the
future runs only inside a poll: `StartPoll`, which must come after somebody called its waker
and may come at any other time, perhaps in another task than before (the wakers of the
old one then count for nothing); then each branch in any order (`turn`), `Pend` if it is not ready, which leaves a waker
(`registered`), `CancelledWins` and `EndWins` if it is. `CancelledWins` enters the second
`select!` and goes on polling: `turn' = Branches'`. Setting the flag of a trigger
(inside the steps of `Shutdown`, recorded by `Flags`) and calling the wakers
(`Wake`) are two steps. One poll of one receiver is one step here, which module
`Trigger` justifies. `expired` is the timer of the limit, which exists since the second `select!`.

**Timed.** The clock may tick only while nothing is `Runnable`: waiting takes time, computing does
not. This urgency is the usual assumption about an unloaded machine; without it
a duration has a lower bound only. `start` is the Instant of the `select!` the
future is in, `delay_ends` the deadline of the delay's sleep. The four `..._at` variables are
history, for the properties.

**Signals.** Each branch of `default_signal` has a listener, and the overwrite has one: not
polled yet, listening, has heard its signal, or its registration failed. A signal
that no handler was ever registered for kills the process (tokio never gives a
handler back), otherwise `Deliver` reaches everybody who listens. The first poll of the
`select!` is taken apart: `PollBranch` registers the listener of one branch, `Pend` is the
`Pending` that its `recv()` returns, and then the next branch has its turn, whatever was delivered
to the first meanwhile. A branch ends this poll when its registration failed or its signal was there
before `recv()` looked; later on, when all branches are `pending`, any signal does (`BranchReady`). Signals of one kind
are merged, as the system does. Unix has two branches, Windows three; `Sigs` is either.

**Server.** `example` picks one of six programs, `SetupOf` its builder calls. `server` is the
task of `serve_tcp` with guard `Loop`; `conn[c]` says what is done under connection guard
`c`. The tcp servers clone the guard at the head of the loop (`CloneNext`: `"next"`)
and move the clone into the task of a connection, or drop it when `accept()`
fails or the loop breaks; the hyper servers clone it in `spawn_task_fn` after the accept.
`monitor` is the task of `hyper_panic` that awaits the server's handle. When main
has returned, `CutServer`, `CutConn` and `CutMonitor` are the runtime dropping what still runs.

**Builder.** `type` is the type parameter of the builder and decides which calls there
are; `data` is its fields, and each action moves them as the method of its name
does. `with_delay`, `maybe_with_delay` and `set_delay` exist for two types and do the
same to the field: they are one action. `calls` is a history variable.

## What TLC checks

| Run | Instance | States | Shows |
|---|---|---|---|
| `TriggerSafety` | 3 receivers, 2 calls of `trigger()`, 2 tasks, 3 slots | 51 111 | `NoDeadlock`, `KeysOwned`, `NoLostWakeup`; `TriggerInv`, the inductive invariant |
| `TriggerLiveness` | 2, 2, 2, 2 | 20 214 | `CallsReturn`; `ImplementsLatch`, liveness included |
| `Guards` | 4 handles | 8 192 | `CountExact`, `ZeroNotForgotten`, `ZeroMeansNone`; `ImplementsWaitGroup`, liveness included |
| `Shutdown` | 3 handles, all setups | 34 601 | `NeverUnasked`, `GracefulMeansIdle`, `SignalFirst`, `NeverStuck`; `ShutdownInv`, the inductive invariant; `SignalArrives`, `ShutdownEnds`; `ImplementsPromise`, liveness included |
| `Builder` | 2 futures, 2 delays, 5 calls | 2 328 | `BuiltAsAsked` |
| `Polling` | 2 handles, all setups | 57 121 | `NoMissedEvent`, `SleepIsWaiting`; `PollingInv`, the inductive invariant; `ImplementsShutdown`, fairness included |
| `Timed` | 2 handles, delays 0 and 2, limits 0 to 2, time up to 4 | 303 784 | `DelayKept`, `LimitBoundsWait`, `ElapsedIsWait`; `TimedInv`, the inductive invariant |
| `Signals` | 2 handles, 2 signals | 172 223 | `OnlyWhenAsked`, `NoSignalLost`; `SignalsInv`, the inductive invariant; `HeardSignalActs` |
| `Server` | the six servers, 3 connections | 6 680 | `DrainNeverStuck`, `GuardsHeld`, `GracefulCutsNobody`; `ServerExits`, `HyperDrains`, `ServerFailureEndsMain` |
| `ShutdownUpgrade` | 3 handles | | `UpgradeHolds` is **violated**, see below |
| `TimedElapsed` | as `Timed` | | `ElapsedSinceSignal` is **violated**, see below |
| `ServerMonitor` | the six servers, 2 connections | | `MonitorOnlyExits` is **violated**, see below |

The names are those of the `.cfg` files. An inductive invariant (`...Inv`) includes the type
invariant of its module and of the modules that one extends; `ServerInv` and `BuilderTypeOK`, which
the proofs establish, hold on the instances of `Server` and `Builder`, too, but are in no run. States are counted up to symmetry in
`TriggerSafety` and `Builder`; the runs with liveness use none. Deadlock is not checked: each
of these systems may stop for good (everything dropped, the signal never sent,
the Shutdown built).

*Why these bounds.* The trigger's races are between one sender and one receiver,
with a third party that frees or takes a slot or holds the lock: three
receivers and two senders make every pair and one bystander. Two tasks are enough for a
stale waker. The guards' races are between a guard that goes, one that comes and
one that observes; the fourth handle is the struct's own. Shutdown adds no
quantified actor to that, and two guards besides the struct's make the one that goes
and the one that is upgraded or cloned meanwhile. With wakers the bystanders matter less: one guard besides the
struct's is enough for zero to come early, late or never. Time up to 4 lets a delay of 2 and
a limit of 2 run out one after the other, with the call before, between
or after, and a limit of 0 is the boundary. The servers add a guard per
connection, one to be told, one to be closed and one still to come. Five builder calls allow each of the others once and two
delays, or a delay before, between and after them. The theorems below do away with the bounds for safety.

*Getting stuck.* Each of the liveness properties has a kernel that is an invariant, and says the half
of it that fairness does not give: that somebody can take a step. `NoDeadlock`: some call in progress can go on.
`NeverStuck`: if neither a task of the crate nor a `select!` has anything to do, the shutdown waits for its
signal (still to come, or lost in a panic) or for a strong guard. `SleepIsWaiting`: the same of the task that polls
the future, when it sleeps and nobody is about to wake it; and a poll that runs can go on.
`NoSignalLost`: a signal that was heard has a task to act on it. `DrainNeverStuck`: while main waits and zero was not
triggered, a task has a guard that it can drop. `CallReady`, `TasksReady`, `PollReady` and `TurnGoes`
spell out when the actions they are named after are enabled, since the provers cannot reason about ENABLED.
TLC found them to agree with ENABLED on the instances of these runs.

*Fairness.* A thread that has begun a poll, a `trigger()` or a drop goes on (weak
fairness of each of its steps), tokio polls a task that was woken (weak fairness
of `Poll` while `woken`), timers end, the signal task runs. Nothing is
assumed of users: no signal has to come, no guard to be dropped, no future to be
polled again unless woken, and the mutex is not assumed to be fair. That last
point shows: before the trigger is pulled a poll may wait for ever for a mutex that
its neighbours keep taking, so `CallsReturn` promises the return of a poll only once
the trigger was pulled, when every poll takes the lock at most twice more.

In `Polling` nothing of the kind is assumed of the future: it is polled if woken, polls
and wakes are carried through, timers end, and `ImplementsShutdown` shows that
the fairness of `Poll` in `Shutdown` follows. In `Server`, `bind()` returns, main and the
monitor are run, and `select!`, which starts at a random branch, takes a branch that is always
ready some time. What the programs do not decide is no part of it, but a hypothesis of the
properties that need it: `LimitRuns`, that the ten seconds of the limit go by, of `ServerExits` and
`ServerFailureEndsMain`; `ConnsFinish`, that a connection ends some time after `graceful_shutdown()`,
of `HyperDrains`. The latter is up to the client, too: one that stops in the middle of a request, or
does not read, keeps `conn.await` (examples/hyper.rs:100) waiting. So the hyper servers need
their limit as the tcp servers do, and `HyperDrains` says that nothing but such a client makes them
wait for it. In `Signals` nobody has to send a signal.

### What the violated runs say

**`UpgradeHolds`.**
`upgrade()` promises "that the guard has to be dropped prior to being able to
complete the `Shutdown::shutdown` future" (guard.rs:289-291). It increments the
counter and no more (guard.rs:186-192). But the zero trigger is a latch, and it may
already be pulled: the first poll of `shutdown()` gives up the struct's own guard, and if no
other strong guard exists at that moment zero is latched, long before any
signal. A server that keeps a weak guard in its accept loop and upgrades it for each
connection, as shutdown.rs:331-338 suggests, and that is idle when it
starts to await `shutdown()`, gets a shutdown that returns as soon as the signal comes,
with connections open. `UpgradeHolds` says it for one guard: if it is alive at some
moment when `shutdown()` still waits for the signal, and is never dropped, then no
graceful outcome follows. TLC finds a short behaviour against it: the last strong guard goes
while `shutdown()` waits, zero is latched, the upgrade takes the count back to one, and the signal
ends the wait. (An upgrade between the `fetch_sub` of that drop and its `trigger()` comes too late as well.) What does hold, always, is `GracefulMeansIdle`: a graceful
return leaves no strong guard behind unless some guard was upgraded when there was none.

**`ElapsedSinceSignal`.** "The resolved Duration is the time it took for the Shutdown to
wait for all ShutdownGuards to be dropped" (shutdown.rs:378-379). That wait cannot
begin before the signal, yet when the overwrite wins the first `select!`, this
returns the time since the call of `shutdown()` (shutdown.rs:393-401,
442-453): for a server that ran for a week, a week, and `shutdown_with_limit` then
returns a `TimeoutError` with a duration far above its limit. The overwrite wins it when it
fires during the delay; without a delay it wins it, too, when it fires before the future has been
polled with `cancelled()` ready, which is the behaviour TLC shows. A wait that goes on after the
cancellation returns the Duration of the second `select!` (`ElapsedIsWait`), which does not
include the delay: what the examples log as "gracefully ...s after shutdown signal
received" is the time after the cancellation.

**`MonitorOnlyExits`.** The monitor of `hyper_panic` is to "do nothing but exit this task" on a
shutdown signal (examples/hyper_panic.rs:61). The property asks it of a shutdown in which the server left
its loop and ended (a server that panicked is another matter). But it ends because of that signal, too; if it has ended by
the time the monitor is polled, both branches are ready, `select!` may take the
other one, and `task_exit_tx.send(()).unwrap()` panics, for the receiver went
with the signal future. The shutdown itself is not affected, as the monitor's guard is weak.

### Read in the code, not counted as errors

* `no_signal()`: the future of `cancelled()` is ready from the start, as its
  receiver is `Receiver::closed()`. The model has it so (`Cancelled`).
* A signal future or an overwrite function that panics leaves `shutdown()` and all
  `cancelled()` futures waiting for ever: a sender that is dropped tells nobody.
  `SignalArrives` and `ShutdownEnds` name this exception.
* `default_signal` "completes once one of the default signals" (shutdown.rs:477). Its
  `select!` also completes when a registration fails, as `_ = signal` takes an error
  (494-501): the program then shuts down as soon as it has started. The same holds of a
  `ctrl_c` overwrite, which forces the shutdown at once. `OnlyWhenAsked` names both exceptions.
* Dropping a `ShutdownGuard` never drops the `WeakShutdownGuard` inside its
  `ManuallyDrop`: its `Arc`s are leaked, that of `ref_count`, the two of `zero_tx` and two
  for each receiver that is open. No property here depends on them.

## What is proved

For any finite sets, from the named assumptions of the modules only
(`ConstAssumption`, `RoomAssumption`, `GuardsAssumption`: the constants are
what their comments say, the sets of keys, receivers and handles are finite, there
are as many keys as receivers).

* `TriggerProofs`: `Invariance` shows that `TriggerInv` is inductive, and `TypeCorrect`,
  `KeysAlwaysOwned` and `WakeupsNeverLost` follow. `NoLostWakeup` is not
  inductive by itself: that nobody is left asleep when the loop ends needs to know,
  during the loop, that the sleepers are in the slots yet to be visited
  (`LoopVisitsAll`), for which, before it, a waiting task must be in the
  slab under its present name (`WakerFresh`), and a waker stored after the flag went
  up must precede the winner's lock (`StoresSeen`), which holds because the second load
  is under the lock (`LockHeld`). `NobodyDeadlocks` follows from it: the lock has one holder, who
  never waits for it, and a poll that stores a waker finds a slot by counting (`RoomForOneMore`: each
  other receiver owns one at most). `LatchSafety` maps every step to a step of `Latch`, and
  `NeverReadyEarly` brings what a latch promises back to the receivers.
* `GuardsProofs`: each step is one of four shapes (`StepShape`: a strong guard comes,
  one goes, the trigger is pulled, nothing that counts). `CountExact` is proved from the
  shapes with the library's facts on cardinality, and makes "the count was one" mean
  "this was the only strong guard", which the properties of zero need.
  `WaitGroupSafety` maps the shapes to the actions of `WaitGroup`.
* `ShutdownProofs`: `ShutdownUsesGuards` shows that a Shutdown's guards behave as
  module `Guards` says, so that all of the above holds inside it. `PullOrder`
  strengthens `NeverUnasked` and `SignalFirst` to something inductive: which
  positions of the tasks go with which triggers. (`NeverUnasked` alone is not: it
  would allow an outcome during the call of `overwrite_fn`, which may yet panic.)
  `OwnGuard` ties the struct's guard to the position of the future. `NeverStuck` needs all of it:
  a count of zero pulls the zero trigger, a pulled trigger or a finished task makes a branch ready.
  `ShutdownInvariance` puts them together. `PromiseSafety` maps the
  steps to the contract of `GracefulShutdown`; it needs of the invariant that a task which may
  yet panic has not told anybody (`PullOrder`).
* `PollingProofs`: `NoMissedEvent` speaks of a task that sleeps; `Polled` says the same
  of the branches that a running poll is done with, which is inductive: a flag set after a
  branch was polled leaves its trigger in `waking`, and a wake either finds the waker
  of a polled branch or leaves that branch alone. `SleepersAlwaysWait` follows: a
  sleeper with no wake under way has no branch that is ready, and `NeverStuck` says what it waits for then.
* `TimedProofs`: `DelayClock` and `WaitClock` say what time it is at each position of the signal
  task and of the future; the clock cannot tick past a deadline (`Runnable`). `LimitBoundsWait`
  and `ElapsedIsWait` follow by arithmetic, for any delays and limits: a wait with a limit that is not over
  is not late, one that is over was not, and the Duration of a graceful end or of a timeout is within the limit.
* `SignalsProofs`: `BranchHeard` says that what a branch heard was delivered; `Heard` links
  what the overwrite's listener heard to the time of its registration, which `PullOrder`
  puts after the request. `OnlyWhenAsked` and `NoSignalLost` need both.
* `ServerProofs`: `Held` adds to `GuardsHeld` that no guard is ever revived, so a graceful end
  means that no strong guard is left (`GracefulMeansIdle`) and hence no task that would hold one.
  `InHand` adds that each strong guard is one of those tasks' and free to be dropped, and that the clone
  ahead of an accept, of which there is one, never outlives the loop. For `DrainNeverStuck`: the count is not
  zero, so there is a strong guard, not main's own, and whoever has it can give it up.
* `BuilderProofs`: a call is the last of its name (`CallMade`), so that `LastArg` is what
  the field holds. `TypeAlwaysTells`: the type of the builder agrees with its data, so that
  only the `Setups` of `Shutdown` are built.

The lemmas `ServerRefines`, `SignalsRefine`, `TimedRefines` and `PollingRefines` record that each
step of these modules is, by its conjuncts, a step of `Shutdown` or a stutter. They say no more than
how the modules are written, and serve to bring `PromiseSafety` in:
`PollingKeepsPromise`, `TimedKeepsPromise`, `SignalsKeepPromise` and `ServerKeepsPromise`: down to
wakers, clocks, signals and example programs, the safety part of the contract of `GracefulShutdown` holds.

Only model-checked: everything about liveness, which is out of the provers' reach (`CallsReturn`,
`SignalArrives`, `ShutdownEnds`, `HeardSignalActs`, `ServerExits`, `HyperDrains`, `ServerFailureEndsMain`,
and of `ImplementsLatch`, `ImplementsWaitGroup`, `ImplementsPromise` and `ImplementsShutdown` the fairness; the
safety halves of the first three are the theorems `LatchSafety`, `WaitGroupSafety` and `PromiseSafety`).

## Not modelled, and why

* What wakers run: `wake()` is called under the lock and is taken to queue the task,
  which is all that tokio's wakers do.
* `Arc` counts: a dropped strong guard leaks those in it, which no state of the protocol
  depends on.
* Overflow of `ref_count`: it would take as many guards as there are addresses.
* Mutex poisoning: it needs a panic under the lock, where only a waker could raise one.
* What goes over the connections of the servers, HTTP included: a connection is open, told to
  finish, or over.
* `examples/waitgroup.rs`: it spawns guarded tasks and waits for them with `no_signal`, which is
  one of the setups of `Shutdown`.
* `sync` (re-exports), `lib.rs` (exports, unit tests), `Debug` and `Display`, tracing.

Nothing of the crate that changes its state is left out. Worth adding should the crate
grow: a second shutdown phase would be a new contract beside `GracefulShutdown`, a counter
that re-arms zero a change of `Upgrade` and `TriggerZero` that turns `UpgradeHolds` into a
property to prove.
