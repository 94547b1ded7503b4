------------------------------ MODULE Shutdown ------------------------------
(***************************************************************************)
(* The Shutdown struct of src/shutdown.rs with everything that runs around *)
(* it: the guards (module Guards), the task that build() spawns to wait    *)
(* for the shutdown signal and to sleep through the delay, the task of the *)
(* overwrite future, and the future of shutdown() or                       *)
(* shutdown_with_limit().  Triggers are the latches of module Latch.  Time *)
(* is not measured: a sleep that has begun may end at any later moment.    *)
(***************************************************************************)
EXTENDS Guards

VARIABLES
  setup,           \* what was built: its signal mode, and is there a delay?
  signal_task,     \* where the task spawned by build() stands
  overwrite_task,  \* the task that awaits the overwrite future
  pulled,          \* the other triggers than zero that were pulled
  main,            \* the Shutdown struct, then the future of its shutdown
  limited,         \* was shutdown_with_limit called?
  outcome          \* what that future returned

signalVars == <<setup, signal_task, overwrite_task, pulled>>
mainVars == <<main, limited, outcome>>
shutdownVars == <<guardVars, signalVars, mainVars>>

\* The three build() functions; without a signal there is no delay.
Setups == {s \in [mode : {"no_signal", "signal", "overwrite"},
                  delay : BOOLEAN] : s.mode = "no_signal" => ~s.delay}

ShutdownTypeOK ==
  /\ GuardsTypeOK
  /\ setup \in Setups
  /\ signal_task \in {"none", "waiting", "overwriting", "delaying",
                      "sleeping", "done", "dead"}
  /\ overwrite_task \in {"none", "waiting", "done", "dead"}
  /\ pulled \in SUBSET {"shutdown_signal", "signal", "zero_overwrite"}
  /\ main \in {"held", "cancel", "drain", "returned", "dropped"}
  /\ limited \in BOOLEAN
  /\ outcome \in {"none", "graceful", "forced", "timeout"}

\* build(): the struct, its guard, and the signal task just spawned.
ShutdownInit ==
  /\ GuardsInit
  /\ setup \in Setups
  /\ signal_task = IF setup.mode = "no_signal" THEN "none" ELSE "waiting"
  /\ overwrite_task = "none"
  /\ pulled = {}
  /\ main = "held" /\ limited = FALSE /\ outcome = "none"

-----------------------------------------------------------------------------
(* What guards see. *)

\* Is the future of cancelled() ready?  Receiver::closed() always is.
Cancelled == setup.mode = "no_signal" \/ "signal" \in pulled

\* Is the future of shutdown_signal_triggered() ready?
SignalTriggered == IF setup.delay THEN "shutdown_signal" \in pulled
                                  ELSE Cancelled

Overwritten == "zero_overwrite" \in pulled

-----------------------------------------------------------------------------
(* The task that waits for the signal, and the one of the overwrite future. *)

Pull(t) == pulled' = pulled \cup {t}

\* trigger_signal.await ends: the environment decides when, if ever.
SignalCompletes ==
  /\ signal_task = "waiting"
  /\ signal_task' = IF setup.mode = "overwrite" THEN "overwriting"
                                                ELSE "delaying"
  /\ UNCHANGED <<guardVars, mainVars, setup, overwrite_task, pulled>>

\* overwrite_fn() is called and its future handed to a task of its own.
StartOverwrite ==
  /\ signal_task = "overwriting"
  /\ signal_task' = "delaying"
  /\ overwrite_task' = "waiting"
  /\ UNCHANGED <<guardVars, mainVars, setup, pulled>>

\* User code panics in the signal future or in overwrite_fn: the runtime
\* drops the task, and with it its senders.
SignalTaskPanics ==
  /\ signal_task \in {"waiting", "overwriting"}
  /\ signal_task' = "dead"
  /\ UNCHANGED <<guardVars, mainVars, setup, overwrite_task, pulled>>

\* Faulty variant: the delay buffer begins in silence.
StartDelaySilent ==
  /\ signal_task = "delaying" /\ setup.delay
  /\ signal_task' = "sleeping"
  /\ UNCHANGED <<guardVars, mainVars, setup, overwrite_task, pulled>>

\* With a delay: shutdown_signal_tx.trigger(), then sleep.
StartDelay ==
  /\ signal_task = "delaying" /\ setup.delay
  /\ signal_task' = "sleeping"
  /\ Pull("shutdown_signal")
  /\ UNCHANGED <<guardVars, mainVars, setup, overwrite_task>>

\* Faulty variant: without a delay, signal_tx is dropped and not triggered.
FireSignalDelayed ==
  /\ signal_task = "sleeping"
  /\ signal_task' = "done"
  /\ Pull("signal")
  /\ UNCHANGED <<guardVars, mainVars, setup, overwrite_task>>

\* signal_tx.trigger(), after the sleep if there is a delay.
FireSignal ==
  /\ \/ signal_task = "delaying" /\ ~setup.delay
     \/ signal_task = "sleeping"
  /\ signal_task' = "done"
  /\ Pull("signal")
  /\ UNCHANGED <<guardVars, mainVars, setup, overwrite_task>>

\* The overwrite future completes: zero_overwrite_tx.trigger().
OverwriteFires ==
  /\ overwrite_task = "waiting"
  /\ overwrite_task' = "done"
  /\ Pull("zero_overwrite")
  /\ UNCHANGED <<guardVars, mainVars, setup, signal_task>>

OverwritePanics ==
  /\ overwrite_task = "waiting"
  /\ overwrite_task' = "dead"
  /\ UNCHANGED <<guardVars, mainVars, setup, signal_task, pulled>>

-----------------------------------------------------------------------------
(* The owner of the Shutdown. *)

\* Faulty variant: guard.clone_weak() instead of guard.downgrade().
BeginClones(with_limit) ==
  /\ main = "held"
  /\ main' = "cancel" /\ limited' = with_limit
  /\ UNCHANGED <<guardVars, signalVars, outcome>>

\* The first poll of shutdown() or of shutdown_with_limit(): the guard of the
\* struct becomes the weak guard of the future.
Begin(with_limit) ==
  /\ main = "held"
  /\ Downgrade(Own)
  /\ main' = "cancel" /\ limited' = with_limit
  /\ UNCHANGED <<signalVars, outcome>>

\* The struct, or a future never polled, is dropped.
DropShutdown ==
  /\ main = "held"
  /\ DropStrong(Own)
  /\ main' = "dropped"
  /\ UNCHANGED <<signalVars, limited, outcome>>

\* A future that was polled is dropped: lost a select!, timed out, aborted.
DropFuture ==
  /\ main \in {"cancel", "drain"}
  /\ DropWeak(Own)
  /\ main' = "dropped"
  /\ UNCHANGED <<signalVars, limited, outcome>>

\* First select!, first branch: go on to the second select!.
SeeCancelled ==
  /\ main = "cancel" /\ guard[Own] = "weak"
  /\ Cancelled
  /\ main' = "drain"
  /\ UNCHANGED <<guardVars, signalVars, limited, outcome>>

\* The future returns, and drops the weak guard it had.
Return(result) ==
  /\ DropWeak(Own)
  /\ main' = "returned" /\ outcome' = result
  /\ UNCHANGED <<signalVars, limited>>

\* Faulty variant: the first select! waits for the guards to be dropped.
DrainedEarly ==
  /\ main \in {"cancel", "drain"}
  /\ zero
  /\ Return("graceful")

\* Second select!: every guard was dropped.
Drained ==
  /\ main = "drain"
  /\ zero
  /\ Return("graceful")

\* Either select!: the overwrite fired, which ends the first one during the
\* delay or, without a delay, before the future was polled after the signal.
Forced ==
  /\ main \in {"cancel", "drain"}
  /\ Overwritten
  /\ Return("forced")

\* Second select! of shutdown_with_limit: sleep(limit), which only began
\* there, ends.  A select! takes any branch that is ready.
TimedOut ==
  /\ main = "drain" /\ limited
  /\ Return("timeout")

-----------------------------------------------------------------------------
\* What the code that uses the crate does with guards: through Shutdown's own
\* as long as it has the struct, and with every other one.
UserStep ==
  /\ \/ \E g \in Guards : (g = Own => main = "held") /\ Share(g)
     \/ \E g \in Guards \ {Own} : Spend(g)
  /\ UNCHANGED <<signalVars, mainVars>>

\* The drop of the struct's guard goes on to zero_tx.trigger().
OwnTriggersZero == TriggerZero(Own) /\ UNCHANGED <<signalVars, mainVars>>

SignalTask == StartOverwrite \/ StartDelay \/ FireSignal

Poll == SeeCancelled \/ Drained \/ Forced \/ TimedOut

ShutdownNext ==
  \/ UserStep \/ OwnTriggersZero
  \/ SignalCompletes \/ SignalTask \/ SignalTaskPanics
  \/ OverwriteFires \/ OverwritePanics
  \/ (\E with_limit \in BOOLEAN : Begin(with_limit))
  \/ DropShutdown \/ DropFuture \/ Poll

ShutdownSpec == ShutdownInit /\ [][ShutdownNext]_shutdownVars

\* The runtime runs the signal task, its timers end, a future with a branch
\* that is ready is polled, and a drop that has begun is carried through.
\* The signal and the overwrite may never come; nobody has to drop a guard.
ShutdownFairness ==
  /\ \A g \in Guards :
       WF_shutdownVars(TriggerZero(g) /\ UNCHANGED <<signalVars, mainVars>>)
  /\ WF_shutdownVars(SignalTask)
  /\ WF_shutdownVars(Poll)

ShutdownFairSpec == ShutdownSpec /\ ShutdownFairness

-----------------------------------------------------------------------------
(* Properties. *)

\* Has the signal that asks for a shutdown been received?
Requested == setup.mode = "no_signal"
               \/ signal_task \in {"overwriting", "delaying", "sleeping", "done"}

InProgress == main \in {"cancel", "drain"}

\* shutdown() never returns unasked, not even when all guards are gone or
\* when the overwrite comes early (shutdown.rs:171-173, 222-225, 375-376).
NeverUnasked == outcome # "none" => Requested

\* A graceful return means that the work was done: no guard was left, or only
\* guards upgraded from weak ones after the last strong guard was gone.
GracefulMeansIdle == outcome = "graceful" => Cancelled /\ (Strong = {} \/ revived)

\* Tasks that do not want the delay buffer hear of the shutdown no later than
\* the others, and before a shutdown can end gracefully (guard.rs:72-75).
SignalFirst == Cancelled => SignalTriggered

\* Why these hold, as an inductive invariant: in which order the tasks pull
\* their triggers, and the future of shutdown() waits for them.
PullOrder ==
  /\ setup.mode = "no_signal" <=> signal_task = "none"
  /\ "signal" \in pulled <=> signal_task = "done"
  /\ setup.delay /\ signal_task \in {"sleeping", "done"}
       => "shutdown_signal" \in pulled
  /\ overwrite_task # "none" => signal_task \in {"delaying", "sleeping", "done"}
  /\ Overwritten <=> overwrite_task = "done"
  /\ main = "drain" => Cancelled
  /\ outcome # "none" <=> main = "returned"
  /\ outcome \in {"graceful", "timeout"} => Cancelled
  /\ outcome = "timeout" => limited
  /\ outcome = "forced" => Overwritten

\* The struct's own guard follows the struct: strong while it is held, weak
\* once the future is past its first poll, given up with either.
OwnGuard ==
  /\ owner[Own] = "user"
  /\ guard[Own] \in CASE main = "held"   -> {"strong"}
                     [] main = "cancel" -> {"downgrading", "weak"}
                     [] main = "drain"  -> {"weak"}
                     [] OTHER           -> {"dropping", "gone"}

\* Is there a step that the crate itself has to take: a zero_tx.trigger()
\* after fetch_sub, a step of the signal task, or a branch of a select! that
\* is ready?
TasksReady == \/ Releasing # {}
              \/ signal_task \in {"overwriting", "delaying", "sleeping"}

PollReady == /\ InProgress /\ guard[Own] = "weak"
             /\ \/ main = "cancel" /\ Cancelled
                \/ main = "drain" /\ (zero \/ limited)
                \/ Overwritten

\* No order of the signal task, the last drop and the call of shutdown()
\* leaves the future of shutdown() waiting for nothing: when the crate has no
\* step left to take, it waits for the signal, which cannot come any more
\* only if user code panicked instead of delivering it, or for a strong guard.
NeverStuck ==
  InProgress /\ ~TasksReady /\ ~PollReady
    => \/ main = "cancel" /\ signal_task \in {"waiting", "dead"}
       \/ main = "drain" /\ Strong # {}

ShutdownInv == /\ ShutdownTypeOK /\ CountExact /\ ZeroNotForgotten /\ ZeroMeansNone
               /\ PullOrder /\ OwnGuard
               /\ NeverUnasked /\ GracefulMeansIdle /\ SignalFirst /\ NeverStuck

\* A guard that was there before the signal, and that nobody drops, holds
\* shutdown() back whether it was cloned or upgraded, as the documentation
\* of upgrade says (guard.rs:289-291).
UpgradeHolds == \A g \in Guards \ {Own} :
  [](InProgress /\ ~Requested /\ [](guard[g] = "strong")
       => [](outcome # "graceful"))

\* A received signal reaches every guard, unless overwrite_fn panics.
SignalArrives == signal_task \in {"overwriting", "delaying"}
                   ~> Cancelled \/ signal_task = "dead"

\* A shutdown that was asked for ends, once the guards are dropped, the limit
\* runs or the overwrite fired: no interleaving of the signal task, the drop
\* of the last guard and the call of shutdown() misses the event it waits for.
ShutdownEnds ==
  InProgress /\ Requested /\ (ref_count = 0 \/ limited \/ Overwritten)
    ~> ~InProgress \/ signal_task = "dead"

\* A Shutdown keeps the promises of module GracefulShutdown.
Signal == IF signal_task = "dead" THEN "lost"
          ELSE IF Cancelled THEN "known"
          ELSE IF Requested THEN "received" ELSE "none"

Wait == [held |-> "unstarted", cancel |-> "waiting", drain |-> "waiting",
         returned |-> "over", dropped |-> "abandoned"][main]

P == INSTANCE GracefulShutdown WITH
       Members <- Guards, First <- Own, active <- Strong,
       emptied <- zero \/ Releasing # {}, released <- zero,
       signal <- Signal, forced <- Overwritten, wait <- Wait, result <- outcome

ImplementsPromise == P!Promise
=============================================================================
