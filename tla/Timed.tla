-------------------------------- MODULE Timed --------------------------------
(***************************************************************************)
(* Module Shutdown with a clock: the sleep of the delay, the sleep of the  *)
(* limit, and the Durations that shutdown() and shutdown_with_limit()      *)
(* return, each the difference of two readings.  Waiting takes time and    *)
(* computing does not: the clock stands still while some task is runnable. *)
(***************************************************************************)
EXTENDS Shutdown

CONSTANTS Delays, Limits,   \* the durations a program may ask for
          MaxTime           \* the clock stops there

ASSUME TimedAssumption == Delays \subseteq Nat /\ Limits \subseteq Nat /\ MaxTime \in Nat

VARIABLES
  now,
  delay,         \* the duration of the builder, 0 if there is none
  delay_ends,    \* when its sleep is over
  limit,         \* the argument of shutdown_with_limit
  start,         \* the Instant of the shutdown future
  elapsed,       \* the Duration it returned
  received_at, told_at, called_at, ended_at   \* history: when it was that the
    \* signal came, cancelled() became ready, shutdown() was called and returned

history == <<received_at, told_at, called_at, ended_at>>
clocks == <<delay, delay_ends, limit, start, elapsed, history>>
timedVars == <<shutdownVars, now, clocks>>

Time == 0..MaxTime

TimedTypeOK ==
  /\ ShutdownTypeOK
  /\ now \in Time /\ start \in Time /\ elapsed \in Nat
  /\ delay \in Delays \cup {0} /\ limit \in Limits \cup {0} /\ delay_ends \in Nat
  /\ received_at \in Time /\ told_at \in Time
  /\ called_at \in Time /\ ended_at \in Time

TimedInit ==
  /\ ShutdownInit
  /\ now = 0 /\ limit = 0 /\ start = 0 /\ delay_ends = 0 /\ elapsed = 0
  /\ delay \in IF setup.delay THEN Delays ELSE {0}
  /\ received_at = 0 /\ told_at = 0 /\ called_at = 0 /\ ended_at = 0

-----------------------------------------------------------------------------
(* The signal task. *)

Received == /\ SignalCompletes
            /\ received_at' = now
            /\ UNCHANGED <<now, delay, delay_ends, limit, start, elapsed,
                           told_at, called_at, ended_at>>

\* Faulty variant: build() makes the sleep, and the task only awaits it.
DelayBeginsAtBuild == /\ StartDelay
                      /\ delay_ends' = delay
                      /\ UNCHANGED <<now, delay, limit, start, elapsed, history>>

\* sleep(delay) fixes its deadline when it is made.
DelayBegins == /\ StartDelay
               /\ delay_ends' = now + delay
               /\ UNCHANGED <<now, delay, limit, start, elapsed, history>>

\* Faulty variant: the task does not wait for its sleep.
ToldEarly == /\ FireSignal
             /\ told_at' = now
             /\ UNCHANGED <<now, delay, delay_ends, limit, start, elapsed,
                            received_at, called_at, ended_at>>

Told == /\ FireSignal
        /\ signal_task = "sleeping" => now >= delay_ends
        /\ told_at' = now
        /\ UNCHANGED <<now, delay, delay_ends, limit, start, elapsed,
                       received_at, called_at, ended_at>>

-----------------------------------------------------------------------------
(* The shutdown future. *)

\* start = Instant::now(), for the first select!.
Called(with_limit) ==
  /\ Begin(with_limit)
  /\ limit' \in IF with_limit THEN Limits ELSE {0}
  /\ start' = now /\ called_at' = now
  /\ UNCHANGED <<now, delay, delay_ends, elapsed, received_at, told_at, ended_at>>

\* Faulty variant: one Instant for both.
DrainTimedFromCall ==
  /\ SeeCancelled
  /\ UNCHANGED <<now, clocks>>

\* A new start, for the second.
DrainBegins ==
  /\ SeeCancelled
  /\ start' = now
  /\ UNCHANGED <<now, delay, delay_ends, limit, elapsed, history>>

\* start.elapsed(), of whichever select! it is.
Ends == /\ Drained \/ Forced
        /\ elapsed' = now - start
        /\ ended_at' = now
        /\ UNCHANGED <<now, delay, delay_ends, limit, start,
                       received_at, told_at, called_at>>

\* sleep(limit) was made together with the second start.
LimitOver ==
  /\ TimedOut
  /\ now >= start + limit
  /\ elapsed' = limit /\ ended_at' = now
  /\ UNCHANGED <<now, delay, delay_ends, limit, start,
                 received_at, told_at, called_at>>

-----------------------------------------------------------------------------
(* The clock. *)

\* Has some task of the crate anything to do at this very moment?
Runnable ==
  \/ signal_task \in {"overwriting", "delaying"}
  \/ signal_task = "sleeping" /\ now >= delay_ends
  \/ Releasing # {}
  \/ main = "cancel" /\ (Cancelled \/ Overwritten)
  \/ main = "drain" /\ (zero \/ Overwritten \/ (limited /\ now >= start + limit))

Tick == /\ now < MaxTime /\ ~Runnable
        /\ now' = now + 1
        /\ UNCHANGED <<shutdownVars, clocks>>

\* Faulty variant: each step of a guard wakes the future, which sleeps anew.
GuardsMoveSleepsAnew ==
  /\ UserStep \/ OwnTriggersZero
  /\ start' = IF main = "drain" THEN now ELSE start
  /\ UNCHANGED <<now, delay, delay_ends, limit, elapsed, history>>

\* Neither a step of a guard nor any other reads a clock.
GuardsMove == (UserStep \/ OwnTriggersZero) /\ UNCHANGED <<now, clocks>>

Untimed == /\ \/ StartOverwrite \/ SignalTaskPanics
              \/ OverwriteFires \/ OverwritePanics \/ DropShutdown \/ DropFuture
           /\ UNCHANGED <<now, clocks>>

TimedNext ==
  \/ Received \/ DelayBegins \/ Told
  \/ (\E with_limit \in BOOLEAN : Called(with_limit))
  \/ DrainBegins \/ Ends \/ LimitOver
  \/ GuardsMove \/ Untimed \/ Tick

TimedSpec == TimedInit /\ [][TimedNext]_timedVars

-----------------------------------------------------------------------------
(* Properties. *)

Later(s, t) == IF s > t THEN s ELSE t

Started == main \in {"cancel", "drain", "returned"}

\* The buffer between the signal and the cancellation is as long as was
\* asked for: no shorter, however early the shutdown is overwritten, and no
\* longer (shutdown.rs:86-89).
DelayKept ==
  /\ "signal" \in pulled => told_at = received_at + delay
  /\ signal_task = "sleeping" => now <= received_at + delay

\* shutdown_with_limit ends `limit` after both the call and the cancellation,
\* at the latest, so `delay` more after the signal (shutdown.rs:420-422), and
\* the Duration it returns, unless it was forced, is at most the limit.
LimitBoundsWait == limited =>
  /\ main \in {"cancel", "drain"} /\ Cancelled
       => now <= Later(called_at, told_at) + limit
  /\ main = "returned" /\ Cancelled
       => ended_at <= Later(called_at, told_at) + limit
  /\ outcome \in {"graceful", "timeout"} => elapsed <= limit

\* A wait that goes on after the cancellation reports the time it really took,
\* from there or from the call if that came later; so does a timeout, whose
\* Duration is not measured at all.  (Forced at that very moment, it may have
\* ended in its first select!, which counts from the call.)
ElapsedIsWait ==
  main = "returned" /\ Cancelled /\ (outcome = "forced" => told_at < ended_at)
    => elapsed = ended_at - Later(called_at, told_at)

\* Why these hold, as an inductive invariant: no reading of the clock is in
\* the future,
Past == /\ start <= now /\ ended_at <= now
        /\ received_at <= now /\ told_at <= now /\ called_at <= now

\* how far the signal task is tells what time it is,
DelayClock ==
  /\ ~setup.delay => delay = 0
  /\ signal_task \in {"overwriting", "delaying"} => now = received_at
  /\ signal_task = "sleeping"
       => delay_ends = received_at + delay /\ now <= delay_ends

\* and so does how far the shutdown future is.
WaitClock ==
  /\ main = "cancel" => start = called_at
  /\ main = "cancel" /\ Cancelled => now = Later(called_at, told_at)
  /\ main = "drain" => start = Later(called_at, told_at)
  /\ main = "drain" /\ limited => now <= start + limit
  /\ main = "returned" /\ ~Cancelled => outcome = "forced"
  /\ main = "returned" /\ Cancelled /\ limited
       => ended_at <= Later(called_at, told_at) + limit

TimedInv == /\ TimedTypeOK /\ ShutdownInv /\ Past /\ DelayClock /\ WaitClock
            /\ DelayKept /\ LimitBoundsWait /\ ElapsedIsWait

\* "The resolved Duration is the time it took for the Shutdown to wait for
\* all ShutdownGuards to be dropped" (shutdown.rs:378-379), which it does
\* not do before the signal.
ElapsedSinceSignal ==
  main = "returned" => elapsed <= ended_at - Later(called_at, received_at)
=============================================================================
