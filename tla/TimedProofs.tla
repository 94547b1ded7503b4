----------------------------- MODULE TimedProofs -----------------------------
(***************************************************************************)
(* Theorems about module Timed, for any durations and any end of time: the *)
(* clock only picks among the behaviours of module Shutdown, the delay is  *)
(* kept, the limit bounds the wait, and what the return value measures.    *)
(***************************************************************************)
EXTENDS Timed, ShutdownProofs

\* The clock is not seen by the shutdown.
LEMMA ShutdownInTime == [TimedNext]_timedVars => [ShutdownNext]_shutdownVars
<1> SUFFICES ASSUME [TimedNext]_timedVars
             PROVE  [ShutdownNext]_shutdownVars
  OBVIOUS
<1>1. CASE Received \/ DelayBegins \/ Told
  BY <1>1 DEF Received, DelayBegins, Told, SignalTask, ShutdownNext
<1>2. ASSUME NEW l \in BOOLEAN, Called(l)
      PROVE  ShutdownNext
  BY <1>2 DEF Called, ShutdownNext
<1>3. CASE DrainBegins \/ Ends \/ LimitOver
  BY <1>3 DEF DrainBegins, Ends, LimitOver, Poll, ShutdownNext
<1>4. CASE GuardsMove \/ Untimed
  BY <1>4 DEF GuardsMove, Untimed, SignalTask, ShutdownNext
<1>5. CASE Tick \/ UNCHANGED timedVars
  BY <1>5 DEF Tick, timedVars
<1> QED
  BY <1>1, <1>2, <1>3, <1>4, <1>5 DEF TimedNext

\* So what ShutdownProofs says of a Shutdown holds here: the step above does not
\* depend on the time.
LEMMA TimedRefines == TimedSpec => ShutdownSpec
<1>1. TimedInit => ShutdownInit
  BY DEF TimedInit
<1> QED
  BY <1>1, ShutdownInTime, PTL DEF TimedSpec, ShutdownSpec

-----------------------------------------------------------------------------
(* What each step changes of what the clocks are about. *)

LEMMA UntimedEffects ==
  ASSUME GuardsMove \/ Untimed
  PROVE  /\ UNCHANGED <<now, clocks, setup, limited, outcome>>
         /\ Cancelled' <=> Cancelled
         /\ "signal" \in pulled' <=> "signal" \in pulled
         /\ main' = main \/ main' = "dropped"
         /\ \/ UNCHANGED signal_task
            \/ signal_task = "overwriting" /\ signal_task' = "delaying"
            \/ signal_task' = "dead"
<1> USE DEF GuardsMove, Untimed, Cancelled, signalVars, mainVars
<1>1. CASE UserStep \/ OwnTriggersZero
  BY <1>1 DEF UserStep, OwnTriggersZero
<1>2. CASE StartOverwrite \/ SignalTaskPanics
  BY <1>2 DEF StartOverwrite, SignalTaskPanics
<1>3. CASE OverwriteFires \/ OverwritePanics
  BY <1>3 DEF OverwriteFires, OverwritePanics, Pull
<1>4. CASE DropShutdown \/ DropFuture
  BY <1>4 DEF DropShutdown, DropFuture
<1> QED
  BY <1>1, <1>2, <1>3, <1>4

\* A step of the signal task leaves the future alone, and the other way round.
LEMMA TaskEffects ==
  /\ Received \/ DelayBegins \/ Told
       => UNCHANGED <<now, delay, limit, start, elapsed, setup, mainVars,
                      called_at, ended_at>>
  /\ \A l \in BOOLEAN : Called(l)
       => UNCHANGED <<now, delay, delay_ends, elapsed, received_at, told_at,
                      ended_at, signalVars>>
  /\ DrainBegins \/ Ends \/ LimitOver
       => UNCHANGED <<now, delay, delay_ends, limit, received_at, told_at,
                      called_at, signalVars, limited>>
BY DEF Received, SignalCompletes, DelayBegins, StartDelay, Told, FireSignal,
       Called, Begin, DrainBegins, SeeCancelled, Ends, Drained, Forced,
       LimitOver, TimedOut, Return, history, mainVars

LEMMA TimedInitInv == TimedInit => TimedInv
<1> SUFFICES ASSUME TimedInit
             PROVE  TimedInv
  OBVIOUS
<1> USE TimedAssumption DEF TimedInit
<1>1. ShutdownInv
  BY ShutdownInitInv
<1>2. TimedTypeOK
  BY <1>1 DEF TimedTypeOK, Time, ShutdownInv
<1>3. Past /\ DelayClock /\ WaitClock
  BY DEF Past, DelayClock, WaitClock, ShutdownInit
<1>4. DelayKept /\ LimitBoundsWait /\ ElapsedIsWait
  BY DEF DelayKept, LimitBoundsWait, ElapsedIsWait, ShutdownInit
<1> QED
  BY <1>1, <1>2, <1>3, <1>4 DEF TimedInv

\* Readings of the clock are times, and differences of them durations.
LEMMA TimedTypes ==
  ASSUME TimedTypeOK, Past, ShutdownTypeOK', [TimedNext]_timedVars
  PROVE  TimedTypeOK' /\ Past'
<1> USE TimedAssumption DEF TimedTypeOK, Past, Time
<1>1. CASE Received \/ DelayBegins \/ Told
  BY <1>1 DEF Received, DelayBegins, Told, history
<1>2. ASSUME NEW l \in BOOLEAN, Called(l)
      PROVE  TimedTypeOK' /\ Past'
  BY <1>2 DEF Called
<1>3. CASE DrainBegins \/ Ends \/ LimitOver
  BY <1>3 DEF DrainBegins, Ends, LimitOver, history
<1>4. CASE GuardsMove \/ Untimed \/ Tick \/ UNCHANGED timedVars
  BY <1>4 DEF GuardsMove, Untimed, Tick, timedVars, clocks, history
<1> QED
  BY <1>1, <1>2, <1>3, <1>4 DEF TimedNext

\* Time stands still while the signal task is runnable, and stops for it when
\* its sleep is over.
LEMMA DelayStep ==
  ASSUME TimedInv, [TimedNext]_timedVars
  PROVE  DelayClock' /\ DelayKept'
<1> USE TimedAssumption DEF TimedInv, TimedTypeOK, Time, ShutdownInv, Past, DelayClock, DelayKept
<1>1. CASE Received
  BY <1>1 DEF Received, SignalCompletes, PullOrder
<1>2. CASE DelayBegins
  BY <1>2 DEF DelayBegins, StartDelay, Pull, PullOrder, history
<1>3. CASE Told
  BY <1>3 DEF Told, FireSignal
<1>4. ASSUME NEW l \in BOOLEAN, Called(l)
      PROVE  DelayClock' /\ DelayKept'
  BY <1>4, TaskEffects DEF signalVars
<1>5. CASE DrainBegins \/ Ends \/ LimitOver
  BY <1>5, TaskEffects DEF signalVars
<1>6. CASE GuardsMove \/ Untimed
  BY <1>6, UntimedEffects DEF clocks, history
<1>7. CASE Tick
  BY <1>7 DEF Tick, Runnable, shutdownVars, signalVars, clocks, history
<1>8. CASE UNCHANGED timedVars
  BY <1>8 DEF timedVars, shutdownVars, signalVars, clocks, history
<1> QED
  BY <1>1, <1>2, <1>3, <1>4, <1>5, <1>6, <1>7, <1>8 DEF TimedNext

\* It stands still while the future has a branch that is ready, and stops for
\* it when its limit is over.
LEMMA WaitStep ==
  ASSUME TimedInv, [TimedNext]_timedVars
  PROVE  WaitClock' /\ ElapsedIsWait'
<1> USE TimedAssumption DEF TimedInv, TimedTypeOK, Time, ShutdownInv, Past,
        WaitClock, ElapsedIsWait, Later
<1>1. CASE Received \/ DelayBegins
  <2>1. UNCHANGED told_at /\ (Cancelled' <=> Cancelled)
    BY <1>1 DEF Received, SignalCompletes, DelayBegins, StartDelay, Pull,
                Cancelled, history
  <2> QED
    BY <1>1, <2>1, TaskEffects DEF mainVars
<1>2. CASE Told
  <2>1. ~Cancelled /\ told_at' = now
    BY <1>2 DEF Told, FireSignal, Cancelled, PullOrder
  <2>2. main # "drain"
    BY <2>1 DEF PullOrder
  <2> QED
    BY <1>2, <2>1, <2>2, TaskEffects DEF mainVars
<1>3. ASSUME NEW l \in BOOLEAN, Called(l)
      PROVE  WaitClock' /\ ElapsedIsWait'
  BY <1>3, TaskEffects DEF Called, Begin, signalVars, Cancelled
<1>4. CASE DrainBegins
  BY <1>4, TaskEffects DEF DrainBegins, SeeCancelled, signalVars, Cancelled
<1>5. CASE Ends
  <2>1. main \in {"cancel", "drain"} /\ main' = "returned"
    BY <1>5 DEF Ends, Drained, Forced, Return
  <2>2. main = "cancel" => outcome' = "forced"
    BY <1>5 DEF Ends, Drained, Forced, Return
  <2>3. elapsed' = now - start /\ ended_at' = now
    BY <1>5 DEF Ends
  <2>4. main = "drain" => Cancelled
    BY DEF PullOrder
  <2>5. UNCHANGED <<told_at, called_at, limit, limited, Cancelled>>
    BY <1>5, TaskEffects DEF signalVars, Cancelled
  <2> QED
    BY <2>1, <2>2, <2>3, <2>4, <2>5
<1>6. CASE LimitOver
  <2>1. main = "drain" /\ limited /\ main' = "returned"
    BY <1>6 DEF LimitOver, TimedOut, Return
  <2>2. elapsed' = limit /\ ended_at' = now /\ now >= start + limit
    BY <1>6 DEF LimitOver
  <2>3. Cancelled /\ UNCHANGED <<told_at, called_at, limit, limited, Cancelled>>
    BY <1>6, <2>1, TaskEffects DEF PullOrder, signalVars, Cancelled
  <2> QED
    BY <2>1, <2>2, <2>3
<1>7. CASE GuardsMove \/ Untimed
  BY <1>7, UntimedEffects DEF clocks, history
<1>8. CASE Tick
  BY <1>8 DEF Tick, Runnable, shutdownVars, signalVars, mainVars, clocks, history,
              Cancelled
<1>9. CASE UNCHANGED timedVars
  BY <1>9 DEF timedVars, shutdownVars, signalVars, mainVars, clocks, history,
              Cancelled
<1> QED
  BY <1>1, <1>2, <1>3, <1>4, <1>5, <1>6, <1>7, <1>8, <1>9 DEF TimedNext

\* From the clocks follows what the limit bounds.
LEMMA LimitEnough ==
  ASSUME TimedTypeOK, ShutdownInv, WaitClock, ElapsedIsWait
  PROVE  LimitBoundsWait
<1> SUFFICES ASSUME limited
             PROVE  /\ main \in {"cancel", "drain"} /\ Cancelled
                         => now <= Later(called_at, told_at) + limit
                    /\ main = "returned" /\ Cancelled
                         => ended_at <= Later(called_at, told_at) + limit
                    /\ outcome \in {"graceful", "timeout"} => elapsed <= limit
  BY DEF LimitBoundsWait
<1> USE TimedAssumption DEF TimedTypeOK, Time, WaitClock
<1>1. main \in {"cancel", "drain"} /\ Cancelled
        => now <= Later(called_at, told_at) + limit
  BY DEF Later
<1>2. outcome \in {"graceful", "timeout"}
        => /\ Cancelled /\ main = "returned"
           /\ elapsed = ended_at - Later(called_at, told_at)
  BY DEF ShutdownInv, PullOrder, ElapsedIsWait
<1> QED
  BY <1>1, <1>2 DEF Later

LEMMA TimedInvStep == TimedInv /\ [TimedNext]_timedVars => TimedInv'
<1> SUFFICES ASSUME TimedInv, [TimedNext]_timedVars
             PROVE  TimedInv'
  OBVIOUS
<1>1. ShutdownInv'
  BY ShutdownInTime, ShutdownInvStep DEF TimedInv
<1>2. TimedTypeOK' /\ Past'
  <2>1. ShutdownTypeOK'
    BY <1>1 DEF ShutdownInv
  <2> QED
    BY <2>1, TimedTypes DEF TimedInv
<1>3. WaitClock' /\ ElapsedIsWait'
  BY WaitStep
<1>4. LimitBoundsWait'
  BY <1>1, <1>2, <1>3, LimitEnough, PTL
<1> QED
  BY <1>1, <1>2, <1>3, <1>4, DelayStep DEF TimedInv

\* The invariant holds in every reachable state.
THEOREM TimedInvariance == TimedSpec => []TimedInv
  BY TimedInitInv, TimedInvStep, PTL DEF TimedSpec

\* Types are right; in particular no reading is subtracted from an earlier one.
THEOREM TimedTypeCorrect == TimedSpec => []TimedTypeOK
<1>1. TimedInv => TimedTypeOK
  BY DEF TimedInv
<1> QED
  BY <1>1, TimedInvariance, PTL

\* The delay buffer is as long as was asked for (shutdown.rs:86-89).
THEOREM DelayAlwaysKept == TimedSpec => []DelayKept
<1>1. TimedInv => DelayKept
  BY DEF TimedInv
<1> QED
  BY <1>1, TimedInvariance, PTL

\* The limit bounds the wait, from the call or the cancellation, whichever was
\* later (shutdown.rs:420-422).
THEOREM LimitAlwaysBounds == TimedSpec => []LimitBoundsWait
<1>1. TimedInv => LimitBoundsWait
  BY DEF TimedInv
<1> QED
  BY <1>1, TimedInvariance, PTL

\* What the returned Duration measures: the second of the two waits.
THEOREM ElapsedMeasures == TimedSpec => []ElapsedIsWait
<1>1. TimedInv => ElapsedIsWait
  BY DEF TimedInv
<1> QED
  BY <1>1, TimedInvariance, PTL

\* With a clock, the contract of module GracefulShutdown is kept.
THEOREM TimedKeepsPromise == TimedSpec => P!SafePromise
  BY TimedRefines, PromiseSafety
=============================================================================
