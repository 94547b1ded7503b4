--------------------------- MODULE ShutdownProofs ---------------------------
(***************************************************************************)
(* Theorems about module Shutdown, for any finite set of handles.  Every   *)
(* step of it is one of the guards or leaves them alone, so what module    *)
(* GuardsProofs says of the guards carries over; what the guards do only   *)
(* matters to GracefulMeansIdle.                                           *)
(***************************************************************************)
EXTENDS Shutdown, GuardsProofs

\* The guards inside a Shutdown behave as guards.
LEMMA GuardsInside == [ShutdownNext]_shutdownVars => [GuardsNext]_guardVars
<1> SUFFICES ASSUME [ShutdownNext]_shutdownVars
             PROVE  [GuardsNext]_guardVars
  OBVIOUS
<1> USE GuardsAssumption DEF GuardsNext, Spend
<1>1. CASE UserStep
  BY <1>1 DEF UserStep
<1>2. CASE OwnTriggersZero
  BY <1>2 DEF OwnTriggersZero
<1>3. ASSUME NEW l \in BOOLEAN, Begin(l)
      PROVE  GuardsNext
  BY <1>3 DEF Begin
<1>4. CASE DropShutdown \/ DropFuture
  BY <1>4 DEF DropShutdown, DropFuture
<1>5. CASE Drained \/ Forced \/ TimedOut
  BY <1>5 DEF Drained, Forced, TimedOut, Return
<1>6. CASE \/ SignalCompletes \/ SignalTask \/ SignalTaskPanics
           \/ OverwriteFires \/ OverwritePanics \/ SeeCancelled
  BY <1>6 DEF SignalCompletes, SignalTask, StartOverwrite, StartDelay,
              FireSignal, SignalTaskPanics, OverwriteFires, OverwritePanics,
              SeeCancelled
<1>7. CASE UNCHANGED shutdownVars
  BY <1>7 DEF shutdownVars
<1> QED
  BY <1>1, <1>2, <1>3, <1>4, <1>5, <1>6, <1>7 DEF ShutdownNext, Poll

\* Every behaviour of a Shutdown is, seen from its guards, one of module
\* Guards: nothing the shutdown does to its own guard breaks their rules.
THEOREM ShutdownUsesGuards == ShutdownSpec => GuardsSpec
<1>1. ShutdownInit => GuardsInit
  BY DEF ShutdownInit
<1> QED
  BY <1>1, GuardsInside, PTL DEF ShutdownSpec, GuardsSpec

\* So a Shutdown is a wait group as well (shutdown.rs:43-44, 156).
THEOREM ShutdownIsWaitGroup == ShutdownSpec => W!SafeSpec
  BY ShutdownUsesGuards, WaitGroupSafety

-----------------------------------------------------------------------------
(* The invariant. *)

\* What the guards do never hides from a graceful shutdown that a guard was
\* left: a new strong guard, when there is none, is recorded in `revived`.
LEMMA IdleStep ==
  ASSUME GuardsInv, [GuardsNext]_guardVars, Strong = {} \/ revived
  PROVE  Strong' = {} \/ revived'
<1>1. ASSUME NEW g \in Guards, Comes(g) \/ Goes(g)
      PROVE  Strong' = {} \/ revived'
  BY <1>1 DEF Comes, Goes
<1>2. ASSUME Pulls \/ Keeps
      PROVE  Strong' = {} \/ revived'
  BY <1>2 DEF Pulls, Keeps
<1>3. CASE UNCHANGED guardVars
  BY <1>3 DEF guardVars, Strong
<1> QED
  BY <1>1, <1>2, <1>3, StepShape DEF GuardsInv

LEMMA ShutdownInitInv == ShutdownInit => ShutdownInv
<1> SUFFICES ASSUME ShutdownInit
             PROVE  ShutdownInv
  OBVIOUS
<1> USE DEF ShutdownInit
<1>1. GuardsInv
  BY GuardsInitInv
<1>2. ShutdownTypeOK
  BY <1>1 DEF ShutdownTypeOK, GuardsInv
<1>3. PullOrder /\ NeverUnasked /\ GracefulMeansIdle /\ SignalFirst
  BY DEF PullOrder, NeverUnasked, GracefulMeansIdle, SignalFirst, Overwritten,
         Cancelled, SignalTriggered, Setups
<1>4. OwnGuard /\ NeverStuck
  BY GuardsAssumption DEF GuardsInit, OwnGuard, NeverStuck, InProgress
<1> QED
  BY <1>1, <1>2, <1>3, <1>4 DEF ShutdownInv, GuardsInv

\* The variables of the shutdown itself keep their types.
LEMMA ShutdownTypes ==
  ASSUME ShutdownTypeOK, GuardsTypeOK', [ShutdownNext]_shutdownVars
  PROVE  ShutdownTypeOK'
<1> USE DEF ShutdownTypeOK, signalVars, mainVars, Pull
<1>1. CASE UserStep \/ OwnTriggersZero \/ UNCHANGED shutdownVars
  BY <1>1 DEF UserStep, OwnTriggersZero, shutdownVars
<1>2. CASE SignalCompletes \/ SignalTaskPanics
  BY <1>2 DEF SignalCompletes, SignalTaskPanics
<1>3. CASE SignalTask
  BY <1>3 DEF SignalTask, StartOverwrite, StartDelay, FireSignal
<1>4. CASE OverwriteFires \/ OverwritePanics
  BY <1>4 DEF OverwriteFires, OverwritePanics
<1>5. CASE (\E l \in BOOLEAN : Begin(l)) \/ DropShutdown \/ DropFuture
  BY <1>5 DEF Begin, DropShutdown, DropFuture
<1>6. CASE Poll
  BY <1>6 DEF Poll, SeeCancelled, Drained, Forced, TimedOut, Return
<1> QED
  BY <1>1, <1>2, <1>3, <1>4, <1>5, <1>6 DEF ShutdownNext

\* The order of the triggers and of what waits for them is preserved.
LEMMA PullOrderStep ==
  ASSUME ShutdownTypeOK, PullOrder, [ShutdownNext]_shutdownVars
  PROVE  PullOrder'
<1> USE DEF ShutdownTypeOK, PullOrder, Cancelled, Overwritten, Pull,
            signalVars, mainVars
<1>1. CASE UserStep \/ OwnTriggersZero \/ UNCHANGED shutdownVars
  BY <1>1 DEF UserStep, OwnTriggersZero, shutdownVars
<1>2. CASE SignalCompletes \/ SignalTaskPanics
  BY <1>2 DEF SignalCompletes, SignalTaskPanics
<1>3. CASE SignalTask
  BY <1>3 DEF SignalTask, StartOverwrite, StartDelay, FireSignal
<1>4. CASE OverwriteFires \/ OverwritePanics
  BY <1>4 DEF OverwriteFires, OverwritePanics
<1>5. CASE (\E l \in BOOLEAN : Begin(l)) \/ DropShutdown \/ DropFuture
  BY <1>5 DEF Begin, DropShutdown, DropFuture
<1>6. CASE Poll
  BY <1>6 DEF Poll, SeeCancelled, Drained, Forced, TimedOut, Return
<1> QED
  BY <1>1, <1>2, <1>3, <1>4, <1>5, <1>6 DEF ShutdownNext

\* Nobody but the struct makes, takes or changes its own guard, and each step
\* of the struct that does moves `main` with it.
LEMMA OwnGuardStep ==
  ASSUME ShutdownTypeOK, OwnGuard, [ShutdownNext]_shutdownVars
  PROVE  OwnGuard'
<1> USE GuardsAssumption DEF ShutdownTypeOK, GuardsTypeOK, Kinds, OwnGuard
<1>1. ASSUME NEW g \in Guards, Share(g), UNCHANGED main
      PROVE  OwnGuard'
  BY <1>1 DEF Share, CloneStrong, CloneWeak, SpawnTask, Make
<1>2. ASSUME NEW g \in Guards \ {Own}, Spend(g), UNCHANGED main
      PROVE  OwnGuard'
  BY <1>2 DEF Spend, IntoSpawnTask, Upgrade, DropStrong, TaskEnds, Downgrade,
              Release, TriggerZero, DropWeak
<1>3. CASE UserStep
  BY <1>1, <1>2, <1>3 DEF UserStep, mainVars
<1>4. CASE OwnTriggersZero
  BY <1>4 DEF OwnTriggersZero, TriggerZero, Releasing, mainVars
<1>5. CASE (\E l \in BOOLEAN : Begin(l)) \/ DropShutdown \/ DropFuture
  BY <1>5 DEF Begin, DropShutdown, DropFuture, Downgrade, DropStrong, Release,
              DropWeak
<1>6. CASE Poll
  BY <1>6 DEF Poll, SeeCancelled, Drained, Forced, TimedOut, Return, DropWeak,
              guardVars
<1>7. CASE \/ SignalCompletes \/ SignalTask \/ SignalTaskPanics
           \/ OverwriteFires \/ OverwritePanics \/ UNCHANGED shutdownVars
  BY <1>7 DEF SignalCompletes, SignalTask, StartOverwrite, StartDelay,
              FireSignal, SignalTaskPanics, OverwriteFires, OverwritePanics,
              shutdownVars, guardVars, mainVars
<1> QED
  BY <1>3, <1>4, <1>5, <1>6, <1>7 DEF ShutdownNext

\* A future that waits with nothing left to do waits for the signal or for a
\* guard: a pulled trigger would make a branch ready, and a count of zero
\* would have pulled one.
LEMMA StuckNever ==
  ASSUME ShutdownTypeOK, CountExact, ZeroNotForgotten, PullOrder, OwnGuard
  PROVE  NeverStuck
<1> SUFFICES ASSUME InProgress, ~TasksReady, ~PollReady
             PROVE  \/ main = "cancel" /\ signal_task \in {"waiting", "dead"}
                    \/ main = "drain" /\ Strong # {}
  BY DEF NeverStuck
<1>1. guard[Own] = "weak"
  BY GuardsAssumption DEF InProgress, OwnGuard, TasksReady, Releasing
<1>2. CASE main = "cancel"
  BY <1>1, <1>2 DEF PollReady, InProgress, Cancelled, PullOrder, TasksReady,
                    ShutdownTypeOK
<1>3. CASE main = "drain"
  <2>1. ~zero /\ Releasing = {}
    BY <1>1, <1>3 DEF PollReady, InProgress, TasksReady
  <2>2. Cardinality(Strong) # 0
    BY <2>1 DEF ZeroNotForgotten, CountExact
  <2> QED
    BY <1>3, <2>2, FS_EmptySet
<1> QED
  BY <1>2, <1>3 DEF InProgress

\* From that order follow the two properties about the signal.
LEMMA OrderEnough == ShutdownTypeOK /\ PullOrder => NeverUnasked /\ SignalFirst
<1> SUFFICES ASSUME ShutdownTypeOK, PullOrder
             PROVE  NeverUnasked /\ SignalFirst
  OBVIOUS
<1>1. NeverUnasked
  BY DEF ShutdownTypeOK, PullOrder, NeverUnasked, Requested, Cancelled,
         Overwritten
<1>2. SignalFirst
  BY DEF ShutdownTypeOK, Setups, PullOrder, SignalFirst, SignalTriggered,
         Cancelled
<1> QED
  BY <1>1, <1>2

\* A graceful return finds no strong guard, or one upgraded too late.
LEMMA GracefulStep ==
  ASSUME ShutdownInv, [ShutdownNext]_shutdownVars
  PROVE  GracefulMeansIdle'
<1> USE DEF ShutdownInv, ShutdownTypeOK
<1>1. GuardsInv /\ [GuardsNext]_guardVars
  BY GuardsInside DEF GuardsInv
<1>2. Cancelled => Cancelled'
  BY DEF Cancelled, ShutdownNext, UserStep, OwnTriggersZero, SignalCompletes,
         SignalTask, StartOverwrite, StartDelay, FireSignal, SignalTaskPanics,
         OverwriteFires, OverwritePanics, Begin, DropShutdown, DropFuture, Poll,
         SeeCancelled, Drained, Forced, TimedOut, Return, Pull, signalVars,
         mainVars, shutdownVars
<1>3. CASE Drained
  <2>1. Cancelled /\ (Strong = {} \/ revived)
    BY <1>3 DEF Drained, PullOrder, ZeroMeansNone
  <2> QED
    BY <1>1, <1>2, <2>1, IdleStep DEF GracefulMeansIdle
<1>4. CASE ~Drained
  <2>1. outcome' = "graceful" => outcome = "graceful"
    BY <1>4 DEF ShutdownNext, UserStep, OwnTriggersZero, SignalCompletes,
         SignalTask, StartOverwrite, StartDelay, FireSignal, SignalTaskPanics,
         OverwriteFires, OverwritePanics, Begin, DropShutdown, DropFuture, Poll,
         SeeCancelled, Forced, TimedOut, Return, mainVars, shutdownVars
  <2> QED
    BY <1>1, <1>2, <2>1, IdleStep DEF GracefulMeansIdle
<1> QED
  BY <1>3, <1>4

LEMMA ShutdownInvStep ==
  ShutdownInv /\ [ShutdownNext]_shutdownVars => ShutdownInv'
<1> SUFFICES ASSUME ShutdownInv, [ShutdownNext]_shutdownVars
             PROVE  ShutdownInv'
  OBVIOUS
<1>1. GuardsInv'
  BY GuardsInside, GuardsInvStep DEF ShutdownInv, ShutdownTypeOK, GuardsInv
<1>2. ShutdownTypeOK'
  BY <1>1, ShutdownTypes DEF ShutdownInv, GuardsInv
<1>3. PullOrder' /\ GracefulMeansIdle'
  BY PullOrderStep, GracefulStep DEF ShutdownInv
<1>4. NeverUnasked' /\ SignalFirst'
  BY <1>2, <1>3, OrderEnough, PTL
<1>5. OwnGuard'
  BY OwnGuardStep DEF ShutdownInv
<1>6. CountExact' /\ ZeroNotForgotten'
  BY <1>1 DEF GuardsInv
<1>7. NeverStuck'
  BY <1>2, <1>3, <1>5, <1>6, StuckNever, PTL
<1> QED
  BY <1>1, <1>2, <1>3, <1>4, <1>5, <1>7 DEF ShutdownInv, GuardsInv

\* All the safety properties of a shutdown hold in every reachable state.
THEOREM ShutdownInvariance == ShutdownSpec => []ShutdownInv
  BY ShutdownInitInv, ShutdownInvStep, PTL DEF ShutdownSpec

\* Types are right.
THEOREM ShutdownTypeCorrect == ShutdownSpec => []ShutdownTypeOK
<1>1. ShutdownInv => ShutdownTypeOK
  BY DEF ShutdownInv
<1> QED
  BY <1>1, ShutdownInvariance, PTL

\* No shutdown returns before the signal (shutdown.rs:375-376).
THEOREM ShutdownNeverUnasked == ShutdownSpec => []NeverUnasked
<1>1. ShutdownInv => NeverUnasked
  BY DEF ShutdownInv
<1> QED
  BY <1>1, ShutdownInvariance, PTL

\* A graceful shutdown leaves no strong guard behind, but for late upgrades.
THEOREM GracefulAlwaysIdle == ShutdownSpec => []GracefulMeansIdle
<1>1. ShutdownInv => GracefulMeansIdle
  BY DEF ShutdownInv
<1> QED
  BY <1>1, ShutdownInvariance, PTL

\* Nobody hears of the cancellation before the signal itself.
THEOREM SignalAlwaysFirst == ShutdownSpec => []SignalFirst
<1>1. ShutdownInv => SignalFirst
  BY DEF ShutdownInv
<1> QED
  BY <1>1, ShutdownInvariance, PTL

\* The future of shutdown() never waits for nothing: the safety half of
\* ShutdownEnds.
THEOREM ShutdownNeverStuck == ShutdownSpec => []NeverStuck
<1>1. ShutdownInv => NeverStuck
  BY DEF ShutdownInv
<1> QED
  BY <1>1, ShutdownInvariance, PTL

-----------------------------------------------------------------------------
(* The promise of module GracefulShutdown. *)

\* What a step that leaves the wait alone does to the guards is what a group
\* may do, as it cannot take the struct's own guard.
LEMMA GroupStep ==
  ASSUME GuardsInv, [GuardsNext]_guardVars, Own \in Strong' <=> Own \in Strong,
         UNCHANGED <<signalVars, mainVars>>
  PROVE  [P!PromiseNext]_(P!promiseVars)
<1> USE DEF P!promiseVars, P!groupVars, P!vars, P!waitVars
<1>1. UNCHANGED <<Signal, Overwritten, Wait, limited, outcome>>
  BY DEF signalVars, mainVars, Signal, Cancelled, Requested, Overwritten, Wait
<1>2. ASSUME NEW h \in Guards, Comes(h)
      PROVE  P!Group
  <2>1. P!Join(h) /\ h # Own
    BY <1>2 DEF Comes, P!Join
  <2> QED
    BY <1>1, <2>1 DEF P!Group, P!waitVars
<1>3. ASSUME NEW g \in Guards, Goes(g)
      PROVE  P!Group
  <2>1. P!Leave(g) /\ g # Own
    BY <1>3 DEF Goes, P!Leave
  <2> QED
    BY <1>1, <2>1 DEF P!Group, P!waitVars
<1>4. ASSUME Pulls
      PROVE  P!Group
  <2>1. P!Release
    BY <1>4 DEF Pulls, P!Release
  <2> QED
    BY <1>1, <2>1 DEF P!Group, P!waitVars
<1>5. CASE Keeps
  BY <1>1, <1>5 DEF Keeps
<1>6. CASE UNCHANGED guardVars
  BY <1>1, <1>6 DEF guardVars, Strong, Releasing
<1> QED
  BY <1>2, <1>3, <1>4, <1>5, <1>6, StepShape DEF GuardsInv, P!PromiseNext

\* The struct's guard goes when the wait begins or is given up before it.
LEMMA OwnLeaves ==
  ASSUME GuardsInv, Downgrade(Own) \/ DropStrong(Own)
  PROVE  P!Leave(Own)
<1>1. Goes(Own)
  BY ReleaseGoes, GuardsAssumption DEF GuardsInv, Downgrade, DropStrong
<1> QED
  BY <1>1 DEF Goes, P!Leave

\* Giving up a weak guard is nothing to the group.
LEMMA WeakLeaves ==
  ASSUME GuardsInv, DropWeak(Own)
  PROVE  UNCHANGED P!groupVars
BY GuardsAssumption DEF GuardsInv, GuardsTypeOK, DropWeak, Strong, Releasing,
   P!groupVars, P!vars

\* UserStep and OwnTriggersZero do not make or take the struct's strong guard.
LEMMA OwnUntouched ==
  ASSUME GuardsTypeOK, UserStep \/ OwnTriggersZero
  PROVE  Own \in Strong' <=> Own \in Strong
<1> USE GuardsAssumption DEF GuardsTypeOK, Strong
<1>1. ASSUME NEW g \in Guards, Share(g)
      PROVE  Own \in Strong' <=> Own \in Strong
  BY <1>1 DEF Share, CloneStrong, CloneWeak, SpawnTask, Make
<1>2. ASSUME NEW g \in Guards \ {Own}, Spend(g)
      PROVE  Own \in Strong' <=> Own \in Strong
  BY <1>2 DEF Spend, IntoSpawnTask, Upgrade, DropStrong, TaskEnds, Downgrade,
              Release, TriggerZero, DropWeak
<1>3. CASE OwnTriggersZero
  BY <1>3 DEF OwnTriggersZero, TriggerZero, Releasing
<1> QED
  BY <1>1, <1>2, <1>3 DEF UserStep

LEMMA PromiseStep ==
  ASSUME ShutdownInv, [ShutdownNext]_shutdownVars
  PROVE  [P!PromiseNext]_(P!promiseVars)
<1> USE DEF ShutdownInv, ShutdownTypeOK, P!PromiseNext, P!promiseVars, P!waitVars
<1>1. GuardsInv /\ [GuardsNext]_guardVars
  BY GuardsInside DEF GuardsInv
<1>2. CASE UserStep \/ OwnTriggersZero
  BY <1>1, <1>2, OwnUntouched, GroupStep DEF UserStep, OwnTriggersZero
<1>3. CASE UNCHANGED shutdownVars
  BY <1>1, <1>3, GroupStep DEF shutdownVars, guardVars, Strong
<1>4. ASSUME UNCHANGED guardVars
      PROVE  UNCHANGED P!groupVars
  BY <1>4 DEF guardVars, P!groupVars, P!vars, Strong, Releasing
<1>5. ASSUME UNCHANGED mainVars
      PROVE  UNCHANGED <<Wait, limited, outcome>>
  BY <1>5 DEF mainVars, Wait
<1>6. Cancelled => signal_task \in {"none", "done"}
  BY DEF Cancelled, PullOrder
<1>7. CASE SignalCompletes \/ SignalTaskPanics
  <2> USE <1>6 DEF Signal, Cancelled, Requested
  <2>1. UNCHANGED <<P!groupVars, Overwritten, Wait, limited, outcome>>
    BY <1>4, <1>5, <1>7 DEF SignalCompletes, SignalTaskPanics, Overwritten
  <2>2. CASE SignalCompletes
    BY <2>1, <2>2 DEF SignalCompletes, P!Receive
  <2>3. CASE SignalTaskPanics
    BY <2>1, <2>3 DEF SignalTaskPanics, P!Lose
  <2> QED
    BY <1>7, <2>2, <2>3
<1>8. CASE SignalTask
  <2> USE <1>6 DEF Signal, Cancelled, Requested, Pull
  <2>1. UNCHANGED <<P!groupVars, Overwritten, Wait, limited, outcome>>
    BY <1>4, <1>5, <1>8 DEF SignalTask, StartOverwrite, StartDelay, FireSignal,
                            Overwritten
  <2>2. CASE StartOverwrite \/ StartDelay
    BY <2>1, <2>2 DEF StartOverwrite, StartDelay
  <2>3. CASE FireSignal
    BY <2>1, <2>3 DEF FireSignal, P!Tell
  <2> QED
    BY <1>8, <2>2, <2>3 DEF SignalTask
<1>9. CASE OverwriteFires \/ OverwritePanics
  <2>1. UNCHANGED <<P!groupVars, Wait, limited, outcome>>
    BY <1>4, <1>5, <1>9 DEF OverwriteFires, OverwritePanics
  <2>2. UNCHANGED Signal
    BY <1>9 DEF OverwriteFires, OverwritePanics, Pull, Signal, Cancelled,
                 Requested
  <2>3. CASE OverwriteFires
    <3>1. Signal \in {"received", "known"}
      BY <2>3 DEF OverwriteFires, Signal, Requested, PullOrder
    <3> QED
      BY <2>1, <2>2, <2>3, <3>1 DEF OverwriteFires, Pull, Overwritten, P!Force
  <2>4. CASE OverwritePanics
    BY <2>1, <2>2, <2>4 DEF OverwritePanics, Overwritten
  <2> QED
    BY <1>9, <2>3, <2>4
<1>10. ASSUME UNCHANGED signalVars
       PROVE  UNCHANGED <<Signal, Overwritten>>
  BY <1>10 DEF signalVars, Signal, Cancelled, Requested, Overwritten
<1>11. ASSUME NEW l \in BOOLEAN, Begin(l)
       PROVE  P!Start(l)
  <2>1. P!Leave(Own)
    BY <1>1, <1>11, OwnLeaves DEF Begin
  <2> QED
    BY <1>10, <1>11, <2>1 DEF Begin, P!Start, Wait
<1>12. CASE DropShutdown
  <2>1. P!Leave(Own)
    BY <1>1, <1>12, OwnLeaves DEF DropShutdown
  <2> QED
    BY <1>10, <1>12, <2>1 DEF DropShutdown, P!Abandon, Wait
<1>13. CASE DropFuture
  <2>1. UNCHANGED P!groupVars
    BY <1>1, <1>13, WeakLeaves DEF DropFuture
  <2> QED
    BY <1>10, <1>13, <2>1 DEF DropFuture, P!Abandon, Wait
<1>14. CASE SeeCancelled
  BY <1>4, <1>10, <1>14 DEF SeeCancelled, Wait
<1>15. CASE Drained \/ Forced \/ TimedOut
  <2>1. UNCHANGED <<P!groupVars, Signal, Overwritten, limited>>
    BY <1>1, <1>10, <1>15, WeakLeaves DEF Drained, Forced, TimedOut, Return
  <2>2. Wait = "waiting" /\ Wait' = "over"
    BY <1>15 DEF Drained, Forced, TimedOut, Return, Wait
  <2>3. main = "drain" => Signal = "known"
    BY <1>6 DEF PullOrder, Signal
  <2>4. CASE Drained
    <3>1. P!Possible("graceful") /\ outcome' = "graceful"
      BY <2>3, <2>4 DEF Drained, Return, P!Possible
    <3> QED
      BY <2>1, <2>2, <3>1 DEF P!End
  <2>5. CASE Forced
    <3>1. P!Possible("forced") /\ outcome' = "forced"
      BY <2>5 DEF Forced, Return, P!Possible
    <3> QED
      BY <2>1, <2>2, <3>1 DEF P!End
  <2>6. CASE TimedOut
    <3>1. P!Possible("timeout") /\ outcome' = "timeout"
      BY <2>3, <2>6 DEF TimedOut, Return, P!Possible
    <3> QED
      BY <2>1, <2>2, <3>1 DEF P!End
  <2> QED
    BY <1>15, <2>4, <2>5, <2>6
<1> QED
  BY <1>2, <1>3, <1>7, <1>8, <1>9, <1>11, <1>12, <1>13, <1>14, <1>15
     DEF ShutdownNext, Poll

LEMMA PromiseStart == ShutdownInit => P!PromiseInit
<1> SUFFICES ASSUME ShutdownInit
             PROVE  P!PromiseInit
  OBVIOUS
<1> USE DEF ShutdownInit
<1>1. P!Init
  BY GuardsAssumption DEF GuardsInit, P!Init, Strong, Releasing
<1>2. Signal \in {"none", "known"} /\ ~Overwritten /\ Wait = "unstarted"
  BY DEF Signal, Cancelled, Requested, Overwritten, Wait, Setups
<1> QED
  BY <1>1, <1>2 DEF P!PromiseInit

\* Signal, overwrite, guards and the wait for them are, from the outside, what
\* module GracefulShutdown promises, whatever the tasks do inside.
THEOREM PromiseSafety == ShutdownSpec => P!SafePromise
<1>1. ShutdownInv /\ [ShutdownNext]_shutdownVars
        => [P!PromiseNext]_(P!promiseVars)
  BY PromiseStep
<1> QED
  BY <1>1, PromiseStart, ShutdownInvariance, PTL DEF ShutdownSpec, P!SafePromise
=============================================================================
