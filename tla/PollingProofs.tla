---------------------------- MODULE PollingProofs ----------------------------
(***************************************************************************)
(* Theorems about module Polling, for any finite set of handles: its tasks *)
(* and wakers only choose when a step of module Shutdown is taken, and no  *)
(* interleaving of a poll with a trigger loses a wakeup.                   *)
(***************************************************************************)
EXTENDS Polling, ShutdownProofs

\* Each step of the poll is one of the future, or is nothing to the shutdown.
LEMMA ShutdownInPolling ==
  [PollingNext]_pollingVars => [ShutdownNext]_shutdownVars
<1> SUFFICES ASSUME [PollingNext]_pollingVars
             PROVE  [ShutdownNext]_shutdownVars
  OBVIOUS
<1> USE DEF ShutdownNext
<1>1. CASE Elsewhere
  BY <1>1 DEF Elsewhere
<1>2. ASSUME NEW t \in Triggers, Wake(t)
      PROVE  UNCHANGED shutdownVars
  BY <1>2 DEF Wake
<1>3. CASE LimitExpires \/ StartPoll
  BY <1>3 DEF LimitExpires, StartPoll
<1>4. ASSUME NEW l \in BOOLEAN, FirstPoll(l)
      PROVE  ShutdownNext
  BY <1>4 DEF FirstPoll
<1>5. CASE PollStep
  BY <1>5 DEF PollStep, Pend, CancelledWins, EndWins, Poll
<1>6. CASE DropsTask \/ UNCHANGED pollingVars
  BY <1>6 DEF DropsTask, pollingVars
<1> QED
  BY <1>1, <1>2, <1>3, <1>4, <1>5, <1>6 DEF PollingNext

\* So what ShutdownProofs says of a Shutdown holds here: the step above does not
\* depend on what is polled when.
LEMMA PollingRefines == PollingSpec => ShutdownSpec
<1>1. PollingInit => ShutdownInit
  BY DEF PollingInit
<1> QED
  BY <1>1, ShutdownInPolling, PTL DEF PollingSpec, ShutdownSpec

-----------------------------------------------------------------------------
(* The invariant. *)

LEMMA PollingInitInv == PollingInit => PollingInv
<1> SUFFICES ASSUME PollingInit
             PROVE  PollingInv
  OBVIOUS
<1> USE DEF PollingInit
<1>1. ShutdownInv
  BY ShutdownInitInv
<1>2. Branches = {}
  BY DEF ShutdownInit, Branches
<1> QED
  BY <1>1, <1>2 DEF PollingInv, PollingTypeOK, Polled, ShutdownInv

\* Elsewhere, the future only moves when it is dropped unpolled.
LEMMA ElsewhereKeeps ==
  ASSUME ShutdownTypeOK, Elsewhere
  PROVE  /\ Branches' = Branches
         /\ UNCHANGED setup
         /\ \A b \in Triggers : Ready(b)' => Ready(b) \/ b \in Fired' \ Fired
         /\ Ready("limit")' = Ready("limit")
<1>1. \/ UNCHANGED <<main, limited>>
      \/ main = "held" /\ main' = "dropped" /\ UNCHANGED limited
  BY DEF Elsewhere, UserStep, OwnTriggersZero, SignalCompletes, SignalTask,
         StartOverwrite, StartDelay, FireSignal, SignalTaskPanics,
         OverwriteFires, OverwritePanics, DropShutdown, mainVars
<1>2. UNCHANGED <<setup, expired>>
  BY DEF Elsewhere, UserStep, OwnTriggersZero, SignalCompletes, SignalTask,
         StartOverwrite, StartDelay, FireSignal, SignalTaskPanics,
         OverwriteFires, OverwritePanics, DropShutdown, signalVars
<1>3. Branches' = Branches
  BY <1>1 DEF Branches
<1>4. ASSUME NEW b \in Triggers, Ready(b)'
      PROVE  Ready(b) \/ b \in Fired' \ Fired
  BY <1>2, <1>4 DEF ShutdownTypeOK, Triggers, Ready, Cancelled, Overwritten,
                    Fired
<1>5. Ready("limit")' = Ready("limit")
  BY <1>2 DEF Ready
<1> QED
  BY <1>2, <1>3, <1>4, <1>5

\* The variables of the task keep their types.
LEMMA PollingTypes ==
  ASSUME PollingTypeOK, ShutdownTypeOK', [PollingNext]_pollingVars
  PROVE  PollingTypeOK'
<1> USE DEF PollingTypeOK, taskVars
<1>1. CASE Elsewhere
  <2>1. Fired' \subseteq Triggers
    BY DEF Fired
  <2> QED
    BY <1>1, <2>1, ElsewhereKeeps DEF Elsewhere, Flags
<1>2. CASE (\E t \in Triggers : Wake(t)) \/ LimitExpires \/ StartPoll
  <2>1. Branches' = Branches
    BY <1>2 DEF Wake, LimitExpires, StartPoll, Branches, shutdownVars, mainVars
  <2> QED
    BY <1>2, <2>1 DEF Wake, LimitExpires, StartPoll
<1>3. ASSUME NEW l \in BOOLEAN, FirstPoll(l)
      PROVE  PollingTypeOK'
  BY <1>3 DEF FirstPoll, Begin, Branches
<1>4. ASSUME NEW b \in turn, Pend(b)
      PROVE  PollingTypeOK'
  BY <1>4 DEF Pend, Branches, Triggers, shutdownVars, mainVars
<1>5. CASE CancelledWins \/ EndWins \/ DropsTask
  BY <1>5 DEF CancelledWins, EndWins, DropsTask
<1>6. CASE UNCHANGED pollingVars
  BY <1>6 DEF pollingVars, shutdownVars, mainVars, Branches
<1> QED
  BY <1>1, <1>2, <1>3, <1>4, <1>5, <1>6 DEF PollingNext, PollStep

\* A trigger that sets its flag after a branch was polled still has to wake
\* it; one that wakes finds the waker of every branch that was polled.
LEMMA PolledStep ==
  ASSUME PollingInv, [PollingNext]_pollingVars
  PROVE  Polled'
<1> USE DEF PollingInv, PollingTypeOK, Polled, taskVars
<1>1. CASE Elsewhere
  <2>1. Branches \subseteq Triggers \cup {"limit"}
    BY DEF Branches, Triggers
  <2> QED
    BY <1>1, <2>1, ElsewhereKeeps DEF Elsewhere, Flags
<1>2. CASE (\E t \in Triggers : Wake(t)) \/ LimitExpires \/ UNCHANGED pollingVars
  <2>1. /\ Branches' = Branches
        /\ \A b \in Branches : b # "limit" => Ready(b)' = Ready(b)
    BY <1>2 DEF Wake, LimitExpires, pollingVars, shutdownVars, guardVars,
                signalVars, mainVars, Branches, Ready, Cancelled, Overwritten
  <2>2. CASE \E t \in Triggers : Wake(t)
    <3>1. Ready("limit")' = Ready("limit") /\ UNCHANGED turn
      BY <2>2 DEF Wake, Ready, shutdownVars, mainVars
    <3> QED
      BY <2>1, <2>2, <3>1 DEF Wake, Triggers
  <2>3. CASE LimitExpires
    BY <2>1, <2>3 DEF LimitExpires, Branches
  <2>4. CASE UNCHANGED pollingVars
    BY <2>1, <2>4 DEF pollingVars, Ready
  <2> QED
    BY <1>2, <2>2, <2>3, <2>4
<1>3. ASSUME NEW l \in BOOLEAN, FirstPoll(l)
      PROVE  Polled'
  BY <1>3 DEF FirstPoll, Begin, Branches
<1>4. CASE StartPoll
  BY <1>4 DEF StartPoll, Branches, shutdownVars, mainVars
<1>5. ASSUME NEW b \in turn, Pend(b)
      PROVE  Polled'
  <2>1. Branches' = Branches /\ \A a \in Branches : Ready(a)' = Ready(a)
    BY <1>5 DEF Pend, shutdownVars, guardVars, signalVars, mainVars, Branches,
                Ready, Cancelled, Overwritten
  <2> QED
    BY <1>5, <2>1 DEF Pend
<1>6. CASE CancelledWins
  BY <1>6 DEF CancelledWins
<1>7. CASE EndWins \/ DropsTask
  <2>1. Branches' = {}
    BY <1>7 DEF EndWins, DropsTask, Drained, Forced, TimedOut, Return,
                DropFuture, Branches
  <2> QED
    BY <2>1
<1> QED
  BY <1>1, <1>2, <1>3, <1>4, <1>5, <1>6, <1>7 DEF PollingNext, PollStep

LEMMA PollingInvStep == PollingInv /\ [PollingNext]_pollingVars => PollingInv'
<1> SUFFICES ASSUME PollingInv, [PollingNext]_pollingVars
             PROVE  PollingInv'
  OBVIOUS
<1>1. ShutdownInv'
  BY ShutdownInPolling, ShutdownInvStep DEF PollingInv
<1>2. PollingTypeOK'
  <2>1. ShutdownTypeOK'
    BY <1>1 DEF ShutdownInv
  <2> QED
    BY <2>1, PollingTypes DEF PollingInv
<1> QED
  BY <1>1, <1>2, PolledStep DEF PollingInv

\* The invariant holds in every reachable state.
THEOREM PollingInvariance == PollingSpec => []PollingInv
  BY PollingInitInv, PollingInvStep, PTL DEF PollingSpec

\* Types are right; in particular only branches of its select! are polled.
THEOREM PollingTypeCorrect == PollingSpec => []PollingTypeOK
<1>1. PollingInv => PollingTypeOK
  BY DEF PollingInv
<1> QED
  BY <1>1, PollingInvariance, PTL

\* The future of shutdown() never sleeps through what it waits for, in either
\* select!, with any number of guards.
THEOREM EventsNeverMissed == PollingSpec => []NoMissedEvent
<1>1. PollingInv => NoMissedEvent
  BY DEF PollingInv, Polled, NoMissedEvent, Asleep
<1> QED
  BY <1>1, PollingInvariance, PTL

\* Who sleeps although the crate has come to rest has no branch that is ready,
\* so NeverStuck says what it waits for.
LEMMA SleepersWait == PollingInv => SleepIsWaiting
<1> SUFFICES ASSUME PollingInv
             PROVE  SleepIsWaiting
  OBVIOUS
<1>1. ASSUME Asleep, waking = {}, ~TasksReady,
             main = "drain" /\ limited => expired
      PROVE  \/ main = "cancel" /\ signal_task \in {"waiting", "dead"}
             \/ main = "drain" /\ ~limited /\ Strong # {}
  <2>1. \A b \in Branches : ~Ready(b)
    BY <1>1 DEF Asleep, PollingInv, Polled
  <2>2. main = "drain" => ~limited
    BY <1>1, <2>1 DEF Branches, Ready
  <2>3. InProgress
    BY <1>1 DEF Asleep, Branches, InProgress
  <2>4. ~PollReady
    BY <2>1, <2>2, <2>3 DEF PollReady, InProgress, Branches, Ready
  <2> QED
    BY <1>1, <2>2, <2>3, <2>4 DEF PollingInv, ShutdownInv, NeverStuck
<1>2. ASSUME turn # {}, Releasing = {}
      PROVE  TurnGoes
  <2>1. PICK b \in turn : b \in Branches
    BY <1>2 DEF PollingInv, PollingTypeOK
  <2>2. InProgress
    BY <2>1 DEF Branches, InProgress
  <2>3. guard[Own] = "weak"
    BY <1>2, <2>2, GuardsAssumption
       DEF PollingInv, ShutdownInv, OwnGuard, InProgress, Releasing
  <2>4. BranchGoes(b)
    BY <2>1, <2>2 DEF Branches, BranchGoes, InProgress
  <2> QED
    BY <2>3, <2>4 DEF TurnGoes
<1> QED
  BY <1>1, <1>2 DEF SleepIsWaiting

\* The future of shutdown() sleeps only while there is something to wait for:
\* the safety half of what ImplementsShutdown says of ShutdownEnds.
THEOREM SleepersAlwaysWait == PollingSpec => []SleepIsWaiting
  BY PollingInvariance, SleepersWait, PTL

\* With wakers and polls in the place of a future that is told everything, the
\* contract of module GracefulShutdown is kept all the same.
THEOREM PollingKeepsPromise == PollingSpec => P!SafePromise
  BY PollingRefines, PromiseSafety
=============================================================================
