---------------------------- MODULE SignalsProofs ----------------------------
(***************************************************************************)
(* Theorems about module Signals, for any set of signals.  The operating   *)
(* system only decides when the signal future and the overwrite future of  *)
(* module Shutdown complete, so what ShutdownProofs says holds here.       *)
(***************************************************************************)
EXTENDS Signals, ShutdownProofs

\* The Shutdown of a program that gets signals behaves as a Shutdown.
LEMMA ShutdownInSignals ==
  [SignalsNext]_signalsVars => [ShutdownNext]_shutdownVars
<1> SUFFICES ASSUME [SignalsNext]_signalsVars
             PROVE  [ShutdownNext]_shutdownVars
  OBVIOUS
<1>1. ASSUME NEW s \in Sigs, Deliver(s) \/ PollBranch(s) \/ Pend(s)
      PROVE  UNCHANGED shutdownVars
  BY <1>1 DEF Deliver, PollBranch, Pend
<1>2. CASE PollOverwrite \/ UNCHANGED signalsVars
  BY <1>2 DEF PollOverwrite, signalsVars
<1>3. CASE DefaultSignalCompletes \/ CtrlCCompletes \/ Program
  BY <1>3 DEF DefaultSignalCompletes, CtrlCCompletes, Program, ShutdownNext
<1> QED
  BY <1>1, <1>2, <1>3 DEF SignalsNext

\* So what ShutdownProofs says of a Shutdown holds here: the step above does not
\* depend on which signals are sent and which registrations fail.
LEMMA SignalsRefine == SignalsSpec => ShutdownSpec
<1>1. SignalsInit => ShutdownInit
  BY DEF SignalsInit
<1> QED
  BY <1>1, ShutdownInSignals, PTL DEF SignalsSpec, ShutdownSpec

-----------------------------------------------------------------------------
(* The invariant. *)

LEMMA SignalsInitInv == SignalsInit => SignalsInv
<1> SUFFICES ASSUME SignalsInit
             PROVE  SignalsInv
  OBVIOUS
<1> USE DEF SignalsInit
<1>1. ShutdownInv
  BY ShutdownInitInv
<1>2. SignalsTypeOK
  BY <1>1 DEF SignalsTypeOK, Listener, ShutdownInv
<1>3. /\ Listening /\ BranchHeard /\ Heard
      /\ OnlyWhenAsked /\ NoSignalLost
  BY DEF Listening, BranchHeard, Heard, OnlyWhenAsked, BegunWhenAsked,
         ForcedWhenAsked, NoSignalLost, Overwritten, Requested, ShutdownInit
<1> QED
  BY <1>1, <1>2, <1>3 DEF SignalsInv

\* The variables of the system and of its listeners keep their types.
LEMMA SignalsTypes ==
  ASSUME SignalsTypeOK, ShutdownTypeOK', [SignalsNext]_signalsVars
  PROVE  SignalsTypeOK'
<1> USE SignalsAssumption DEF SignalsTypeOK, Listener, listeners, osVars
<1>1. ASSUME NEW s \in Sigs, Deliver(s)
      PROVE  SignalsTypeOK'
  BY <1>1 DEF Deliver, Hear
<1>2. ASSUME NEW s \in Sigs, PollBranch(s) \/ Pend(s)
      PROVE  SignalsTypeOK'
  BY <1>2 DEF PollBranch, Pend
<1>3. CASE PollOverwrite
  BY <1>3 DEF PollOverwrite
<1>4. CASE \/ DefaultSignalCompletes \/ CtrlCCompletes \/ Program
           \/ UNCHANGED signalsVars
  BY <1>4 DEF DefaultSignalCompletes, CtrlCCompletes, Program, signalsVars
<1> QED
  BY <1>1, <1>2, <1>3, <1>4 DEF SignalsNext

\* A branch hears what is delivered, and the signal task goes on when a branch
\* heard its signal or failed, which none of them undoes.
LEMMA BegunStep ==
  ASSUME SignalsInv, [SignalsNext]_signalsVars
  PROVE  BranchHeard' /\ BegunWhenAsked'
<1> USE DEF SignalsInv, SignalsTypeOK, BranchHeard, OnlyWhenAsked, BegunWhenAsked,
            Requested, listeners, osVars
<1>1. ASSUME NEW s \in Sigs, Deliver(s)
      PROVE  BranchHeard' /\ BegunWhenAsked'
  BY <1>1 DEF Deliver, Hear, shutdownVars, signalVars
<1>2. ASSUME NEW s \in Sigs, PollBranch(s) \/ Pend(s)
      PROVE  BranchHeard' /\ BegunWhenAsked'
  BY <1>2 DEF PollBranch, Pend, shutdownVars, signalVars
<1>3. CASE DefaultSignalCompletes
  <2>1. delivered # {} \/ \E s \in Sigs : branch[s] = "failed"
    BY <1>3 DEF DefaultSignalCompletes, BranchReady
  <2>2. UNCHANGED <<branch, delivered>>
    BY <1>3 DEF DefaultSignalCompletes
  <2> QED
    BY <2>1, <2>2
<1>4. CASE PollOverwrite \/ CtrlCCompletes \/ UNCHANGED signalsVars
  BY <1>4 DEF PollOverwrite, CtrlCCompletes, OverwriteFires, signalsVars,
              shutdownVars, signalVars
<1>5. CASE Program
  <2>1. UNCHANGED <<branch, delivered, setup>>
    BY <1>5 DEF Program, UserStep, OwnTriggersZero, SignalTask, StartOverwrite,
       StartDelay, FireSignal, Begin, DropShutdown, DropFuture, Poll,
       SeeCancelled, Drained, Forced, TimedOut, Return, signalVars
  <2>2. Requested' => Requested
    BY <1>5 DEF Program, UserStep, OwnTriggersZero, SignalTask, StartOverwrite,
       StartDelay, FireSignal, Begin, DropShutdown, DropFuture, Poll,
       SeeCancelled, Drained, Forced, TimedOut, Return, signalVars
  <2> QED
    BY <2>1, <2>2
<1> QED
  BY <1>1, <1>2, <1>3, <1>4, <1>5 DEF SignalsNext

\* A delivery, a first poll or a completion keeps the link between what the
\* overwrite heard and when it was sent.
LEMMA HeardStep ==
  ASSUME SignalsInv, [SignalsNext]_signalsVars
  PROVE  Heard' /\ ForcedWhenAsked'
<1> USE DEF SignalsInv, SignalsTypeOK, ShutdownInv, Heard, OnlyWhenAsked,
            ForcedWhenAsked, Overwritten, listeners, osVars
<1>1. ASSUME NEW s \in Sigs, Deliver(s)
      PROVE  Heard' /\ ForcedWhenAsked'
  <2>1. overwrite_task # "none" => Requested
    BY DEF PullOrder, Requested
  <2>2. UNCHANGED <<overwrite_task, pulled>>
    BY <1>1 DEF Deliver, shutdownVars, signalVars
  <2> QED
    BY <1>1, <2>1, <2>2 DEF Deliver, Hear
<1>2. ASSUME NEW s \in Sigs, PollBranch(s) \/ Pend(s)
      PROVE  Heard' /\ ForcedWhenAsked'
  BY <1>2 DEF PollBranch, Pend, shutdownVars, signalVars
<1>3. CASE PollOverwrite
  <2>1. overwrite' # "heard" /\ overwrite_task' = "waiting"
    BY <1>3 DEF PollOverwrite, shutdownVars, signalVars
  <2>2. UNCHANGED <<pulled, interrupted>> /\ overwrite # "failed"
    BY <1>3 DEF PollOverwrite, shutdownVars, signalVars
  <2> QED
    BY <2>1, <2>2
<1>4. CASE DefaultSignalCompletes \/ UNCHANGED signalsVars
  BY <1>4 DEF DefaultSignalCompletes, SignalCompletes, signalsVars, shutdownVars,
              signalVars
<1>5. CASE CtrlCCompletes
  BY <1>5 DEF CtrlCCompletes, OverwriteFires
<1>6. CASE Program
  <2>1. UNCHANGED <<overwrite, interrupted>>
    BY <1>6 DEF Program
  <2>2. /\ overwrite_task \in {"waiting", "done"}
             => overwrite_task' \in {"waiting", "done"}
        /\ "zero_overwrite" \in pulled' => "zero_overwrite" \in pulled
    BY <1>6 DEF Program, UserStep, OwnTriggersZero, SignalTask, StartOverwrite,
       StartDelay, FireSignal, Pull, Begin, DropShutdown, DropFuture, Poll,
       SeeCancelled, Drained, Forced, TimedOut, Return, signalVars
  <2> QED
    BY <2>1, <2>2
<1> QED
  BY <1>1, <1>2, <1>3, <1>4, <1>5, <1>6 DEF SignalsNext

\* As long as the signal task waits, the handlers are those of its branches,
\* so what is delivered is heard.
LEMMA ListeningStep ==
  ASSUME SignalsInv, [SignalsNext]_signalsVars
  PROVE  /\ Listening'
         /\ signal_task' = "waiting" => \A s \in delivered' : branch'[s] = "heard"
<1> DEFINE Goal == /\ Listening'
                   /\ signal_task' = "waiting"
                        => \A s \in delivered' : branch'[s] = "heard"
<1> USE DEF SignalsInv, SignalsTypeOK, Listening, NoSignalLost, listeners, osVars
<1>1. ASSUME NEW s \in Sigs, Deliver(s)
      PROVE  Goal
  BY <1>1 DEF Deliver, Hear, shutdownVars, signalVars
<1>2. ASSUME NEW s \in Sigs, PollBranch(s) \/ Pend(s)
      PROVE  Goal
  BY <1>2 DEF PollBranch, Pend, Polled, shutdownVars, signalVars
<1>3. CASE DefaultSignalCompletes
  BY <1>3 DEF DefaultSignalCompletes, SignalCompletes
<1>4. CASE PollOverwrite
  <2>1. signal_task # "waiting"
    BY <1>4 DEF PollOverwrite, ShutdownInv, PullOrder
  <2> QED
    BY <1>4, <2>1 DEF PollOverwrite, shutdownVars, signalVars
<1>5. CASE CtrlCCompletes \/ Program \/ UNCHANGED signalsVars
  <2>1. UNCHANGED <<branch, handled, delivered>>
    BY <1>5 DEF CtrlCCompletes, Program, signalsVars
  <2>2. signal_task' = "waiting" => signal_task = "waiting"
    BY <1>5 DEF CtrlCCompletes, OverwriteFires, Program, UserStep,
       OwnTriggersZero, SignalTask, StartOverwrite, StartDelay, FireSignal,
       Begin, DropShutdown, DropFuture, Poll, SeeCancelled, Drained, Forced,
       TimedOut, Return, signalVars, signalsVars, shutdownVars
  <2> QED
    BY <2>1, <2>2
<1> QED
  BY <1>1, <1>2, <1>3, <1>4, <1>5 DEF SignalsNext

LEMMA SignalsInvStep == SignalsInv /\ [SignalsNext]_signalsVars => SignalsInv'
<1> SUFFICES ASSUME SignalsInv, [SignalsNext]_signalsVars
             PROVE  SignalsInv'
  OBVIOUS
<1>1. ShutdownInv'
  BY ShutdownInSignals, ShutdownInvStep DEF SignalsInv
<1>2. SignalsTypeOK'
  <2>1. ShutdownTypeOK'
    BY <1>1 DEF ShutdownInv
  <2> QED
    BY <2>1, SignalsTypes DEF SignalsInv
<1>3. /\ Listening' /\ Heard'
      /\ signal_task' = "waiting" => \A s \in delivered' : branch'[s] = "heard"
  BY ListeningStep, HeardStep
<1>4. NoSignalLost'
  BY <1>1, <1>3 DEF NoSignalLost, Heard, ShutdownInv, PullOrder
<1> QED
  BY <1>1, <1>2, <1>3, <1>4, BegunStep, HeardStep DEF SignalsInv, OnlyWhenAsked

\* The invariant holds in every reachable state.
THEOREM SignalsInvariance == SignalsSpec => []SignalsInv
  BY SignalsInitInv, SignalsInvStep, PTL DEF SignalsSpec

\* Types are right, for any set of signals.
THEOREM SignalsTypeCorrect == SignalsSpec => []SignalsTypeOK
<1>1. SignalsInv => SignalsTypeOK
  BY DEF SignalsInv
<1> QED
  BY <1>1, SignalsInvariance, PTL

\* Unless a registration failed, no shutdown begins without a signal, and the
\* Ctrl-C that asks for it never forces it (CHANGELOG.md:34-36).
THEOREM NothingUnasked == SignalsSpec => []OnlyWhenAsked
<1>1. SignalsInv => OnlyWhenAsked
  BY DEF SignalsInv
<1> QED
  BY <1>1, SignalsInvariance, PTL

\* No signal falls between the listeners of default_signal() and ctrl_c(): the
\* safety half of HeardSignalActs.
THEOREM SignalsNeverLost == SignalsSpec => []NoSignalLost
<1>1. SignalsInv => NoSignalLost
  BY DEF SignalsInv
<1> QED
  BY <1>1, SignalsInvariance, PTL

\* A program that gets its signals from the system keeps the contract of
\* module GracefulShutdown.
THEOREM SignalsKeepPromise == SignalsSpec => P!SafePromise
  BY SignalsRefine, PromiseSafety
=============================================================================
