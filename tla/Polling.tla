------------------------------- MODULE Polling -------------------------------
(***************************************************************************)
(* How the future of shutdown() comes to be polled.  Module Shutdown takes *)
(* for granted that it notices what it waits for; here it is a task that   *)
(* sleeps until a waker of its own is called.  A poll takes the branches   *)
(* of the select! one by one and, of those that are not ready, leaves a    *)
(* waker with each; a trigger sets its flag first and wakes afterwards, so *)
(* both halves interleave with the poll.  One poll of one receiver is one  *)
(* step: module Trigger shows that it is one in effect.                    *)
(***************************************************************************)
EXTENDS Shutdown

VARIABLES
  woken,        \* is the task scheduled, or to be polled again?
  turn,         \* the branches still to be polled in the poll that runs
  registered,   \* the branches that have a waker of the task that polls
  waking,       \* triggers whose flag is set but whose loop has not run
  expired       \* is sleep(limit) over?

taskVars == <<woken, turn, registered>>
pollingVars == <<shutdownVars, taskVars, waking, expired>>

Triggers == {"signal", "zero_overwrite", "zero"}

\* The branches of the select! that the future is in.
Branches == CASE main = "cancel" -> {"signal", "zero_overwrite"}
              [] main = "drain" -> {"zero", "zero_overwrite"}
                                     \cup (IF limited THEN {"limit"} ELSE {})
              [] OTHER -> {}

Ready(b) == \/ b = "signal" /\ Cancelled
            \/ b = "zero_overwrite" /\ Overwritten
            \/ b = "zero" /\ zero
            \/ b = "limit" /\ expired

PollingTypeOK ==
  /\ ShutdownTypeOK
  /\ woken \in BOOLEAN /\ expired \in BOOLEAN
  /\ turn \subseteq Branches
  /\ registered \subseteq Triggers \cup {"limit"}
  /\ waking \subseteq Triggers

PollingInit ==
  /\ ShutdownInit
  /\ woken = FALSE /\ expired = FALSE
  /\ turn = {} /\ registered = {} /\ waking = {}

-----------------------------------------------------------------------------
(* The two halves of Sender::trigger. *)

\* The flag: whoever sets it has to wake.
Fired == {t \in Triggers : t \in pulled \/ (t = "zero" /\ zero)}

\* Faulty variant: the result of swap() is misread, and its first caller returns.
FlagsOnly == UNCHANGED waking

Flags == waking' = waking \cup (Fired' \ Fired)

\* Faulty variant: the waker is taken from the slab and not called.
WakeNobody(t) ==
  /\ t \in waking
  /\ waking' = waking \ {t}
  /\ registered' = registered \ {t}
  /\ UNCHANGED <<shutdownVars, woken, turn, expired>>

Wake(t) ==
  /\ t \in waking
  /\ waking' = waking \ {t}
  /\ woken' = (woken \/ t \in registered)
  /\ registered' = registered \ {t}
  /\ UNCHANGED <<shutdownVars, turn, expired>>

\* The timer of sleep(limit), which exists since the second select!.
LimitExpires ==
  /\ main = "drain" /\ limited /\ ~expired
  /\ expired' = TRUE
  /\ woken' = (woken \/ "limit" \in registered)
  /\ registered' = registered \ {"limit"}
  /\ UNCHANGED <<shutdownVars, turn, waking>>

-----------------------------------------------------------------------------
(* The task. *)

\* The first poll goes straight to the first select!.
FirstPoll(with_limit) ==
  /\ Begin(with_limit)
  /\ turn' = {"signal", "zero_overwrite"}
  /\ UNCHANGED <<woken, registered, waking, expired>>

\* A poll, whether the task was scheduled or not.  From here on a wake schedules
\* it once more.  The future may have been moved into another task since: then
\* the wakers it left belong to a task that has nothing to do with it any more.
StartPoll ==
  /\ turn = {} /\ Branches # {}
  /\ woken' = FALSE
  /\ turn' = Branches
  /\ \E moved \in BOOLEAN : registered' = IF moved THEN {} ELSE registered
  /\ UNCHANGED <<shutdownVars, waking, expired>>

\* Faulty variant: the wakes that came during the poll are forgotten.
PendForgets(b) ==
  /\ b \in turn /\ ~Ready(b) /\ guard[Own] = "weak"
  /\ turn' = turn \ {b}
  /\ registered' = registered \cup {b}
  /\ woken' = (woken /\ turn # {b})
  /\ UNCHANGED <<shutdownVars, waking, expired>>

\* A branch that is not ready keeps the waker.
Pend(b) ==
  /\ b \in turn /\ ~Ready(b) /\ guard[Own] = "weak"
  /\ turn' = turn \ {b}
  /\ registered' = registered \cup {b}
  /\ UNCHANGED <<shutdownVars, woken, waking, expired>>

\* Faulty variant: the second select! is left for the next poll.
CancelledYields ==
  /\ "signal" \in turn /\ SeeCancelled
  /\ turn' = {}
  /\ registered' = registered \ {"signal"}
  /\ UNCHANGED <<woken, waking, expired>>

\* cancelled() is ready: its receiver, a clone, is dropped; the one of the
\* overwrite was lent, and keeps its waker.  The poll goes on.
CancelledWins ==
  /\ "signal" \in turn /\ SeeCancelled
  /\ turn' = Branches'
  /\ registered' = registered \ {"signal"}
  /\ UNCHANGED <<woken, waking, expired>>

\* Any other branch ends the future, which drops all its receivers.
EndWins ==
  /\ \/ "zero" \in turn /\ Drained
     \/ "zero_overwrite" \in turn /\ Forced
     \/ "limit" \in turn /\ expired /\ TimedOut
  /\ turn' = {} /\ registered' = {}
  /\ UNCHANGED <<woken, waking, expired>>

\* The future is dropped between two polls.
DropsTask ==
  /\ turn = {} /\ DropFuture
  /\ registered' = {}
  /\ UNCHANGED <<woken, turn, waking, expired>>

-----------------------------------------------------------------------------
\* Everybody else; a step may set a flag.
Elsewhere ==
  /\ \/ UserStep \/ OwnTriggersZero
     \/ SignalCompletes \/ SignalTask \/ SignalTaskPanics
     \/ OverwriteFires \/ OverwritePanics \/ DropShutdown
  /\ Flags
  /\ UNCHANGED <<taskVars, expired>>

PollStep == (\E b \in turn : Pend(b)) \/ CancelledWins \/ EndWins

PollingNext ==
  \/ Elsewhere \/ (\E t \in Triggers : Wake(t)) \/ LimitExpires
  \/ (\E with_limit \in BOOLEAN : FirstPoll(with_limit))
  \/ StartPoll \/ PollStep \/ DropsTask

PollingSpec == PollingInit /\ [][PollingNext]_pollingVars

\* The runtime polls a task that was woken, and need not poll another; a poll,
\* a drop and trigger() are carried through; timers end; the signal task runs.
PollingFairness ==
  /\ WF_pollingVars(woken /\ StartPoll) /\ WF_pollingVars(PollStep)
  /\ \A t \in Triggers : WF_pollingVars(Wake(t))
  /\ WF_pollingVars(LimitExpires)
  /\ WF_pollingVars(SignalTask /\ Flags /\ UNCHANGED <<taskVars, expired>>)
  /\ \A g \in Guards :
       WF_pollingVars(/\ TriggerZero(g) /\ UNCHANGED <<signalVars, mainVars>>
                      /\ Flags /\ UNCHANGED <<taskVars, expired>>)

PollingFairSpec == PollingSpec /\ PollingFairness

-----------------------------------------------------------------------------
(* Properties. *)

\* Is the task left alone until somebody wakes it?
Asleep == Branches # {} /\ turn = {} /\ ~woken

\* The future never sleeps through what it waits for: each branch of its
\* select! has the waker, and for one that is ready the call is on its way.
NoMissedEvent ==
  Asleep => \A b \in Branches : /\ b \in registered
                                /\ Ready(b) => b \in waking

\* Why it does not, as an inductive invariant: a branch that the poll is done
\* with is as it must be in a sleeping task, while the poll runs and after
\* it, or the task will be polled again.
Polled ==
  ~woken => \A b \in Branches \ turn : /\ b \in registered
                                       /\ Ready(b) => b \in waking

PollingInv == PollingTypeOK /\ ShutdownInv /\ Polled

\* Can the poll that runs take its next branch?  Not before the drop that it
\* began with is over.
BranchGoes(b) == \/ ~Ready(b)
                 \/ b = "signal" /\ main = "cancel"
                 \/ b = "zero" /\ main = "drain"
                 \/ b = "limit" /\ main = "drain" /\ limited
                 \/ b = "zero_overwrite" /\ InProgress

TurnGoes == guard[Own] = "weak" /\ \E b \in turn : BranchGoes(b)

\* A task that is left alone, when the crate has nothing more to do, waits for
\* the signal or, without a limit, for a guard; and a poll that runs always
\* has a branch it can take.
SleepIsWaiting ==
  /\ /\ Asleep /\ waking = {} /\ ~TasksReady
     /\ main = "drain" /\ limited => expired
     => \/ main = "cancel" /\ signal_task \in {"waiting", "dead"}
        \/ main = "drain" /\ ~limited /\ Strong # {}
  /\ turn # {} /\ Releasing = {} => TurnGoes

\* Hence module Shutdown is right to say that the future notices what it
\* waits for, and to assume it fair: fairness of wakes and polls is enough.
ImplementsShutdown == ShutdownFairSpec
=============================================================================
