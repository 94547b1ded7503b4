------------------------------- MODULE Signals -------------------------------
(***************************************************************************)
(* The signals of the operating system: default_signal(), which a Shutdown *)
(* waits for by default, and tokio::signal::ctrl_c as overwrite function,  *)
(* as in the README and the examples.  A listener hears the signals that   *)
(* are delivered after its registration, which its first poll makes and    *)
(* which may fail.  The first registration of a kind of signal, by anyone, *)
(* replaces for good the system's own handler, which ends the process.     *)
(***************************************************************************)
EXTENDS Shutdown

CONSTANTS Sigs,       \* SIGINT and SIGTERM; on Windows Ctrl-C, -Close, -Shutdown
          Interrupt   \* the one of them that Ctrl-C sends

ASSUME SignalsAssumption == Interrupt \in Sigs

VARIABLES
  branch,        \* the listener of each branch of default_signal's select!
  pending,       \* the branches whose first poll is over: it returned Pending
  overwrite,     \* the listener of the overwrite future
  handled,       \* the kinds that no longer end the process
  killed,        \* has one ended it?
  delivered,     \* history: the kinds delivered so far
  interrupted    \* history: was Ctrl-C hit after the shutdown was requested?

osVars == <<handled, killed, delivered, interrupted>>
listeners == <<branch, pending, overwrite>>
signalsVars == <<shutdownVars, listeners, osVars>>

Listener == {"unpolled", "listening", "heard", "failed"}

SignalsTypeOK ==
  /\ ShutdownTypeOK
  /\ branch \in [Sigs -> Listener] /\ overwrite \in Listener
  /\ pending \subseteq Sigs
  /\ handled \subseteq Sigs /\ delivered \subseteq handled
  /\ killed \in BOOLEAN /\ interrupted \in BOOLEAN

SignalsInit ==
  /\ ShutdownInit
  /\ branch = [s \in Sigs |-> "unpolled"] /\ overwrite = "unpolled"
  /\ pending = {}
  /\ handled = {} /\ killed = FALSE
  /\ delivered = {} /\ interrupted = FALSE

-----------------------------------------------------------------------------
\* The system delivers a signal: once handled, to everyone who listens.
Hear(l) == IF l = "listening" THEN "heard" ELSE l

Deliver(s) ==
  /\ IF s \in handled
       THEN /\ branch' = [branch EXCEPT ![s] = Hear(@)]
            /\ overwrite' = IF s = Interrupt THEN Hear(overwrite) ELSE overwrite
            /\ delivered' = delivered \cup {s}
            /\ interrupted' = (interrupted \/ (s = Interrupt /\ Requested))
            /\ UNCHANGED killed
       ELSE /\ killed' = TRUE
            /\ UNCHANGED <<branch, overwrite, delivered, interrupted>>
  /\ UNCHANGED <<shutdownVars, pending, handled>>

Polled(s) == branch[s] # "unpolled"

\* The first poll of the select! takes its branches one by one, in any order,
\* and goes on after each that returned Pending, whatever was delivered to
\* those before it in the meantime.  A branch is polled for the first time: its
\* listener is registered.
PollBranch(s) ==
  /\ signal_task = "waiting" /\ ~Polled(s)
  /\ \A q \in Sigs : Polled(q) => q \in pending
  /\ \E ok \in BOOLEAN :
       /\ branch' = [branch EXCEPT ![s] = IF ok THEN "listening" ELSE "failed"]
       /\ handled' = IF ok THEN handled \cup {s} ELSE handled
  /\ UNCHANGED <<shutdownVars, pending, overwrite, killed, delivered, interrupted>>

\* Faulty variant: the listener does not outlive the poll of its branch.
PendForgets(s) ==
  /\ branch[s] = "listening" /\ s \notin pending
  /\ branch' = [branch EXCEPT ![s] = "unpolled"]
  /\ UNCHANGED <<shutdownVars, pending, overwrite, osVars>>

\* The same poll of the branch, later: recv() has nothing yet.
Pend(s) ==
  /\ branch[s] = "listening" /\ s \notin pending
  /\ pending' = pending \cup {s}
  /\ UNCHANGED <<shutdownVars, branch, overwrite, osVars>>

\* Faulty variant: the select! wants all of its branches.
AllSignalsComplete ==
  /\ \A s \in Sigs : branch[s] \in {"heard", "failed"}
  /\ SignalCompletes
  /\ UNCHANGED <<listeners, osVars>>

\* A branch is ready when its future ended with the error of the registration,
\* `_ = signal` takes either, and when its signal came: before recv() looked
\* for the first time or, after that, when all are polled again.
BranchReady(s) == \/ branch[s] = "failed"
                  \/ branch[s] = "heard" /\ (s \notin pending \/ pending = Sigs)

DefaultSignalCompletes ==
  /\ \E s \in Sigs : BranchReady(s)
  /\ SignalCompletes
  /\ UNCHANGED <<listeners, osVars>>

\* Faulty variant: a future made by build(), and not by a function later.
PollOverwriteEarly ==
  /\ setup.mode = "overwrite" /\ overwrite = "unpolled"
  /\ overwrite' = "listening" /\ handled' = handled \cup {Interrupt}
  /\ UNCHANGED <<shutdownVars, branch, pending, killed, delivered, interrupted>>

\* The first poll of ctrl_c() in its task.
PollOverwrite ==
  /\ overwrite_task = "waiting" /\ overwrite = "unpolled"
  /\ \E ok \in BOOLEAN :
       /\ overwrite' = IF ok THEN "listening" ELSE "failed"
       /\ handled' = IF ok THEN handled \cup {Interrupt} ELSE handled
  /\ UNCHANGED <<shutdownVars, branch, pending, killed, delivered, interrupted>>

\* Its result is not looked at either (shutdown.rs:253).
CtrlCCompletes ==
  /\ overwrite \in {"heard", "failed"}
  /\ OverwriteFires
  /\ UNCHANGED <<listeners, osVars>>

\* The rest of the program.
Program ==
  /\ \/ UserStep \/ OwnTriggersZero \/ SignalTask
     \/ (\E with_limit \in BOOLEAN : Begin(with_limit))
     \/ DropShutdown \/ DropFuture \/ Poll
  /\ UNCHANGED <<listeners, osVars>>

SignalsNext ==
  /\ ~killed
  /\ \/ \E s \in Sigs : Deliver(s) \/ PollBranch(s) \/ Pend(s)
     \/ DefaultSignalCompletes \/ PollOverwrite \/ CtrlCCompletes
     \/ Program

SignalsSpec == SignalsInit /\ [][SignalsNext]_signalsVars

\* The tasks are polled.  Signals need not be sent.
Lives(A) == ~killed /\ A /\ UNCHANGED <<listeners, osVars>>

SignalsFairness ==
  /\ WF_signalsVars(~killed /\ \E s \in Sigs : PollBranch(s) \/ Pend(s))
  /\ WF_signalsVars(~killed /\ DefaultSignalCompletes)
  /\ WF_signalsVars(~killed /\ PollOverwrite)
  /\ WF_signalsVars(~killed /\ CtrlCCompletes)
  /\ WF_signalsVars(Lives(SignalTask))

SignalsFairSpec == SignalsSpec /\ SignalsFairness

-----------------------------------------------------------------------------
(* Properties. *)

\* Nothing happens that no signal asked for, unless a registration failed.  A
\* shutdown does not begin before a signal came (shutdown.rs:477), and the
\* Ctrl-C that asks for it does not force it as well: it takes another one,
\* after the first was received (CHANGELOG.md:34-36).
BegunWhenAsked == Requested /\ setup.mode # "no_signal"
                    => delivered # {} \/ \E s \in Sigs : branch[s] = "failed"

ForcedWhenAsked == Overwritten => interrupted \/ overwrite = "failed"

OnlyWhenAsked == BegunWhenAsked /\ ForcedWhenAsked

\* No signal falls between the listeners: whatever was delivered while the
\* signal task waits was heard by the branch it is for, in whatever order the
\* branches were registered and found pending, so that this poll of the select!
\* or the next one ends it; and a Ctrl-C that the overwrite has heard finds its task there,
\* to force the shutdown, unless it has done so.
NoSignalLost ==
  /\ signal_task = "waiting" => \A s \in delivered : branch[s] = "heard"
  /\ overwrite = "heard" => overwrite_task = "waiting" \/ Overwritten

\* Why, as an inductive invariant: before the signal is received nobody but
\* the branches replaces a handler of the system,
Listening == signal_task = "waiting" =>
  handled = {s \in Sigs : branch[s] \in {"listening", "heard"}}

\* what a branch has heard was delivered,
BranchHeard == \A s \in Sigs : branch[s] = "heard" => s \in delivered

\* and what the overwrite has heard was sent after the shutdown was requested:
\* its listener does not exist before.
Heard == /\ overwrite # "unpolled" => overwrite_task \in {"waiting", "done"}
         /\ overwrite = "heard" => interrupted

SignalsInv == /\ SignalsTypeOK /\ ShutdownInv
              /\ Listening /\ BranchHeard /\ Heard
              /\ OnlyWhenAsked /\ NoSignalLost

\* A signal that finds its handler shuts the program down, whichever of the
\* branches it is for; and a Ctrl-C that the overwrite listens to forces it.
HeardSignalActs ==
  /\ delivered # {} /\ setup.mode # "no_signal" ~> Cancelled \/ killed
  /\ overwrite = "heard" ~> Overwritten \/ killed
=============================================================================
