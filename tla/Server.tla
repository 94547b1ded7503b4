------------------------------- MODULE Server -------------------------------
(***************************************************************************)
(* The servers under examples/: main spawns serve_tcp with a guard and     *)
(* awaits shutdown_with_limit; serve_tcp accepts connections until it is   *)
(* cancelled and gives each a task with a guard of its own.  The two tcp   *)
(* servers clone the guard ahead of each accept, and their connections do  *)
(* not listen to cancelled(); those of the hyper servers do.  hyper_panic  *)
(* adds a monitor, which watches the server with a weak guard and asks for *)
(* the shutdown when it ends.  The crate is module Shutdown, unchanged.    *)
(***************************************************************************)
EXTENDS Shutdown

CONSTANTS Loop,    \* the guard of serve_tcp
          Watch,   \* the weak guard of the monitor
          Conns    \* the guards of connections, free to be used again

ASSUME ServerAssumption ==
  /\ Loop \in Guards \ {Own} /\ Watch \in Guards \ {Own, Loop}
  /\ Conns \subseteq Guards \ {Own, Loop, Watch}

VARIABLES
  example,   \* which program runs
  server,    \* where serve_tcp stands
  conn,      \* what is done under each guard of Conns; "next" is the clone
             \* made for a connection still to come
  monitor    \* the task that watches the server

programVars == <<example, server, conn, monitor>>
serverVars == <<shutdownVars, programVars>>

Tcp == {"tokio_tcp", "tokio_tcp_with_overwrite_fn"}
Hyper == {"hyper", "hyper_with_shutdown_delay", "hyper_with_overwrite_fn",
          "hyper_panic"}

\* The builder calls of each main.
SetupOf(e) ==
  [mode  |-> IF e \in {"hyper_with_overwrite_fn", "tokio_tcp_with_overwrite_fn"}
               THEN "overwrite" ELSE "signal",
   delay |-> e \in {"hyper_with_overwrite_fn", "hyper_with_shutdown_delay"}]

Running == {"binding", "accepting", "leaving"}
Over == {"ended", "panicked", "cut"}
Serving == {"open", "told"}

ServerTypeOK ==
  /\ ShutdownTypeOK
  /\ example \in Tcp \cup Hyper
  /\ server \in {"none"} \cup Running \cup Over
  /\ conn \in [Conns -> {"none", "next", "cut"} \cup Serving]
  /\ monitor \in {"none", "watching", "returned", "sent", "panicked", "cut"}

ServerInit ==
  /\ ShutdownInit
  /\ example \in Tcp \cup Hyper /\ setup = SetupOf(example)
  /\ server = "none" /\ monitor = "none"
  /\ conn = [c \in Conns |-> "none"]

\* A step of the application leaves the crate's own tasks and future alone.
User == UNCHANGED <<signalVars, mainVars, example>>

Becomes(c, s) == conn' = [conn EXCEPT ![c] = s]

-----------------------------------------------------------------------------
(* main. *)

\* shutdown.spawn_task_fn(serve_tcp).
SpawnServer ==
  /\ main = "held" /\ server = "none"
  /\ CloneStrong(Own, Loop)
  /\ server' = "binding"
  /\ User /\ UNCHANGED <<conn, monitor>>

\* shutdown.guard_weak(), and the monitor that owns it.
SpawnMonitor ==
  /\ main = "held" /\ server # "none"
  /\ example = "hyper_panic" /\ monitor = "none"
  /\ CloneWeak(Own, Watch)
  /\ monitor' = "watching"
  /\ User /\ UNCHANGED <<server, conn>>

\* Faulty variant: shutdown() instead of shutdown_with_limit(10s).
AwaitUnlimited ==
  /\ server # "none"
  /\ example = "hyper_panic" => monitor # "none"
  /\ Begin(FALSE)
  /\ UNCHANGED programVars

\* shutdown.shutdown_with_limit(Duration::from_secs(10)).await.
AwaitShutdown ==
  /\ server # "none"
  /\ example = "hyper_panic" => monitor # "none"
  /\ Begin(TRUE)
  /\ UNCHANGED programVars

-----------------------------------------------------------------------------
(* serve_tcp. *)

Bind ==
  /\ server = "binding"
  /\ server' = "accepting"
  /\ User /\ UNCHANGED <<guardVars, conn, monitor>>

\* The unwrap of bind(): the task, and its guard, are gone.
BindPanics ==
  /\ server = "binding"
  /\ DropStrong(Loop)
  /\ server' = "panicked"
  /\ User /\ UNCHANGED <<conn, monitor>>

\* Faulty variant: the task of a connection has no guard.
AcceptUnguarded(c) ==
  /\ server = "accepting" /\ example \in Hyper
  /\ conn[c] = "none"
  /\ Becomes(c, "open")
  /\ User /\ UNCHANGED <<guardVars, server, monitor>>

\* hyper: a connection is accepted, its guard cloned by spawn_task_fn.
Accept(c) ==
  /\ server = "accepting" /\ example \in Hyper
  /\ conn[c] = "none"
  /\ CloneStrong(Loop, c)
  /\ Becomes(c, "open")
  /\ User /\ UNCHANGED <<server, monitor>>

\* tcp: the head of the loop, shutdown_guard.clone().
CloneNext(c) ==
  /\ server = "accepting" /\ example \in Tcp
  /\ \A d \in Conns : conn[d] # "next"
  /\ conn[c] = "none"
  /\ CloneStrong(Loop, c)
  /\ Becomes(c, "next")
  /\ User /\ UNCHANGED <<server, monitor>>

\* tcp: the clone is moved into the task of the connection.
AcceptNext(c) ==
  /\ server = "accepting" /\ conn[c] = "next"
  /\ Becomes(c, "open")
  /\ User /\ UNCHANGED <<guardVars, server, monitor>>

\* Faulty variant: the clone of the failed iteration is leaked.
AcceptErrorLeaks(c) ==
  /\ server = "accepting" /\ conn[c] = "next"
  /\ Becomes(c, "none")
  /\ User /\ UNCHANGED <<guardVars, server, monitor>>

\* tcp: accept() failed, the clone is dropped at the end of the iteration.
AcceptError(c) ==
  /\ server = "accepting" /\ conn[c] = "next"
  /\ DropStrong(c)
  /\ Becomes(c, "none")
  /\ User /\ UNCHANGED <<server, monitor>>

\* The cancelled() branch of the loop: break, which drops the clone if any.
StopAccepting ==
  /\ server = "accepting" /\ Cancelled
  /\ \/ /\ example \in Hyper
        /\ UNCHANGED <<guardVars, conn>>
     \/ \E c \in Conns : /\ conn[c] = "next"
                         /\ DropStrong(c)
                         /\ Becomes(c, "none")
  /\ server' = "leaving"
  /\ User /\ UNCHANGED monitor

\* serve_tcp returns and drops its guard.
ServerEnds ==
  /\ server = "leaving"
  /\ DropStrong(Loop)
  /\ server' = "ended"
  /\ User /\ UNCHANGED <<conn, monitor>>

-----------------------------------------------------------------------------
(* Connections. *)

\* Faulty variant: cancelled() is seen and nothing done about it.
TellConnIgnored(c) ==
  /\ conn[c] = "open" /\ example \in Hyper
  /\ Cancelled
  /\ UNCHANGED serverVars

\* hyper: cancelled(), hence graceful_shutdown() of the connection.
TellConn(c) ==
  /\ conn[c] = "open" /\ example \in Hyper
  /\ Cancelled
  /\ Becomes(c, "told")
  /\ User /\ UNCHANGED <<guardVars, server, monitor>>

\* The connection is over, well or not: its task ends.
CloseConn(c) ==
  /\ conn[c] \in Serving
  /\ DropStrong(c)
  /\ Becomes(c, "none")
  /\ User /\ UNCHANGED <<server, monitor>>

\* main has returned: the runtime is dropped, and with it each task left.
CutConn(c) ==
  /\ main = "returned"
  /\ conn[c] \in Serving \cup {"next"}
  /\ conn[c] = "next" => server # "accepting"
  /\ DropStrong(c)
  /\ Becomes(c, IF conn[c] = "next" THEN "none" ELSE "cut")
  /\ User /\ UNCHANGED <<server, monitor>>

CutServer ==
  /\ main = "returned" /\ server \in Running
  /\ DropStrong(Loop)
  /\ server' = "cut"
  /\ User /\ UNCHANGED <<conn, monitor>>

-----------------------------------------------------------------------------
(* The monitor of hyper_panic. *)

\* Its cancelled() branch: return, dropping task_exit_tx.
MonitorReturns ==
  /\ monitor = "watching" /\ Cancelled
  /\ DropWeak(Watch)
  /\ monitor' = "returned"
  /\ User /\ UNCHANGED <<server, conn>>

\* Faulty variant: the error of the server is logged, and the wait goes on.
MonitorOnlyLogs ==
  /\ monitor = "watching" /\ server \in Over
  /\ UNCHANGED serverVars

\* Its server_handle branch: task_exit_tx.send(()).unwrap().  The receiver
\* is part of the signal future, and gone once that has completed.
MonitorSends ==
  /\ monitor = "watching" /\ server \in Over
  /\ DropWeak(Watch)
  /\ monitor' = IF signal_task = "waiting" THEN "sent" ELSE "panicked"
  /\ User /\ UNCHANGED <<server, conn>>

\* The end of main cuts the monitor off as well.
CutMonitor ==
  /\ main = "returned" /\ monitor = "watching"
  /\ DropWeak(Watch)
  /\ monitor' = "cut"
  /\ User /\ UNCHANGED <<server, conn>>

-----------------------------------------------------------------------------
\* The tasks of the crate, and the system's signals that they wait for.
Crate ==
  /\ \/ SignalCompletes \/ SignalTask \/ OverwriteFires
     \/ Poll \/ OwnTriggersZero
  /\ UNCHANGED programVars

\* task_exit_rx is ready: the message, or the sender dropped.
TaskExitSeen ==
  /\ monitor \in {"returned", "sent", "panicked"}
  /\ SignalCompletes
  /\ UNCHANGED programVars

\* The drop of a task's guard goes on to zero_tx.trigger().
GuardTriggersZero(g) == TriggerZero(g) /\ User /\ UNCHANGED <<server, conn, monitor>>

Main == SpawnServer \/ SpawnMonitor \/ AwaitShutdown

ServeTcp == \/ Bind \/ BindPanics \/ StopAccepting \/ ServerEnds \/ CutServer
            \/ \E c \in Conns : \/ Accept(c) \/ CloneNext(c)
                                \/ AcceptNext(c) \/ AcceptError(c)

Connection(c) == TellConn(c) \/ CloseConn(c) \/ CutConn(c)

Monitor == MonitorReturns \/ MonitorSends

ServerNext ==
  \/ Main \/ ServeTcp \/ Monitor \/ CutMonitor \/ Crate
  \/ \E c \in Conns : Connection(c)
  \/ \E g \in Guards \ {Own} : GuardTriggersZero(g)

ServerSpec == ServerInit /\ [][ServerNext]_serverVars

\* The runtime runs main, the tasks of the crate, the monitor, and a task
\* that has to leave; bind() returns.  select! is fair to its branches: the
\* one that is always ready is taken some time.  No client has to let a
\* connection end, even one that was told to.
ServerFairness ==
  /\ WF_serverVars(Main) /\ WF_serverVars(Monitor) /\ WF_serverVars(TaskExitSeen)
  /\ WF_serverVars(SignalTask /\ UNCHANGED programVars)
  /\ WF_serverVars((SeeCancelled \/ Drained \/ Forced) /\ UNCHANGED programVars)
  /\ WF_serverVars(OwnTriggersZero /\ UNCHANGED programVars)
  /\ WF_serverVars(Bind \/ BindPanics)
  /\ WF_serverVars(StopAccepting) /\ WF_serverVars(ServerEnds)
  /\ \A c \in Conns : WF_serverVars(TellConn(c))
  /\ \A g \in Guards \ {Own} : WF_serverVars(GuardTriggersZero(g))

ServerFairSpec == ServerSpec /\ ServerFairness

(* What the programs do not decide, as hypotheses of the properties that need  *)
(* them.                                                                       *)

\* The ten seconds go by.
LimitRuns == WF_serverVars(TimedOut /\ UNCHANGED programVars)

\* A connection that was told to finish does so: its client reads the answer and
\* sends the rest of its request, or goes away.
ConnsFinish == \A c \in Conns : WF_serverVars(conn[c] = "told" /\ CloseConn(c))

-----------------------------------------------------------------------------
(* Properties. *)

\* Every guard has its task: main, serve_tcp, a connection or its future
\* one.  None is leaked and none is dropped under a task that goes on.
GuardsHeld ==
  /\ guard[Own] = "strong" <=> main = "held"
  /\ guard[Loop] = "strong" <=> server \in Running
  /\ \A c \in Conns : guard[c] = "strong" <=> conn[c] \in Serving \cup {"next"}

\* "shutdown: gracefully": when main returns so, the runtime it drops takes
\* neither the server nor a connection with it.
GracefulCutsNobody ==
  outcome = "graceful" => /\ server \in {"ended", "panicked"}
                          /\ \A c \in Conns : conn[c] = "none"

\* While main waits and the zero trigger was not pulled, some task has a guard
\* that it can give up, or is pulling it: no guard is out of everybody's reach
\* to keep a drain from ending, and no task is left out of the count.
DrainNeverStuck ==
  InProgress /\ ~zero
    => \/ Releasing # {}
       \/ server \in Running /\ Usable(Loop)
       \/ \E c \in Conns : conn[c] \in Serving /\ Usable(c)

\* Why these hold, as an inductive invariant: what the guards tell of the
\* tasks, of which none outlives its own and none is cut early,
Held ==
  /\ ~revived
  /\ main # "held" => server # "none"
  /\ server = "cut" \/ (\E c \in Conns : conn[c] = "cut") => main = "returned"

\* and that all guards are in the hands of those tasks: the clone made ahead
\* of an accept, of which there is one at most, leaves the loop with it.
InHand ==
  /\ \A g \in Strong : owner[g] = "user" /\ g \in ({Own, Loop} \cup Conns)
  /\ \A c \in Conns : conn[c] = "next" =>
       /\ example \in Tcp /\ server \in {"accepting", "cut"}
       /\ \A d \in Conns \ {c} : conn[d] # "next"

ServerInv == /\ ServerTypeOK /\ ShutdownInv /\ Held /\ InHand
             /\ GuardsHeld /\ GracefulCutsNobody /\ DrainNeverStuck

\* The program ends after the signal, whatever its connections do: main is
\* never stuck (the limit of ten seconds, hyper.rs:43).
ServerExits == LimitRuns => (Requested ~> main = "returned")

\* A hyper server leaves the shutdown to its clients alone: the accept loop and
\* every connection, idle or not, learn of it (hyper.rs:62, 89-97), so that the
\* count goes to zero, limit or not, if told connections finish.
HyperDrains ==
  ConnsFinish => (example \in Hyper /\ server # "none" /\ Cancelled
                    ~> zero \/ main = "returned")

\* hyper_panic ends when its server does (hyper_panic.rs:54-56), where hyper
\* would wait for a signal with nobody listening.
ServerFailureEndsMain ==
  LimitRuns => (example = "hyper_panic" /\ server \in Over ~> main = "returned")

\* The monitor of hyper_panic has nothing to do in an ordinary shutdown, when
\* cancelled() is ready and the server has ended because of it:
\* "shutdown signal received, do nothing but exit this task" (hyper_panic.rs:61).
MonitorOnlyExits ==
  [][Cancelled /\ server = "ended" => monitor' # "panicked"]_monitor
=============================================================================
