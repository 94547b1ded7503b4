---------------------------- MODULE ServerProofs ----------------------------
(***************************************************************************)
(* Theorems about module Server, for any number of connections.  Every     *)
(* step of the programs is one of module Shutdown or leaves it alone, so   *)
(* all that module ShutdownProofs says holds here; what is left is which   *)
(* guard is held by whom.                                                  *)
(***************************************************************************)
EXTENDS Server, ShutdownProofs

\* The crate inside a program behaves as a Shutdown.
LEMMA ShutdownInServer == [ServerNext]_serverVars => [ShutdownNext]_shutdownVars
<1> SUFFICES ASSUME [ServerNext]_serverVars
             PROVE  [ShutdownNext]_shutdownVars
  OBVIOUS
<1> USE GuardsAssumption, ServerAssumption DEF ShutdownNext, User
<1>1. ASSUME NEW g \in Guards \ {Own}, Spend(g), UNCHANGED <<signalVars, mainVars>>
      PROVE  ShutdownNext
  BY <1>1 DEF UserStep
<1>2. ASSUME NEW g \in Guards \ {Own}, Share(g), UNCHANGED <<signalVars, mainVars>>
      PROVE  ShutdownNext
  BY <1>2 DEF UserStep
<1>3. CASE SpawnServer \/ SpawnMonitor
  <2>1. Share(Own) /\ main = "held" /\ UNCHANGED <<signalVars, mainVars>>
    BY <1>3 DEF SpawnServer, SpawnMonitor, Share
  <2> QED
    BY <2>1 DEF UserStep
<1>4. CASE AwaitShutdown
  BY <1>4 DEF AwaitShutdown
<1>5. CASE Bind
  BY <1>5 DEF Bind, shutdownVars
<1>6. CASE BindPanics \/ ServerEnds \/ CutServer
  BY <1>1, <1>6 DEF BindPanics, ServerEnds, CutServer, Spend
<1>7. CASE StopAccepting
  BY <1>1, <1>7 DEF StopAccepting, Spend, shutdownVars
<1>8. ASSUME NEW c \in Conns, Accept(c) \/ CloneNext(c)
      PROVE  ShutdownNext
  BY <1>2, <1>8 DEF Accept, CloneNext, Share
<1>9. ASSUME NEW c \in Conns, AcceptNext(c) \/ TellConn(c)
      PROVE  UNCHANGED shutdownVars
  BY <1>9 DEF AcceptNext, TellConn, shutdownVars
<1>10. ASSUME NEW c \in Conns, AcceptError(c) \/ CloseConn(c) \/ CutConn(c)
       PROVE  ShutdownNext
  BY <1>1, <1>10 DEF AcceptError, CloseConn, CutConn, Spend
<1>11. CASE Monitor \/ CutMonitor
  BY <1>1, <1>11 DEF Monitor, MonitorReturns, MonitorSends, CutMonitor, Spend
<1>12. CASE Crate
  BY <1>12 DEF Crate
<1>13. ASSUME NEW g \in Guards \ {Own}, GuardTriggersZero(g)
       PROVE  ShutdownNext
  BY <1>1, <1>13 DEF GuardTriggersZero, Spend
<1>14. CASE UNCHANGED serverVars
  BY <1>14 DEF serverVars
<1> QED
  BY <1>3, <1>4, <1>5, <1>6, <1>7, <1>8, <1>9, <1>10, <1>11, <1>12, <1>13, <1>14
     DEF ServerNext, Main, ServeTcp, Connection

\* So what ShutdownProofs says of a Shutdown holds here.
LEMMA ServerRefines == ServerSpec => ShutdownSpec
<1>1. ServerInit => ShutdownInit
  BY DEF ServerInit
<1> QED
  BY <1>1, ShutdownInServer, PTL DEF ServerSpec, ShutdownSpec

-----------------------------------------------------------------------------
(* The invariant. *)

LEMMA ServerInitInv == ServerInit => ServerInv
<1> SUFFICES ASSUME ServerInit
             PROVE  ServerInv
  OBVIOUS
<1> USE DEF ServerInit
<1>1. ShutdownInv
  BY ShutdownInitInv
<1>2. ServerTypeOK
  BY <1>1 DEF ServerTypeOK, ShutdownInv
<1>3. Held /\ GracefulCutsNobody
  BY DEF Held, GracefulCutsNobody, ShutdownInit, GuardsInit
<1>4. GuardsHeld
  BY ServerAssumption, GuardsAssumption
     DEF GuardsHeld, ShutdownInit, GuardsInit, Running, Serving
<1>5. InHand
  BY DEF InHand, ShutdownInit, GuardsInit, Strong
<1>6. DrainNeverStuck
  BY DEF DrainNeverStuck, InProgress, ShutdownInit
<1> QED
  BY <1>1, <1>2, <1>3, <1>4, <1>5, <1>6 DEF ServerInv

\* The variables of the program keep their types.
LEMMA ServerTypes ==
  ASSUME ServerTypeOK, ShutdownTypeOK', [ServerNext]_serverVars
  PROVE  ServerTypeOK'
<1> USE DEF ServerTypeOK, User, Becomes, Running, Over, Serving
<1>1. CASE Main
  BY <1>1 DEF Main, SpawnServer, SpawnMonitor, AwaitShutdown, programVars
<1>2. CASE Bind \/ BindPanics \/ StopAccepting \/ ServerEnds \/ CutServer
  BY <1>2 DEF Bind, BindPanics, StopAccepting, ServerEnds, CutServer
<1>3. ASSUME NEW c \in Conns,
             Accept(c) \/ CloneNext(c) \/ AcceptNext(c) \/ AcceptError(c)
      PROVE  ServerTypeOK'
  BY <1>3 DEF Accept, CloneNext, AcceptNext, AcceptError
<1>4. ASSUME NEW c \in Conns, Connection(c)
      PROVE  ServerTypeOK'
  BY <1>4 DEF Connection, TellConn, CloseConn, CutConn
<1>5. CASE Monitor \/ CutMonitor
  BY <1>5 DEF Monitor, MonitorReturns, MonitorSends, CutMonitor
<1>6. CASE Crate \/ UNCHANGED serverVars
  BY <1>6 DEF Crate, serverVars, programVars
<1>7. ASSUME NEW g \in Guards, GuardTriggersZero(g)
      PROVE  ServerTypeOK'
  BY <1>7 DEF GuardTriggersZero
<1> QED
  BY <1>1, <1>2, <1>3, <1>4, <1>5, <1>6, <1>7 DEF ServerNext, ServeTcp

\* A release and a trigger make no strong guard, a clone makes one, and no
\* other guard changes, nor the owner of any.
LEMMA GuardEffects ==
  ASSUME GuardsTypeOK, NEW g \in Guards
  PROVE  /\ DropStrong(g) \/ Downgrade(g)
              => /\ guard'[g] # "strong" /\ UNCHANGED <<owner, revived>>
                 /\ \A h \in Guards \ {g} : guard'[h] = guard[h]
         /\ DropWeak(g) \/ TriggerZero(g)
              => /\ guard[g] # "strong" /\ guard'[g] # "strong"
                 /\ UNCHANGED <<owner, revived>>
                 /\ \A h \in Guards \ {g} : guard'[h] = guard[h]
         /\ \A h \in Guards : CloneStrong(g, h)
              => /\ guard'[h] = "strong" /\ owner'[h] = "user" /\ UNCHANGED revived
                 /\ \A k \in Guards \ {h} : guard'[k] = guard[k] /\ owner'[k] = owner[k]
         /\ \A h \in Guards : CloneWeak(g, h)
              => /\ guard[h] # "strong" /\ guard'[h] # "strong"
                 /\ UNCHANGED revived
                 /\ \A k \in Guards \ {h} : guard'[k] = guard[k] /\ owner'[k] = owner[k]
BY DEF GuardsTypeOK, DropStrong, Downgrade, Release, DropWeak, TriggerZero,
       Releasing, CloneStrong, CloneWeak, Make

\* The tasks of the crate leave the guards of the program alone.
LEMMA CrateEffects ==
  ASSUME ShutdownTypeOK, Crate
  PROVE  /\ UNCHANGED <<owner, revived, programVars>>
         /\ guard'[Own] = "strong" <=> guard[Own] = "strong"
         /\ \A h \in Guards \ {Own} : guard'[h] = guard[h]
         /\ main' = "held" <=> main = "held"
         /\ main = "returned" => main' = "returned"
<1> USE GuardsAssumption DEF ShutdownTypeOK, Crate
<1>1. CASE SignalCompletes \/ SignalTask \/ OverwriteFires
  BY <1>1 DEF SignalCompletes, SignalTask, StartOverwrite, StartDelay,
              FireSignal, OverwriteFires, guardVars, mainVars
<1>2. CASE OwnTriggersZero
  BY <1>2, GuardEffects DEF OwnTriggersZero, mainVars
<1>3. CASE SeeCancelled
  BY <1>3 DEF SeeCancelled, guardVars
<1>4. CASE Drained \/ Forced \/ TimedOut
  BY <1>4, GuardEffects DEF Drained, Forced, TimedOut, Return
<1> QED
  BY <1>1, <1>2, <1>3, <1>4 DEF Poll

\* Each guard is held by the task it was made for, and by nobody else.
LEMMA HeldStep ==
  ASSUME ServerTypeOK, Held, GuardsHeld, [ServerNext]_serverVars
  PROVE  Held' /\ GuardsHeld'
<1> USE GuardsAssumption, ServerAssumption
    DEF ServerTypeOK, ShutdownTypeOK, Held, GuardsHeld, User, Becomes, Running,
        Over, Serving
<1>1. CASE SpawnServer
  BY <1>1, GuardEffects DEF SpawnServer, mainVars
<1>2. CASE SpawnMonitor
  BY <1>2, GuardEffects DEF SpawnMonitor, mainVars
<1>3. CASE AwaitShutdown
  BY <1>3, GuardEffects DEF AwaitShutdown, Begin, programVars
<1>4. CASE Bind
  BY <1>4 DEF Bind, guardVars, mainVars
<1>5. CASE BindPanics \/ ServerEnds \/ CutServer
  BY <1>5, GuardEffects DEF BindPanics, ServerEnds, CutServer, mainVars
<1>6. CASE StopAccepting
  <2>1. CASE UNCHANGED <<guardVars, conn>>
    BY <1>6, <2>1 DEF StopAccepting, guardVars, mainVars
  <2>2. ASSUME NEW c \in Conns, conn[c] = "next", DropStrong(c), Becomes(c, "none")
        PROVE  Held' /\ GuardsHeld'
    BY <1>6, <2>2, GuardEffects DEF StopAccepting, mainVars
  <2> QED
    BY <1>6, <2>1, <2>2 DEF StopAccepting
<1>7. ASSUME NEW c \in Conns, Accept(c) \/ CloneNext(c)
      PROVE  Held' /\ GuardsHeld'
  BY <1>7, GuardEffects DEF Accept, CloneNext, mainVars
<1>8. ASSUME NEW c \in Conns, AcceptNext(c) \/ TellConn(c)
      PROVE  Held' /\ GuardsHeld'
  BY <1>8 DEF AcceptNext, TellConn, guardVars, mainVars
<1>9. ASSUME NEW c \in Conns, AcceptError(c) \/ CloseConn(c) \/ CutConn(c)
      PROVE  Held' /\ GuardsHeld'
  BY <1>9, GuardEffects DEF AcceptError, CloseConn, CutConn, mainVars
<1>10. CASE Monitor \/ CutMonitor
  BY <1>10, GuardEffects DEF Monitor, MonitorReturns, MonitorSends, CutMonitor, mainVars
<1>11. CASE Crate
  BY <1>11, CrateEffects DEF programVars
<1>12. ASSUME NEW g \in Guards \ {Own}, GuardTriggersZero(g)
       PROVE  Held' /\ GuardsHeld'
  BY <1>12, GuardEffects DEF GuardTriggersZero, mainVars
<1>13. CASE UNCHANGED serverVars
  BY <1>13 DEF serverVars, shutdownVars, guardVars, mainVars, programVars
<1> QED
  BY <1>1, <1>2, <1>3, <1>4, <1>5, <1>6, <1>7, <1>8, <1>9, <1>10, <1>11, <1>12,
     <1>13 DEF ServerNext, Main, ServeTcp, Connection

\* No strong guard leaves the hands of the tasks that can drop it.
LEMMA InHandStep ==
  ASSUME ServerTypeOK, InHand, GuardsHeld, [ServerNext]_serverVars
  PROVE  InHand'
<1> USE GuardsAssumption, ServerAssumption
    DEF ServerTypeOK, ShutdownTypeOK, InHand, Strong, User, Becomes
<1>1. CASE SpawnServer
  BY <1>1, GuardEffects DEF SpawnServer
<1>2. CASE SpawnMonitor
  BY <1>2, GuardEffects DEF SpawnMonitor
<1>3. CASE AwaitShutdown
  BY <1>3, GuardEffects DEF AwaitShutdown, Begin, programVars
<1>4. CASE Bind
  BY <1>4 DEF Bind, guardVars
<1>5. CASE BindPanics \/ ServerEnds \/ CutServer
  BY <1>5, GuardEffects DEF BindPanics, ServerEnds, CutServer, Running
<1>6. CASE StopAccepting
  <2>1. CASE example \in Hyper /\ UNCHANGED <<guardVars, conn>>
    BY <1>6, <2>1 DEF StopAccepting, guardVars, Tcp, Hyper
  <2>2. ASSUME NEW c \in Conns, conn[c] = "next", DropStrong(c), Becomes(c, "none")
        PROVE  InHand'
    BY <1>6, <2>2, GuardEffects DEF StopAccepting
  <2> QED
    BY <1>6, <2>1, <2>2 DEF StopAccepting
<1>7. ASSUME NEW c \in Conns, Accept(c) \/ CloneNext(c)
      PROVE  InHand'
  BY <1>7, GuardEffects DEF Accept, CloneNext
<1>8. ASSUME NEW c \in Conns, AcceptNext(c) \/ TellConn(c)
      PROVE  InHand'
  BY <1>8 DEF AcceptNext, TellConn, guardVars
<1>9. ASSUME NEW c \in Conns, AcceptError(c) \/ CloseConn(c) \/ CutConn(c)
      PROVE  InHand'
  BY <1>9, GuardEffects DEF AcceptError, CloseConn, CutConn
<1>10. CASE Monitor \/ CutMonitor
  BY <1>10, GuardEffects DEF Monitor, MonitorReturns, MonitorSends, CutMonitor
<1>11. CASE Crate
  BY <1>11, CrateEffects DEF programVars
<1>12. ASSUME NEW g \in Guards \ {Own}, GuardTriggersZero(g)
       PROVE  InHand'
  BY <1>12, GuardEffects DEF GuardTriggersZero
<1>13. CASE UNCHANGED serverVars
  BY <1>13 DEF serverVars, shutdownVars, guardVars, programVars
<1> QED
  BY <1>1, <1>2, <1>3, <1>4, <1>5, <1>6, <1>7, <1>8, <1>9, <1>10, <1>11, <1>12,
     <1>13 DEF ServerNext, Main, ServeTcp, Connection

\* The count is zero only with the trigger pulled or about to be, so a strong
\* guard is left: not main's, which is weak while it waits, and a task has it.
LEMMA DrainEnough ==
  ASSUME ShutdownInv, Held, InHand, GuardsHeld
  PROVE  DrainNeverStuck
<1> SUFFICES ASSUME InProgress, ~zero, Releasing = {}
             PROVE  \/ server \in Running /\ Usable(Loop)
                    \/ \E c \in Conns : conn[c] \in Serving /\ Usable(c)
  BY DEF DrainNeverStuck
<1> USE GuardsAssumption, ServerAssumption
<1>1. Strong # {}
  BY CountFacts DEF ShutdownInv, ShutdownTypeOK, ZeroNotForgotten
<1>2. PICK g \in Strong : TRUE
  BY <1>1
<1>3. g \in Guards /\ guard[g] = "strong" /\ Usable(g) /\ g \in ({Own, Loop} \cup Conns)
  BY <1>2 DEF InHand, Strong, Usable
<1>4. g # Own
  BY <1>3 DEF GuardsHeld, InProgress
<1>5. CASE g = Loop
  BY <1>3, <1>5 DEF GuardsHeld
<1>6. CASE g \in Conns /\ conn[g] \in Serving
  BY <1>3, <1>6
<1>7. CASE g \in Conns /\ conn[g] = "next"
  <2>1. server = "accepting"
    BY <1>7 DEF InHand, Held, InProgress
  <2>2. guard[Loop] = "strong" /\ Loop \in Strong
    BY <2>1 DEF GuardsHeld, Running, Strong
  <2> QED
    BY <2>1, <2>2 DEF InHand, Usable, Running
<1> QED
  BY <1>3, <1>4, <1>5, <1>6, <1>7 DEF GuardsHeld

\* A graceful end finds no strong guard, hence nobody who would hold one; the
\* tasks that main's return cuts off had theirs.
LEMMA CutsNobodyStep ==
  ASSUME ServerInv, ServerTypeOK', GracefulMeansIdle', Held', GuardsHeld',
         [ServerNext]_serverVars
  PROVE  GracefulCutsNobody'
<1> SUFFICES ASSUME outcome' = "graceful"
             PROVE  server' \in {"ended", "panicked"} /\ \A c \in Conns : conn'[c] = "none"
  BY DEF GracefulCutsNobody
<1> USE GuardsAssumption, ServerAssumption
<1>1. \A h \in Guards : guard'[h] # "strong"
  BY DEF GracefulMeansIdle, Held, Strong
<1>2. server' \notin Running /\ \A c \in Conns : conn'[c] \notin Serving \cup {"next"}
  BY <1>1 DEF GuardsHeld
<1>3. CASE outcome = "graceful"
  <2>1. server \in {"ended", "panicked"} /\ \A c \in Conns : conn[c] = "none"
    BY <1>3 DEF ServerInv, GracefulCutsNobody
  <2> QED
    BY <2>1 DEF ServerNext, Main, SpawnServer, SpawnMonitor, AwaitShutdown,
       ServeTcp, Bind, BindPanics, StopAccepting, ServerEnds, CutServer, Accept,
       CloneNext, AcceptNext, AcceptError, Connection, TellConn, CloseConn,
       CutConn, Monitor, MonitorReturns, MonitorSends, CutMonitor, Crate, GuardTriggersZero,
       Running, Serving, User, serverVars, programVars
<1>4. CASE outcome # "graceful"
  <2>1. Crate /\ main = "drain"
    BY <1>4 DEF ServerNext, Main, SpawnServer, SpawnMonitor, AwaitShutdown,
       Begin, ServeTcp, Bind, BindPanics, StopAccepting, ServerEnds, CutServer,
       Accept, CloneNext, AcceptNext, AcceptError, Connection, TellConn,
       CloseConn, CutConn, Monitor, MonitorReturns, MonitorSends, CutMonitor,
       GuardTriggersZero, Crate, SignalCompletes, SignalTask, StartOverwrite,
       StartDelay, FireSignal, OverwriteFires, Poll, SeeCancelled, Drained,
       Forced, TimedOut, Return, OwnTriggersZero, User, mainVars, serverVars,
       shutdownVars
  <2>2. server # "none" /\ server # "cut" /\ \A c \in Conns : conn[c] # "cut"
    BY <2>1 DEF ServerInv, Held
  <2>3. UNCHANGED programVars
    BY <2>1 DEF Crate
  <2> QED
    BY <1>2, <2>2, <2>3 DEF programVars, ServerInv, ServerTypeOK, Running, Over,
                            Serving
<1> QED
  BY <1>3, <1>4

LEMMA ServerInvStep == ServerInv /\ [ServerNext]_serverVars => ServerInv'
<1> SUFFICES ASSUME ServerInv, [ServerNext]_serverVars
             PROVE  ServerInv'
  OBVIOUS
<1>1. ShutdownInv'
  BY ShutdownInServer, ShutdownInvStep DEF ServerInv
<1>2. ShutdownTypeOK' /\ GracefulMeansIdle'
  BY <1>1 DEF ShutdownInv
<1>3. ServerTypeOK'
  BY <1>2, ServerTypes DEF ServerInv
<1>4. Held' /\ GuardsHeld'
  BY HeldStep DEF ServerInv
<1>5. GracefulCutsNobody'
  BY <1>2, <1>3, <1>4, CutsNobodyStep
<1>6. InHand'
  BY InHandStep DEF ServerInv
<1>7. ShutdownInv' /\ Held' /\ InHand' /\ GuardsHeld' => DrainNeverStuck'
  BY DrainEnough, PTL
<1> QED
  BY <1>1, <1>3, <1>4, <1>5, <1>6, <1>7 DEF ServerInv

\* All the safety properties of the servers hold in every reachable state.
THEOREM ServerInvariance == ServerSpec => []ServerInv
  BY ServerInitInv, ServerInvStep, PTL DEF ServerSpec

\* Types are right, whatever the number of connections.
THEOREM ServerTypeCorrect == ServerSpec => []ServerTypeOK
<1>1. ServerInv => ServerTypeOK
  BY DEF ServerInv
<1> QED
  BY <1>1, ServerInvariance, PTL

\* No guard is leaked, and none dropped under a running task.
THEOREM GuardsAlwaysHeld == ServerSpec => []GuardsHeld
<1>1. ServerInv => GuardsHeld
  BY DEF ServerInv
<1> QED
  BY <1>1, ServerInvariance, PTL

\* A graceful end of main cuts neither the server nor any connection off.
THEOREM GracefulNeverCuts == ServerSpec => []GracefulCutsNobody
<1>1. ServerInv => GracefulCutsNobody
  BY DEF ServerInv
<1> QED
  BY <1>1, ServerInvariance, PTL

\* While main waits and the zero trigger was not pulled, some task has a guard
\* to give up or a trigger to pull: a drain is never out of everybody's reach.
THEOREM ServerDrainNeverStuck == ServerSpec => []DrainNeverStuck
<1>1. ServerInv => DrainNeverStuck
  BY DEF ServerInv
<1> QED
  BY <1>1, ServerInvariance, PTL

\* What the crate promises holds of the examples that use it.
THEOREM ServerKeepsPromise == ServerSpec => P!SafePromise
  BY ServerRefines, PromiseSafety
=============================================================================
