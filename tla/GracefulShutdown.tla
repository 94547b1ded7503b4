-------------------------- MODULE GracefulShutdown --------------------------
(***************************************************************************)
(* What a Shutdown promises its users, with none of the tasks, triggers    *)
(* and selects that bring it about.  There is a signal, which is received  *)
(* and then, after a delay perhaps, known to everyone; a wait group of     *)
(* guards, in which the Shutdown itself is a member until it begins to     *)
(* wait; an overwrite, which may be used once the signal was received; and *)
(* a wait that ends when the signal is known and the group released, or    *)
(* known and the limit over, or overwritten.  See module Shutdown.         *)
(***************************************************************************)
EXTENDS WaitGroup

VARIABLES signal,    \* "lost": user code that had to deliver it panicked
          forced,    \* was the overwrite used?
          wait,      \* the wait for the end
          limited,   \* has it a limit?
          result     \* how it ended

groupVars == vars
waitVars == <<wait, limited, result>>
promiseVars == <<groupVars, signal, forced, waitVars>>

PromiseTypeOK ==
  /\ TypeOK
  /\ signal \in {"none", "received", "known", "lost"}
  /\ forced \in BOOLEAN /\ limited \in BOOLEAN
  /\ wait \in {"unstarted", "waiting", "over", "abandoned"}
  /\ result \in {"none", "graceful", "forced", "timeout"}

\* Without a signal, the shutdown is known from the start.
PromiseInit ==
  /\ Init
  /\ signal \in {"none", "known"} /\ forced = FALSE
  /\ wait = "unstarted" /\ limited = FALSE /\ result = "none"

-----------------------------------------------------------------------------
Receive == /\ signal = "none" /\ signal' = "received"
           /\ UNCHANGED <<groupVars, forced, waitVars>>

Tell == /\ signal = "received" /\ signal' = "known"
        /\ UNCHANGED <<groupVars, forced, waitVars>>

Lose == /\ signal \in {"none", "received"} /\ signal' = "lost"
        /\ UNCHANGED <<groupVars, forced, waitVars>>

Force == /\ signal \in {"received", "known"} /\ forced' = TRUE
         /\ UNCHANGED <<groupVars, signal, waitVars>>

\* Members but the Shutdown itself come and go as they like.
Group == /\ \/ Release
            \/ \E m \in Members \ {First} : Join(m) \/ Leave(m)
         /\ UNCHANGED <<signal, forced, waitVars>>

Start(with_limit) ==
  /\ wait = "unstarted" /\ wait' = "waiting"
  /\ limited' = with_limit
  /\ Leave(First)
  /\ UNCHANGED <<signal, forced, result>>

Abandon ==
  /\ \/ wait = "unstarted" /\ Leave(First)
     \/ wait = "waiting" /\ UNCHANGED groupVars
  /\ wait' = "abandoned"
  /\ UNCHANGED <<signal, forced, limited, result>>

\* Which results the wait may end with now.
Possible(r) == \/ r = "graceful" /\ signal = "known" /\ released
               \/ r = "timeout" /\ signal = "known" /\ limited
               \/ r = "forced" /\ forced

End == /\ wait = "waiting" /\ wait' = "over"
       /\ \E r \in {"graceful", "forced", "timeout"} :
            Possible(r) /\ result' = r
       /\ UNCHANGED <<groupVars, signal, forced, limited>>

-----------------------------------------------------------------------------
PromiseNext == \/ Receive \/ Tell \/ Lose \/ Force
               \/ Group
               \/ (\E l \in BOOLEAN : Start(l)) \/ Abandon \/ End

SafePromise == PromiseInit /\ [][PromiseNext]_promiseVars

\* A received signal is told, an empty group released, and no wait that can
\* end goes on.
Promise == /\ SafePromise
           /\ WF_promiseVars(Tell) /\ WF_promiseVars(End)
           /\ WF_promiseVars(Release /\ UNCHANGED <<signal, forced, waitVars>>)
=============================================================================
