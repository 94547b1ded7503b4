------------------------------- MODULE Latch --------------------------------
(***************************************************************************)
(* What a trigger of tokio-graceful promises to the rest of the crate,     *)
(* with no mutex, slab or waker in sight: a flag that is raised once and   *)
(* for all, and a family of receivers (futures) cloned from a first one.   *)
(* A receiver becomes ready only once the latch has fired, and a receiver  *)
(* that somebody waits on does become ready after that, unless it is       *)
(* dropped first.  Module Trigger shows how src/trigger.rs keeps it.       *)
(***************************************************************************)
CONSTANTS Receivers,   \* every receiver that may ever exist
          Root         \* the one made together with the sender

VARIABLES fired,       \* has the latch fired?
          phase        \* the life of each receiver

vars == <<fired, phase>>

Phases == {"none", "open", "waiting", "ready", "dropped"}

TypeOK == fired \in BOOLEAN /\ phase \in [Receivers -> Phases]

Init == /\ fired = FALSE
        /\ phase = [r \in Receivers |-> IF r = Root THEN "open" ELSE "none"]

Become(r, p) == phase' = [phase EXCEPT ![r] = p]

Fire == fired' = TRUE /\ UNCHANGED phase

\* A task starts to wait on r.
Wait(r) == phase[r] = "open" /\ Become(r, "waiting") /\ UNCHANGED fired

\* The future r completes.
Resolve(r) == /\ fired
              /\ phase[r] \in {"open", "waiting"}
              /\ Become(r, "ready")
              /\ UNCHANGED fired

Drop(r) == /\ phase[r] \in {"open", "waiting", "ready"}
           /\ Become(r, "dropped")
           /\ UNCHANGED fired

\* A clone of a completed receiver is complete; any other clone starts afresh.
Clone(r, q) == /\ phase[r] \in {"open", "waiting", "ready"}
               /\ phase[q] = "none"
               /\ Become(q, IF phase[r] = "ready" THEN "ready" ELSE "open")
               /\ UNCHANGED fired

Next == \/ Fire
        \/ \E r \in Receivers : \/ Wait(r) \/ Resolve(r) \/ Drop(r)
                                \/ \E q \in Receivers : Clone(r, q)

SafeSpec == Init /\ [][Next]_vars

\* No future of the latch completes before the latch has fired.
NeverEarly == \A r \in Receivers : phase[r] = "ready" => fired

\* A waiting receiver is not left behind by a latch that has fired.
Spec == SafeSpec /\ \A r \in Receivers :
                       WF_vars(phase[r] = "waiting" /\ Resolve(r))
=============================================================================
