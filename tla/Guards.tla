------------------------------- MODULE Guards -------------------------------
(***************************************************************************)
(* The guards of src/guard.rs: strong guards counted in an AtomicUsize,    *)
(* weak guards that are not, the conversions between them, and the tasks   *)
(* that own a guard while they run.  The release of a strong guard is two  *)
(* steps: fetch_sub, and then, for whoever took the count to zero, the     *)
(* call of zero_tx.trigger().  Other threads may run in between.  The      *)
(* trigger itself is the latch of module Trigger, here its flag only.      *)
(***************************************************************************)
EXTENDS Naturals, FiniteSets

CONSTANTS Guards,   \* handles: one that is gone may be made anew (but for Own)
          Own       \* the guard that the Shutdown struct keeps for itself

ASSUME GuardsAssumption == Own \in Guards /\ IsFiniteSet(Guards)

VARIABLES
  ref_count,   \* the AtomicUsize shared by all guards
  guard,       \* what each handle is; "dropping" and "downgrading" are the
               \* last strong guard between fetch_sub and trigger()
  owner,       \* who holds it: user code, or the wrapper of a spawned task
  zero,        \* the flag of the zero_tx / zero_rx trigger
  revived      \* history: was a guard upgraded when no strong one was left?

guardVars == <<ref_count, guard, owner, zero, revived>>

Kinds == {"gone", "strong", "weak", "dropping", "downgrading"}

Strong == {g \in Guards : guard[g] = "strong"}

\* Threads that have to call zero_tx.trigger() next.
Releasing == {g \in Guards : guard[g] \in {"dropping", "downgrading"}}

GuardsTypeOK ==
  /\ ref_count \in 0..Cardinality(Guards)
  /\ guard \in [Guards -> Kinds]
  /\ owner \in [Guards -> {"user", "task"}]
  /\ zero \in BOOLEAN /\ revived \in BOOLEAN

\* ShutdownGuard::new on a fresh counter.
GuardsInit ==
  /\ ref_count = 1
  /\ guard = [g \in Guards |-> IF g = Own THEN "strong" ELSE "gone"]
  /\ owner = [g \in Guards |-> "user"]
  /\ zero = FALSE /\ revived = FALSE

-----------------------------------------------------------------------------
(* Making guards. *)

Make(h, kind, who) == /\ guard' = [guard EXCEPT ![h] = kind]
                      /\ owner' = [owner EXCEPT ![h] = who]

\* A strong guard that code can call: not one sealed in a task's wrapper.
Usable(g) == guard[g] = "strong" /\ owner[g] = "user"

\* Clone of a ShutdownGuard: Shutdown::guard, and the guard that
\* spawn_task_fn hands to the function it is given.
CloneStrong(g, h) ==
  /\ Usable(g) /\ guard[h] = "gone"
  /\ ref_count' = ref_count + 1
  /\ Make(h, "strong", "user")
  /\ UNCHANGED <<zero, revived>>

\* clone_weak, Shutdown::guard_weak, and the derived Clone of a weak guard.
CloneWeak(g, h) ==
  /\ Usable(g) \/ guard[g] = "weak"
  /\ guard[h] = "gone"
  /\ Make(h, "weak", "user")
  /\ UNCHANGED <<ref_count, zero, revived>>

\* Faulty variant: the clone is left to the task's first poll.
SpawnTaskLate(g, h) ==
  /\ Usable(g) /\ guard[h] = "gone"
  /\ Make(h, "strong", "task")
  /\ UNCHANGED <<ref_count, zero, revived>>

\* spawn_task: the clone is made by the caller, and moved into the task.
SpawnTask(g, h) ==
  /\ Usable(g) /\ guard[h] = "gone"
  /\ ref_count' = ref_count + 1
  /\ Make(h, "strong", "task")
  /\ UNCHANGED <<zero, revived>>

\* into_spawn_task: the guard itself is moved into the task.
IntoSpawnTask(g) ==
  /\ Usable(g)
  /\ owner' = [owner EXCEPT ![g] = "task"]
  /\ UNCHANGED <<ref_count, guard, zero, revived>>

\* upgrade: From<WeakShutdownGuard>, a plain increment.
Upgrade(g) ==
  /\ guard[g] = "weak"
  /\ ref_count' = ref_count + 1
  /\ guard' = [guard EXCEPT ![g] = "strong"]
  /\ revived' = (revived \/ ref_count = 0)
  /\ UNCHANGED <<owner, zero>>

-----------------------------------------------------------------------------
(* Giving guards up. *)

\* Faulty variants: pulls the trigger when one other guard is left, and never.
ReleaseTestsNew(g, last, kind) ==
  /\ guard[g] = "strong"
  /\ ref_count' = ref_count - 1
  /\ guard' = [guard EXCEPT ![g] = IF ref_count = 2 THEN last ELSE kind]
  /\ UNCHANGED <<owner, zero, revived>>

ReleaseSilent(g, last, kind) ==
  /\ guard[g] = "strong"
  /\ ref_count' = ref_count - 1
  /\ guard' = [guard EXCEPT ![g] = kind]
  /\ UNCHANGED <<owner, zero, revived>>

\* Drop for ShutdownGuard, up to fetch_sub: the handle becomes `kind`, at
\* once if others remain, after trigger() if this was the last.
Release(g, last, kind) ==
  /\ guard[g] = "strong"
  /\ ref_count' = ref_count - 1
  /\ guard' = [guard EXCEPT ![g] = IF ref_count = 1 THEN last ELSE kind]
  /\ UNCHANGED <<owner, zero, revived>>

DropStrong(g) == Usable(g) /\ Release(g, "dropping", "gone")

\* A task ends, by returning, by a panic that unwinds it, by abort() or with
\* its runtime, run or not: its future, and the guard in it, is dropped.
TaskEnds(g) == owner[g] = "task" /\ Release(g, "dropping", "gone")

\* downgrade: takes the weak guard out, then drops the strong one.
Downgrade(g) == Usable(g) /\ Release(g, "downgrading", "weak")

\* The end of that drop: zero_tx.trigger().
TriggerZero(g) ==
  /\ g \in Releasing
  /\ zero' = TRUE
  /\ guard' = [guard EXCEPT ![g] = IF @ = "dropping" THEN "gone" ELSE "weak"]
  /\ UNCHANGED <<ref_count, owner, revived>>

DropWeak(g) ==
  /\ guard[g] = "weak"
  /\ guard' = [guard EXCEPT ![g] = "gone"]
  /\ UNCHANGED <<ref_count, owner, zero, revived>>

-----------------------------------------------------------------------------
\* What may be done through handle g without giving it up, and with it.
Share(g) == \E h \in Guards \ {Own} : \/ CloneStrong(g, h)
                                     \/ CloneWeak(g, h)
                                     \/ SpawnTask(g, h)

Spend(g) == \/ IntoSpawnTask(g) \/ Upgrade(g)
            \/ DropStrong(g) \/ TaskEnds(g) \/ Downgrade(g)
            \/ TriggerZero(g)
            \/ DropWeak(g)

GuardsNext == \E g \in Guards : Share(g) \/ Spend(g)

GuardsSpec == GuardsInit /\ [][GuardsNext]_guardVars

\* A thread that decremented the count to zero goes on to trigger().
GuardsFairness == \A g \in Guards : WF_guardVars(TriggerZero(g))

GuardsFairSpec == GuardsSpec /\ GuardsFairness

-----------------------------------------------------------------------------
(* Properties. *)

\* The counter counts the strong guards: it neither wraps below zero nor
\* drifts, however clones, drops and conversions interleave.
CountExact == ref_count = Cardinality(Strong)

\* Nobody can find the count at zero and the zero trigger forgotten: it is
\* pulled, or the thread that has to pull it is on its way.
ZeroNotForgotten == ref_count = 0 => zero \/ Releasing # {}

\* A guard holds the shutdown back: when the zero trigger is pulled, or about
\* to be, no strong guard is left, unless one was made of a weak guard after
\* the last strong guard was gone.
ZeroMeansNone == zero \/ Releasing # {} => Strong = {} \/ revived

\* Guards are a wait group: see module WaitGroup.
W == INSTANCE WaitGroup WITH Members <- Guards, First <- Own, active <- Strong,
                             emptied <- zero \/ Releasing # {}, released <- zero

ImplementsWaitGroup == W!Spec
=============================================================================
