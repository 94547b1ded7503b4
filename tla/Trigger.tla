------------------------------ MODULE Trigger -------------------------------
(***************************************************************************)
(* The trigger of src/trigger.rs: an AtomicBool shared with a mutex around *)
(* a slab of wakers.  Threads poll, clone and drop receivers while others  *)
(* call Sender::trigger; every SeqCst access of the flag, every lock and   *)
(* every unlock is a step of its own, so that all their interleavings are  *)
(* there.  A step that only touches what its thread owns is merged with    *)
(* the shared access before it.                                            *)
(***************************************************************************)
EXTENDS Naturals, FiniteSets

CONSTANTS Receivers,  \* the receivers that may ever exist
          Root,       \* the one `trigger()` returns
          Senders,    \* calls of Sender::trigger (on clones of the sender)
          Tasks,      \* tasks that poll receivers: a waker is its task's name
          Keys,       \* slab keys (the slab grows: as many as receivers)
          Vacant,     \* a slab slot that holds no entry
          None        \* Rust's None: no key, no waker, nobody holds the lock

ASSUME ConstAssumption ==
  /\ Root \in Receivers
  /\ Receivers \cap Senders = {}
  /\ None \notin Receivers \cup Senders \cup Tasks \cup Keys \cup {Vacant}
  /\ Vacant \notin Tasks

\* There is always room for the waker of one more receiver.
ASSUME RoomAssumption ==
  /\ IsFiniteSet(Receivers) /\ IsFiniteSet(Keys)
  /\ Cardinality(Receivers) <= Cardinality(Keys)

VARIABLES
  fired,   \* TriggerState: the AtomicBool
  lock,    \* who holds the Mutex of the WakerList
  slab,    \* WakerList: key -> Some(waker), None once taken, or Vacant
  state,   \* ReceiverState of each receiver
  key,     \* the `key` of an Open receiver
  pc,      \* where the poll of each receiver stands
  task,    \* the task whose context the last poll of a receiver was given
  woken,   \* has that task been woken since that poll began?
  spc,     \* where each call of Sender::trigger stands
  todo     \* keys that the sender holding the lock has still to visit

shared == <<fired, lock, slab>>
rcvVars == <<state, key, pc, task>>
vars == <<fired, lock, slab, state, key, pc, task, woken, spc, todo>>

States == {"none", "open", "closed", "dropped"}
PollPcs == {"idle", "locking", "locked", "storing", "closing"}
SendPcs == {"idle", "won", "waking", "done"}

TypeOK ==
  /\ fired \in BOOLEAN
  /\ lock \in Receivers \cup Senders \cup {None}
  /\ slab \in [Keys -> Tasks \cup {None, Vacant}]
  /\ state \in [Receivers -> States]
  /\ key \in [Receivers -> Keys \cup {None}]
  /\ pc \in [Receivers -> PollPcs]
  /\ task \in [Receivers -> Tasks \cup {None}]
  /\ woken \in [Receivers -> BOOLEAN]
  /\ spc \in [Senders -> SendPcs]
  /\ todo \in SUBSET Keys

Init ==
  /\ fired = FALSE
  /\ lock = None
  /\ slab = [k \in Keys |-> Vacant]
  /\ state = [r \in Receivers |-> IF r = Root THEN "open" ELSE "none"]
  /\ key = [r \in Receivers |-> None]
  /\ pc = [r \in Receivers |-> "idle"]
  /\ task = [r \in Receivers |-> None]
  /\ woken = [r \in Receivers |-> FALSE]
  /\ spc = [s \in Senders |-> "idle"]
  /\ todo = {}

-----------------------------------------------------------------------------
(* The receiving side. *)

Goto(r, l) == pc' = [pc EXCEPT ![r] = l]

\* Receiver::poll of an Open receiver by task t, up to the first load of the
\* flag.  Executors may poll a future that nobody woke, and a receiver may
\* move to another task between two polls.
Poll(r, t) ==
  /\ state[r] = "open" /\ pc[r] = "idle"
  /\ task' = [task EXCEPT ![r] = t]
  /\ woken' = [woken EXCEPT ![r] = FALSE]
  /\ Goto(r, IF fired THEN "closing" ELSE "locking")
  /\ UNCHANGED <<shared, state, key, spc, todo>>

PollLock(r) ==
  /\ pc[r] = "locking" /\ lock = None
  /\ lock' = r
  /\ Goto(r, "locked")
  /\ UNCHANGED <<fired, slab, state, key, task, woken, spc, todo>>

\* Faulty variants: no second load under the lock (the bug that loom found),
\* and an early return that keeps the lock guard alive.
PollRecheckOmitted(r) ==
  /\ pc[r] = "locked"
  /\ Goto(r, "storing")
  /\ UNCHANGED <<shared, state, key, task, woken, spc, todo>>

PollRecheckKeepsLock(r) ==
  /\ pc[r] = "locked"
  /\ Goto(r, IF fired THEN "closing" ELSE "storing")
  /\ UNCHANGED <<shared, state, key, task, woken, spc, todo>>

\* The second load, under the lock; the early return releases the lock.
PollRecheck(r) ==
  /\ pc[r] = "locked"
  /\ IF fired THEN lock' = None /\ Goto(r, "closing")
              ELSE lock' = lock /\ Goto(r, "storing")
  /\ UNCHANGED <<fired, slab, state, key, task, woken, spc, todo>>

\* Where the waker of receiver r may be stored: the slot of its key, which
\* `get_mut(key).unwrap()` wants occupied, or any vacant slot.
Slots(r) == IF key[r] = None THEN {k \in Keys : slab[k] = Vacant}
                             ELSE {k \in Keys : k = key[r] /\ slab[k] # Vacant}

\* Faulty variant: a receiver that has a key leaves the waker in its slot.
PollStoreKeepsOld(r) ==
  /\ pc[r] = "storing"
  /\ \E k \in Slots(r) :
       /\ slab' = [slab EXCEPT ![k] = IF key[r] = None THEN task[r] ELSE @]
       /\ key' = [key EXCEPT ![r] = k]
  /\ lock' = None
  /\ Goto(r, "idle")
  /\ UNCHANGED <<fired, state, task, woken, spc, todo>>

\* Store the waker, release the lock, return Pending.
PollStore(r) ==
  /\ pc[r] = "storing"
  /\ \E k \in Slots(r) : /\ slab' = [slab EXCEPT ![k] = task[r]]
                         /\ key' = [key EXCEPT ![r] = k]
  /\ lock' = None
  /\ Goto(r, "idle")
  /\ UNCHANGED <<fired, state, task, woken, spc, todo>>

\* Drop of an Open ReceiverState: with a key, take the lock and remove the
\* waker (`wakers.remove(key)` wants the slot occupied); without one, nothing.
Discard(r) ==
  /\ key[r] # None => lock = None /\ slab[key[r]] # Vacant
  /\ slab' = [k \in Keys |-> IF k = key[r] THEN Vacant ELSE slab[k]]
  /\ key' = [key EXCEPT ![r] = None]

\* The end of a poll that saw the trigger: `*this.state = Closed`, Ready.
Close(r) ==
  /\ pc[r] = "closing"
  /\ Discard(r)
  /\ state' = [state EXCEPT ![r] = "closed"]
  /\ Goto(r, "idle")
  /\ UNCHANGED <<fired, lock, task, woken, spc, todo>>

\* A receiver is dropped between polls: its future was cancelled or is done.
Drop(r) ==
  /\ state[r] \in {"open", "closed"} /\ pc[r] = "idle"
  /\ Discard(r)
  /\ state' = [state EXCEPT ![r] = "dropped"]
  /\ UNCHANGED <<fired, lock, pc, task, woken, spc, todo>>

\* Faulty variant: the derived Clone, which copies the key.
ClonedKeyShared(r) == key[r]

\* The key of a clone: not the one of the original, which is linked to it.
ClonedKey(r) == None

Clone(r, q) ==
  /\ state[r] \in {"open", "closed"} /\ pc[r] = "idle"
  /\ state[q] = "none"
  /\ state' = [state EXCEPT ![q] = state[r]]
  /\ key' = [key EXCEPT ![q] = ClonedKey(r)]
  /\ UNCHANGED <<shared, pc, task, woken, spc, todo>>

-----------------------------------------------------------------------------
(* The sending side: Sender::trigger. *)

\* swap(true): the first caller goes on, any other returns at once.
Swap(s) ==
  /\ spc[s] = "idle"
  /\ fired' = TRUE
  /\ spc' = [spc EXCEPT ![s] = IF fired THEN "done" ELSE "won"]
  /\ UNCHANGED <<lock, slab, rcvVars, woken, todo>>

SenderLock(s) ==
  /\ spc[s] = "won" /\ lock = None
  /\ lock' = s
  /\ todo' = {k \in Keys : slab[k] # Vacant}
  /\ spc' = [spc EXCEPT ![s] = "waking"]
  /\ UNCHANGED <<fired, slab, rcvVars, woken>>

\* Faulty variant: takes the waker and drops it.
WakeForgotten(s, k) ==
  /\ spc[s] = "waking" /\ k \in todo
  /\ todo' = todo \ {k}
  /\ slab' = [slab EXCEPT ![k] = None]
  /\ UNCHANGED <<fired, lock, rcvVars, woken, spc>>

\* One turn of the loop over the slab: take the waker, if any, and wake its
\* task, which will poll again whatever it polled last.  The slab is visited
\* in key order by the code, in any order here.
Wake(s, k) ==
  /\ spc[s] = "waking" /\ k \in todo
  /\ todo' = todo \ {k}
  /\ slab' = [slab EXCEPT ![k] = None]
  /\ woken' = [r \in Receivers |->
                 woken[r] \/ (slab[k] # None /\ task[r] = slab[k])]
  /\ UNCHANGED <<fired, lock, rcvVars, spc>>

SenderUnlock(s) ==
  /\ spc[s] = "waking" /\ todo = {}
  /\ lock' = None
  /\ spc' = [spc EXCEPT ![s] = "done"]
  /\ UNCHANGED <<fired, slab, rcvVars, woken, todo>>

-----------------------------------------------------------------------------
Receive(r) == \/ \E t \in Tasks : Poll(r, t)
              \/ PollLock(r)
              \/ PollRecheck(r)
              \/ PollStore(r)
              \/ Close(r)
              \/ Drop(r)
              \/ \E q \in Receivers : Clone(r, q)

Send(s) == \/ Swap(s)
           \/ SenderLock(s)
           \/ \E k \in Keys : Wake(s, k)
           \/ SenderUnlock(s)

Next == (\E r \in Receivers : Receive(r)) \/ (\E s \in Senders : Send(s))

Spec == Init /\ [][Next]_vars

\* Threads run: a poll or a trigger() that has begun goes on, and the mutex
\* is granted to a thread that finds it free for good.  A task that was woken
\* is polled.  Nobody has to call trigger, to poll unasked, to clone or to
\* drop.
Fairness ==
  /\ \A r \in Receivers :
       /\ WF_vars(PollLock(r)) /\ WF_vars(PollRecheck(r))
       /\ WF_vars(PollStore(r)) /\ WF_vars(Close(r))
       /\ WF_vars(woken[r] /\ \E t \in Tasks : Poll(r, t))
  /\ \A s \in Senders :
       /\ WF_vars(SenderLock(s)) /\ WF_vars(SenderUnlock(s))
       /\ WF_vars(\E k \in Keys : Wake(s, k))

FairSpec == Spec /\ Fairness

-----------------------------------------------------------------------------
(* Properties. *)

\* A receiver that returned Pending to some task and was not dropped since.
Waiting(r) == state[r] = "open" /\ key[r] # None

\* Cancel safety of the waker list (trigger.rs:15-16): the key of a receiver
\* names an occupied slot, so neither unwrap() nor remove() can panic and
\* poison the mutex; two receivers never share a slot; and every occupied
\* slot belongs to a receiver that is still open, so no waker is left behind.
KeysOwned ==
  /\ \A r \in Receivers : key[r] # None => /\ slab[key[r]] # Vacant
                                           /\ state[r] = "open"
  /\ \A r, q \in Receivers : key[r] = key[q] /\ key[r] # None => r = q
  /\ \A k \in Keys : slab[k] # Vacant => \E r \in Receivers : key[r] = k

\* The race of trigger.rs:68-71: once the winning call of trigger() is over,
\* every task that was told Pending has been woken since.
NoLostWakeup ==
  fired /\ (\A s \in Senders : spc[s] \notin {"won", "waking"})
    => \A r \in Receivers : Waiting(r) /\ pc[r] = "idle" => woken[r]

\* Why no wakeup is lost, as an inductive invariant.
LockHeld ==
  /\ \A r \in Receivers : lock = r <=> pc[r] \in {"locked", "storing"}
  /\ \A s \in Senders : lock = s <=> spc[s] = "waking"

PollsOpen == \A r \in Receivers :
  /\ pc[r] # "idle" => state[r] = "open"
  /\ pc[r] # "idle" \/ Waiting(r) => task[r] \in Tasks
  /\ pc[r] = "closing" => fired

\* A waker stored after the flag went up is seen by the winner, who has yet
\* to take the lock.
StoresSeen == \A r \in Receivers :
  fired /\ pc[r] = "storing" => \E s \in Senders : spc[s] = "won"

\* A waiting task is either in the slab or woken.
WakerFresh == \A r \in Receivers :
  Waiting(r) /\ pc[r] = "idle" => woken[r] \/ slab[key[r]] = task[r]

\* During the loop the slots to visit stay occupied, and whoever is not woken
\* is yet to be visited.
LoopVisitsAll == \A s \in Senders : spc[s] = "waking" =>
  /\ \A k \in todo : slab[k] # Vacant
  /\ \A r \in Receivers : Waiting(r) /\ pc[r] = "idle"
                            => woken[r] \/ key[r] \in todo

TriggerInv == /\ TypeOK /\ KeysOwned /\ LockHeld /\ PollsOpen /\ StoresSeen
              /\ WakerFresh /\ LoopVisitsAll /\ NoLostWakeup

\* Can the poll of r, or the call s of trigger(), take its next step?
PollReady(r) == \/ pc[r] = "locking" /\ lock = None
                \/ pc[r] = "locked"
                \/ pc[r] = "storing" /\ Slots(r) # {}
                \/ /\ pc[r] = "closing"
                   /\ key[r] # None => lock = None /\ slab[key[r]] # Vacant

CallReady(s) == spc[s] = "waking" \/ (spc[s] = "won" /\ lock = None)

\* Nobody waits on everybody (the hazard of trigger.rs:186, where a poll
\* that saw the trigger takes the mutex again, to drop its key): whoever
\* holds the mutex can go on to the step that releases it, and when it is
\* free every poll and every call under way can go on.  In particular a waker
\* always finds a slot, and no unwrap() or remove() meets a vacant one.
NoDeadlock ==
  /\ lock \in Receivers => PollReady(lock)
  /\ lock \in Senders => CallReady(lock)
  /\ lock = None =>
       /\ \A r \in Receivers : pc[r] # "idle" => PollReady(r)
       /\ \A s \in Senders : spc[s] \notin {"idle", "done"} => CallReady(s)

\* Once the trigger is pulled, every poll and every trigger() call under way
\* returns, whatever the threads around it do: none waits for a lock that it
\* still holds itself, and none is left waiting by the others.  (Before that
\* nothing is promised: the mutex is not fair to a poll whose neighbours are
\* polled over and over.)
CallsReturn ==
  /\ \A r \in Receivers : fired /\ pc[r] # "idle" ~> pc[r] = "idle"
  /\ \A s \in Senders : spc[s] # "idle" ~> spc[s] = "done"

\* The trigger is a latch: see module Latch.
phase == [r \in Receivers |->
            CASE state[r] = "none"    -> "none"
              [] state[r] = "dropped" -> "dropped"
              [] state[r] = "closed"  -> "ready"
              [] OTHER -> IF key[r] = None THEN "open" ELSE "waiting"]

L == INSTANCE Latch

\* Every behaviour of the trigger, its scheduling being fair, is one of a
\* latch, with what the latch promises to those who wait.
ImplementsLatch == L!Spec
=============================================================================
