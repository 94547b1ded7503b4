--------------------------- MODULE TriggerProofs ----------------------------
(***************************************************************************)
(* Theorems about module Trigger, for any number of receivers, senders,    *)
(* tasks and slab keys.  TriggerInv is inductive: its step is proved one   *)
(* conjunct at a time, KeysOwned first because the others need it.         *)
(***************************************************************************)
EXTENDS Trigger, FiniteSetTheorems, TLAPS

\* The initial state satisfies every conjunct of the invariant.
LEMMA InitInv == Init => TriggerInv
<1> SUFFICES ASSUME Init
             PROVE  TriggerInv
  OBVIOUS
<1> USE ConstAssumption DEF Init, Waiting
<1>1. TypeOK
  BY DEF TypeOK, States, PollPcs, SendPcs
<1>2. KeysOwned
  BY DEF KeysOwned
<1>3. LockHeld
  BY DEF LockHeld
<1>4. PollsOpen /\ StoresSeen
  BY DEF PollsOpen, StoresSeen
<1>5. WakerFresh /\ LoopVisitsAll /\ NoLostWakeup
  BY DEF WakerFresh, LoopVisitsAll, NoLostWakeup
<1> QED
  BY <1>1, <1>2, <1>3, <1>4, <1>5 DEF TriggerInv

\* Types are preserved by every step.
LEMMA TypeStep == TypeOK /\ [Next]_vars => TypeOK'
<1> SUFFICES ASSUME TypeOK, [Next]_vars
             PROVE  TypeOK'
  OBVIOUS
<1> USE ConstAssumption DEF TypeOK, States, PollPcs, SendPcs, shared, rcvVars,
                            Goto
<1>1. ASSUME NEW r \in Receivers, NEW t \in Tasks, Poll(r, t)
      PROVE  TypeOK'
  BY <1>1 DEF Poll
<1>2. ASSUME NEW r \in Receivers, PollLock(r)
      PROVE  TypeOK'
  BY <1>2 DEF PollLock
<1>3. ASSUME NEW r \in Receivers, PollRecheck(r)
      PROVE  TypeOK'
  BY <1>3 DEF PollRecheck
<1>4. ASSUME NEW r \in Receivers, PollStore(r)
      PROVE  TypeOK'
  <2>1. PICK k \in Slots(r) : /\ slab' = [slab EXCEPT ![k] = task[r]]
                              /\ key' = [key EXCEPT ![r] = k]
    BY <1>4 DEF PollStore
  <2>2. k \in Keys
    BY DEF Slots
  <2> QED
    BY <1>4, <2>1, <2>2 DEF PollStore
<1>5. ASSUME NEW r \in Receivers, Close(r)
      PROVE  TypeOK'
  BY <1>5 DEF Close, Discard
<1>6. ASSUME NEW r \in Receivers, Drop(r)
      PROVE  TypeOK'
  BY <1>6 DEF Drop, Discard
<1>7. ASSUME NEW r \in Receivers, NEW q \in Receivers, Clone(r, q)
      PROVE  TypeOK'
  BY <1>7 DEF Clone, ClonedKey
<1>8. ASSUME NEW s \in Senders, Swap(s)
      PROVE  TypeOK'
  BY <1>8 DEF Swap
<1>9. ASSUME NEW s \in Senders, SenderLock(s)
      PROVE  TypeOK'
  BY <1>9 DEF SenderLock
<1>10. ASSUME NEW s \in Senders, NEW k \in Keys, Wake(s, k)
       PROVE  TypeOK'
  BY <1>10 DEF Wake
<1>11. ASSUME NEW s \in Senders, SenderUnlock(s)
       PROVE  TypeOK'
  BY <1>11 DEF SenderUnlock
<1>12. CASE UNCHANGED vars
  BY <1>12 DEF vars
<1> QED
  BY <1>1, <1>2, <1>3, <1>4, <1>5, <1>6, <1>7, <1>8, <1>9, <1>10, <1>11, <1>12
  DEF Next, Receive, Send

\* Only a receiver that stores or discards a waker changes keys and slots,
\* and the slot it changes is its own or a vacant one.
LEMMA KeysStep ==
  ASSUME TypeOK, KeysOwned, PollsOpen, LoopVisitsAll, [Next]_vars
  PROVE  KeysOwned'
<1> USE ConstAssumption DEF TypeOK, States, PollPcs, SendPcs, shared, rcvVars,
                            Goto, KeysOwned
<1>1. ASSUME NEW r \in Receivers, NEW t \in Tasks, Poll(r, t)
      PROVE  KeysOwned'
  BY <1>1 DEF Poll
<1>2. ASSUME NEW r \in Receivers, PollLock(r) \/ PollRecheck(r)
      PROVE  KeysOwned'
  BY <1>2 DEF PollLock, PollRecheck
<1>3. ASSUME NEW r \in Receivers, PollStore(r)
      PROVE  KeysOwned'
  <2>1. PICK k \in Slots(r) : /\ slab' = [slab EXCEPT ![k] = task[r]]
                              /\ key' = [key EXCEPT ![r] = k]
    BY <1>3 DEF PollStore
  <2>2. state' = state /\ state[r] = "open" /\ task[r] \in Tasks
    BY <1>3 DEF PollStore, PollsOpen
  <2>3. k \in Keys /\ \A q \in Receivers : key[q] = k => q = r
    BY DEF Slots
  <2> QED
    BY <2>1, <2>2, <2>3 DEF Slots
<1>4. ASSUME NEW r \in Receivers, Discard(r), state' \in [Receivers -> States],
             \A q \in Receivers \ {r} : state'[q] = state[q]
      PROVE  KeysOwned'
  BY <1>4 DEF Discard
<1>5. ASSUME NEW r \in Receivers, Close(r) \/ Drop(r)
      PROVE  KeysOwned'
  BY <1>4, <1>5 DEF Close, Drop
<1>6. ASSUME NEW r \in Receivers, NEW q \in Receivers, Clone(r, q)
      PROVE  KeysOwned'
  BY <1>6 DEF Clone, ClonedKey
<1>7. ASSUME NEW s \in Senders, Swap(s) \/ SenderLock(s) \/ SenderUnlock(s)
      PROVE  KeysOwned'
  BY <1>7 DEF Swap, SenderLock, SenderUnlock
<1>8. ASSUME NEW s \in Senders, NEW k \in Keys, Wake(s, k)
      PROVE  KeysOwned'
  BY <1>8 DEF Wake, LoopVisitsAll
<1>9. CASE UNCHANGED vars
  BY <1>9 DEF vars
<1> QED
  BY <1>1, <1>2, <1>3, <1>5, <1>6, <1>7, <1>8, <1>9 DEF Next, Receive, Send

\* The lock is taken when free and released by its holder.
LEMMA LockStep == TypeOK /\ LockHeld /\ [Next]_vars => LockHeld'
<1> SUFFICES ASSUME TypeOK, LockHeld, [Next]_vars
             PROVE  LockHeld'
  OBVIOUS
<1> USE ConstAssumption DEF TypeOK, LockHeld, PollPcs, SendPcs, shared,
                            rcvVars, Goto
<1>1. ASSUME NEW r \in Receivers, NEW t \in Tasks, Poll(r, t)
      PROVE  LockHeld'
  BY <1>1 DEF Poll
<1>2. ASSUME NEW r \in Receivers, PollLock(r) \/ PollRecheck(r)
      PROVE  LockHeld'
  BY <1>2 DEF PollLock, PollRecheck
<1>3. ASSUME NEW r \in Receivers, PollStore(r) \/ Close(r) \/ Drop(r)
      PROVE  LockHeld'
  BY <1>3 DEF PollStore, Close, Drop
<1>4. ASSUME NEW r \in Receivers, NEW q \in Receivers, Clone(r, q)
      PROVE  LockHeld'
  BY <1>4 DEF Clone
<1>5. ASSUME NEW s \in Senders, Swap(s) \/ SenderLock(s) \/ SenderUnlock(s)
      PROVE  LockHeld'
  BY <1>5 DEF Swap, SenderLock, SenderUnlock
<1>6. ASSUME NEW s \in Senders, NEW k \in Keys, Wake(s, k)
      PROVE  LockHeld'
  BY <1>6 DEF Wake
<1>7. CASE UNCHANGED vars
  BY <1>7 DEF vars
<1> QED
  BY <1>1, <1>2, <1>3, <1>4, <1>5, <1>6, <1>7 DEF Next, Receive, Send

\* A poll in progress keeps its receiver open and has a task to wake; a store
\* under way when the flag goes up keeps the winner out of the slab.
LEMMA PollsStep ==
  ASSUME TypeOK, KeysOwned, LockHeld, PollsOpen, StoresSeen, [Next]_vars
  PROVE  PollsOpen' /\ StoresSeen'
<1> USE ConstAssumption DEF TypeOK, PollsOpen, StoresSeen, Waiting, PollPcs,
                            SendPcs, States, shared, rcvVars, Goto
<1>1. ASSUME NEW r \in Receivers, NEW t \in Tasks, Poll(r, t)
      PROVE  PollsOpen' /\ StoresSeen'
  BY <1>1 DEF Poll
<1>2. ASSUME NEW r \in Receivers, PollLock(r) \/ PollRecheck(r)
      PROVE  PollsOpen' /\ StoresSeen'
  BY <1>2 DEF PollLock, PollRecheck
<1>3. ASSUME NEW r \in Receivers, PollStore(r)
      PROVE  PollsOpen' /\ StoresSeen'
  BY <1>3 DEF PollStore
<1>4. ASSUME NEW r \in Receivers, Close(r) \/ Drop(r)
      PROVE  PollsOpen' /\ StoresSeen'
  BY <1>4 DEF Close, Drop, Discard
<1>5. ASSUME NEW r \in Receivers, NEW q \in Receivers, Clone(r, q)
      PROVE  PollsOpen' /\ StoresSeen'
  BY <1>5 DEF Clone, ClonedKey
<1>6. ASSUME NEW s \in Senders, Swap(s) \/ SenderUnlock(s)
      PROVE  PollsOpen' /\ StoresSeen'
  BY <1>6 DEF Swap, SenderUnlock
<1>7. ASSUME NEW s \in Senders, SenderLock(s)
      PROVE  PollsOpen' /\ StoresSeen'
  <2>1. \A r \in Receivers : pc[r] # "storing"
    BY <1>7 DEF SenderLock, LockHeld
  <2> QED
    BY <1>7, <2>1 DEF SenderLock
<1>8. ASSUME NEW s \in Senders, NEW k \in Keys, Wake(s, k)
      PROVE  PollsOpen' /\ StoresSeen'
  BY <1>8 DEF Wake
<1>9. CASE UNCHANGED vars
  BY <1>9 DEF vars
<1> QED
  BY <1>1, <1>2, <1>3, <1>4, <1>5, <1>6, <1>7, <1>8, <1>9
  DEF Next, Receive, Send

\* No step loses sight of a waiting task: storing puts it into the slab,
\* waking it takes it out, and between the two only its own poll touches it.
LEMMA WakeupStep ==
  ASSUME TriggerInv, [Next]_vars
  PROVE  WakerFresh' /\ LoopVisitsAll' /\ NoLostWakeup'
<1> DEFINE Goal == WakerFresh' /\ LoopVisitsAll' /\ NoLostWakeup'
<1> USE ConstAssumption DEF TriggerInv, TypeOK, WakerFresh, LoopVisitsAll,
                            NoLostWakeup, Waiting, PollPcs, SendPcs, States,
                            shared, rcvVars, Goto
<1>1. ASSUME NEW r \in Receivers, NEW t \in Tasks, Poll(r, t)
      PROVE  Goal
  BY <1>1 DEF Poll
<1>2. ASSUME NEW r \in Receivers, PollLock(r) \/ PollRecheck(r)
      PROVE  Goal
  BY <1>2 DEF PollLock, PollRecheck, LockHeld
<1>3. ASSUME NEW r \in Receivers, PollStore(r)
      PROVE  Goal
  <2>1. PICK k \in Slots(r) : /\ slab' = [slab EXCEPT ![k] = task[r]]
                              /\ key' = [key EXCEPT ![r] = k]
    BY <1>3 DEF PollStore
  <2>2. k \in Keys /\ \A q \in Receivers : key[q] = k => q = r
    BY DEF Slots, KeysOwned
  <2>3. /\ \A s \in Senders : spc[s] # "waking"
        /\ fired => \E s \in Senders : spc[s] = "won"
    BY <1>3 DEF PollStore, LockHeld, StoresSeen
  <2>4. WakerFresh'
    BY <1>3, <2>1, <2>2 DEF PollStore
  <2>5. LoopVisitsAll' /\ NoLostWakeup'
    BY <1>3, <2>3 DEF PollStore
  <2> QED
    BY <2>4, <2>5
<1>4. ASSUME NEW r \in Receivers, Close(r) \/ Drop(r)
      PROVE  Goal
  <2>1. \A q \in Receivers \ {r} :
          /\ key'[q] = key[q] /\ state'[q] = state[q] /\ pc'[q] = pc[q]
          /\ key[q] # None => slab'[key[q]] = slab[key[q]]
    BY <1>4 DEF Close, Drop, Discard, KeysOwned
  <2>2. key'[r] = None
    BY <1>4 DEF Close, Drop, Discard
  <2>3. \A s \in Senders : spc[s] = "waking" => slab' = slab
    BY <1>4 DEF Close, Drop, Discard, LockHeld
  <2>4. UNCHANGED <<fired, task, woken, spc, todo>>
    BY <1>4 DEF Close, Drop
  <2>5. WakerFresh'
    BY <2>1, <2>2, <2>4
  <2>6. LoopVisitsAll'
    BY <2>1, <2>2, <2>3, <2>4
  <2>7. NoLostWakeup'
    BY <2>1, <2>2, <2>4
  <2> QED
    BY <2>5, <2>6, <2>7
<1>5. ASSUME NEW r \in Receivers, NEW q \in Receivers, Clone(r, q)
      PROVE  Goal
  BY <1>5 DEF Clone, ClonedKey
<1>6. ASSUME NEW s \in Senders, Swap(s)
      PROVE  Goal
  BY <1>6 DEF Swap
<1>7. ASSUME NEW s \in Senders, SenderLock(s)
      PROVE  Goal
  BY <1>7 DEF SenderLock, KeysOwned, LockHeld
<1>8. ASSUME NEW s \in Senders, NEW k \in Keys, Wake(s, k)
      PROVE  Goal
  <2>1. \A r \in Receivers : Waiting(r) /\ pc[r] = "idle" /\ key[r] = k
                             => woken'[r]
    BY <1>8 DEF Wake, PollsOpen
  <2>2. \A r \in Receivers : woken[r] => woken'[r]
    BY <1>8 DEF Wake
  <2>3. WakerFresh'
    BY <1>8, <2>1, <2>2 DEF Wake
  <2>4. LoopVisitsAll'
    BY <1>8, <2>1, <2>2 DEF Wake
  <2>5. NoLostWakeup'
    BY <1>8, <2>2 DEF Wake
  <2> QED
    BY <2>3, <2>4, <2>5
<1>9. ASSUME NEW s \in Senders, SenderUnlock(s)
      PROVE  Goal
  BY <1>9 DEF SenderUnlock
<1>10. CASE UNCHANGED vars
  BY <1>10 DEF vars
<1> QED
  BY <1>1, <1>2, <1>3, <1>4, <1>5, <1>6, <1>7, <1>8, <1>9, <1>10
  DEF Next, Receive, Send

\* TriggerInv is an invariant of the trigger.
THEOREM Invariance == Spec => []TriggerInv
<1>1. TriggerInv /\ [Next]_vars => TriggerInv'
  <2> SUFFICES ASSUME TriggerInv, [Next]_vars
               PROVE  TriggerInv'
    OBVIOUS
  <2>1. TypeOK' /\ KeysOwned' /\ LockHeld' /\ PollsOpen' /\ StoresSeen'
    BY TypeStep, KeysStep, LockStep, PollsStep DEF TriggerInv
  <2>2. WakerFresh' /\ LoopVisitsAll' /\ NoLostWakeup'
    BY WakeupStep
  <2> QED
    BY <2>1, <2>2 DEF TriggerInv
<1> QED
  BY InitInv, <1>1, PTL DEF Spec

\* Every variable of the trigger keeps its type.
THEOREM TypeCorrect == Spec => []TypeOK
  BY Invariance, PTL DEF TriggerInv

\* Keys never dangle, are never shared and never leak (trigger.rs:15-16).
THEOREM KeysAlwaysOwned == Spec => []KeysOwned
  BY Invariance, PTL DEF TriggerInv

\* No task that waits on a receiver misses the trigger (trigger.rs:68-71).
THEOREM WakeupsNeverLost == Spec => []NoLostWakeup
  BY Invariance, PTL DEF TriggerInv

-----------------------------------------------------------------------------
(* Nobody waits on everybody: what CallsReturn rests on besides fairness.  *)

\* A receiver without a key always finds a slot for its waker: the occupied
\* slots belong to other receivers, no two to the same one, and there are no
\* fewer slots than receivers.
LEMMA RoomForOneMore ==
  ASSUME TypeOK, KeysOwned, NEW r \in Receivers, key[r] = None
  PROVE  \E k \in Keys : slab[k] = Vacant
<1> SUFFICES ASSUME \A k \in Keys : slab[k] # Vacant
             PROVE  FALSE
  OBVIOUS
<1> DEFINE Others == Receivers \ {r}
           owner == [k \in Keys |-> CHOOSE q \in Receivers : key[q] = k]
<1>1. \A k \in Keys : owner[k] \in Receivers /\ key[owner[k]] = k
  BY DEF KeysOwned
<1>2. owner \in [Keys -> Others]
  BY <1>1, ConstAssumption
<1>3. IsFiniteSet(Others) /\ Cardinality(Others) = Cardinality(Receivers) - 1
  BY FS_RemoveElement, RoomAssumption
<1>4. Cardinality(Receivers) \in Nat /\ Cardinality(Keys) \in Nat
  BY FS_CardinalityType, RoomAssumption
<1>5. Cardinality(Others) < Cardinality(Keys)
  BY <1>3, <1>4, RoomAssumption
<1> HIDE DEF Others, owner
<1>6. PICK k \in Keys, l \in Keys : k # l /\ owner[k] = owner[l]
  BY <1>2, <1>3, <1>5, RoomAssumption, FS_PigeonHole, Zenon
<1> QED
  BY <1>1, <1>6

\* The invariant leaves nobody stuck.
LEMMA ReadyEnough == TriggerInv => NoDeadlock
<1> SUFFICES ASSUME TriggerInv
             PROVE  NoDeadlock
  OBVIOUS
<1> USE ConstAssumption DEF TriggerInv
<1>1. \A r \in Receivers : pc[r] = "storing" => Slots(r) # {}
  <2> SUFFICES ASSUME NEW r \in Receivers
               PROVE  Slots(r) # {}
    OBVIOUS
  <2>1. CASE key[r] = None
    BY <2>1, RoomForOneMore DEF Slots
  <2>2. CASE key[r] # None
    BY <2>2 DEF Slots, KeysOwned, TypeOK
  <2> QED
    BY <2>1, <2>2
<1>2. \A r \in Receivers : pc[r] \in {"locked", "storing"} => PollReady(r)
  BY <1>1 DEF PollReady
<1>3. lock = None => \A r \in Receivers : pc[r] # "idle" => PollReady(r)
  BY <1>2 DEF PollReady, KeysOwned, TypeOK, PollPcs
<1>4. \A s \in Senders : /\ spc[s] = "waking" => CallReady(s)
                         /\ /\ lock = None
                            /\ spc[s] \notin {"idle", "done"}
                            => CallReady(s)
  BY DEF CallReady, TypeOK, SendPcs
<1> QED
  BY <1>2, <1>3, <1>4 DEF NoDeadlock, LockHeld

\* The holder of the mutex can always go on, and so can everybody else when
\* nobody holds it.
THEOREM NobodyDeadlocks == Spec => []NoDeadlock
  BY Invariance, ReadyEnough, PTL

-----------------------------------------------------------------------------
(* The trigger implements the safety part of the latch.                    *)

\* A step that leaves all receivers but r alone moves the phase of r alone.
LEMMA PhaseMove ==
  ASSUME TypeOK, TypeOK', NEW r \in Receivers,
         \A q \in Receivers \ {r} : state'[q] = state[q] /\ key'[q] = key[q]
  PROVE  phase' = [phase EXCEPT ![r] = phase'[r]]
  BY DEF TypeOK, States, phase

\* Every step of the trigger is a step of the latch or leaves it unchanged.
LEMMA LatchStep ==
  ASSUME TriggerInv, TypeOK', [Next]_vars
  PROVE  [L!Next]_(L!vars)
<1> USE ConstAssumption DEF TriggerInv, L!Become
<1>1. ASSUME UNCHANGED <<fired, state, key>>
      PROVE  UNCHANGED L!vars
  BY <1>1 DEF phase, L!vars
<1>2. ASSUME NEW r \in Receivers,
             \/ \E t \in Tasks : Poll(r, t)
             \/ PollLock(r) \/ PollRecheck(r)
      PROVE  [L!Next]_(L!vars)
  BY <1>1, <1>2 DEF Poll, PollLock, PollRecheck, shared
<1>3. ASSUME NEW r \in Receivers, PollStore(r)
      PROVE  [L!Next]_(L!vars)
  <2>1. PICK k \in Slots(r) : key' = [key EXCEPT ![r] = k]
    BY <1>3 DEF PollStore
  <2>2. k \in Keys /\ (key[r] # None => k = key[r])
    BY DEF Slots
  <2>3. UNCHANGED <<fired, state>> /\ state[r] = "open"
    BY <1>3 DEF PollStore, PollsOpen
  <2>4. CASE key[r] # None
    BY <1>1, <2>1, <2>2, <2>3, <2>4 DEF TypeOK
  <2>5. CASE key[r] = None
    <3>1. phase[r] = "open" /\ phase'[r] = "waiting"
      BY <2>1, <2>2, <2>3, <2>5 DEF TypeOK, phase
    <3>2. phase' = [phase EXCEPT ![r] = "waiting"]
      BY <2>1, <2>3, <3>1, PhaseMove DEF TypeOK
    <3>3. L!Wait(r)
      BY <2>3, <3>1, <3>2 DEF L!Wait
    <3> QED
      BY <3>3 DEF L!Next
  <2> QED
    BY <2>4, <2>5
<1>4. ASSUME NEW r \in Receivers, Close(r)
      PROVE  [L!Next]_(L!vars)
  <2>1. fired /\ UNCHANGED fired /\ state[r] = "open" /\ state'[r] = "closed"
    BY <1>4 DEF Close, PollsOpen, TypeOK
  <2>2. phase[r] \in {"open", "waiting"} /\ phase'[r] = "ready"
    BY <2>1 DEF phase
  <2>3. phase' = [phase EXCEPT ![r] = "ready"]
    BY <1>4, <2>2, PhaseMove DEF Close, Discard, TypeOK
  <2>4. L!Resolve(r)
    BY <2>1, <2>2, <2>3 DEF L!Resolve
  <2> QED
    BY <2>4 DEF L!Next
<1>5. ASSUME NEW r \in Receivers, Drop(r)
      PROVE  [L!Next]_(L!vars)
  <2>1. /\ UNCHANGED fired
        /\ state[r] \in {"open", "closed"} /\ state'[r] = "dropped"
    BY <1>5 DEF Drop, TypeOK
  <2>2. phase[r] \in {"open", "waiting", "ready"} /\ phase'[r] = "dropped"
    BY <2>1 DEF phase
  <2>3. phase' = [phase EXCEPT ![r] = "dropped"]
    BY <1>5, <2>2, PhaseMove DEF Drop, Discard, TypeOK
  <2>4. L!Drop(r)
    BY <2>1, <2>2, <2>3 DEF L!Drop
  <2> QED
    BY <2>4 DEF L!Next
<1>6. ASSUME NEW r \in Receivers, NEW q \in Receivers, Clone(r, q)
      PROVE  [L!Next]_(L!vars)
  <2>1. /\ UNCHANGED fired
        /\ state[r] \in {"open", "closed"} /\ state[q] = "none"
        /\ state'[q] = state[r] /\ key'[q] = None
    BY <1>6 DEF Clone, ClonedKey, TypeOK, shared
  <2>2. /\ phase[r] \in {"open", "waiting", "ready"} /\ phase[q] = "none"
        /\ phase'[q] = IF phase[r] = "ready" THEN "ready" ELSE "open"
    BY <2>1 DEF phase
  <2>3. phase' = [phase EXCEPT ![q] = phase'[q]]
    BY <1>6, PhaseMove DEF Clone, TypeOK
  <2>4. L!Clone(r, q)
    BY <2>1, <2>2, <2>3 DEF L!Clone
  <2> QED
    BY <2>4 DEF L!Next
<1>7. ASSUME NEW s \in Senders, Swap(s)
      PROVE  [L!Next]_(L!vars)
  <2>1. phase' = phase /\ fired' = TRUE
    BY <1>7 DEF Swap, rcvVars, phase
  <2> QED
    BY <2>1 DEF L!Next, L!Fire
<1>8. ASSUME NEW s \in Senders,
             \/ SenderLock(s) \/ SenderUnlock(s)
             \/ \E k \in Keys : Wake(s, k)
      PROVE  [L!Next]_(L!vars)
  BY <1>1, <1>8 DEF SenderLock, SenderUnlock, Wake, rcvVars
<1>9. CASE UNCHANGED vars
  BY <1>1, <1>9 DEF vars
<1> QED
  BY <1>2, <1>3, <1>4, <1>5, <1>6, <1>7, <1>8, <1>9 DEF Next, Receive, Send

\* Whatever the trigger does is what a latch may do: no receiver is ready
\* before the flag is up, none that is ready goes back, and a clone of a
\* receiver that is ready is ready.
THEOREM LatchSafety == Spec => L!SafeSpec
<1>1. Init => L!Init
  BY ConstAssumption DEF Init, L!Init, phase
<1>2. TriggerInv /\ TriggerInv' /\ [Next]_vars => [L!Next]_(L!vars)
  BY LatchStep DEF TriggerInv
<1> QED
  BY <1>1, <1>2, Invariance, PTL DEF Spec, L!SafeSpec

\* No receiver completes before its trigger is pulled: the latch cannot, and
\* a closed receiver is a ready one.
THEOREM NeverReadyEarly ==
  Spec => [](\A r \in Receivers : state[r] = "closed" => fired)
<1> DEFINE Inv == L!TypeOK /\ L!NeverEarly
<1>1. L!Init => Inv
  BY DEF L!Init, L!TypeOK, L!Phases, L!NeverEarly
<1>2. Inv /\ [L!Next]_(L!vars) => Inv'
  <2> SUFFICES ASSUME Inv, [L!Next]_(L!vars)
               PROVE  Inv'
    OBVIOUS
  <2> USE DEF L!TypeOK, L!Phases, L!NeverEarly, L!Become
  <2>1. CASE L!Fire \/ UNCHANGED L!vars
    BY <2>1 DEF L!Fire, L!vars
  <2>2. ASSUME NEW r \in Receivers, L!Wait(r) \/ L!Resolve(r) \/ L!Drop(r)
        PROVE  Inv'
    BY <2>2 DEF L!Wait, L!Resolve, L!Drop
  <2>3. ASSUME NEW r \in Receivers, NEW q \in Receivers, L!Clone(r, q)
        PROVE  Inv'
    BY <2>3 DEF L!Clone
  <2> QED
    BY <2>1, <2>2, <2>3 DEF L!Next
<1>3. L!SafeSpec => []L!NeverEarly
  BY <1>1, <1>2, PTL DEF L!SafeSpec
<1>4. L!NeverEarly => \A r \in Receivers : state[r] = "closed" => fired
  BY DEF L!NeverEarly, phase
<1> QED
  BY <1>3, <1>4, LatchSafety, PTL

=============================================================================
