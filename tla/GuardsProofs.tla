---------------------------- MODULE GuardsProofs ----------------------------
(***************************************************************************)
(* Theorems about module Guards, for any finite set of handles.  Every     *)
(* step is first reduced to one of four shapes (a strong guard comes, one  *)
(* goes, the trigger is pulled, nothing that counts): the invariant and    *)
(* the refinement are then proved about shapes.                            *)
(***************************************************************************)
EXTENDS Guards, FiniteSetTheorems, TLAPS

GuardsInv == GuardsTypeOK /\ CountExact /\ ZeroNotForgotten /\ ZeroMeansNone

Comes(h) ==
  /\ h \in Guards \ Strong /\ Strong' = Strong \cup {h}
  /\ ref_count' = ref_count + 1
  /\ zero' = zero /\ Releasing' = Releasing
  /\ (revived \/ Strong = {}) => revived'

Goes(g) ==
  /\ g \in Strong /\ Strong' = Strong \ {g}
  /\ ref_count' = ref_count - 1
  /\ zero' = zero /\ revived' = revived
  /\ Releasing' = IF Strong = {g} THEN Releasing \cup {g} ELSE Releasing

Pulls ==
  /\ Releasing # {} /\ zero' = TRUE
  /\ Strong' = Strong /\ ref_count' = ref_count /\ revived' = revived

Keeps ==
  /\ Strong' = Strong /\ Releasing' = Releasing
  /\ ref_count' = ref_count /\ zero' = zero /\ revived' = revived

\* The strong guards are finitely many, and what the count says of them.
LEMMA CountFacts ==
  ASSUME GuardsTypeOK, CountExact
  PROVE  /\ IsFiniteSet(Strong) /\ ref_count \in Nat
         /\ ref_count = 0 <=> Strong = {}
         /\ \A g \in Strong : ref_count = 1 <=> Strong = {g}
<1>1. Strong \subseteq Guards
  BY DEF Strong
<1>2. IsFiniteSet(Strong)
  BY <1>1, GuardsAssumption, FS_Subset
<1>3. ref_count = Cardinality(Strong) /\ ref_count \in Nat
  BY <1>2, FS_CardinalityType DEF CountExact
<1>4. ref_count = 0 <=> Strong = {}
  BY <1>2, <1>3, FS_EmptySet
<1>5. ASSUME NEW g \in Strong
      PROVE  ref_count = 1 <=> Strong = {g}
  BY <1>2, <1>3, <1>5, FS_Singleton
<1> QED
  BY <1>2, <1>3, <1>4, <1>5

\* The release of a strong guard has the shape Goes.
LEMMA ReleaseGoes ==
  ASSUME GuardsTypeOK, CountExact, NEW g \in Guards,
         NEW last \in {"dropping", "downgrading"}, NEW kind \in {"gone", "weak"},
         Release(g, last, kind)
  PROVE  Goes(g)
<1>1. g \in Strong
  BY DEF Release, Strong
<1>2. ref_count = 1 <=> Strong = {g}
  BY <1>1, CountFacts
<1>3. Strong' = Strong \ {g}
  BY DEF Release, Strong, GuardsTypeOK
<1>4. Releasing' = IF ref_count = 1 THEN Releasing \cup {g} ELSE Releasing
  BY DEF Release, Releasing, GuardsTypeOK
<1> QED
  BY <1>1, <1>2, <1>3, <1>4 DEF Release, Goes

\* Every step has one of the four shapes.
LEMMA StepShape ==
  ASSUME GuardsTypeOK, CountExact, GuardsNext
  PROVE  \/ \E g \in Guards : Comes(g) \/ Goes(g)
         \/ Pulls \/ Keeps
<1> USE DEF GuardsTypeOK, Strong, Releasing, Usable, Make
<1>1. ASSUME NEW g \in Guards, NEW h \in Guards,
             CloneStrong(g, h) \/ SpawnTask(g, h)
      PROVE  Comes(h)
  BY <1>1 DEF CloneStrong, SpawnTask, Comes
<1>2. ASSUME NEW g \in Guards, NEW h \in Guards, CloneWeak(g, h)
      PROVE  Keeps
  BY <1>2 DEF CloneWeak, Keeps
<1>3. ASSUME NEW g \in Guards, IntoSpawnTask(g) \/ DropWeak(g)
      PROVE  Keeps
  BY <1>3 DEF IntoSpawnTask, DropWeak, Keeps
<1>4. ASSUME NEW g \in Guards, Upgrade(g)
      PROVE  Comes(g)
  <2>1. ref_count = 0 <=> Strong = {}
    BY CountFacts
  <2> QED
    BY <1>4, <2>1 DEF Upgrade, Comes
<1>5. ASSUME NEW g \in Guards, DropStrong(g) \/ TaskEnds(g) \/ Downgrade(g)
      PROVE  Goes(g)
  BY <1>5, ReleaseGoes DEF DropStrong, TaskEnds, Downgrade
<1>6. ASSUME NEW g \in Guards, TriggerZero(g)
      PROVE  Pulls
  BY <1>6 DEF TriggerZero, Pulls
<1> QED
  BY <1>1, <1>2, <1>3, <1>4, <1>5, <1>6 DEF GuardsNext, Share, Spend

-----------------------------------------------------------------------------
(* The invariant. *)

LEMMA GuardsInitInv == GuardsInit => GuardsInv
<1> SUFFICES ASSUME GuardsInit
             PROVE  GuardsInv
  OBVIOUS
<1>1. Strong = {Own} /\ Releasing = {}
  BY GuardsAssumption DEF GuardsInit, Strong, Releasing
<1>2. Cardinality(Strong) = 1
  BY <1>1, FS_Singleton
<1>3. Cardinality(Guards) \in Nat /\ 1 <= Cardinality(Guards)
  BY <1>1, <1>2, GuardsAssumption, FS_Subset, FS_CardinalityType DEF Strong
<1>4. GuardsTypeOK
  <2>1. ref_count \in 0..Cardinality(Guards)
    BY <1>3 DEF GuardsInit
  <2>2. /\ guard \in [Guards -> Kinds] /\ owner \in [Guards -> {"user", "task"}]
        /\ zero \in BOOLEAN /\ revived \in BOOLEAN
    BY DEF GuardsInit, Kinds
  <2> QED
    BY <2>1, <2>2 DEF GuardsTypeOK
<1>5. CountExact
  BY <1>2 DEF GuardsInit, CountExact
<1>6. ZeroNotForgotten /\ ZeroMeansNone
  BY <1>1 DEF GuardsInit, ZeroNotForgotten, ZeroMeansNone
<1> QED
  BY <1>4, <1>5, <1>6 DEF GuardsInv

HandlesOK == /\ guard \in [Guards -> Kinds]
             /\ owner \in [Guards -> {"user", "task"}]
             /\ zero \in BOOLEAN /\ revived \in BOOLEAN

\* The variables other than the counter keep their types.
LEMMA HandleTypes ==
  ASSUME GuardsTypeOK, GuardsNext
  PROVE  HandlesOK'
<1> USE DEF GuardsTypeOK, HandlesOK, Kinds, Make, Usable
<1>1. ASSUME NEW g \in Guards, NEW h \in Guards,
             CloneStrong(g, h) \/ CloneWeak(g, h) \/ SpawnTask(g, h)
      PROVE  HandlesOK'
  BY <1>1 DEF CloneStrong, CloneWeak, SpawnTask
<1>2. ASSUME NEW g \in Guards,
             IntoSpawnTask(g) \/ Upgrade(g) \/ TriggerZero(g) \/ DropWeak(g)
      PROVE  HandlesOK'
  BY <1>2 DEF IntoSpawnTask, Upgrade, TriggerZero, DropWeak
<1>3. ASSUME NEW g \in Guards, DropStrong(g) \/ TaskEnds(g) \/ Downgrade(g)
      PROVE  HandlesOK'
  BY <1>3 DEF DropStrong, TaskEnds, Downgrade, Release
<1> QED
  BY <1>1, <1>2, <1>3 DEF GuardsNext, Share, Spend
\* The counter stays exact, and in its range.
LEMMA CountStep ==
  ASSUME GuardsTypeOK, CountExact, GuardsNext
  PROVE  CountExact' /\ ref_count' \in 0..Cardinality(Guards)
<1>1. IsFiniteSet(Strong) /\ ref_count = Cardinality(Strong)
  BY CountFacts DEF CountExact
<1>2. Cardinality(Strong) \in Nat
  BY <1>1, FS_CardinalityType
<1>3. CountExact'
  <2>1. ASSUME NEW h \in Guards, Comes(h)
        PROVE  CountExact'
    BY <1>1, <2>1, FS_AddElement DEF Comes, CountExact
  <2>2. ASSUME NEW g \in Guards, Goes(g)
        PROVE  CountExact'
    BY <1>1, <2>2, FS_RemoveElement DEF Goes, CountExact
  <2>3. ASSUME Pulls \/ Keeps
        PROVE  CountExact'
    BY <1>1, <2>3 DEF Pulls, Keeps, CountExact
  <2> QED
    BY <2>1, <2>2, <2>3, StepShape
<1>4. Strong' \subseteq Guards
  BY DEF Strong
<1>5. /\ Cardinality(Strong') \in Nat /\ Cardinality(Guards) \in Nat
      /\ Cardinality(Strong') <= Cardinality(Guards)
  BY <1>4, GuardsAssumption, FS_Subset, FS_CardinalityType
<1> QED
  BY <1>3, <1>5 DEF CountExact

\* The zero trigger is pulled or about to be exactly when it should.
LEMMA ZeroStep ==
  ASSUME GuardsInv, GuardsNext
  PROVE  ZeroNotForgotten' /\ ZeroMeansNone'
<1> USE DEF GuardsInv, ZeroNotForgotten, ZeroMeansNone
<1>1. /\ GuardsTypeOK /\ CountExact /\ ref_count \in Nat
      /\ ref_count = 0 <=> Strong = {}
      /\ \A g \in Strong : ref_count = 1 <=> Strong = {g}
  BY CountFacts
<1>2. ASSUME NEW h \in Guards, Comes(h)
      PROVE  ZeroNotForgotten' /\ ZeroMeansNone'
  BY <1>1, <1>2 DEF Comes
<1>3. ASSUME NEW g \in Guards, Goes(g)
      PROVE  ZeroNotForgotten' /\ ZeroMeansNone'
  BY <1>1, <1>3 DEF Goes
<1>4. ASSUME Pulls
      PROVE  ZeroNotForgotten' /\ ZeroMeansNone'
  BY <1>4 DEF Pulls
<1>5. ASSUME Keeps
      PROVE  ZeroNotForgotten' /\ ZeroMeansNone'
  BY <1>5 DEF Keeps
<1> QED
  BY <1>1, <1>2, <1>3, <1>4, <1>5, StepShape

LEMMA GuardsInvStep == GuardsInv /\ [GuardsNext]_guardVars => GuardsInv'
<1> SUFFICES ASSUME GuardsInv, [GuardsNext]_guardVars
             PROVE  GuardsInv'
  OBVIOUS
<1>1. CASE GuardsNext
  BY <1>1, HandleTypes, CountStep, ZeroStep
     DEF GuardsInv, GuardsTypeOK, HandlesOK
<1>2. CASE UNCHANGED guardVars
  BY <1>2 DEF guardVars, GuardsInv, GuardsTypeOK, CountExact, ZeroMeansNone,
              ZeroNotForgotten, Strong, Releasing
<1> QED
  BY <1>1, <1>2

\* The four properties of the guards hold in every reachable state.
THEOREM GuardsInvariance == GuardsSpec => []GuardsInv
  BY GuardsInitInv, GuardsInvStep, PTL DEF GuardsSpec

\* Types are right (the counter never goes below zero, guard.rs:196).
THEOREM GuardsTypeCorrect == GuardsSpec => []GuardsTypeOK
<1>1. GuardsInv => GuardsTypeOK
  BY DEF GuardsInv
<1> QED
  BY <1>1, GuardsInvariance, PTL

\* The counter is the number of strong guards (guard.rs:178-202).
THEOREM CountAlwaysExact == GuardsSpec => []CountExact
<1>1. GuardsInv => CountExact
  BY DEF GuardsInv
<1> QED
  BY <1>1, GuardsInvariance, PTL

\* The last strong guard to go pulls the zero trigger (guard.rs:198-200).
THEOREM ZeroNeverForgotten == GuardsSpec => []ZeroNotForgotten
<1>1. GuardsInv => ZeroNotForgotten
  BY DEF GuardsInv
<1> QED
  BY <1>1, GuardsInvariance, PTL

\* A strong guard holds the zero trigger back (guard.rs:8-9), but for those
\* upgraded after the last one was gone.
THEOREM ZeroAlwaysMeansNone == GuardsSpec => []ZeroMeansNone
<1>1. GuardsInv => ZeroMeansNone
  BY DEF GuardsInv
<1> QED
  BY <1>1, GuardsInvariance, PTL

-----------------------------------------------------------------------------
(* The refinement: guards are a wait group. *)

\* Every step is one of the wait group or leaves it as it is.
LEMMA WaitGroupStep ==
  ASSUME GuardsInv, [GuardsNext]_guardVars
  PROVE  [W!Next]_(W!vars)
<1> USE DEF W!vars, W!Next
<1>1. ASSUME NEW h \in Guards, Comes(h)
      PROVE  W!Next
  <2>1. W!Join(h)
    BY <1>1 DEF Comes, W!Join
  <2> QED
    BY <2>1
<1>2. ASSUME NEW g \in Guards, Goes(g)
      PROVE  W!Next
  <2>1. W!Leave(g)
    BY <1>2 DEF Goes, W!Leave
  <2> QED
    BY <2>1
<1>3. ASSUME Pulls
      PROVE  W!Next
  <2>1. W!Release
    BY <1>3 DEF Pulls, W!Release
  <2> QED
    BY <2>1
<1>4. ASSUME Keeps
      PROVE  UNCHANGED W!vars
  BY <1>4 DEF Keeps
<1>5. ASSUME UNCHANGED guardVars
      PROVE  UNCHANGED W!vars
  BY <1>5 DEF guardVars, Strong, Releasing
<1> QED
  BY <1>1, <1>2, <1>3, <1>4, <1>5, StepShape DEF GuardsInv

\* The guards implement the safety part of the wait group: the group is
\* released only once it has been empty.
THEOREM WaitGroupSafety == GuardsSpec => W!SafeSpec
<1>1. GuardsInit => W!Init
  <2> SUFFICES ASSUME GuardsInit
               PROVE  W!Init
    OBVIOUS
  <2> QED
    BY GuardsAssumption DEF GuardsInit, W!Init, Strong, Releasing
<1>2. GuardsInv /\ [GuardsNext]_guardVars => [W!Next]_(W!vars)
  BY WaitGroupStep
<1> QED
  BY <1>1, <1>2, GuardsInvariance, PTL DEF GuardsSpec, W!SafeSpec
=============================================================================
