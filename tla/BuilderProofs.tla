---------------------------- MODULE BuilderProofs ----------------------------
(***************************************************************************)
(* Theorems about module Builder, for any arguments and any number of      *)
(* calls: what is built is what was asked for.                             *)
(***************************************************************************)
EXTENDS Builder, TLAPS

Names == {"without_signal", "with_signal", "with_overwrite_fn", "delay"}
Args == Signals \cup Delays \cup {None}

\* A builder that has a signal was never asked to have none; calls that were
\* made have a last one.
BuilderInv ==
  /\ BuilderTypeOK
  /\ calls \in Seq([name : Names, arg : Args])
  /\ type \in {"WithSignal", "WithSignalAndOverwriteFn"}
       => Made("without_signal") = {}
  /\ \A m \in Names : Made(m) # {} => Max(Made(m)) \in Made(m)
  /\ BuiltAsAsked /\ TypeTellsData

\* One call more is the last of its name, and leaves the other names alone.
LEMMA CallMade ==
  ASSUME BuilderInv, NEW n \in Names, NEW a \in Args, Call(n, a)
  PROVE  /\ calls' \in Seq([name : Names, arg : Args]) /\ Len(calls') <= MaxCalls
         /\ Made(n)' # {} /\ Max(Made(n)') \in Made(n)'
         /\ \A m \in Names \ {n} : Made(m)' = Made(m)
         /\ \A o \in {Default, None} :
              /\ LastArg(n, o)' = a
              /\ \A m \in Names \ {n} : LastArg(m, o)' = LastArg(m, o)
<1> USE BuilderAssumption DEF BuilderInv, BuilderTypeOK, Call
<1> DEFINE last == Len(calls) + 1
<1>1. /\ calls' \in Seq([name : Names, arg : Args])
      /\ Len(calls') = last /\ last \in Nat /\ last <= MaxCalls
      /\ calls'[last] = [name |-> n, arg |-> a]
      /\ \A i \in DOMAIN calls : calls'[i] = calls[i]
  OBVIOUS
<1>2. DOMAIN calls = 1..Len(calls) /\ DOMAIN calls' = 1..last
  BY <1>1
<1>3. last \in Made(n)' /\ \A i \in Made(n)' : i \in Nat /\ i <= last
  BY <1>1, <1>2 DEF Made
<1>4. Max(Made(n)') = last
  <2>1. \A x \in Made(n)' : (\A y \in Made(n)' : x >= y) => x = last
    BY <1>1, <1>3
  <2> QED
    BY <1>1, <1>3, <2>1 DEF Max
<1>5. ASSUME NEW m \in Names \ {n}
      PROVE  Made(m)' = Made(m)
  BY <1>1, <1>2 DEF Made
<1>6. ASSUME NEW m \in Names \ {n}, NEW o \in {Default, None}
      PROVE  LastArg(m, o)' = LastArg(m, o)
  <2>1. Made(m)' = Made(m)
    BY <1>5
  <2>2. Made(m) # {} => calls'[Max(Made(m))] = calls[Max(Made(m))]
    BY <1>1 DEF Made
  <2> QED
    BY <2>1, <2>2 DEF LastArg
<1>7. ASSUME NEW o \in {Default, None}
      PROVE  LastArg(n, o)' = a
  <2>1. Made(n)' # {}
    BY <1>3
  <2> QED
    BY <1>1, <1>4, <2>1 DEF LastArg
<1> QED
  BY <1>1, <1>3, <1>4, <1>5, <1>6, <1>7

LEMMA BuilderInitInv == Init => BuilderInv
<1> SUFFICES ASSUME Init
             PROVE  BuilderInv
  OBVIOUS
<1> USE BuilderAssumption DEF Init
<1>1. calls \in Seq([name : Names, arg : Args]) /\ Len(calls) <= MaxCalls
  OBVIOUS
<1>2. \A m \in Names : Made(m) = {}
  BY DEF Made
<1>3. BuilderTypeOK
  BY <1>1 DEF BuilderTypeOK
<1>4. BuiltAsAsked
  BY <1>2 DEF BuiltAsAsked, LastArg, Names
<1>5. TypeTellsData
  BY DEF TypeTellsData
<1> QED
  BY <1>1, <1>2, <1>3, <1>4, <1>5 DEF BuilderInv, Names

\* Each call makes of the data what its new type says.
LEMMA TypeTellsStep ==
  ASSUME BuilderTypeOK, TypeTellsData, [Next]_vars
  PROVE  TypeTellsData'
<1> USE BuilderAssumption DEF BuilderTypeOK, TypeTellsData
<1>1. CASE without_signal \/ build \/ UNCHANGED vars
  BY <1>1 DEF without_signal, build, vars
<1>2. ASSUME NEW s \in Signals, with_signal(s) \/ with_overwrite_fn(s)
      PROVE  TypeTellsData'
  BY <1>2 DEF with_signal, with_overwrite_fn
<1>3. ASSUME NEW d \in Delays \cup {None}, set_delay(d)
      PROVE  TypeTellsData'
  BY <1>3 DEF set_delay
<1> QED
  BY <1>1, <1>2, <1>3 DEF Next

LEMMA BuilderInvStep == BuilderInv /\ [Next]_vars => BuilderInv'
<1> SUFFICES ASSUME BuilderInv, [Next]_vars
             PROVE  BuilderInv'
  OBVIOUS
<1> USE BuilderAssumption DEF Names, Args
<1>1. data = IF Made("without_signal") # {}
             THEN [signal |-> None, overwrite_fn |-> None, delay |-> None]
             ELSE [signal |-> LastArg("with_signal", Default),
                   overwrite_fn |-> LastArg("with_overwrite_fn", None),
                   delay |-> LastArg("delay", None)]
  BY DEF BuilderInv, BuiltAsAsked
<1>2. /\ type \in {"WithSignal", "WithSignalAndOverwriteFn"}
           => Made("without_signal") = {}
      /\ BuilderTypeOK
      /\ \A m \in Names : Made(m) # {} => Max(Made(m)) \in Made(m)
  BY DEF BuilderInv
<1>3. TypeTellsData'
  BY TypeTellsStep DEF BuilderInv
<1>4. CASE without_signal
  <2>1. Call("without_signal", None)
    BY <1>4 DEF without_signal
  <2> QED
    BY <1>2, <1>4, <1>3, <2>1, CallMade
       DEF without_signal, BuilderInv, BuilderTypeOK, BuiltAsAsked
<1>5. ASSUME NEW s \in Signals, with_signal(s)
      PROVE  BuilderInv'
  <2>1. Call("with_signal", s) /\ Made("without_signal") = {}
    BY <1>2, <1>5 DEF with_signal
  <2>2. /\ LastArg("with_signal", Default)' = s
        /\ LastArg("with_overwrite_fn", None)'
             = LastArg("with_overwrite_fn", None)
        /\ LastArg("delay", None)' = LastArg("delay", None)
        /\ Made("without_signal")' = {}
    BY <2>1, CallMade
  <2>3. data' = [signal |-> s,
                overwrite_fn |-> LastArg("with_overwrite_fn", None),
                delay |-> LastArg("delay", None)]
    BY <1>1, <1>5, <2>1 DEF with_signal
  <2>4. BuiltAsAsked'
    BY <2>2, <2>3 DEF BuiltAsAsked
  <2>5. BuilderTypeOK'
    BY <1>2, <1>5, <2>1, CallMade DEF with_signal, BuilderTypeOK
  <2> QED
    BY <1>2, <1>3, <2>1, <2>2, <2>4, <2>5, CallMade DEF BuilderInv
<1>6. ASSUME NEW s \in Signals, with_overwrite_fn(s)
      PROVE  BuilderInv'
  <2>1. Call("with_overwrite_fn", s) /\ Made("without_signal") = {}
    BY <1>2, <1>6 DEF with_overwrite_fn
  <2>2. /\ LastArg("with_signal", Default)' = LastArg("with_signal", Default)
        /\ LastArg("with_overwrite_fn", None)'
             = s
        /\ LastArg("delay", None)' = LastArg("delay", None)
        /\ Made("without_signal")' = {}
    BY <2>1, CallMade
  <2>3. data' = [signal |-> LastArg("with_signal", Default),
                overwrite_fn |-> s,
                delay |-> LastArg("delay", None)]
    BY <1>1, <1>6, <2>1 DEF with_overwrite_fn
  <2>4. BuiltAsAsked'
    BY <2>2, <2>3 DEF BuiltAsAsked
  <2>5. BuilderTypeOK'
    BY <1>2, <1>6, <2>1, CallMade DEF with_overwrite_fn, BuilderTypeOK
  <2> QED
    BY <1>2, <1>3, <2>1, <2>2, <2>4, <2>5, CallMade DEF BuilderInv
<1>7. ASSUME NEW d \in Delays \cup {None}, set_delay(d)
      PROVE  BuilderInv'
  <2>1. Call("delay", d) /\ Made("without_signal") = {}
    BY <1>2, <1>7 DEF set_delay
  <2>2. /\ LastArg("with_signal", Default)' = LastArg("with_signal", Default)
        /\ LastArg("with_overwrite_fn", None)'
             = LastArg("with_overwrite_fn", None)
        /\ LastArg("delay", None)' = d
        /\ Made("without_signal")' = {}
    BY <2>1, CallMade
  <2>3. data' = [signal |-> LastArg("with_signal", Default),
                overwrite_fn |-> LastArg("with_overwrite_fn", None),
                delay |-> d]
    BY <1>1, <1>7, <2>1 DEF set_delay
  <2>4. BuiltAsAsked'
    BY <2>2, <2>3 DEF BuiltAsAsked
  <2>5. BuilderTypeOK'
    BY <1>2, <1>7, <2>1, CallMade DEF set_delay, BuilderTypeOK
  <2> QED
    BY <1>2, <1>3, <2>1, <2>2, <2>4, <2>5, CallMade DEF BuilderInv
<1>8. CASE build \/ UNCHANGED vars
  <2>1. UNCHANGED <<data, calls>> /\ (type' = type \/ type' = "built")
    BY <1>8 DEF build, vars
  <2>2. \A m \in Names : Made(m)' = Made(m)
    BY <2>1 DEF Made
  <2>3. \A m \in Names, o \in {Default, None} : LastArg(m, o)' = LastArg(m, o)
    BY <2>1, <2>2 DEF LastArg
  <2>4. BuiltAsAsked'
    BY <1>1, <2>1, <2>2, <2>3 DEF BuiltAsAsked
  <2>5. BuilderTypeOK'
    BY <1>2, <2>1 DEF BuilderTypeOK
  <2> QED
    BY <1>3, <2>1, <2>2, <2>4, <2>5 DEF BuilderInv
<1> QED
  BY <1>4, <1>5, <1>6, <1>7, <1>8 DEF Next

\* The invariant holds in every reachable state.
THEOREM BuilderInvariance == Spec => []BuilderInv
  BY BuilderInitInv, BuilderInvStep, PTL DEF Spec

\* Each field has an argument of its own kind, or its default.
THEOREM BuilderTypeCorrect == Spec => []BuilderTypeOK
<1>1. BuilderInv => BuilderTypeOK
  BY DEF BuilderInv
<1> QED
  BY <1>1, BuilderInvariance, PTL

\* Whatever was called, in whatever order, is what is built (shutdown.rs:43-152).
THEOREM AlwaysBuiltAsAsked == Spec => []BuiltAsAsked
<1>1. BuilderInv => BuiltAsAsked
  BY DEF BuilderInv
<1> QED
  BY <1>1, BuilderInvariance, PTL

\* The build() that the builder's type has is the one for its data.
THEOREM TypeAlwaysTells == Spec => []TypeTellsData
<1>1. BuilderInv => TypeTellsData
  BY DEF BuilderInv
<1> QED
  BY <1>1, BuilderInvariance, PTL
=============================================================================
