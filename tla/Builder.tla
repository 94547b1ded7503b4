------------------------------ MODULE Builder -------------------------------
(***************************************************************************)
(* ShutdownBuilder of src/shutdown.rs: a builder whose type says which     *)
(* calls it has (no signal once it has one of its own, no delay without a  *)
(* signal), each of them moving the data of the old builder into the new   *)
(* one.  What is built must be what the calls asked for, in any order.     *)
(***************************************************************************)
EXTENDS Naturals, Sequences, FiniteSetsExt

CONSTANTS Signals,   \* futures and functions given to the builder
          Delays,    \* durations, the zero one among them
          None,      \* Rust's None: no delay, no overwrite function
          Default,   \* sealed::Default: default_signal() unless replaced
          MaxCalls   \* bound on the calls before build()

ASSUME BuilderAssumption == /\ Default \notin Signals
                            /\ None \notin Signals \cup Delays \cup {Default}
                            /\ MaxCalls \in Nat

VARIABLES type,    \* the type parameter of the builder, then "built"
          data,    \* its fields
          calls    \* history: the calls made, with what they were given

vars == <<type, data, calls>>

BuilderTypeOK ==
  /\ type \in {"WithSignal", "WithoutSignal", "WithSignalAndOverwriteFn", "built"}
  /\ data \in [signal : Signals \cup {Default, None},
               overwrite_fn : Signals \cup {None},
               delay : Delays \cup {None}]
  /\ Len(calls) <= MaxCalls

\* ShutdownBuilder::new.
Init == /\ type = "WithSignal"
        /\ data = [signal |-> Default, overwrite_fn |-> None, delay |-> None]
        /\ calls = <<>>

Call(name, arg) == /\ Len(calls) < MaxCalls
                   /\ calls' = Append(calls, [name |-> name, arg |-> arg])

\* Only the default signal can be given up; a delay goes with it.
without_signal ==
  /\ type = "WithSignal" /\ data.signal = Default
  /\ Call("without_signal", None)
  /\ type' = "WithoutSignal"
  /\ data' = [signal |-> None, overwrite_fn |-> None, delay |-> None]

\* Only the default signal can be replaced.
with_signal(future) ==
  /\ type = "WithSignal" /\ data.signal = Default
  /\ Call("with_signal", future)
  /\ data' = [data EXCEPT !.signal = future]
  /\ UNCHANGED type

\* Faulty variant: a new builder, with no delay yet.
with_overwrite_fn_resets(f) ==
  /\ type = "WithSignal"
  /\ Call("with_overwrite_fn", f)
  /\ type' = "WithSignalAndOverwriteFn"
  /\ data' = [data EXCEPT !.overwrite_fn = f, !.delay = None]

\* With any signal, the default one too, but only once.
with_overwrite_fn(f) ==
  /\ type = "WithSignal"
  /\ Call("with_overwrite_fn", f)
  /\ type' = "WithSignalAndOverwriteFn"
  /\ data' = [data EXCEPT !.overwrite_fn = f]

\* with_delay, maybe_with_delay and set_delay of both types that have them;
\* only maybe_with_delay can take a delay away.
set_delay(delay) ==
  /\ type \in {"WithSignal", "WithSignalAndOverwriteFn"}
  /\ Call("delay", delay)
  /\ data' = [data EXCEPT !.delay = delay]
  /\ UNCHANGED type

build == type # "built" /\ type' = "built" /\ UNCHANGED <<data, calls>>

Next == \/ without_signal
        \/ \E s \in Signals : with_signal(s) \/ with_overwrite_fn(s)
        \/ \E d \in Delays \cup {None} : set_delay(d)
        \/ build

Spec == Init /\ [][Next]_vars

-----------------------------------------------------------------------------
(* Properties. *)

Made(name) == {i \in DOMAIN calls : calls[i].name = name}

\* The argument of the last call of that name, or what holds without one.
LastArg(name, otherwise) ==
  IF Made(name) = {} THEN otherwise ELSE calls[Max(Made(name))].arg

\* Whatever the order of the calls, the Shutdown is built with the signal, the
\* overwrite function and the last delay it was asked to have, and as a wait
\* group (no delay) if it was asked to have no signal (shutdown.rs:43-44).
BuiltAsAsked ==
  data = IF Made("without_signal") # {}
         THEN [signal |-> None, overwrite_fn |-> None, delay |-> None]
         ELSE [signal |-> LastArg("with_signal", Default),
               overwrite_fn |-> LastArg("with_overwrite_fn", None),
               delay |-> LastArg("delay", None)]

\* The type of the builder, which decides which build() there is, agrees with
\* the data that build() takes apart; without a signal there is neither delay
\* nor overwrite, so that what is built is one of the Setups of module
\* Shutdown (shutdown.rs:43-44, 157-286).
TypeTellsData ==
  /\ type = "WithoutSignal" => data.signal = None
  /\ type = "WithSignal" => data.signal # None /\ data.overwrite_fn = None
  /\ type = "WithSignalAndOverwriteFn"
       => data.signal # None /\ data.overwrite_fn # None
  /\ data.signal = None => data.overwrite_fn = None /\ data.delay = None
=============================================================================
