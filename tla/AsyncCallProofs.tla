-------------------------- MODULE AsyncCallProofs ---------------------------
(* The memory of an asynchronous call, for any number of calls.            *)
EXTENDS AsyncCall, TLAPS

(***************************************************************************)
(* The stages of a call: what is allocated at each, and that the callback  *)
(* is set only at the end.  Only a call that waits can be completed, and   *)
(* then its reference is the caller's.                                     *)
(***************************************************************************)
Stages ==
  \A c \in Calls :
    /\ pc[c] = "idle" => pending[c] = "none" /\ called[c] = 0
    /\ pc[c] \in {"send", "notify"} =>
         req[c] = "live" /\ context[c] = "live" /\ called[c] = 0
    /\ pc[c] = "send" => pending[c] = "none"
    /\ pc[c] = "notify" /\ pending[c] # "none" => ref[c] = "live"
    /\ notify[c] => pc[c] = "returned" /\ pending[c] # "none"
    /\ notify[c] /\ pending[c] = "waiting" => called[c] = 0

IInv == TypeOK /\ Stages /\ CallbackHasItsMemory /\ CallbackReleases

(* The invariant holds initially and is kept by every step: each step      *)
(* changes one call, or only the connection.                               *)
THEOREM Invariance == Spec => []IInv
<1>1. Init => IInv
  BY DEF Init, IInv, TypeOK, Stages, CallbackHasItsMemory, CallbackReleases
<1>2. IInv /\ [Next]_vars => IInv'
  <2> SUFFICES ASSUME IInv, [Next]_vars PROVE IInv'
    OBVIOUS
  <2> USE DEF IInv, TypeOK, Stages, CallbackHasItsMemory, CallbackReleases
  <2>1. ASSUME NEW c \in Calls, Compose(c) PROVE IInv'
    BY <2>1 DEF Compose, Return
  <2>2. ASSUME NEW c \in Calls, Send(c) PROVE IInv'
    BY <2>2 DEF Send, Return
  <2>3. ASSUME NEW c \in Calls, SetNotify(c) PROVE IInv'
    BY <2>3 DEF SetNotify, Return, mem
  <2>4. ASSUME NEW c \in Calls, Answer(c) PROVE IInv'
    BY <2>4 DEF Answer, mem
  <2>5. ASSUME NEW c \in Calls, Complete(c) PROVE IInv'
    <3>1. CASE notify[c]
      BY <2>5, <3>1 DEF Complete, dbus_func_args_async_callback
    <3>2. CASE ~notify[c]
      BY <2>5, <3>2 DEF Complete, mem
    <3> QED BY <3>1, <3>2
  <2>6. CASE Disconnect
    <3>1. /\ UNCHANGED <<pc, result, context, req, ref, pending, notify, called, answered>>
          /\ connected' = FALSE
      BY <2>6 DEF Disconnect, mem
    <3>2. TypeOK'
      BY <3>1
    <3>3. Stages'
      BY <3>1
    <3>4. CallbackHasItsMemory' /\ CallbackReleases'
      BY <3>1
    <3> QED BY <3>2, <3>3, <3>4
  <2>7. CASE UNCHANGED vars
    BY <2>7 DEF vars, mem
  <2> QED BY <2>1, <2>2, <2>3, <2>4, <2>5, <2>6, <2>7 DEF Next
<1> QED BY <1>1, <1>2, PTL DEF Spec

(* The callback never runs on memory that is gone: whenever libdbus may    *)
(* call it, the request, the context and the reference are allocated.      *)
THEOREM CallbackMemory == Spec => []CallbackHasItsMemory
<1>1. IInv => CallbackHasItsMemory
  BY DEF IInv
<1> QED BY <1>1, Invariance, PTL

(* The callback of a call runs at most once; when it has run all memory of *)
(* the call is released, and before that none.                             *)
THEOREM CallbackReleasesAll == Spec => []CallbackReleases
<1>1. IInv => CallbackReleases
  BY DEF IInv
<1> QED BY <1>1, Invariance, PTL
=============================================================================
