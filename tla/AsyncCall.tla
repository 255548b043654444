------------------------------ MODULE AsyncCall -----------------------------
(***************************************************************************)
(* Asynchronous D-Bus calls: createPairedDevice, discoverServices and      *)
(* createDevice of the service API, and dbus_func_args_async below them.   *)
(*                                                                         *)
(* A call allocates a context for its callback and a request that holds    *)
(* callback and context, sends the message, and only then tells libdbus    *)
(* which function to call.  The reply is dispatched by the event loop, in  *)
(* another thread, at any moment after the message was sent.               *)
(*                                                                         *)
(* A block of memory is "none", "live" or "freed".                         *)
(***************************************************************************)
EXTENDS Naturals

CONSTANTS Calls,       \* calls of the service API
          OutOfMemory, \* an allocation may fail
          Disconnects  \* the bus may close the connection

VARIABLES pc,        \* per call: "idle", "send", "notify" or "returned"
          result,    \* per call: what dbus_func_args_async returned
          context,   \* per call: the block user_cb frees
          req,       \* per call: the block of dbus_async_call_t
          pending,   \* per call: "none", "waiting" or "complete"
          ref,       \* per call: the reference to the pending call
          notify,    \* per call: the callback is set
          called,    \* per call: how often user_cb ran
          answered,  \* per call: the remote object has replied
          connected  \* the connection is open

mem == <<context, req, ref>>
vars == <<pc, result, mem, pending, notify, called, answered, connected>>

Init == /\ pc = [c \in Calls |-> "idle"]
        /\ result = [c \in Calls |-> "none"]
        /\ context = [c \in Calls |-> "none"]
        /\ req = [c \in Calls |-> "none"]
        /\ pending = [c \in Calls |-> "none"]
        /\ ref = [c \in Calls |-> "none"]
        /\ notify = [c \in Calls |-> FALSE]
        /\ called = [c \in Calls |-> 0]
        /\ answered = [c \in Calls |-> FALSE]
        /\ connected = TRUE

Return(c, r) == /\ pc' = [pc EXCEPT ![c] = "returned"]
                /\ result' = [result EXCEPT ![c] = r]

(***************************************************************************)
(* The service function copies its argument into a context and composes    *)
(* the message; if the message or the request cannot be allocated it       *)
(* returns -1, and leaves the context.                                     *)
(***************************************************************************)
Compose(c) ==
  /\ pc[c] = "idle"
  /\ context' = [context EXCEPT ![c] = "live"]
  /\ \/ OutOfMemory /\ Return(c, "FALSE") /\ UNCHANGED req
     \/ /\ req' = [req EXCEPT ![c] = "live"]
        /\ pc' = [pc EXCEPT ![c] = "send"] /\ UNCHANGED result
  /\ UNCHANGED <<ref, pending, notify, called, answered, connected>>

(* dbus_connection_send_with_reply: on a closed connection it returns TRUE *)
(* and no pending call.                                                    *)
Send(c) ==
  /\ pc[c] = "send"
  /\ \/ OutOfMemory /\ Return(c, "FALSE") /\ UNCHANGED <<pending, ref>>
     \/ /\ pc' = [pc EXCEPT ![c] = "notify"] /\ UNCHANGED result
        /\ IF connected
           THEN /\ pending' = [pending EXCEPT ![c] = "waiting"]
                /\ ref' = [ref EXCEPT ![c] = "live"]
           ELSE UNCHANGED <<pending, ref>>
  /\ UNCHANGED <<context, req, notify, called, answered, connected>>

\* Mutated: the function to call is not set.
SetNotify_Forgotten(c) ==
  /\ pc[c] = "notify"
  /\ Return(c, "TRUE")
  /\ UNCHANGED <<mem, pending, notify, called, answered, connected>>

\* Mutated: the request is a local variable of dbus_func_args_async.
SetNotify_LocalReq(c) ==
  /\ pc[c] = "notify"
  /\ notify' = [notify EXCEPT ![c] = pending[c] = "waiting"]
  /\ req' = [req EXCEPT ![c] = "none"]
  /\ Return(c, "TRUE")
  /\ UNCHANGED <<context, ref, pending, called, answered, connected>>

(* dbus_pending_call_set_notify does nothing for a call that is complete.  *)
SetNotify(c) ==
  /\ pc[c] = "notify"
  /\ notify' = [notify EXCEPT ![c] = pending[c] = "waiting"]
  /\ Return(c, "TRUE")
  /\ UNCHANGED <<mem, pending, called, answered, connected>>

\* Mutated: the request is not freed.
dbus_func_args_async_callback_KeepReq(c) ==
  /\ called' = [called EXCEPT ![c] = @ + 1]
  /\ context' = [context EXCEPT ![c] = "freed"]
  /\ ref' = [ref EXCEPT ![c] = "freed"]
  /\ UNCHANGED req

(***************************************************************************)
(* dbus_func_args_async_callback: the reply goes to user_cb, which frees   *)
(* the context; the pending call and the request go.                       *)
(***************************************************************************)
dbus_func_args_async_callback(c) ==
  /\ called' = [called EXCEPT ![c] = @ + 1]
  /\ context' = [context EXCEPT ![c] = "freed"]
  /\ ref' = [ref EXCEPT ![c] = "freed"]
  /\ req' = [req EXCEPT ![c] = "freed"]

-----------------------------------------------------------------------------
(* The remote object, the bus and libdbus.                                 *)

Answer(c) == /\ pending[c] = "waiting" /\ connected /\ ~answered[c]
             /\ answered' = [answered EXCEPT ![c] = TRUE]
             /\ UNCHANGED <<pc, result, mem, pending, notify, called, connected>>

Disconnect == /\ Disconnects /\ connected
              /\ connected' = FALSE
              /\ UNCHANGED <<pc, result, mem, pending, notify, called, answered>>

(* The event loop dispatches the reply, or the error that the closed       *)
(* connection gives every call.  No call times out: the program installs   *)
(* no timeout functions.                                                   *)
Complete(c) ==
  /\ pending[c] = "waiting" /\ (answered[c] \/ ~connected)
  /\ pending' = [pending EXCEPT ![c] = "complete"]
  /\ IF notify[c] THEN dbus_func_args_async_callback(c)
                  ELSE UNCHANGED <<mem, called>>
  /\ UNCHANGED <<pc, result, notify, answered, connected>>

Next == \/ \E c \in Calls : \/ Compose(c) \/ Send(c) \/ SetNotify(c)
                            \/ Answer(c) \/ Complete(c)
        \/ Disconnect

Spec == Init /\ [][Next]_vars

(* The calling thread and the event loop run, and the remote object        *)
(* replies.                                                                *)
FairSpec == /\ Spec
            /\ \A c \in Calls : /\ WF_vars(Send(c) \/ SetNotify(c))
                                /\ WF_vars(Answer(c))
                                /\ WF_vars(Complete(c))

-----------------------------------------------------------------------------
(* Every variable has its type.                                            *)
TypeOK ==
  /\ pc \in [Calls -> {"idle", "send", "notify", "returned"}]
  /\ result \in [Calls -> {"none", "TRUE", "FALSE"}]
  /\ context \in [Calls -> {"none", "live", "freed"}]
  /\ req \in [Calls -> {"none", "live", "freed"}]
  /\ ref \in [Calls -> {"none", "live", "freed"}]
  /\ pending \in [Calls -> {"none", "waiting", "complete"}]
  /\ notify \in [Calls -> BOOLEAN] /\ answered \in [Calls -> BOOLEAN]
  /\ called \in [Calls -> Nat]
  /\ connected \in BOOLEAN

(***************************************************************************)
(* Whenever libdbus may run the callback of a call, the request and the    *)
(* context it will use are still allocated, whatever the thread that made  *)
(* the call has done since.                                                *)
(***************************************************************************)
CallbackHasItsMemory ==
  \A c \in Calls : notify[c] /\ pending[c] = "waiting" =>
                      req[c] = "live" /\ context[c] = "live" /\ ref[c] = "live"

(***************************************************************************)
(* user_cb runs at most once, and once it ran nothing of the call is left: *)
(* the request, the context and the reference to the pending call are      *)
(* gone.  Nobody else frees them, however the call ends.                   *)
(***************************************************************************)
CallbackReleases ==
  \A c \in Calls :
    /\ called[c] <= 1
    /\ \A b \in {req[c], context[c], ref[c]} : b = "freed" <=> called[c] = 1

(***************************************************************************)
(* A call that returns while its reply is still to come gets its callback, *)
(* by the reply or by the error for a connection that closes.              *)
(***************************************************************************)
DeliveredInTime ==
  \A c \in Calls :
     (pc[c] = "returned" /\ pending[c] = "waiting") ~> (called[c] = 1)

(***************************************************************************)
(* Every call that reported success gets its callback, and with it its     *)
(* context freed.  It fails when the reply is dispatched before the        *)
(* callback is set, and when the connection was closed before the message  *)
(* was sent.                                                               *)
(***************************************************************************)
Delivered == \A c \in Calls : (result[c] = "TRUE") ~> (called[c] = 1)
=============================================================================
