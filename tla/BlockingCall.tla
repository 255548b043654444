----------------------------- MODULE BlockingCall ---------------------------
(***************************************************************************)
(* The blocking D-Bus calls: dbus_func_args_timeout_valist with the        *)
(* functions that take a result out of its reply, and the functions of the *)
(* service API that compose their message themselves.  What matters is who *)
(* owns which block of memory when something fails in the middle.          *)
(***************************************************************************)
EXTENDS Naturals

CONSTANT OutOfMemory \* an allocation may fail

(* Who composes: "plain" is dbus_func_args and dbus_func_args_timeout,     *)
(* "error" is dbus_func_args_error, "inline" a service function, "oneway"  *)
(* the setting of a property.  What is taken out of the reply: "number"    *)
(* also stands for truth values and descriptors, "strings" for paths.      *)
Results == {"number", "string", "strings", "bytes"}
FunctionCalls ==
  {[form |-> f, takes |-> r] : f \in {"plain", "error"}, r \in Results}
    \cup {[form |-> "plain", takes |-> "properties"]}
    \cup {[form |-> "inline", takes |-> r] : r \in {"nothing", "path"}}
    \cup {[form |-> "oneway", takes |-> "nothing"]}

VARIABLES call, \* the call that is made
          step, \* "compose", "append", "send", "take", "returned", "released" or "aborted"
          live, \* the blocks allocated: "err", "msg", "reply", what is in an error
                \* ("error"), libdbus's "list", and the "copy" and "elements" returned
          ret   \* how it ended: "none" yet, "value", "failed", or without a
                \* reply because of "nomemory" for the message or an "error"

vars == <<call, step, live, ret>>

Init == /\ call \in FunctionCalls /\ step = "compose" /\ live = {} /\ ret = "none"

Return(r) == step' = "returned" /\ ret' = r

\* What a call holds until its message is sent.
Scratch == {"msg"} \cup (IF call.form = "plain" THEN {"err"} ELSE {})

-----------------------------------------------------------------------------
(* dbus_func_args_timeout_valist.                                          *)

Composes == call.form \in {"plain", "error"}

\* An err that cannot be allocated is initialised nevertheless.
Compose ==
  /\ step = "compose" /\ Composes /\ UNCHANGED call
  /\ \/ step' = "append" /\ live' = Scratch /\ UNCHANGED ret
     \/ OutOfMemory /\ Return("nomemory") /\ UNCHANGED live
     \/ OutOfMemory /\ call.form = "plain" /\ step' = "aborted" /\ UNCHANGED <<live, ret>>

\* Mutated: a failure returns at once, past the label done.
Append_Returns ==
  /\ step = "append" /\ UNCHANGED call
  /\ \/ step' = "send" /\ UNCHANGED <<live, ret>>
     \/ OutOfMemory /\ Return("nomemory") /\ UNCHANGED live

AppendArgs ==
  /\ step = "append" /\ UNCHANGED call
  /\ \/ step' = "send" /\ UNCHANGED <<live, ret>>
     \/ OutOfMemory /\ Return("nomemory") /\ live' = live \ Scratch

\* Mutated: the error is logged and freed also for a caller that gave one.
Send_LogsAll ==
  /\ step = "send" /\ Composes /\ UNCHANGED call
  /\ \/ step' = "take" /\ live' = (live \ Scratch) \cup {"reply"} /\ UNCHANGED ret
     \/ live' = live \ Scratch /\ Return("error")

(***************************************************************************)
(* Without a reply, because of an error that BlueZ sends, a timeout, a     *)
(* connection that is closed or no memory, the error is set: it is the     *)
(* caller's if it gave one, and logged and freed otherwise.                *)
(***************************************************************************)
Send ==
  /\ step = "send" /\ Composes /\ UNCHANGED call
  /\ \/ step' = "take" /\ live' = (live \ Scratch) \cup {"reply"} /\ UNCHANGED ret
     \/ /\ live' = (live \ Scratch) \cup (IF call.form = "error" THEN {"error"} ELSE {})
        /\ Return("error")

-----------------------------------------------------------------------------
(* The dbus_returns_ functions, and what a client does with their result.  *)

\* What they allocate of a reply of the right type, each as far as there is
\* memory; the list of strings is libdbus's.
Got(takes) ==
  LET whole == CASE takes = "strings"             -> {"copy", "elements"}
                 [] takes \in {"string", "bytes"} -> {"copy"}
                 [] OTHER                         -> {}
  IN {got \in (IF OutOfMemory THEN SUBSET whole ELSE {whole}) :
        "elements" \in got => "copy" \in got}

\* The reply goes also when it is not of the type that was asked for.
Take ==
  /\ step = "take" /\ Composes /\ call.takes \in Results /\ UNCHANGED call
  /\ \/ \E got \in Got(call.takes) :
          /\ live' = (live \ {"reply"}) \cup got
               \cup (IF call.takes = "strings" THEN {"list"} ELSE {})
          /\ Return("value")
     \/ live' = live \ {"reply"} /\ Return("failed")

\* A client frees what it was told to: a string, an array with
\* free_array_of_strings or free_array_of_bytes, an error it gave.
Release == /\ step = "returned" /\ call.takes # "properties"
           /\ step' = "released"
           /\ live' = live \ {"copy", "elements", "error"}
           /\ UNCHANGED <<call, ret>>

-----------------------------------------------------------------------------
(* The functions of the service API that compose their message themselves. *)

ServiceCompose ==
  /\ step = "compose" /\ ~Composes /\ UNCHANGED call
  /\ \/ step' = "send" /\ live' = Scratch /\ UNCHANGED ret
     \/ OutOfMemory /\ Return("nomemory") /\ UNCHANGED live

\* getDefaultAdapter, startDiscovery and stopDiscovery hold their message
\* until the end; an error is logged and freed.
ServiceSend ==
  /\ step = "send" /\ call.form = "inline" /\ UNCHANGED call
  /\ \/ step' = "take" /\ live' = live \cup {"reply"} /\ UNCHANGED ret
     \/ live' = live \ Scratch /\ Return("error")

\* Only getDefaultAdapter looks into its reply.
ServiceTake ==
  /\ step = "take" /\ call.form = "inline" /\ UNCHANGED call
  /\ live' = live \ {"reply", "msg"}
  /\ Return("value") \/ (call.takes = "path" /\ Return("failed"))

\* The setting of a property does not wait, and does not look whether its
\* message was sent.
SetProperty ==
  /\ step = "send" /\ call.form = "oneway" /\ UNCHANGED call
  /\ live' = live \ Scratch /\ Return("value")

-----------------------------------------------------------------------------
Next == \/ Compose \/ AppendArgs \/ Send \/ Take \/ Release
        \/ ServiceCompose \/ ServiceSend \/ ServiceTake \/ SetProperty

(* The list that libdbus allocates for an array of strings is never freed. *)
Leaked == IF call.takes = "strings" THEN {"list"} ELSE {}
=============================================================================
