----------------------------- MODULE LoopService ----------------------------
(***************************************************************************)
(* What startEventLoop and stopEventLoop promise their callers, without    *)
(* the control socket, the table of watches and the steps of the loop: a   *)
(* service that is off, starting, on or stopping, at most one thread that  *)
(* serves, and a queue of which only that thread takes.                    *)
(***************************************************************************)
EXTENDS Naturals

CONSTANTS Clients, \* the threads that start and stop the service
          NoOne    \* no client

VARIABLES phase,    \* "off", "starting", "on" or "stopping"
          holder,   \* the client inside start or stop, or NoOne
          thread,   \* the serving thread: "none", "alive" or "ended"
          reported, \* what isEventLoopRunning would answer
          queued    \* messages read from the bus and not yet dispatched

vars == <<phase, holder, thread, reported, queued>>

Init == /\ phase = "off" /\ holder = NoOne /\ thread = "none"
        /\ reported = 0 /\ queued = 0

-----------------------------------------------------------------------------
(* Starting.                                                               *)

Start(c) ==
  /\ phase = "off" /\ holder = NoOne
  /\ phase' = "starting" /\ holder' = c /\ reported' = 0
  /\ UNCHANGED <<thread, queued>>

\* A start while the service is on is refused, and the service then says
\* that it does not run.
Refuse ==
  /\ phase = "on" /\ holder = NoOne
  /\ reported' = 0
  /\ UNCHANGED <<phase, holder, thread, queued>>

Abandon(c) ==
  /\ phase = "starting" /\ holder = c
  /\ phase' = "off" /\ holder' = NoOne
  /\ UNCHANGED <<thread, reported, queued>>

Launch(c) ==
  /\ phase = "starting" /\ holder = c /\ thread = "none"
  /\ phase' = "on" /\ holder' = NoOne /\ thread' = "alive"
  /\ UNCHANGED <<reported, queued>>

-----------------------------------------------------------------------------
(* Serving.                                                                *)

Report ==
  /\ thread = "alive" /\ reported' = 1
  /\ UNCHANGED <<phase, holder, thread, queued>>

\* Any thread that uses the connection may queue what it reads.
Arrive ==
  /\ queued' \in Nat /\ queued' > queued
  /\ UNCHANGED <<phase, holder, thread, reported>>

Deliver ==
  /\ thread = "alive" /\ queued > 0
  /\ queued' = queued - 1
  /\ UNCHANGED <<phase, holder, thread, reported>>

-----------------------------------------------------------------------------
(* Stopping.                                                               *)

Stop(c) ==
  /\ phase = "on" /\ holder = NoOne
  /\ phase' = "stopping" /\ holder' = c
  /\ UNCHANGED <<thread, reported, queued>>

\* Nothing to stop.
Ignore ==
  /\ phase = "off" /\ holder = NoOne
  /\ reported' = 0
  /\ UNCHANGED <<phase, holder, thread, queued>>

\* The thread ends because a stop asks for it, and for nothing else.
End ==
  /\ phase = "stopping" /\ thread = "alive"
  /\ thread' = "ended"
  /\ UNCHANGED <<phase, holder, reported, queued>>

Join(c) ==
  /\ phase = "stopping" /\ holder = c /\ thread = "ended"
  /\ thread' = "none"
  /\ UNCHANGED <<phase, holder, reported, queued>>

Finish(c) ==
  /\ phase = "stopping" /\ holder = c /\ thread = "none"
  /\ phase' = "off" /\ holder' = NoOne /\ reported' = 0
  /\ UNCHANGED <<thread, queued>>

-----------------------------------------------------------------------------
Next ==
  \/ \E c \in Clients :
       Start(c) \/ Abandon(c) \/ Launch(c) \/ Stop(c) \/ Join(c) \/ Finish(c)
  \/ Refuse \/ Report \/ Arrive \/ Deliver \/ Ignore \/ End

Spec == Init /\ [][Next]_vars
=============================================================================
