-------------------------- MODULE SessionProperties -------------------------
(* What a program that uses the library can rely on.                       *)
EXTENDS Session

(* Every variable has its type; a step is under way only inside            *)
(* setUpEventLoop and tearDownEventLoop.                                   *)
TypeOK ==
  /\ phase \in {"off", "starting", "on", "stopping"}
  /\ holder \in Clients \cup {NoOne}
  /\ thread \in {"none", "alive", "ended"} /\ reported \in {0, 1}
  /\ Async!TypeOK
  /\ prog \in {"boot", "services", "ready", "cleaned", "ended", "aborted"}
  /\ {services, adapter, conn, remote, path, bluez, agent, stale} \subseteq BOOLEAN
  /\ filters \in Nat /\ rules \in [Rules -> Nat] /\ late \in Nat
  /\ asked \in [Calls -> {"no", "sent", "taken", "stale", "over"}]
  /\ used \in [starts : 0 .. MaxStarts, restarts : 0 .. MaxRestarts]
  /\ at \in Nat
  /\ at # 0 => phase = "starting" \/ (phase = "stopping" /\ thread = "alive" /\ conn)

(***************************************************************************)
(* While the loop is on, everything it is to be told of reaches it: the    *)
(* agent's path, the filter and the three rules are there, whatever starts *)
(* failed before and left behind or took away.  Only the bus can take them *)
(* by closing the connection.                                              *)
(***************************************************************************)
RunningIsHeard ==
  phase = "on" /\ conn /\ connected =>
    path /\ filters > 0 /\ \A r \in Rules : rules[r] > 0

(***************************************************************************)
(* Starting and stopping do not pile up registrations: when the loop is    *)
(* off there are no more filters and rules than calls failed late, that    *)
(* is with something to undo, and without such a failure nothing is left   *)
(* at all, so that the next start finds path and agent free.               *)
(***************************************************************************)
StoppedLeavesNothing ==
  phase = "off" =>
    /\ filters <= late /\ \A r \in Rules : rules[r] <= late
    /\ late = 0 => ~path /\ ~agent

(***************************************************************************)
(* BlueZ never has an agent that is not there to be asked, in whatever     *)
(* order paths and agents come and go, except after a late failure.        *)
(***************************************************************************)
AgentHasPath == agent /\ late = 0 => path

(***************************************************************************)
(* A start that fails after BlueZ took the agent, or a stop that fails to  *)
(* take it back, is final: the loop does not get on again before BlueZ     *)
(* forgets the agent.  Nothing of the library unregisters it.              *)
(***************************************************************************)
StaleAgentBlocks == stale => phase # "on"

(***************************************************************************)
(* Also with a loop that starts and stops, a callback that can run has its *)
(* request, its context and the pending call.                              *)
(***************************************************************************)
CallbackHasItsMemory == Async!CallbackHasItsMemory

(* And it runs at most once, and then, but not before, nothing of the call *)
(* is left.                                                                *)
CallbackReleases == Async!CallbackReleases

(***************************************************************************)
(* A call that returned with its reply still to come gets its callback     *)
(* while the loop is on, also when BlueZ asks the agent first, which never *)
(* answers: BlueZ then gives up.                                           *)
(***************************************************************************)
DeliveredInTime ==
  \A c \in Calls :
    pc[c] = "returned" /\ pending[c] = "waiting" /\ phase = "on" ~>
      called[c] = 1 \/ phase # "on" \/ prog # "ready"

(***************************************************************************)
(* startEventLoop and stopEventLoop return, also when BlueZ is not there,  *)
(* although one waits for the loop's thread and that for BlueZ.            *)
(***************************************************************************)
StartAndStopReturn ==
  /\ phase = "starting" ~> phase \in {"on", "off"} \/ prog = "aborted"
  /\ phase = "stopping" ~> phase = "off"
=============================================================================
