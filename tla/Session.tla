------------------------------- MODULE Session ------------------------------
(***************************************************************************)
(* A program that uses the library, as bluetooth_main.c does: initServices *)
(* and initializeBluetoothEvent, startEventLoop and stopEventLoop any      *)
(* number of times with asynchronous calls in between, and the clean-up.   *)
(*                                                                         *)
(* The event loop is LoopService, which EventLoop implements; here its     *)
(* start and stop are filled with what setUpEventLoop and                  *)
(* tearDownEventLoop do to the connection, the message bus and BlueZ, one  *)
(* call after the other, each of which may fail.  The calls are AsyncCall; *)
(* their replies are dispatched by the loop, behind the filters.           *)
(***************************************************************************)
EXTENDS Naturals, Sequences, FiniteSets

CONSTANTS Clients, NoOne,       \* see LoopService
          Calls, OutOfMemory,   \* see AsyncCall
          Disconnects,          \* the bus may close the connection
          MaxStarts,            \* bound: calls of startEventLoop
          MaxRestarts           \* bound: times that BlueZ exits

ASSUME SessionAssumption ==
  /\ NoOne \notin Clients /\ IsFiniteSet(Calls)
  /\ {OutOfMemory, Disconnects} \subseteq BOOLEAN
  /\ {MaxStarts, MaxRestarts} \subseteq Nat

VARIABLES
  phase, holder, thread, reported,                       \* LoopService
  pc, result, context, req, ref, pending, notify, called,
  answered, connected,                                   \* AsyncCall
  prog,     \* "boot", "services", "ready", "cleaned", "ended" or "aborted"
  services, \* g_dbus_conn is set
  adapter,  \* g_default_adapter_path holds a path
  conn,     \* nat->conn is set
  remote,   \* the object path of the agent for pairings is registered
  at,       \* the step of setUpEventLoop or tearDownEventLoop, or 0
  path,     \* the object path of the local agent is registered
  filters,  \* how often event_filter is among the connection's filters
  rules,    \* per match rule, how often the bus holds it for us
  bluez,    \* BlueZ runs
  agent,    \* BlueZ has our agent
  asked,    \* per call: what BlueZ asked the agent for a pairing
  late,     \* history: calls that failed with something to undo
  stale,    \* history: BlueZ kept our agent when the loop went off
  used      \* the bounded inputs used so far

loopVars == <<phase, holder, thread, reported>>
callVars == <<pc, result, context, req, ref, pending, notify, called, answered,
              connected>>
progVars == <<prog, services, adapter, conn, remote>>
regVars  == <<path, filters, rules, agent>>
vars == <<loopVars, callVars, progVars, regVars, at, bluez, asked, late, stale,
          used>>

\* Messages the loop has still to dispatch: replies, and what BlueZ asks the
\* agent.
Queued ==
  Cardinality({c \in Calls : pending[c] = "waiting" /\ (answered[c] \/ ~connected)})
    + Cardinality({c \in Calls : asked[c] \in {"sent", "stale"}})

Service == INSTANCE LoopService WITH queued <- Queued
Async == INSTANCE AsyncCall

\* The match rules: signals of the bus itself, of the adapter, of devices.
Rules == {"DBus", "Adapter", "Device"}

\* Mutated: the path is unregistered before BlueZ drops the agent.
TearDown_PathFirst == <<"path", "agent", "Device", "Adapter", "DBus", "filter">>

\* Mutated: the filter stays.
TearDown_KeepFilter == <<"agent", "path", "Device", "Adapter", "DBus">>

\* Mutated: the match on the devices is not added.
SetUp_NoDevice == <<"path", "agent", "filter", "DBus", "Adapter">>

\* What setUpEventLoop and tearDownEventLoop call, in their order.
SetUp    == <<"path", "agent", "filter", "DBus", "Adapter", "Device">>
TearDown == <<"agent", "path", "Device", "Adapter", "DBus", "filter">>

Init ==
  /\ Async!Init
  /\ prog = "boot" /\ services = FALSE /\ adapter = FALSE /\ conn = FALSE
  /\ remote = FALSE /\ at = 0 /\ path = FALSE /\ filters = 0
  /\ rules = [r \in Rules |-> 0]
  /\ bluez = TRUE /\ agent = FALSE /\ asked = [c \in Calls |-> "no"]
  /\ late = 0 /\ stale = FALSE /\ used = [starts |-> 0, restarts |-> 0]
  /\ Service!Init

-----------------------------------------------------------------------------
(* The program around the loop.                                            *)

OutsideOnly == UNCHANGED <<loopVars, callVars, at, path, filters, rules, agent,
                           bluez, asked, late, stale, used>>

\* It may come back without a connection, without an adapter, or without the
\* agent for pairings; main goes on in any case.
initServices ==
  /\ prog = "boot" /\ prog' = "services"
  /\ services' \in BOOLEAN /\ adapter' \in BOOLEAN /\ remote' \in BOOLEAN
  /\ (remote' => adapter') /\ (adapter' => services' /\ bluez)
  /\ UNCHANGED conn /\ OutsideOnly

\* Without a bus the first call on the connection fails an assertion of
\* libdbus, which ends the process unless the build has it return.
initializeBluetoothEvent ==
  /\ prog = "services"
  /\ conn' \in BOOLEAN
  /\ prog' \in IF conn' THEN {"ready"} ELSE {"ready", "aborted"}
  /\ UNCHANGED <<services, adapter, remote>> /\ OutsideOnly

\* main cleans up after stopEventLoop returned.
cleanupBluetoothEvent ==
  /\ prog = "ready" /\ phase = "off" /\ holder = NoOne
  /\ prog' = "cleaned" /\ conn' = FALSE
  /\ UNCHANGED <<services, adapter, remote>> /\ OutsideOnly

destoryServices ==
  /\ prog = "cleaned" /\ prog' = "ended"
  /\ services' = FALSE /\ adapter' = FALSE /\ remote' = FALSE
  /\ UNCHANGED conn /\ OutsideOnly

-----------------------------------------------------------------------------
(* startEventLoop.                                                         *)

Aside == UNCHANGED <<callVars, services, adapter, conn, remote, bluez, asked>>

startEventLoop(c) ==
  /\ prog = "ready" /\ used.starts < MaxStarts
  /\ used' = [used EXCEPT !.starts = @ + 1]
  /\ Aside /\ UNCHANGED <<prog, regVars, late, stale>>
  /\ \/ Service!Start(c) /\ at' = 1
     \/ Service!Refuse /\ UNCHANGED at

SettingUp(c, step) ==
  /\ phase = "starting" /\ holder = c /\ prog = "ready"
  /\ at \in DOMAIN SetUp /\ SetUp[at] = step
  /\ Aside /\ UNCHANGED used

\* The step succeeded; after the last one the thread is created.
SetUpGoesOn(c) ==
  /\ IF at = Len(SetUp) THEN Service!Launch(c) /\ at' = 0
     ELSE UNCHANGED loopVars /\ at' = at + 1
  /\ UNCHANGED <<prog, stale>>

\* setUpEventLoop returns -1, and startEventLoop with it.
SetUpFails(c) ==
  /\ Service!Abandon(c) /\ at' = 0
  /\ stale' = agent' /\ UNCHANGED prog

\* A malloc or socketpair failed before setUpEventLoop, or there is no
\* connection, with which setUpEventLoop returns 0 at once.
StartWithoutSetUp(c) ==
  /\ SettingUp(c, "path") /\ UNCHANGED <<regVars, late>>
  /\ \/ SetUpFails(c)
     \/ ~conn /\ Service!Launch(c) /\ at' = 0 /\ UNCHANGED <<prog, stale>>

\* register_agent, the object path.  When it is in use, what failed is
\* undone all the same.
RegisterPath(c) ==
  /\ SettingUp(c, "path") /\ conn
  /\ UNCHANGED <<filters, rules, agent, late>>
  /\ \/ ~path /\ path' = TRUE /\ SetUpGoesOn(c)
     \/ path' = FALSE /\ SetUpFails(c)

\* Mutated: an error reply of BlueZ is taken for success.
RegisterAgent_NoCheck(c) ==
  /\ SettingUp(c, "agent") /\ UNCHANGED <<filters, rules>>
  /\ \/ /\ adapter /\ bluez /\ connected
        /\ agent' = TRUE /\ SetUpGoesOn(c) /\ UNCHANGED <<path, late>>
     \/ /\ path' = FALSE /\ UNCHANGED <<agent, late>> /\ SetUpFails(c)

\* register_agent, the call of BlueZ, which has at most one agent for an
\* adapter.  A call that times out may still have been carried out.  An empty
\* adapter path fails an assertion of libdbus.
RegisterAgent(c) ==
  /\ SettingUp(c, "agent") /\ UNCHANGED <<filters, rules>>
  /\ LET accepted == adapter /\ bluez /\ connected /\ ~agent
     IN  \/ /\ accepted /\ agent' = TRUE /\ SetUpGoesOn(c)
            /\ UNCHANGED <<path, late>>
         \/ /\ path' = FALSE
            /\ \/ UNCHANGED <<agent, late>>
               \/ accepted /\ agent' = TRUE /\ late' = late + 1
            /\ SetUpFails(c)
         \/ /\ ~adapter /\ prog' = "aborted"
            /\ UNCHANGED <<loopVars, at, path, agent, late, stale>>

\* dbus_connection_add_filter.  From here on nothing is undone.
AddFilter(c) ==
  /\ SettingUp(c, "filter") /\ UNCHANGED <<path, rules, agent>>
  /\ \/ filters' = filters + 1 /\ UNCHANGED late /\ SetUpGoesOn(c)
     \/ UNCHANGED filters /\ late' = late + 1 /\ SetUpFails(c)

\* dbus_bus_add_match; this call too may time out and be carried out.
AddMatch(c, r) ==
  /\ SettingUp(c, r) /\ UNCHANGED <<path, filters, agent>>
  /\ \/ /\ connected /\ rules' = [rules EXCEPT ![r] = @ + 1]
        /\ UNCHANGED late /\ SetUpGoesOn(c)
     \/ /\ late' = late + 1
        /\ \/ UNCHANGED rules
           \/ connected /\ rules' = [rules EXCEPT ![r] = @ + 1]
        /\ SetUpFails(c)

-----------------------------------------------------------------------------
(* stopEventLoop.                                                          *)

stopEventLoop(c) ==
  /\ prog = "ready"
  /\ Aside /\ UNCHANGED <<prog, regVars, at, late, stale, used>>
  /\ Service!Stop(c) \/ Service!Ignore

\* Mutated: the connection is not tested.
LoopExits_NoTest ==
  /\ prog = "ready" /\ phase = "stopping" /\ thread = "alive" /\ at = 0
  /\ Aside /\ UNCHANGED <<prog, regVars, late, stale, used>>
  /\ at' = 1 /\ UNCHANGED loopVars

\* The loop reads EXIT; without a connection there is nothing to tear down.
LoopExits ==
  /\ prog = "ready" /\ phase = "stopping" /\ thread = "alive" /\ at = 0
  /\ Aside /\ UNCHANGED <<prog, regVars, late, stale, used>>
  /\ IF conn THEN at' = 1 /\ UNCHANGED loopVars
     ELSE Service!End /\ UNCHANGED at

TearingDown(step) ==
  /\ phase = "stopping" /\ at \in DOMAIN TearDown /\ TearDown[at] = step
  /\ Aside /\ UNCHANGED <<prog, stale, used>>

\* Every step is followed by the next, whether it succeeded or not.
TearDownGoesOn ==
  IF at = Len(TearDown) THEN Service!End /\ at' = 0
  ELSE UNCHANGED loopVars /\ at' = at + 1

\* Mutated: the call waits until BlueZ answers.
UnregisterAgent_NoTimeout ==
  /\ TearingDown("agent") /\ bluez
  /\ agent' = FALSE
  /\ UNCHANGED <<path, filters, rules, late>> /\ TearDownGoesOn

UnregisterAgent ==
  /\ TearingDown("agent")
  /\ \/ bluez /\ connected /\ agent' = FALSE /\ UNCHANGED late
     \/ UNCHANGED agent /\ late' = IF agent THEN late + 1 ELSE late
  /\ UNCHANGED <<path, filters, rules>> /\ TearDownGoesOn

UnregisterPath ==
  /\ TearingDown("path") /\ path' = FALSE
  /\ UNCHANGED <<filters, rules, agent, late>> /\ TearDownGoesOn

\* A removal that was carried out although it timed out is a success here.
RemoveMatch(r) ==
  /\ TearingDown(r)
  /\ \/ /\ connected /\ rules[r] > 0 /\ rules' = [rules EXCEPT ![r] = @ - 1]
        /\ UNCHANGED late
     \/ UNCHANGED rules /\ late' = late + 1
  /\ UNCHANGED <<path, filters, agent>> /\ TearDownGoesOn

\* The filter is there whenever the loop is, see RunningIsHeard.
RemoveFilter ==
  /\ TearingDown("filter") /\ filters > 0 /\ filters' = filters - 1
  /\ UNCHANGED <<path, rules, agent, late>> /\ TearDownGoesOn

\* pthread_join, and the end of stopEventLoop.
StopReturns(c) ==
  /\ Aside /\ UNCHANGED <<prog, regVars, at, late, used>>
  /\ \/ Service!Join(c) /\ UNCHANGED stale
     \/ Service!Finish(c) /\ stale' = agent

-----------------------------------------------------------------------------
(* The callbacks of the connection, and asynchronous calls.                *)

CallOnly == UNCHANGED <<loopVars, progVars, regVars, at, bluez, late, stale, used>>

\* What the filter returns for a message: it prints signals and ends their
\* way, and lets the others pass.
event_filter(type) == IF type = "signal" THEN "HANDLED" ELSE "NOT_YET_HANDLED"

\* What the agent returns: whatever BlueZ asks is handled, and no reply sent.
agent_event_filter(type) ==
  IF type = "method_call" THEN "HANDLED" ELSE "NOT_YET_HANDLED"

\* What the handlers of the connection make of a message: it is taken by the
\* filter or the agent, which send no reply, or libdbus answers that there is
\* nobody for it.
Handled(type) == \/ filters > 0 /\ event_filter(type) = "HANDLED"
                 \/ remote /\ agent_event_filter(type) = "HANDLED"

\* The loop's thread dispatches; replies go to their pending call before
\* any handler.
Dispatching == thread = "alive" /\ at = 0 /\ prog = "ready"

\* The message cannot be made without an adapter, nor sent without a bus.
MakeCall(c) ==
  /\ prog = "ready" /\ UNCHANGED asked /\ CallOnly
  /\ Async!Compose(c)
  /\ ~(services /\ adapter) => result'[c] = "FALSE"

GoOnCalling(c) ==
  /\ prog = "ready" /\ UNCHANGED asked /\ CallOnly
  /\ Async!Send(c) \/ Async!SetNotify(c)

DispatchReply(c) ==
  /\ Dispatching /\ UNCHANGED asked /\ CallOnly
  /\ Async!Complete(c)

DispatchRequest(c) ==
  /\ Dispatching /\ asked[c] \in {"sent", "stale"}
  /\ asked' = [asked EXCEPT ![c] =
       IF @ = "sent" /\ Handled("method_call") THEN "taken" ELSE "over"]
  /\ UNCHANGED callVars /\ CallOnly

-----------------------------------------------------------------------------
(* BlueZ and the bus.                                                      *)

\* A pairing for which BlueZ asks the agent is not answered meanwhile.
BluezReplies(c) ==
  /\ prog = "ready" /\ asked[c] \notin {"sent", "taken"}
  /\ UNCHANGED asked /\ CallOnly
  /\ Async!Answer(c)

BluezAsks(c) ==
  /\ prog = "ready" /\ bluez /\ connected /\ asked[c] = "no"
  /\ pending[c] = "waiting" /\ ~answered[c]
  /\ asked' = [asked EXCEPT ![c] = "sent"]
  /\ UNCHANGED callVars /\ CallOnly

WaitsNoMore(a) == CASE a = "sent" -> "stale" [] a = "taken" -> "over" [] OTHER -> a

BluezTimesOut(c) ==
  /\ prog = "ready" /\ asked[c] \in {"sent", "taken"}
  /\ asked' = [asked EXCEPT ![c] = WaitsNoMore(@)]
  /\ UNCHANGED callVars /\ CallOnly

Outside == UNCHANGED <<loopVars, progVars, at, path, filters, late>>

BluezExits ==
  /\ prog = "ready" /\ bluez /\ used.restarts < MaxRestarts
  /\ used' = [used EXCEPT !.restarts = @ + 1]
  /\ bluez' = FALSE /\ agent' = FALSE /\ stale' = FALSE
  /\ asked' = [c \in Calls |-> WaitsNoMore(asked[c])]
  /\ UNCHANGED <<callVars, rules>> /\ Outside

BluezStarts ==
  /\ prog = "ready" /\ ~bluez /\ bluez' = TRUE
  /\ UNCHANGED <<callVars, rules, agent, asked, stale, used>> /\ Outside

\* The bus and BlueZ forget a client that is gone.
BusCloses ==
  /\ prog = "ready" /\ Async!Disconnect
  /\ agent' = FALSE /\ stale' = FALSE /\ rules' = [r \in Rules |-> 0]
  /\ asked' = [c \in Calls |-> WaitsNoMore(asked[c])]
  /\ UNCHANGED <<bluez, used>> /\ Outside

-----------------------------------------------------------------------------
Program == \/ initServices \/ initializeBluetoothEvent
           \/ cleanupBluetoothEvent \/ destoryServices

Starting(c) == \/ StartWithoutSetUp(c) \/ RegisterPath(c) \/ RegisterAgent(c)
               \/ AddFilter(c) \/ \E r \in Rules : AddMatch(c, r)

Stopping == \/ LoopExits \/ UnregisterAgent \/ UnregisterPath
            \/ RemoveFilter \/ \E r \in Rules : RemoveMatch(r)

Calling(c) == \/ MakeCall(c) \/ GoOnCalling(c) \/ DispatchReply(c)
              \/ DispatchRequest(c) \/ BluezReplies(c) \/ BluezAsks(c)
              \/ BluezTimesOut(c)

Bus == BluezExits \/ BluezStarts \/ BusCloses

Next == \/ Program \/ Stopping \/ Bus
        \/ \E c \in Clients : startEventLoop(c) \/ stopEventLoop(c)
                                \/ Starting(c) \/ StopReturns(c)
        \/ \E c \in Calls : Calling(c)

Spec == Init /\ [][Next]_vars

\* The threads run, calls to BlueZ come back at the latest by their timeout,
\* and BlueZ gives up on an agent that does not answer.
FairSpec ==
  /\ Spec
  /\ \A c \in Clients : WF_vars(Starting(c)) /\ WF_vars(StopReturns(c))
  /\ WF_vars(Stopping)
  /\ \A c \in Calls : /\ WF_vars(GoOnCalling(c)) /\ WF_vars(DispatchReply(c))
                      /\ WF_vars(BluezReplies(c)) /\ WF_vars(BluezTimesOut(c))
=============================================================================
