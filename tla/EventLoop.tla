------------------------------ MODULE EventLoop ------------------------------
(***************************************************************************)
(* The D-Bus event loop of terry_bluez/src/bluetooth_event.c.              *)
(*                                                                         *)
(* Application threads (Clients) call startEventLoop and stopEventLoop and *)
(* use the shared D-Bus connection; one thread runs eventLoopMain; libdbus *)
(* calls dbusAddWatch, dbusRemoveWatch, dbusToggleWatch and dbusWakeup on  *)
(* whichever thread is using the connection.  The callbacks talk to the    *)
(* loop through a socket pair, a stream of bytes in which a message is     *)
(* several write calls: a control byte, then the fields.                   *)
(*                                                                         *)
(* libdbus and the kernel are external, modelled from how the code uses    *)
(* them: libdbus runs its callbacks with the connection lock held (the     *)
(* code asks for that with dbus_threads_init_default), calls the wakeup    *)
(* function when it queues a message, removes every watch before freeing   *)
(* it when it finds the connection closed; poll reports POLLHUP whether    *)
(* asked or not and POLLNVAL for a closed descriptor.                      *)
(***************************************************************************)
EXTENDS WatchTable

CONSTANTS
  Clients,      \* application threads
  Rd, Wr,       \* the transport's watches, for incoming and outgoing data
  BusFd,        \* descriptor of the bus connection
  CtlR, CtlW,   \* the descriptors socketpair returns
  InitialSize,  \* DEFAULT_INITIAL_POLLFD_COUNT (8 in the code)
  ChanCap,      \* writes the control socket holds before a writer blocks
  MaxStarts,    \* bound: calls of startEventLoop
  MaxMsgs,      \* bound: messages the bus sends
  MaxSends,     \* bound: sends that the kernel does not take at once
  AllocFails,   \* whether malloc, socketpair and the setup calls may fail
  Noticers,     \* clients whose own I/O may find the connection closed
  NoOne         \* no client, no watch

Watches == {Rd, Wr}
Ptrs == Watches \cup {NoOne}
Loop == <<"loop">>
Threads == Clients \cup {Loop}

ASSUME ClientsAssumption ==
  /\ NoOne \notin Clients \cup Watches
  /\ Loop \notin Clients \cup {NoOne}
  /\ Noticers \subseteq Clients
ASSUME WatchesAssumption == Rd # Wr
ASSUME DescriptorsAssumption ==
  /\ {BusFd, CtlR, CtlW} \subseteq Nat \ {0}
  /\ BusFd # CtlR /\ CtlR # CtlW
ASSUME SizesAssumption ==
  /\ {InitialSize, ChanCap} \subseteq Nat \ {0}
  /\ {MaxStarts, MaxMsgs, MaxSends} \subseteq Nat
  /\ AllocFails \in BOOLEAN

FlagsOf(w) ==
  IF w = Rd THEN DBUS_WATCH_READABLE ELSE DBUS_WATCH_WRITABLE

\* The control bytes.
EXIT   == 1
ADD    == 2
REMOVE == 3
WAKEUP == 4

\* One write call on controlFdW, or one read of the same size.
Ctl(c)     == [kind |-> "ctl", val |-> c]
FdItem     == [kind |-> "fd", val |-> BusFd]
FlagsItem(w) == [kind |-> "flags", val |-> FlagsOf(w)]
PtrItem(w) == [kind |-> "watch", val |-> w]
Items == {Ctl(c) : c \in {EXIT, ADD, REMOVE, WAKEUP}} \cup {FdItem}
           \cup {FlagsItem(w) : w \in Watches}
           \cup {PtrItem(w) : w \in Watches}

VARIABLES
  \* struct tBluetoothEvent
  table,        \* the first pollMemberCount members of pollData, watchData
  pollDataSize, \* the size the code believes in
  pollCap,      \* members pollData has room for; 0: the pointer is NULL
  watchCap,     \* members watchData has room for; 0: the pointer is NULL
  controlFdR, controlFdW,
  running,
  mutex,        \* the client that holds thread_mutex, or NoOne
  \* the threads
  pc,           \* where each client is
  loop,         \* where the event loop thread is
  idx,          \* i of the scan in eventLoopMain
  \* the kernel
  stream,       \* written on controlFdW and not yet read
  open,         \* which of CtlR and CtlW are open descriptors
  inbound,      \* messages in the bus socket
  hup,          \* the bus closed its end
  \* libdbus
  live,         \* watches of the connection
  enabled,      \* those it wants polled
  hooked,       \* the watch functions are installed
  wakeHooked,   \* the wakeup function is installed
  owner,        \* the thread that is inside callbacks, lock held, or NoOne
  items,        \* what those callbacks have still to write
  incoming,     \* messages queued for dispatch
  \* history
  fault,        \* why execution left what the code defines
  used          \* the bounded inputs used so far

natVars == <<table, pollDataSize, pollCap, watchCap>>
fdVars == <<controlFdR, controlFdW, open>>
busVars == <<live, enabled, hooked, wakeHooked>>
callVars == <<owner, items>>
vars == <<table, pollDataSize, pollCap, watchCap, controlFdR, controlFdW,
          running, mutex, pc, loop, idx, stream, open, inbound, hup, live,
          enabled, hooked, wakeHooked, owner, items, incoming, fault, used>>

\* Mutated: the control slot without its descriptor.
ControlSlot_Unset == NewSlot(0, POLLIN, NoOne)

\* Mutated: the control slot without its events = POLLIN.
ControlSlot_NoEvents == NewSlot(CtlR, 0, NoOne)

ControlSlot == NewSlot(CtlR, POLLIN, NoOne)

Init ==
  /\ table = <<>> /\ pollDataSize = 0 /\ pollCap = 0 /\ watchCap = 0
  /\ controlFdR = 0 /\ controlFdW = 0 /\ running = 0 /\ mutex = NoOne
  /\ pc = [c \in Clients |-> "idle"] /\ loop = "none" /\ idx = 1
  /\ stream = <<>> /\ open = {} /\ inbound = 0 /\ hup = FALSE
  /\ live = Watches /\ enabled = {Rd}
  /\ hooked = FALSE /\ wakeHooked = FALSE /\ owner = NoOne /\ items = <<>>
  /\ incoming = 0 /\ fault = "none"
  /\ used = [starts |-> 0, msgs |-> 0, sends |-> 0]

-----------------------------------------------------------------------------
(* Callbacks: what they write, one write call at a time.                   *)

dbusAddWatch(w, on) ==
  IF w \in on
  THEN <<Ctl(ADD), FdItem, FlagsItem(w), PtrItem(w)>> ELSE <<>>

dbusRemoveWatch(w) == <<Ctl(REMOVE), FdItem, FlagsItem(w)>>

dbusToggleWatch(w, on) ==
  IF w \in on THEN dbusAddWatch(w, on) ELSE dbusRemoveWatch(w)

\* Mutated: the callback that writes nothing.
dbusWakeup_Silent == <<>>

dbusWakeup == IF wakeHooked THEN <<Ctl(WAKEUP)>> ELSE <<>>

\* dbus_connection_set_watch_functions calls the new add function for every
\* watch, or the old remove function for every watch.
AddAll == dbusAddWatch(Rd, enabled) \o dbusAddWatch(Wr, enabled)
RemoveAll ==
  (IF Rd \in live THEN dbusRemoveWatch(Rd) ELSE <<>>)
    \o (IF Wr \in live THEN dbusRemoveWatch(Wr) ELSE <<>>)

Hooked(msgs) == IF hooked THEN msgs ELSE <<>>

\* Thread t enters libdbus, which makes it write msgs before it returns.
Call(t, msgs) ==
  /\ owner = NoOne
  /\ owner' = (IF msgs = <<>> THEN NoOne ELSE t)
  /\ items' = msgs

\* One write(nat->controlFdW, ...) of the callbacks.  A controlFdW of 0 is
\* not the socket any more but descriptor 0.  A write to the socket when the
\* other end is closed fails, and nobody looks: libdbus ignores SIGPIPE.
WriteControl(t) ==
  /\ owner = t /\ items # <<>>
  /\ items' = Tail(items)
  /\ owner' = (IF Tail(items) = <<>> THEN NoOne ELSE t)
  /\ \/ (controlFdW = 0 \/ CtlR \notin open) /\ UNCHANGED stream
     \/ /\ controlFdW # 0 /\ CtlR \in open /\ Len(stream) < ChanCap
        /\ stream' = Append(stream, Head(items))
  /\ UNCHANGED <<natVars, fdVars, busVars, running, mutex, pc, loop, idx,
                 inbound, hup, incoming, used, fault>>

\* The calls into libdbus below leave the event loop's own fields alone.
LoopFieldsUnchanged ==
  UNCHANGED <<natVars, fdVars, running, mutex, pc, stream, fault>>

\* The transport reads what the bus sent and queues it.
ReadMessages(t) ==
  /\ inbound > 0
  /\ incoming' = incoming + inbound /\ inbound' = 0
  /\ Call(t, dbusWakeup)
  /\ UNCHANGED <<busVars, hup>>

\* The transport finds the connection closed: the watches are removed and
\* freed, the descriptor is closed, and a Disconnected message is queued.
Disconnect(t) ==
  /\ live # {} /\ hup /\ inbound = 0
  /\ live' = {} /\ enabled' = {}
  /\ incoming' = incoming + 1
  /\ Call(t, Hooked(RemoveAll) \o dbusWakeup)
  /\ UNCHANGED <<hooked, wakeHooked, inbound, hup>>

\* The outgoing queue drained: the writing watch is switched off.
Flush(t) ==
  /\ Wr \in enabled
  /\ enabled' = enabled \ {Wr}
  /\ Call(t, Hooked(dbusToggleWatch(Wr, enabled')))
  /\ UNCHANGED <<live, hooked, wakeHooked, inbound, hup, incoming>>

\* The kernel did not take all of a message: the writing watch is on.
QueueOutgoing(t) ==
  /\ Wr \in live \ enabled
  /\ enabled' = enabled \cup {Wr}
  /\ Call(t, Hooked(dbusToggleWatch(Wr, enabled')) \o dbusWakeup)
  /\ UNCHANGED <<live, hooked, wakeHooked, inbound, hup, incoming>>

-----------------------------------------------------------------------------
(* Application threads using the connection: any D-Bus send, or a call     *)
(* that blocks for its reply and meanwhile reads the socket itself; the    *)
(* calls made by setUpEventLoop are among them.                            *)

UsesBus(c) == pc[c] \in {"idle", "setup"}

AppRead(c) ==
  /\ UsesBus(c) /\ live # {}
  /\ ReadMessages(c)
  /\ LoopFieldsUnchanged /\ UNCHANGED <<loop, idx, used>>

AppSend(c) ==
  /\ pc[c] = "idle" /\ used.sends < MaxSends
  /\ used' = [used EXCEPT !.sends = @ + 1]
  /\ QueueOutgoing(c)
  /\ LoopFieldsUnchanged /\ UNCHANGED <<loop, idx>>

AppFlush(c) ==
  /\ UsesBus(c)
  /\ Flush(c)
  /\ LoopFieldsUnchanged /\ UNCHANGED <<loop, idx, used>>

AppDisconnect(c) ==
  /\ UsesBus(c) /\ c \in Noticers
  /\ Disconnect(c)
  /\ LoopFieldsUnchanged /\ UNCHANGED <<loop, idx, used>>

\* The bus.
BusSends ==
  /\ used.msgs < MaxMsgs /\ ~hup
  /\ used' = [used EXCEPT !.msgs = @ + 1]
  /\ inbound' = inbound + 1
  /\ LoopFieldsUnchanged
  /\ UNCHANGED <<loop, idx, busVars, callVars, hup, incoming>>

BusCloses ==
  /\ ~hup /\ hup' = TRUE
  /\ LoopFieldsUnchanged
  /\ UNCHANGED <<loop, idx, busVars, callVars, inbound, incoming, used>>

-----------------------------------------------------------------------------
(* startEventLoop and stopEventLoop.                                       *)

ClientOnly == UNCHANGED <<idx, inbound, hup, busVars, callVars, incoming,
                          fault>>

\* Takes the mutex and clears running; then refuses if there is a table.
StartEventLoop(c) ==
  /\ pc[c] = "idle" /\ owner # c /\ mutex = NoOne
  /\ used.starts < MaxStarts
  /\ used' = [used EXCEPT !.starts = @ + 1]
  /\ running' = 0
  /\ IF pollCap # 0
     THEN UNCHANGED <<pc, mutex>>
     ELSE pc' = [pc EXCEPT ![c] = "alloc"] /\ mutex' = c
  /\ UNCHANGED <<natVars, fdVars, loop, stream>> /\ ClientOnly

\* Mutated: fields cleared, descriptors not closed.
RollBack_Leak(c) ==
  /\ controlFdR' = 0 /\ controlFdW' = 0 /\ UNCHANGED open
  /\ table' = <<>> /\ pollDataSize' = 0 /\ pollCap' = 0 /\ watchCap' = 0
  /\ mutex' = NoOne /\ pc' = [pc EXCEPT ![c] = "idle"]

\* The label done: on failure.  Only descriptors that are set are closed.
RollBack(c) ==
  /\ open' = open \ {controlFdR, controlFdW}
  /\ controlFdR' = 0 /\ controlFdW' = 0
  /\ table' = <<>> /\ pollDataSize' = 0 /\ pollCap' = 0 /\ watchCap' = 0
  /\ mutex' = NoOne /\ pc' = [pc EXCEPT ![c] = "idle"]

\* The two mallocs and socketpair; any of them may fail.
StartAlloc(c) ==
  /\ pc[c] = "alloc"
  /\ \/ /\ table' = <<ControlSlot>>
        /\ pollDataSize' = InitialSize
        /\ pollCap' = InitialSize /\ watchCap' = InitialSize
        /\ controlFdR' = CtlR /\ controlFdW' = CtlW
        /\ open' = open \cup {CtlR, CtlW} /\ stream' = <<>>
        /\ pc' = [pc EXCEPT ![c] = "setup"] /\ UNCHANGED mutex
     \/ AllocFails /\ RollBack(c) /\ UNCHANGED stream
  /\ UNCHANGED <<running, loop, used>> /\ ClientOnly

\* setUpEventLoop returns; then pthread_create and the unlock.
StartSetUp(c) ==
  /\ pc[c] = "setup" /\ owner # c
  /\ \/ /\ loop' = "hook"
        /\ mutex' = NoOne /\ pc' = [pc EXCEPT ![c] = "idle"]
        /\ UNCHANGED <<natVars, fdVars>>
     \/ AllocFails /\ RollBack(c) /\ UNCHANGED loop
  /\ UNCHANGED <<running, stream, used>> /\ ClientOnly

\* With no table there is nothing to stop.
StopEventLoop(c) ==
  /\ pc[c] = "idle" /\ owner # c /\ mutex = NoOne
  /\ IF pollCap = 0
     THEN running' = 0 /\ UNCHANGED <<pc, mutex>>
     ELSE /\ pc' = [pc EXCEPT ![c] = "exit"] /\ mutex' = c
          /\ UNCHANGED running
  /\ UNCHANGED <<natVars, fdVars, loop, stream, used>> /\ ClientOnly

\* The EXIT byte, written without the connection lock.
StopWrite(c) ==
  /\ pc[c] = "exit" /\ Len(stream) < ChanCap
  /\ stream' = Append(stream, Ctl(EXIT))
  /\ pc' = [pc EXCEPT ![c] = "join"]
  /\ UNCHANGED <<natVars, fdVars, running, mutex, loop, used>> /\ ClientOnly

\* Mutated: frees without pthread_join.
StopJoin_NoWait(c) ==
  /\ pc[c] = "join"
  /\ table' = <<>> /\ pollDataSize' = 0 /\ pollCap' = 0 /\ watchCap' = 0
  /\ pc' = [pc EXCEPT ![c] = "close"]
  /\ UNCHANGED <<fdVars, running, mutex, loop, stream, used>> /\ ClientOnly

\* pthread_join returns; the arrays are freed.
StopJoin(c) ==
  /\ pc[c] = "join" /\ loop = "done"
  /\ loop' = "none"
  /\ table' = <<>> /\ pollDataSize' = 0 /\ pollCap' = 0 /\ watchCap' = 0
  /\ pc' = [pc EXCEPT ![c] = "close"]
  /\ UNCHANGED <<fdVars, running, mutex, stream, used>> /\ ClientOnly

\* Mutated: running is not cleared.
StopClose_KeepRunning(c) ==
  /\ pc[c] = "close"
  /\ controlFdW' = 0 /\ open' = open \ {controlFdW}
  /\ mutex' = NoOne /\ pc' = [pc EXCEPT ![c] = "idle"]
  /\ UNCHANGED <<natVars, controlFdR, running, loop, stream, used>> /\ ClientOnly

StopClose(c) ==
  /\ pc[c] = "close"
  /\ controlFdW' = 0 /\ open' = open \ {controlFdW}
  /\ running' = 0 /\ mutex' = NoOne
  /\ pc' = [pc EXCEPT ![c] = "idle"]
  /\ UNCHANGED <<natVars, controlFdR, loop, stream, used>> /\ ClientOnly

-----------------------------------------------------------------------------
(* eventLoopMain.  The thread cannot go on while it is inside a callback.  *)

At(l) == loop = l /\ owner # Loop

\* What a loop step that only uses its own table leaves alone.
LoopOnly == UNCHANGED <<fdVars, running, mutex, pc, inbound, hup, busVars,
                        callVars, incoming, used>>

LoopHook ==
  /\ At("hook") /\ Call(Loop, AddAll)
  /\ hooked' = TRUE /\ loop' = "wakehook"
  /\ LoopFieldsUnchanged
  /\ UNCHANGED <<idx, inbound, hup, live, enabled, wakeHooked, incoming, used>>

LoopWakeHook ==
  /\ At("wakehook") /\ owner = NoOne
  /\ wakeHooked' = TRUE /\ loop' = "started"
  /\ LoopFieldsUnchanged
  /\ UNCHANGED <<idx, inbound, hup, live, enabled, hooked, callVars, incoming,
                 used>>

LoopStarted ==
  /\ At("started") /\ running' = 1 /\ loop' = "scan" /\ idx' = 1
  /\ UNCHANGED <<natVars, fdVars, mutex, pc, stream, inbound, hup, busVars,
                 callVars, incoming, fault, used>>

\* One round of the for loop over the members.
LoopScan ==
  /\ At("scan")
  /\ \/ idx > Len(table) /\ loop' = "dispatch" /\ UNCHANGED idx
     \/ /\ idx <= Len(table) /\ table[idx].revents = 0
        /\ idx' = idx + 1 /\ UNCHANGED loop
     \/ /\ idx <= Len(table) /\ table[idx].revents # 0
        /\ loop' = (IF table[idx].fd = controlFdR THEN "drain" ELSE "handle")
        /\ UNCHANGED idx
  /\ UNCHANGED <<natVars, stream, fault>> /\ LoopOnly

\* Mutated: the case of EVENT_LOOP_WAKEUP falls through to EXIT.
LoopReceive_FallThrough ==
  /\ At("drain")
  /\ \/ /\ stream = <<>>
        /\ loop' = "scan" /\ idx' = idx + 1 /\ UNCHANGED <<stream, fault>>
     \/ /\ stream # <<>> /\ Head(stream).kind = "ctl"
        /\ stream' = Tail(stream)
        /\ loop' = (CASE Head(stream).val = ADD -> "add"
                      [] Head(stream).val = REMOVE -> "remove"
                      [] OTHER -> "unhook")
        /\ UNCHANGED <<idx, fault>>
     \/ /\ stream # <<>> /\ Head(stream).kind # "ctl"
        /\ fault' = "frame" /\ UNCHANGED <<loop, idx, stream>>
  /\ UNCHANGED natVars /\ LoopOnly

\* One recv of a control byte without waiting.  Reading a field as a control
\* byte is outside what the code defines.
LoopReceive ==
  /\ At("drain")
  /\ \/ /\ stream = <<>>
        /\ loop' = "scan" /\ idx' = idx + 1 /\ UNCHANGED <<stream, fault>>
     \/ /\ stream # <<>> /\ Head(stream).kind = "ctl"
        /\ stream' = Tail(stream)
        /\ loop' = (CASE Head(stream).val = EXIT -> "unhook"
                      [] Head(stream).val = ADD -> "add"
                      [] Head(stream).val = REMOVE -> "remove"
                      [] OTHER -> "drain")
        /\ UNCHANGED <<idx, fault>>
     \/ /\ stream # <<>> /\ Head(stream).kind # "ctl"
        /\ fault' = "frame" /\ UNCHANGED <<loop, idx, stream>>
  /\ UNCHANGED natVars /\ LoopOnly

\* The blocking reads of a handler, taken together once all it reads is
\* there: nobody else reads the stream.
CanRead(kinds) ==
  /\ Len(stream) >= Len(kinds)
  /\ \A k \in 1 .. Len(kinds) : stream[k].kind = kinds[k]

\* Another byte sits where a field is read: the handler gets a descriptor,
\* flags or a pointer nobody wrote.
MisreadsOne(kinds) ==
  \E k \in 1 .. Len(kinds) : k <= Len(stream) /\ stream[k].kind # kinds[k]

AddFields == <<"fd", "flags", "watch">>
RemoveFields == <<"fd", "flags">>

\* Mutated: pollDataSize grows before the second malloc.
Grow_SizeFirst(slot) ==
  /\ pollCap' = Len(table) + 1 /\ pollDataSize' = pollDataSize + 1
  /\ \/ table' = Append(table, slot) /\ watchCap' = Len(table) + 1
     \/ AllocFails /\ UNCHANGED <<table, watchCap>>

\* A full table is reallocated one larger, pollData first.
Grow(slot) ==
  \/ /\ table' = Append(table, slot)
     /\ pollCap' = Len(table) + 1 /\ watchCap' = Len(table) + 1
     /\ pollDataSize' = pollDataSize + 1
  \/ AllocFails /\ UNCHANGED natVars
  \/ /\ AllocFails /\ pollCap' = Len(table) + 1
     /\ UNCHANGED <<table, pollDataSize, watchCap>>

\* A duplicate is dropped; a slot goes at the end, after growing if full.
Place(slot) ==
  IF Positions(table, slot.fd, slot.events) # {} THEN UNCHANGED natVars
  ELSE IF Len(table) = pollDataSize THEN Grow(slot)
  ELSE table' = Append(table, slot) /\ UNCHANGED <<pollDataSize, pollCap, watchCap>>

handleWatchAdd ==
  /\ At("add") /\ CanRead(AddFields)
  /\ Place(NewSlot(stream[1].val, dbus_flags_to_unix_events(stream[2].val),
                   stream[3].val))
  /\ stream' = SubSeq(stream, 4, Len(stream)) /\ loop' = "drain"
  /\ UNCHANGED <<idx, fault>> /\ LoopOnly

handleWatchRemove ==
  /\ At("remove") /\ CanRead(RemoveFields)
  /\ LET found == Positions(table, stream[1].val,
                            dbus_flags_to_unix_events(stream[2].val))
     IN  table' = IF found = {} THEN table ELSE RemoveSlot(table, First(found))
  /\ stream' = SubSeq(stream, 3, Len(stream)) /\ loop' = "drain"
  /\ UNCHANGED <<pollDataSize, pollCap, watchCap, idx, fault>> /\ LoopOnly

LoopMisreads ==
  /\ \/ At("add") /\ MisreadsOne(AddFields)
     \/ At("remove") /\ MisreadsOne(RemoveFields)
  /\ fault' = "frame"
  /\ UNCHANGED <<natVars, stream, loop, idx>> /\ LoopOnly

\* dbus_watch_handle on the first reported watch, then out of the for loop.
\* A watch libdbus has freed is outside what the code defines.
LoopHandleDead ==
  /\ At("handle") /\ owner = NoOne /\ table[idx].watch \notin live
  /\ fault' = "watch"
  /\ UNCHANGED <<natVars, stream, loop, idx>> /\ LoopOnly

HandleEffect(w, flags) ==
  IF w = Rd /\ Has(flags, DBUS_WATCH_READABLE) /\ (inbound > 0 \/ hup)
  THEN ReadMessages(Loop) \/ Disconnect(Loop)
  ELSE IF w = Wr /\ Has(flags, DBUS_WATCH_WRITABLE) /\ Wr \in enabled
  THEN Flush(Loop)
  ELSE owner = NoOne /\ UNCHANGED <<busVars, callVars, inbound, hup, incoming>>

\* Mutated: the for loop goes on after a watch.
LoopHandleWatch_NoBreak ==
  /\ At("handle") /\ table[idx].watch \in live
  /\ HandleEffect(table[idx].watch,
                  unix_events_to_dbus_flags(table[idx].revents))
  /\ table' = [table EXCEPT ![idx].revents = 0]
  /\ loop' = "scan" /\ idx' = idx + 1
  /\ UNCHANGED <<pollDataSize, pollCap, watchCap, fdVars, running, mutex, pc,
                 stream, fault, used>>

LoopHandleWatch ==
  /\ At("handle") /\ table[idx].watch \in live
  /\ HandleEffect(table[idx].watch,
                  unix_events_to_dbus_flags(table[idx].revents))
  /\ table' = [table EXCEPT ![idx].revents = 0]
  /\ loop' = "dispatch"
  /\ UNCHANGED <<pollDataSize, pollCap, watchCap, fdVars, running, mutex, pc,
                 idx, stream, fault, used>>

LoopDispatch ==
  /\ At("dispatch") /\ owner = NoOne
  /\ IF incoming > 0
     THEN incoming' = incoming - 1 /\ UNCHANGED loop
     ELSE loop' = "poll" /\ UNCHANGED incoming
  /\ LoopFieldsUnchanged
  /\ UNCHANGED <<idx, inbound, hup, busVars, callVars, used>>

\* What poll finds for a member: nothing it was not asked for but a hang-up
\* or a closed descriptor.
Revents(s) ==
  IF s.fd = controlFdR THEN Bit(Has(s.events, POLLIN) /\ stream # <<>>, POLLIN)
  ELSE IF live = {} /\ owner = NoOne THEN POLLNVAL
  ELSE Bit(Has(s.events, POLLIN) /\ (inbound > 0 \/ hup), POLLIN)
         + Bit(Has(s.events, POLLOUT), POLLOUT) + Bit(hup, POLLHUP)

LoopPoll ==
  /\ At("poll")
  /\ \E k \in DOMAIN table : Revents(table[k]) # 0
  /\ table' = [k \in DOMAIN table |->
                 [table[k] EXCEPT !.revents = Revents(table[k])]]
  /\ loop' = "scan" /\ idx' = 1
  /\ UNCHANGED <<pollDataSize, pollCap, watchCap, stream, fault>> /\ LoopOnly

LoopUnhook ==
  /\ At("unhook") /\ Call(Loop, Hooked(RemoveAll))
  /\ hooked' = FALSE /\ loop' = "teardown"
  /\ LoopFieldsUnchanged
  /\ UNCHANGED <<idx, inbound, hup, live, enabled, wakeHooked, incoming, used>>

\* tearDownEventLoop: blocking calls and a flush.  The wakeup function is
\* still installed.
LoopTearDown ==
  /\ At("teardown")
  /\ (live # {} /\ ReadMessages(Loop)) \/ Disconnect(Loop) \/ Flush(Loop)
  /\ LoopFieldsUnchanged /\ UNCHANGED <<loop, idx, used>>

LoopClose ==
  /\ At("teardown")
  /\ controlFdR' = 0 /\ open' = open \ {controlFdR} /\ loop' = "done"
  /\ UNCHANGED <<natVars, controlFdW, running, mutex, pc, stream, fault>>
  /\ UNCHANGED <<idx, inbound, hup, busVars, callVars, incoming, used>>

-----------------------------------------------------------------------------
StartStop(c) ==
  \/ StartEventLoop(c) \/ StartAlloc(c) \/ StartSetUp(c)
  \/ StopEventLoop(c) \/ StopWrite(c) \/ StopJoin(c) \/ StopClose(c)

UseBus(c) == AppRead(c) \/ AppSend(c) \/ AppFlush(c) \/ AppDisconnect(c)

Bus == BusSends \/ BusCloses

RunLoop ==
  \/ LoopHook \/ LoopWakeHook \/ LoopStarted \/ LoopScan \/ LoopReceive
  \/ handleWatchAdd \/ handleWatchRemove \/ LoopMisreads
  \/ LoopHandleDead \/ LoopHandleWatch \/ LoopDispatch \/ LoopPoll
  \/ LoopUnhook \/ LoopTearDown \/ LoopClose

\* The program may rest with every client idle and the loop blocked in poll
\* or not there; after a fault nothing more is said of it.
Resting ==
  \/ fault # "none"
  \/ /\ \A c \in Clients : pc[c] = "idle"
     /\ owner = NoOne /\ loop \in {"none", "poll"}

Next ==
  \/ /\ fault = "none"
     /\ \/ \E c \in Clients : StartStop(c) \/ UseBus(c)
        \/ \E t \in Threads : WriteControl(t)
        \/ Bus
        \/ RunLoop
  \/ Resting /\ UNCHANGED vars

\* Threads are scheduled: a client that is inside startEventLoop or
\* stopEventLoop, a thread that is inside a callback, and the loop.
Inside(c) ==
  StartAlloc(c) \/ StartSetUp(c) \/ StopWrite(c) \/ StopJoin(c) \/ StopClose(c)

Fairness ==
  /\ \A c \in Clients : WF_vars(fault = "none" /\ Inside(c))
  /\ \A t \in Threads : WF_vars(fault = "none" /\ WriteControl(t))
  /\ WF_vars(fault = "none" /\ RunLoop)

Spec == Init /\ [][Next]_vars
FairSpec == Spec /\ Fairness
=============================================================================
