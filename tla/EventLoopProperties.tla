------------------------ MODULE EventLoopProperties ------------------------
(***************************************************************************)
(* What the event loop of bluetooth_event.c has to guarantee.              *)
(***************************************************************************)
EXTENDS EventLoop

PcStates == {"idle", "alloc", "setup", "exit", "join", "close"}
LoopStates == {"none", "hook", "wakehook", "started", "scan", "drain", "add",
               "remove", "handle", "dispatch", "poll", "unhook", "teardown",
               "done"}

\* The fields of tBluetoothEvent, the control socket and the threads.
FieldTypes ==
  /\ table \in Seq(SlotSet({BusFd, CtlR}, Ptrs))
  /\ pollDataSize \in Nat /\ pollCap \in Nat /\ watchCap \in Nat
  /\ controlFdR \in {0, CtlR} /\ controlFdW \in {0, CtlW}
  /\ open \subseteq {CtlR, CtlW}
  /\ running \in {0, 1}
  /\ mutex \in Clients \cup {NoOne}
  /\ pc \in [Clients -> PcStates]
  /\ loop \in LoopStates
  /\ idx \in Nat \ {0}
  /\ stream \in Seq(Items)
  /\ fault \in {"none", "frame", "watch"}
  /\ used \in [starts : Nat, msgs : Nat, sends : Nat]

\* The bus and libdbus.
BusTypes ==
  /\ incoming \in Nat /\ inbound \in Nat
  /\ items \in Seq(Items) /\ owner \in Threads \cup {NoOne}
  /\ hup \in BOOLEAN /\ hooked \in BOOLEAN /\ wakeHooked \in BOOLEAN
  /\ live \subseteq Watches /\ enabled \subseteq live

\* The type invariant: the fields of tBluetoothEvent, the places the threads
\* can be in, and the state of the libraries, for which only watches that
\* exist are enabled.
TypeOK == FieldTypes /\ BusTypes

\* pollMemberCount never passes pollDataSize, nor pollDataSize what was
\* really allocated for either array, also when one of the two mallocs of a
\* growth fails: no access to pollData or watchData is out of bounds.
TableFits ==
  /\ Len(table) <= pollDataSize
  /\ pollDataSize <= pollCap /\ pollDataSize <= watchCap

\* However watches come and go (a removal copies the last member over the
\* hole), pollData[0] stays the control socket and is the only member for
\* it, and a search for a watch finds at most one member: the loop can
\* always be woken, and a removal removes what was added.
ControlSlotFirst ==
  /\ table # <<>> => table[1].fd = CtlR /\ table[1].events = POLLIN
  /\ \A k \in DOMAIN table : k > 1 => table[k].fd = BusFd
  /\ DistinctKeys(table)

\* The arrays exist and the reading end is open as long as the loop thread
\* uses them: stopEventLoop and the roll-back of startEventLoop free nothing
\* under a running loop.
LoopOwnsTable ==
  loop \notin {"none", "done"} =>
    /\ table # <<>> /\ pollCap > 0 /\ watchCap > 0
    /\ controlFdR = CtlR /\ {CtlR, CtlW} \subseteq open

\* A second event loop thread is never created while one exists.
OneLoop == [][loop' = "hook" /\ loop # "hook" => loop = "none"]_vars

\* When nobody is inside startEventLoop or stopEventLoop, there is a loop
\* thread exactly when there is a table, and without one both ends of the
\* socket pair are closed and forgotten: no descriptor is leaked by a
\* failed start or by stopping.
StoppedMeansReleased ==
  mutex = NoOne =>
    /\ (pollCap = 0) = (loop = "none")
    /\ loop = "none" =>
         open = {} /\ controlFdR = 0 /\ controlFdW = 0 /\ table = <<>>

\* isEventLoopRunning never answers 1 (under the mutex) when no thread runs.
RunningMeansThread == mutex = NoOne /\ running = 1 => loop # "none"

\* The loop never calls dbus_watch_handle on a watch that libdbus freed.
NoDeadWatchHandled == fault # "watch"

\* The control messages reach the loop as they were written.
MessagesIntact == fault # "frame"

-----------------------------------------------------------------------------
(* The event loop implements LoopService.                                  *)

Phase ==
  IF \E c \in Clients : pc[c] \in {"alloc", "setup"} THEN "starting"
  ELSE IF \E c \in Clients : pc[c] \in {"exit", "join", "close"} THEN "stopping"
  ELSE IF loop = "none" THEN "off" ELSE "on"

Thread ==
  CASE loop = "none" -> "none" [] loop = "done" -> "ended" [] OTHER -> "alive"

Service == INSTANCE LoopService
             WITH phase <- Phase, holder <- mutex, thread <- Thread,
                  reported <- running, queued <- incoming

\* Seen from its callers the event loop is that service: the loop thread ends
\* for no byte on the control socket but the EXIT of a stopEventLoop that is
\* waiting for it, also if several threads start and stop; whoever else
\* returns in between finds it on or off; and no queued message is taken
\* but by the loop, one by one.
ImplementsService == Service!Spec

-----------------------------------------------------------------------------
(* The inductive invariant behind the life of the table, the descriptors   *)
(* and the thread.                                                         *)

\* Nothing is allocated and no descriptor is set.
Released ==
  /\ table = <<>> /\ pollDataSize = 0 /\ pollCap = 0 /\ watchCap = 0
  /\ controlFdR = 0 /\ controlFdW = 0 /\ open = {}

\* The arrays and the socket pair are there.
Allocated ==
  /\ table # <<>> /\ pollCap > 0 /\ watchCap > 0
  /\ controlFdR = CtlR /\ controlFdW = CtlW /\ open = {CtlR, CtlW}

\* The loop has closed its end and returned.
Finished ==
  /\ table # <<>> /\ pollCap > 0 /\ watchCap > 0
  /\ controlFdR = 0 /\ controlFdW = CtlW /\ open = {CtlW}

\* The arrays are freed and the writing end is still to be closed.
Joined ==
  /\ table = <<>> /\ pollDataSize = 0 /\ pollCap = 0 /\ watchCap = 0
  /\ controlFdR = 0 /\ controlFdW = CtlW /\ open = {CtlW}

\* What is there, by where the holder of the mutex and the loop are.
Lifecycle ==
  /\ \A c \in Clients :
       /\ pc[c] # "idle" => mutex = c
       /\ pc[c] = "alloc" => loop = "none" /\ running = 0 /\ Released
       /\ pc[c] = "setup" => loop = "none" /\ running = 0 /\ Allocated
       /\ pc[c] \in {"exit", "join"} => loop # "none"
       /\ pc[c] = "close" => loop = "none" /\ Joined
  /\ mutex = NoOne /\ loop = "none" => running = 0 /\ Released
  /\ loop \notin {"none", "done"} => Allocated
  /\ loop = "done" => Finished

\* What the callbacks write: anything but an EXIT byte.
Messages == Items \ {Ctl(EXIT)}

\* Where a sequence of writes holds an EXIT byte.
ExitsIn(s) == {k \in DOMAIN s : s[k] = Ctl(EXIT)}

\* An EXIT byte is there only while a client waits in stopEventLoop; the
\* callbacks write none, and the loop leaves none behind.
StopRequests ==
  /\ items \in Seq(Messages)
  /\ \A j, k \in ExitsIn(stream) : j = k
  /\ ExitsIn(stream) # {} => \E c \in Clients : pc[c] = "join"
  /\ loop \in {"unhook", "teardown", "done"} =>
       ExitsIn(stream) = {} /\ \E c \in Clients : pc[c] = "join"

-----------------------------------------------------------------------------
(* What is on its way to the table: what the handler in progress is about  *)
(* to read, what is in the socket, and what the callbacks have to write.   *)

InHand ==
  CASE loop = "add" -> <<Ctl(ADD)>>
    [] loop = "remove" -> <<Ctl(REMOVE)>>
    [] OTHER -> <<>>

Pending == InHand \o stream \o items

\* Where the pending items p add or remove w.
Ops(p, w) ==
  {k \in 1 .. Len(p) - 2 :
     /\ p[k] \in {Ctl(ADD), Ctl(REMOVE)}
     /\ p[k + 1] = FdItem /\ p[k + 2] = FlagsItem(w)}

InTable(t, w) ==
  \E k \in DOMAIN t :
    /\ t[k].fd = BusFd /\ t[k].watch = w
    /\ t[k].events = dbus_flags_to_unix_events(FlagsOf(w))

\* Whether w is polled once p has been handled with the table t.
WillBePolled(p, t, w) ==
  IF Ops(p, w) = {} THEN InTable(t, w)
  ELSE \E k \in Ops(p, w) : p[k] = Ctl(ADD) /\ \A j \in Ops(p, w) : j <= k

ExitPending == \E k \in DOMAIN Pending : Pending[k] = Ctl(EXIT)

\* While the watch functions are installed, the table is behind libdbus only
\* by the messages on their way: after the last of them exactly the enabled
\* watches are polled, each with its own DBusWatch pointer.  Said of a loop
\* that no stop is about to end, and where no allocation fails: a failed
\* growth loses the watch it was for.
InSync ==
  hooked /\ fault = "none" /\ ~ExitPending =>
    \A w \in Watches : WillBePolled(Pending, table, w) <=> w \in enabled

\* The half of InSync that no failed growth takes away: no watch that libdbus
\* switched off or freed is still polled after the messages on their way.
NoStaleWatch ==
  hooked /\ fault = "none" /\ ~ExitPending =>
    \A w \in Watches : WillBePolled(Pending, table, w) => w \in enabled

-----------------------------------------------------------------------------
(* The inductive invariant behind InSync and NoDeadWatchHandled: what is   *)
(* pending are whole messages, up to one an EXIT byte was written into.    *)

\* The item at k is a field of the message whose control byte is at j.
FieldOf(p, j, k) ==
  \/ p[j] = Ctl(ADD) /\ k \in (j + 1) .. (j + 3)
  \/ p[j] = Ctl(REMOVE) /\ k \in (j + 1) .. (j + 2)

\* The first n items of p are whole messages.
WholeTo(p, n) ==
  \A k \in 1 .. n :
    /\ p[k] \in {Ctl(ADD), Ctl(REMOVE)} =>
         /\ k + 2 <= n /\ p[k + 1] = FdItem
         /\ \E w \in Watches :
              /\ p[k + 2] = FlagsItem(w)
              /\ p[k] = Ctl(ADD) => k + 3 <= n /\ p[k + 3] = PtrItem(w)
    /\ p[k].kind # "ctl" => \E j \in 1 .. (k - 1) : FieldOf(p, j, k)

Whole(p) == WholeTo(p, Len(p))

\* An EXIT byte sits among the fields of a message.  The loop finds it there
\* before it reads any further message.
Torn(p) ==
  \E j, k \in DOMAIN p :
    WholeTo(p, j - 1) /\ FieldOf(p, j, k) /\ p[k] = Ctl(EXIT)

Wakeups(s) == \A k \in DOMAIN s : s[k] = Ctl(WAKEUP)

\* Who is inside callbacks, and that without the watch functions nothing but
\* wakeups is written.
Calls ==
  /\ owner = NoOne <=> items = <<>>
  /\ owner = Loop => loop \notin {"none", "hook", "done"}
  /\ hooked <=> loop \notin {"none", "hook", "teardown", "done"}
  /\ ~hooked /\ ~(loop = "teardown" /\ owner = Loop) => Wakeups(items)

\* A loop starts with the control slot and without old messages.
Fresh ==
  /\ loop = "hook" \/ (\E c \in Clients : pc[c] = "setup") =>
       \A k \in DOMAIN stream : stream[k] \in {Ctl(WAKEUP), Ctl(EXIT)}
  /\ \/ loop \in {"hook", "wakehook", "started"}
     \/ \E c \in Clients : pc[c] = "setup"
     => table = <<ControlSlot>>

\* Behind the control slot there are slots of watches, as they were added.
WatchSlots ==
  \A k \in DOMAIN table :
    k > 1 => /\ table[k].watch \in Watches
             /\ table[k].events = dbus_flags_to_unix_events(FlagsOf(table[k].watch))

\* Handling p with the table t leads to the watches on, or to fewer where a
\* growth may fail, unless p is torn.
Leads(p, t, on) ==
  \/ Torn(p)
  \/ /\ Whole(p)
     /\ \A w \in Watches :
          /\ WillBePolled(p, t, w) => w \in on
          /\ w \in on => AllocFails \/ WillBePolled(p, t, w)

Following == hooked /\ fault = "none" => Leads(Pending, table, enabled)

SyncInv == Calls /\ Fresh /\ WatchSlots /\ Following

\* Where the loop may be once the connection is closed: the scan after that
\* begins with the control socket, from which the removals are read, before
\* it comes to the slot of a watch.
Closing ==
  /\ live \in {{}, Watches}
  /\ loop = "handle" => idx \in 2 .. Len(table)
  /\ fault = "none" /\ live = {} =>
       /\ owner # Loop => Wakeups(items)
       /\ loop # "handle"
       /\ loop = "scan" => Len(table) = 1 \/ (idx = 1 /\ table[1].revents # 0)

\* A message is torn only while a client waits in stopEventLoop.
OnlyStopTears == fault = "frame" => \E c \in Clients : pc[c] = "join"

\* What QueuedMessagesDispatched rests on: no wakeup is lost.  A loop that is
\* in poll while a message is queued has something in its socket, or a
\* callback is about to put it there, whoever queued the message and when.
QueuedWakes ==
  loop = "poll" /\ fault = "none" /\ incoming > 0 =>
    stream # <<>> \/ items # <<>>

\* What StopReturns rests on: the EXIT byte of a stop is not lost, as long as
\* no message is misread.
StopIsHeard ==
  fault = "none" =>
    \A c \in Clients : pc[c] = "join" =>
      ExitsIn(stream) # {} \/ loop \in {"unhook", "teardown", "done"}

-----------------------------------------------------------------------------
(* Liveness, under FairSpec.                                               *)

Ending == loop \in {"unhook", "teardown", "done", "none"} \/ fault # "none"

\* A message that any thread read from the bus and queued is dispatched by
\* the loop, also when the loop was about to block in poll.
QueuedMessagesDispatched == incoming > 0 ~> incoming = 0 \/ Ending

\* stopEventLoop returns, unless execution left what the code defines (an
\* EXIT byte inside another thread's message, see MessagesIntact).
StopReturns ==
  \A c \in Clients : pc[c] = "exit" ~> pc[c] = "idle" \/ fault # "none"
=============================================================================
