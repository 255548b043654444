# A verification project for bluetooth_research

The repository collects programs and notes around Bluetooth on Linux. Four
programs in it have logic of their own, and these modules are about them:

- **terry_bluez**, a small library over BlueZ 4's D-Bus interface: a thread that
  runs the D-Bus main loop, a service API on top of it, and a test program;
- **brcm_patchram_plus**, which configures a Broadcom chip over a UART and
  downloads its firmware;
- **hciattach_rda5876** with the **RDA chip driver**, which does the same for
  RDA chips;
- a **parser of traces** (`bug_fix_record/rda5876_nosie`) that turns what another
  product wrote to an RDA chip back into a table of registers.

The rest is documentation, books, archives of other projects, and a Wireshark
script.

## 1. Inventory

### Event loop (`terry_bluez/src/bluetooth_event.c`)

State: `tBluetoothEvent`. `pollData` and `watchData` are two arrays of the same
length, `pollMemberCount` of `pollDataSize` members used: what poll waits for,
and the `DBusWatch` of each. `controlFdR` and `controlFdW` are the two ends of a
socket pair, `pollData[0]` its reading end. `running`, the thread and
`thread_mutex` complete it.

Operations: `startEventLoop` (allocate, socket pair, set up agent and matches,
create the thread; on failure roll everything back), `stopEventLoop` (write EXIT,
join, free, close), `eventLoopMain` (install the libdbus functions, then scan the
poll results, handle control messages and watches, dispatch, poll), and the four
functions libdbus calls: `dbusAddWatch`, `dbusRemoveWatch`, `dbusToggleWatch` and
`dbusWakeup`.

Interaction: libdbus calls these functions on *whatever thread is using the
connection*: the loop when it handles a watch or dispatches, an application
thread when it sends or blocks for a reply. They do not touch the table but
write messages to the control socket, several `write` calls each (a control
byte, the descriptor, the flags, the pointer), which the loop reads field by
field. libdbus calls them with the connection lock held; `stopEventLoop` writes
its EXIT without it.

Hard: the interleaving of all this; the table always lags behind libdbus by the
messages on their way; the loop may block in poll on a message another thread
has already taken off the socket; a watch may be freed between poll and its
handling; starting can fail at every step.

Correct when: only the loop uses the table while it runs, and it is released
exactly when the loop has ended; no access is out of bounds; the control socket
stays member 0; the table catches up with libdbus; a queued message is
dispatched; a stop returns; no freed watch is handled.

### Local agent and signal filter (`bluetooth_event.c:45-420`)

`setUpEventLoop` registers an object path for the agent, asks BlueZ to use it,
adds `event_filter` to the connection and three match rules on the bus, one
blocking call after the other; `tearDownEventLoop` takes the six back in its own
order. A set-up that fails after the agent returns in the middle and undoes
nothing. `event_filter` prints signals, `agent_event_filter` prints what BlueZ
asks and says HANDLED without a reply.

Hard: each of the calls may fail, and two of them may time out although they
were carried out; BlueZ may exit and come back between any two; starts and stops
repeat on what earlier ones left; `stopEventLoop` waits for the loop's thread
while that waits for BlueZ.

Correct when: a loop that runs has all its registrations; one that is off left
none, and does not get in the way of the next start; BlueZ never has an agent
that is not there to be asked; start and stop return.

### Asynchronous calls (`bluetooth_common.c:42-149`, `bluetooth_service.c:221-313`)

`dbus_func_args_async` allocates a `dbus_async_call_t`, sends the message, and
*then* tells libdbus the function to call. The reply is dispatched by the event
loop, in another thread. The context the service function allocates is freed by
the callback. Correct when the callback runs once, has its memory, and leaves
nothing, also over starts and stops of the loop, and comes in the end.

### Blocking calls (`bluetooth_common.c:151-398`)

`dbus_func_args_timeout_valist` composes a message out of a variable list, sends
it and waits; a failure in the middle jumps to a common end. A client gives its
own error, or has it logged and freed. The `dbus_returns_` functions take a
number, a string or an array out of the reply and release the reply. Some
functions of the service API compose their message themselves. Correct when
every path releases the message, the reply and the error exactly as its owner
is told.

### Parsing of properties (`bluetooth_common.c:400-764`)

`parse_properties` finds each entry of a dictionary in a table of known
properties, counts, allocates and fills an array of `t_property_value`, which
`free_property_value` releases; `parse_property_change` does it for the one
property a signal announces. Three levels of allocations, failures in the
middle, names compared by prefix, a counting loop that increments its variable
in two places, and strings that are pointers into a reply somebody else
releases. Correct when nothing is dropped, confused or leaked and nothing is
used after its reply is gone.

### Service API and test program (`bluetooth_service.c`, `bluetooth_main.c`)

`initServices` and `destoryServices` set and reset the connection, the path of
the default adapter and a second agent, for pairings; the other functions are
one call each. `bluetooth_main.c` uses them in a fixed order around the event
loop, and goes on whatever they return. Correct when what they call is.

### brcm_patchram_plus

One thread, a fixed sequence of HCI commands given by the options, and a handler
of SIGALRM that sends another reset when the first was not answered. Every
command is followed by a read of "the next event", which is never looked at. The
two ends of the UART change their speed independently. Correct when each event
read belongs to its command, the speeds agree whenever something travels, the
firmware reaches the chip complete, and the kernel gets a quiet line.

### hciattach_rda5876 and the RDA driver

Setup is a sequence of system calls: set the line, power the chip, write tables
of registers (the radio before and after a power cycle), tell it its speed, hand
the UART to the kernel. The chip never answers; the program sleeps and hopes,
under an alarm. Then it waits for a signal or a hangup. Correct when the chip is
configured and at the host's speed on hand-over, and the program ends when it
should.

### Register encoding and the parser of traces

`rdabt_write_memory` computes an address and the bytes of a message;
`print_rda_cmd` undoes it. Correct when they are inverse, since the output of
one was pasted into the tables of the other, and when whole traces lead from one
message to the next. `txt2hex`, in between, converts a text as far as it fits in
50 KiB into a file that it does not truncate.

### Parts without a module

See section 8.

## 2. Modules

| module | models | extends |
|---|---|---|
| `WatchTable` | `pollData`/`watchData` as one sequence; search, removal; flag conversions | |
| `LoopService` | abstract: what starting, stopping and the loop's thread promise | |
| `EventLoop` | `tBluetoothEvent`, the threads, the control socket, libdbus, the bus | `WatchTable` |
| `EventLoopProperties` | what is expected of it, and the parts of the invariant | `EventLoop`, instance of `LoopService` |
| `EventLoopMC` | the symmetry for TLC | `EventLoopProperties` |
| `EventLoopProofs` | theorems on the table, the life of the loop and the control socket, and that `EventLoop` implements `LoopService` | `EventLoopProperties` |
| `AsyncCall`, `AsyncCallProofs` | asynchronous calls; theorems | |
| `Session` | a program that uses the library: registrations, BlueZ, the agent, the calls | instances of `LoopService` and `AsyncCall` |
| `SessionProperties`, `SessionProofs` | what it can rely on; theorems | `Session` |
| `BlockingCall` | blocking calls and their results | |
| `PropertyParse` | parsing, printing and freeing of properties | |
| `PropertyQuery` | a client's calls with their results | `PropertyParse`, instance of `BlockingCall` |
| `PropertyQueryProperties`, `PropertyQueryProofs` | what holds of calls and of parsed properties; theorems | `PropertyQuery` |
| `PropertyQueryMC` | dictionaries for TLC | `PropertyQueryProperties` |
| `PatchRam`, `PatchRamProperties`, `PatchRamProofs` | brcm_patchram_plus, UART and chip; theorems | |
| `PatchRamFirmwareProofs` | theorem: the firmware arrives complete | `PatchRamProofs` |
| `HciAttach`, `HciAttachProperties`, `HciAttachProofs` | hciattach_rda5876, driver, UART and chip; theorems | |
| `RdaCodec`, `RdaCodecMC`, `RdaCodecProofs` | the encoding, traces and the parser; theorems | |

### EventLoop

`table` is the sequence of the used members; `pollDataSize` is the size the code
believes in and `pollCap`, `watchCap` what was really allocated, because a growth
allocates twice and may fail in between. A client's `pc` is its place in
`startEventLoop` or `stopEventLoop`, `loop` the place in `eventLoopMain`. A step
ends where another thread could act in between with a visible effect: at every
write and every read of the control socket, at the mutex, and at each call into
libdbus. `stream` is the content of the control socket in units of one `write`;
`MisreadsOne` and `LoopMisreads` are the cases in which a read of one size meets
a write of another.

`items` and `owner` are a callback in progress: the thread inside libdbus and
what it has still to write. While there is an owner no other thread can enter
libdbus, which is the connection lock. An EXIT can still come in between.

`fault` records why execution left what the code defines: `"frame"` (a message
was read as something else) or `"watch"` (a freed watch was handled). Nothing is
said of the program after a fault.

libdbus, poll and the bus are external, written from how the code uses them: two
watches on one descriptor, one for each direction; the wakeup function called
when a message is queued; the watches removed and freed by whichever thread
finds the connection closed. `setUpEventLoop` and `tearDownEventLoop` are one
step each, of which the former may fail; `Session` opens them.

### LoopService

The abstract specification of the same thing: a service that is off, starting,
on or stopping, at most one thread, and a queue of which only that thread takes.
It has no socket, no table and no places of the loop. `ImplementsService` in
`EventLoopProperties` gives the mapping: the phase is read off the places of the
holder of the mutex and of the loop, the thread off the loop's place, and
`reported`, `queued` are `running`, `incoming`. What it says beyond the
invariants: the thread ends only for the EXIT of a stop that is waiting for it.

### AsyncCall

Per call: its place, three blocks of memory, the state of the pending call,
whether the callback is set. `Complete` is the event loop dispatching the reply,
enabled as soon as the message is sent. Calls do not time out, because the
library installs no timeout functions.

### Session

The composition. Where `EventLoop` has one step for set-up and one for tear-down,
`Session` takes the service as `LoopService` describes it (its actions `Start`,
`Launch`, `Abandon`, `End`, ... are conjuncts of the actions of `Session`) and
fills the phases "starting" and "stopping" with the six calls each of the code,
`at` being the one that is next. What is left to model of the loop is that it
dispatches when it is on and not inside a tear-down. The calls are `AsyncCall`'s,
with the reply dispatched by that loop and behind the filter and the agent.

BlueZ and the bus are external: BlueZ may exit, come back, ask the agent about a
pairing (`asked`) and give up on it; the bus may close. A call fails by an
allocation, an error reply or a timeout; after a timeout `RegisterAgent` or
`AddMatch` may have been carried out or not. `late` counts the calls that failed
with something to undo; `stale` remembers that BlueZ kept the agent when the
loop went off. Both are history and read by no guard.

### BlockingCall

One run of a call from composing to returning; the kinds of calls (`form`) and
of results (`takes`) are chosen at the start. `live` is the set of the blocks
that are allocated; `ret` tells how it ended. `Release` is a client that frees
what it was told to free.

### PropertyParse and PropertyQuery

One action per entry parsed, per round of the counting loop, for the allocation of
the head, per property created, and for freeing. A value is the number of its
elements, the heap the set of blocks allocated. A name is the sequence of its
words, so that "is a prefix of" is what `strncmp` with the received length finds.
The tables of adapter and device are a choice of `table`, dictionary and signal
one of `source`. The count is modelled as written, double increment included: it
does not count, but ends at the size of the table or one above, so that head
always has room for what is created in it. `PropertyQuery` composes it with `BlockingCall`: a reply is taken, its dictionary
parsed in place, the reply released, and the client prints and frees.

### PatchRam

`Program(options)` is the sequence of the system calls of one execution and each
kind of call an action, so that the handler of SIGALRM, the UART and the chip
interleave with all of them. A message sent at another speed than the
receiver's is lost. The chip boots at any time, answers each command with one
event, and changes its speed after the answer. Whether it confirms the
minidriver, and whether these two bytes come together, is chosen at the start.
`Undisturbed` in the proofs is an execution whose command line fits the chip and
in which the alarm has not gone off.

### HciAttach

Again a sequence of calls, `init_uart`, with one action per kind of call; `at` is
the call that is next and `asleep` says that the sleep behind the last write is
not over. A table of registers is one message. `done` is what the chip has taken since it last had
power. Of the options, `-s` sets `init_speed`, at which everything up to the chip's own
speed is written; `-b` and `-r` are choices at the one call they add (a break with a
sleep behind it, `HCIUARTSETFLAGS`); `-l` ends the program as a wrong option does, with
another code; `-t` is a time, and the alarm may come at any moment. The loop at the end is modelled check by check: `check` is the test of the
flag, `poll` the moment before poll, `blocked` inside it. The chip the program is
built for and whether the sleeps are long enough for it (`timely`) are chosen at
the start and fixed.

### RdaCodec

A trace is a sequence of registers and other messages. `rdabt_write_memory`
writes them to the line, message by message, `txt2hex` makes the file of them,
`print_rda_cmd` reads one message a round. A byte has `Base` values, 256 in the
code; all arithmetic is modulo `Base^4`, as in `__u32`. The buffer of `txt2hex` is
measured in messages. At its end a message may be cut anywhere, also inside a
byte (`Mixed`), and what an earlier, longer trace left in the file follows.

## 3. Runs

| run | question | bounds |
|---|---|---|
| `EventLoopSafety` | do table, descriptors and threads stay consistent; is the loop the service of `LoopService`? | 2 clients, 2 starts, 1 message, 1 queued send, every allocation may fail, a table of 2 that has to grow |
| `EventLoopLive` | does the table catch up with libdbus; is every message dispatched; does a stop return? | 1 client, 2 starts, 1 message, 2 queued sends, a table of 1 that has to grow |
| `EventLoopTornMessage` | *violation:* EXIT inside another message | 1 client, 1 start |
| `EventLoopDeadWatch` | *violation:* a freed watch is handled | 1 client that may notice the closed connection |
| `PatchRamSafety` | is every event the right one and the line quiet at hand-over unless a reset was repeated; every speed the right one, the firmware complete, does it end? | 6 options in every combination, 2 records, 2 repeated resets |
| `PatchRamLateAnswer` | *violation:* success with the two UARTs at different speeds | 1 option, 1 repeated reset |
| `HciAttachSafety` | is the chip configured at hand-over, and at the host's speed, exactly when the command line allows it; does the program end when it should? | 3 chips, 4 speeds (its own, the default, one more, one the host does not know), 2 initial speeds, 1 ignored failure, an output queue of 3 |
| `HciAttachTerm` | *violation:* a signal that is lost | 1 speed besides the default one |
| `SessionSafety` | does a running loop have its registrations, does a stopped one leave none; do calls keep and release their memory; does everything return? | 2 starts, 1 exit of BlueZ, 1 call, 1 thread that starts and stops, failures and timeouts everywhere |
| `AsyncCallRace` | *violation:* a reply before the callback is set | 2 calls |
| `PropertyQuery` | does every call release what it must; is a property dropped, confused or leaked? | all kinds of calls, up to 4 entries of 8 (adapter) or 6 (device) |
| `RdaCodec` | does the parser print what was written? | bytes of 4 values, a buffer of 2 messages, traces of up to 4, earlier traces of up to 4 |

Why these bounds are enough to be of use. Two starts are one loop after another
and one refused start; two clients are two threads that race for the mutex, or
one inside start or stop while the other uses the connection. More clients add
no new pair, and the theorems hold for any number. Tables of 1 and 2 make the
first and the second addition grow the table (the code's 8 would never grow with
two watches). `ChanCap` is never reached in these runs: the socket of the code
holds hundreds of writes. Two queued sends switch the writing watch on and off
twice, so that an addition may meet the removal of its predecessor. In
`PatchRamSafety` two repeated resets are one more than is needed for one answer
too many; in `HciAttachSafety` one ignored failure is all that the properties
tell apart, and one initial speed besides the chip's own is one at which it is deaf. Four entries of a dictionary are two neighbours in the table, one
entry after them and one that fails.

In `SessionSafety` two starts are one that leaves something behind and one that
meets it, with everything that BlueZ and the bus may do in between; one exit of BlueZ
is what it takes to forget an agent. More starts are left to the theorems. A second thread would only be refused, or wait at the mutex, which
`EventLoopSafety` has; a second call shares nothing with the first but the loop,
and the theorems on sessions hold for any number of both. Traces of up to four
messages with a buffer of two are whole, cut once, and cut with a message lost;
the file before them is empty, shorter or longer.

`EventLoopSafety` has no `Noticers`: only the loop finds the connection closed.
With one, `NoDeadWatchHandled` fails, which is what `EventLoopDeadWatch` shows.
Deadlock is checked for the event loop (`Resting` names the states in which it
may rest); the other programs end, and their runs say CHECK_DEADLOCK FALSE.

## 4. Fairness

*Event loop.* Threads are scheduled: a client inside start or stop goes on, a
thread inside a callback writes on, the loop takes its steps. Nothing forces a
client to start, stop, read or send, or the bus to send. `StopReturns` and
`QueuedMessagesDispatched` therefore rest on the loop and the callbacks alone.

*AsyncCall.* The caller and the loop run, and the remote object answers.

*Session.* A thread inside start or stop goes on, and so does the loop inside its
tear-down: these are calls with a timeout, of libdbus's own, and no callback is
waited for. The loop dispatches a reply that has come. BlueZ answers a call, or
the bus answers for it; but a pairing for which BlueZ asked our agent is not
answered before BlueZ gives up on the agent, and it does give up, since it sends
its request with a timeout of its own. Nobody must start, stop, call or exit.

*PatchRam.* The program runs and the chip and the UART make progress
(`FairSpec`); `RetrySpec` adds that a pending alarm goes off and the chip boots.

*HciAttach.* The program runs and the alarm goes off (the default of
`-t`; with `-t 0` there is none and a blocked setup stays blocked). *Nothing* is assumed of the
chip: a line that is held back for ever is among the behaviours, and `SetupEnds`
is about it. Nothing is assumed of signals either: `RepeatedTermEnds` takes the
repetition as its hypothesis.

## 5. What is proved

TLAPS checks these for all values of the constants, from the assumptions the
modules name and no others.

**The event loop** (`EventLoopProofs`): `TypeOK`,
`TableFits`, `ControlSlotFirst`, `LoopOwnsTable`, `StoppedMeansReleased`,
`RunningMeansThread` as invariants and `OneLoop` as an action property, for any
number of clients, calls and messages, any size of the table and the socket, and
with the loop sharing the connection with all of them.

The argument: `IInv` is the conjunction of the type invariant, `TableFits`,
`ControlSlotFirst` and `Lifecycle`. `Lifecycle` is the strengthening: it says what
is allocated and open at each place of the holder of the mutex and of the loop.
Without it `LoopOwnsTable` is not inductive, because nothing would tell that a
thread which frees the arrays (place "close") has waited for the loop, or that
a second start finds the table. For `ControlSlotFirst` the lemmas on `RemoveSlot`
and on appending show that moving the last member over a hole keeps member 0 and
the distinctness of keys, since a descriptor of the bus is never that of the
control socket. `TableFits` rests on the order of assignments in a growth:
`pollDataSize` is set only when both arrays have grown.

The proof has one lemma per part of the invariant (`NextTyped`, `TableSteps`,
`ShapeStep`, `LifecycleStep`), each with one step per action of `Next`.

**The loop as a service** (`EventLoopProofs`): `LoopImplementsService`, that
`EventLoop` implements `LoopService`, step by step: each of its actions is one
action of the service or leaves it as it is. Most of the map follows from
`Lifecycle`. What needs a strengthening is the end of the thread, because the loop
decides on it by a byte it finds in a socket: `StopRequests` counts the EXITs on
their way, in the socket and in what a callback has still to write, and says
that there is one only while a stop is waiting and the loop has not read it.
Its lemmas are about the effect of writes and of each kind of read on that count.

**The control socket** (`EventLoopProofs`). `TableFollows` (`InSync`) and
`FreedWatchNotHandled` (`NoDeadWatchHandled`) are about the messages between
libdbus's callbacks, in any number of threads, and the table. The inductive
invariant is `SyncInv`, about what is pending: what the handler in progress has
read, what is in the socket, and what the callbacks have still to write
(`Pending`). `Following` says that this is a sequence of whole messages, up to one
that an EXIT byte tore (`Whole`, `Torn`), and that handling it leads from the table
as it is to the watches libdbus has enabled (`Leads`, by the last message about each
watch). `WatchSlots`, `Fresh` and `Calls` say what the slots behind the control slot
hold, that a new loop starts with nothing pending but wakeups, and who is inside
callbacks. The proof follows a message through: a call into libdbus extends
`Pending` by a message that says what changed (`Says`, `LibrarySays`,
`LeadsCalled`); a `write` of a callback and the read of a control byte leave
`Pending` as it is or drop a byte that says nothing; a handler takes the first
message off and does to the table what it says (`LeadsHandled`, `PlacedWatch`,
`RemovedWatch`); and the EXIT of a stop, which is put between what is in the
socket and what is still to be written, is either a message of its own
(`InsertedWhole`) or tears one (`InsertedTorn`). In a torn sequence the loop comes to
the EXIT before it reads anything behind it.

`TableFollows` assumes `~AllocFails`: a growth of the table that fails loses the
watch it was for. What is left without the assumption is `NothingStale`: nothing is
polled that libdbus switched off or freed. `OnlyStopTearsMessages` says that a message
is misread only while a client waits in `stopEventLoop`, so that the finding on torn
messages is the only way in which this happens.

`FreedWatchNotHandled` assumes `Noticers = {}`, that only the loop finds the
connection closed; with one other thread that does, `EventLoopDeadWatch` shows the
violation. Its invariant `Closing` says where the loop can be once the connection is
closed: it finds it closed while it handles a watch, and goes back to poll only
after it has written the removals itself; the control socket is the first member
it looks at then (`ControlReported`), and by `Leads` the table has no watch left when
it has read what is there (`ShutTable`).

The liveness of the loop is out of the prover's reach, but not the facts it rests
on: `QueuedWakeups`, that a loop does not sleep on a queued message (whoever queues
one writes a wakeup before it lets go of libdbus, and the loop goes to sleep only
with nothing queued), and `StopsAreHeard`, that the EXIT byte of a stop is in the
socket until the loop ends by it.

TLC checked `SyncInv`, `Closing`, `NoStaleWatch`, `QueuedWakes` and `StopIsHeard` as
invariants with the bounds of `EventLoopSafety` before they were proved.

**A session** (`SessionProofs`): `RunningIsHeard`, `StoppedLeavesNothing`,
`AgentHasPath`, `StaleAgentBlocks` and `TypeOK`, for any number of clients, calls,
starts and restarts. `IInv` says for each registration during which steps of the
set-up and tear-down it is *up* (`Up`), what is true of it then, and that
otherwise it is covered by the failures counted in `late` (`Names`, `Filters`,
`RuleHeld`); `Control` ties the steps to the phases, `Stuck` says how far a start
gets that meets an agent BlueZ kept. None of the four properties is inductive:
each speaks of one phase, and the phases before it decide it. The order of the
tear-down matters to `AgentHasPath`, which is why the mutant that swaps two of
its calls breaks it.

A session also refines `AsyncCall` (lemma `CallsRefine`: `Memory!Spec` with
`Memory == INSTANCE AsyncCallProofs`), so that `CallbackHasItsMemory` and
`CallbackReleases` carry over by the theorems of that module without a new proof.
Together with the refinement of the loop this is the compositional argument: what
`Session` assumes of the loop is `LoopService`, and that `EventLoop` provides.

**Asynchronous calls** (`AsyncCallProofs`): `CallbackHasItsMemory` and
`CallbackReleases` (the callback runs at most once, and exactly when it has run the
three blocks of the call are freed), for any number of calls. The strengthening `Stages` says
which blocks a call has at each of its places; what makes it inductive is that a
pending call never leaves "complete".

**The encoding and traces** (`RdaCodecProofs`): `TraceReadsBack` for every base, so
also for the real one of 256, where TLC checks a base of 4, and for traces and
buffers of any length. The lemmas on numbers are the uniqueness of Euclid's
division, a shift by two bytes as two shifts, that what is below `Base^4` is not
wrapped, and what the parts of a message are; together they say that `Decode`
inverts `Encode`. `TraceInv` is the invariant: the line holds what was written,
the file begins with what fits of it whatever was there before, and the output
is what is printed of the file. `TextReads` has the three ways in which `txt2hex`
can meet the end of its buffer and of the old file.

**Blocking calls and properties** (`PropertyQueryProofs`): `TypeOK`, `CallReleases`,
`ErrorIsTheClients`, `BorrowedIsHeld`, `ParsingReleases` and `NothingDropped`, for
dictionaries of any length with any entries and every failure of an allocation.
`CallInv` gives the exact set of blocks a call holds at each of its steps, which is
what makes the two properties of calls follow. `ParseInv` is the invariant of the
parser: `Ordered` says that head holds the used properties in the order of the
table up to the one that is next, `Allocated` to whom each block belongs, `Places`
how far each loop has come. `ParsedInTime` ties the parser to the call, so that a
dictionary is parsed only while its reply is held. `NothingDropped` needs one more
part, `Arrived`: of the entries taken so far, as many properties are used as there
were entries, each with the length of its entry. It is proved from `ExactNames`,
that BlueZ sends no proper beginning of a known name unless that is itself a known
name further up in the table, as `Pairable` is of `PairableTimeout`; `PropertyQueryMC` has TLC confirm it for its entries, and without
it the property is false, since names are compared only as far as the received one
goes.

**hciattach_rda5876** (`HciAttachProofs`): `TypeOK`, `SpeedsAgree` and
`ConfiguredOnAttach`, for all three chips, any speeds, also initial ones, and any size
of the output queue. Both say of an undisturbed setup exactly what the command line
makes of it: `Meets`, that the initial speed is the one the chip has when it gets its
power, decides between all tables and none, and `Agree`, with the speed, whether the
two ends meet in the end. The two safety properties are far from inductive: they speak of the end of a
straight line of some thirty calls. `IInv` therefore describes an undisturbed setup
by the call that is next: what is queued is at most the message whose sleep is not
over (`Slept`), the chip has power but for one call (`Power`), the speeds change at
two places (`Rates`), what was written since the power came back has been taken, or nothing of it where
the chip is deaf (`Reaches`, `Kept`, `Taken`), and of what has been taken the radio came first (`RadioFirst`). `Shape`
states once what the three initialisations have in common, and is proved of each;
everything after it speaks of `Shape` only.

**brcm_patchram_plus** (`PatchRamProofs`): `TypeOK`, `AnswersMatch`, `HandoverQuiet` and
`SpeedsAgree`, for every command line and any number of records. The program that is
run depends on ten options and the length of the patch, so the proof first
shows what all of these programs have in common (`Programs`): which call may stand
behind which (`Ahead`, `Behind`), that the speed is set back right after the firmware
is launched or never (`Launches`), and how they begin and end. These are local
conditions, kept when parts are joined (`PartsJoin`, `LaunchesJoin`) and when the
first call is taken off (`Tails`). `IInv` then says of an execution in which the alarm
has not gone off what is under way by the call that is next: at most one command
or its answer in exactly one of the four queues, with the confirmation of the
minidriver behind it (`Pending`, `Pipe`), and, while the chip refuses nothing, that the
two speeds differ only between an answer that changes the chip's and the
`tcsetattr` behind it (`Rates`). `Together` keeps the two bytes of a confirmation
together. Of `FitsChip` and `retries = 0` nothing is assumed in the theorems: they are
hypotheses of the properties themselves, as in the runs. They are needed: after a
repeated reset the program may hand over the UART with an unread answer, or with the
reset itself still on its way, and go wrong in what run `PatchRamLateAnswer` shows.

**The firmware** (`PatchRamFirmwareProofs`): `FirmwareComplete`, which holds also after
the alarm has gone off, where nothing bounds what is under way and `Pipe` says
nothing. The proof follows the line: the commands executed, received and queued, in
this order (`line`). `Whole` says that every launch on the line has the minidriver and
all the records right before it, and that what the program has still to call fits
the end of the line (`Staged`): the download is still to come, or `k` records of it are
on the line and the others follow (`Remain`), or there is no launch any more. A
command that is written moves it from one stage to the next (`StagedWrites`). What
breaks a line is a loss, or a reset of the handler between two records:

- At one speed (`Steady`): the alarm is pending only from the first reset to its
  answer, when no download has begun (`Alarmed`). A chip that has not booted can
  only miss resets, because the program waits for the answer to the first
  (`Asleep`). When it has booted, a loss takes different speeds, and the first
  change of a speed follows an `update_baud_rate` on the line, which comes after the
  launch; so the launch has arrived, or nothing will arrive any more (`Past`). This
  needs no assumption on which answers are read: after repeated resets the host
  does change its speed too early.
- At two speeds, as long as the alarm has not gone off (`Lone`): at most one command
  or answer is under way, and if it is lost the program waits for it for ever
  (`Stuck`). Here the chip may refuse commands, and the command line need not fit
  the chip.

`FInv` joins the two. TLC was used on it before it was proved, with all values of the
options that matter here.

## 6. What is only model-checked

The liveness properties, which are out of the prover's reach: those of the event
loop (`QueuedMessagesDispatched`, `StopReturns`), of a session (`DeliveredInTime`,
`StartAndStopReturn`), of brcm_patchram_plus (`PromptChipFinishes`,
`SlowChipFinishes`) and of hciattach_rda5876 (`SetupEnds`, `HangUpEnds`,
`RepeatedTermEnds`). Every invariant and every action property a passing run checks
is also a theorem, two of them under a hypothesis on the constants (section 5).

## 7. Where code and documentation differ

Shown by runs (PROJECT.json, "findings"):

1. **An EXIT inside another message.** `stopEventLoop` writes EXIT without the
   connection lock, in particular while the loop thread writes the additions of
   its own start. The loop then reads EXIT as a byte of a descriptor.
2. **A freed watch is handled.** When another thread finds the connection closed
   after poll returned, the REMOVE is still in the control socket while the loop
   calls `dbus_watch_handle`. The comment in the code names the danger for the
   opposite order only.
3. **A callback that never runs.** A reply dispatched between sending and
   `dbus_pending_call_set_notify`.
4. **A repeated reset shifts the answers.** The extra answer is taken for that of
   the next command; the host then changes its speed before the chip, and the last
   answer is left to the kernel (`HandoverQuiet` excepts such executions). With
   `use_baudrate_for_download` the same shift can lose the minidriver command
   while the records after it arrive; `FirmwareComplete` excepts that case.
5. **A lost signal.** `compat_ppoll` ignores its mask.

Met while modelling, certain from the text, and part of the models without a run
of their own:

- `startEventLoop` clears `running` before it refuses a second start
  (`bluetooth_event.c:517`), so that `isEventLoopRunning` answers 0 while the loop
  runs. `RunningMeansThread` is the direction that holds.
- the wakeup function stays installed after the loop ended and then writes to
  descriptor 0 (`:451`);
- `dbus_flags_to_unix_events` tests poll's bits in a D-Bus mask (`:30`): a writing
  watch is polled for no event. `InSync` holds with the conversions as they are;
- brcm_patchram_plus ignores the status of events and a speed it does not know
  and still returns 0; a confirmation whose bytes come apart is misread;
- hciattach ignores the results of `RDABT_core_Intialization` and of
  `rda_setup_flow_ctl`, and those of the calls for the power pin; a speed `uart_speed`
  does not know is 57600 for the host and itself for the chip;
- with `-s` at another speed than 115200 hciattach writes every table, and the chip's
  new speed, at a speed the chip does not have, hands the UART over and reports
  success (`hciattach_rda5876.c:379`, `:562`); `ConfiguredOnAttach` says so;
- `free_property_value` dereferences the NULL that `create_prop_array` leaves when
  it cannot copy an array (the place "crashed" of `PropertyParse`); without memory
  for the head the temporary arrays leak, which `ParsingReleases` excepts;
- asynchronous calls leak request and context when they cannot be sent;
- the comment at `bluetooth_common.c:151-156` says that NULL is returned exactly
  when an error was set; without memory for the message NULL comes back with no
  error (`ret = "nomemory"`). `ErrorIsTheClients` is what holds;
- an `err` that cannot be allocated is initialised nevertheless ("aborted");
- the list libdbus allocates for an array of strings is never freed (`Leaked`), and
  `dbus_returns_array_of_bytes` never sets the length it is asked for;
- `getDeviceProperties` returns 0 when parsing failed (`bluetooth_service.c:344`),
  with an array nobody set, which the client then uses; `parse_property_change`
  leaves its head on failure;
- an INT16 is read into an int (`bluetooth_common.c:474`), so that a negative RSSI
  comes out wrong;
- an agent that BlueZ kept, after a start that failed late or a stop that could not
  unregister it, stays there and refuses every later start until BlueZ exits or
  the connection closes (`StaleAgentBlocks`);
- the agent answers nothing: a pairing with it ends by BlueZ's own timeout;
- `txt2hex` drops what does not fit in its buffer, does not terminate a full buffer
  (the byte at the cut may have any value in the model), and does not truncate its file
  (`rda5876_nosie:96`): behind a shorter trace the parser reads on in an older one.
  `TraceReadsBack` says what holds up to there. The parser passes over a block of
  two words without a word.

## 8. What is not modelled

- *A `pthread_create` that fails* (`bluetooth_event.c:559`): its result is ignored, and
  a stop then joins an uninitialised thread, of which nothing defined can be said.
- *Allocations the program does not test*: the context of an asynchronous call
  (`bluetooth_service.c:223`, `:262`, `:301`), where a failure ends the process, and
  `tBluetoothEvent` (`bluetooth_event.c:413-416`), without which the first
  start ends it. In these models both succeed.
- *A reply without the arguments that are expected* (`bluetooth_service.c:343`, `:375`):
  BlueZ's replies have them.
- *Read errors*: of the UART in `read_event` (`brcm_patchram_plus.c:486`), of the patch
  in `proc_patchram` (`:538`); the code goes on as if something had been read.
- *A Broadcom chip that sends of itself* before the first reset: what the first flush
  does not drop is not there (`PatchRam.Init`).
- *A caller of `parse_property_change`*: the repository has none (`event_filter` has
  an empty branch for the signals, `bluetooth_event.c:160-166`). `PropertyQuery.Signalled` is a client
  that calls it and frees what it gets, as that of `parse_properties` does.
- *Messages of different lengths* in a trace count as one message each, and what is
  read behind an unterminated buffer is one byte (`rda5876_nosie:102-109`).
- *Options of hciattach* that change only what is printed or which process goes on
  (`-n`, `-p`), and the arguments after `flow`, which nothing uses.
- *Timeout functions*: the library installs none.
- *`append_variant`, `append_dict_args`, `get_bdaddr`, `get_bdaddr_as_string`*:
  conversions without state; all but the first are unused.
- *What the handlers print*, and the values of properties.
- *Contents of the register tables*: data. `rdabt_write_memory` sends each register
  in a message of its own, whatever the caller gives it.
- *Files that cannot be opened, and the splitting of the text*, in the parser of
  traces: `strtok` and `strtoul` are taken to read the numbers that were logged.
- *The Wireshark script, notes, books, archives*: no logic of this repository.
- Memory model: accesses to `running` and to the table are atomic steps. The
  table is only ever used by one thread at a time (`LoopOwnsTable`); `running` is
  written by the loop without the mutex.

## 9. Plan

Done: the event loop with its table, the abstract service and the refinement; the
session that composes registrations, BlueZ and asynchronous calls on top of that
service; blocking calls and the parsing of their results; both programs that
set up chips; the encoding and traces; the proofs of section 5.

Nothing of safety that a run checks is left to prove. Liveness would need fairness
and ENABLED, which the prover does not support; for the event loop the safety
facts it rests on are proved.
