----------------------------- MODULE WatchTable -----------------------------
(***************************************************************************)
(* The poll table of the event loop (bluetooth_event.c): the parallel      *)
(* arrays nat->pollData and nat->watchData, pollMemberCount long, as one   *)
(* sequence of slots, and the two conversions between D-Bus watch flags    *)
(* and poll(2) events.  Slot 1 is pollData[0].                             *)
(***************************************************************************)
EXTENDS Naturals, Sequences

\* enum DBusWatchFlags of libdbus.
DBUS_WATCH_READABLE == 1
DBUS_WATCH_WRITABLE == 2
DBUS_WATCH_ERROR    == 4
DBUS_WATCH_HANGUP   == 8

\* The event bits of poll(2) on Linux.
POLLIN   == 1
POLLOUT  == 4
POLLERR  == 8
POLLHUP  == 16
POLLNVAL == 32

\* x & b, for a single bit b.
Has(x, b) == (x \div b) % 2 = 1

Bit(test, b) == IF test THEN b ELSE 0

\* What poll reported for a slot, as the flags given to dbus_watch_handle.
\* The code tests the D-Bus bits of a poll mask.
unix_events_to_dbus_flags(events) ==
  Bit(Has(events, DBUS_WATCH_READABLE), POLLIN)
    + Bit(Has(events, DBUS_WATCH_WRITABLE), POLLOUT)
    + Bit(Has(events, DBUS_WATCH_ERROR), POLLERR)
    + Bit(Has(events, DBUS_WATCH_HANGUP), POLLHUP)

\* What a watch asks for, as the events to poll.  The code tests the poll
\* bits of a D-Bus mask.
dbus_flags_to_unix_events(flags) ==
  Bit(Has(flags, POLLIN), DBUS_WATCH_READABLE)
    + Bit(Has(flags, POLLOUT), DBUS_WATCH_WRITABLE)
    + Bit(Has(flags, POLLERR), DBUS_WATCH_ERROR)
    + Bit(Has(flags, POLLHUP), DBUS_WATCH_HANGUP)

\* One member of pollData with its watchData.
NewSlot(fd, events, watch) ==
  [fd |-> fd, events |-> events, revents |-> 0, watch |-> watch]

SlotSet(Fds, Ptrs) ==
  [fd : Fds, events : Nat, revents : Nat, watch : Ptrs]

\* Mutated: the search ignores the events.
Positions_FdOnly(t, fd, events) == {k \in DOMAIN t : t[k].fd = fd}

\* The slots a linear search for (fd, events) can stop at.
Positions(t, fd, events) ==
  {k \in DOMAIN t : t[k].fd = fd /\ t[k].events = events}

\* Where the search stops.
First(S) == CHOOSE k \in S : \A j \in S : k <= j

\* Mutated: copies over the slot before the one found.
RemoveSlot_Before(t, k) ==
  [j \in 1 .. (Len(t) - 1) |-> IF j = k - 1 THEN t[Len(t)] ELSE t[j]]

\* The last live member is copied over slot k and the count drops by one.
RemoveSlot(t, k) ==
  [j \in 1 .. (Len(t) - 1) |-> IF j = k THEN t[Len(t)] ELSE t[j]]

\* No two slots answer to the same search.
DistinctKeys(t) ==
  \A j, k \in DOMAIN t :
    t[j].fd = t[k].fd /\ t[j].events = t[k].events => j = k
=============================================================================
