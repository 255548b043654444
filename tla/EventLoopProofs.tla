--------------------------- MODULE EventLoopProofs ---------------------------
(***************************************************************************)
(* Proofs about the event loop, for any number of threads, any initial     *)
(* table size, any capacity of the control socket and any number of calls. *)
(***************************************************************************)
EXTENDS EventLoopProperties, SequenceTheorems, TLAPS

-----------------------------------------------------------------------------
(* What the operations on the poll table return, for every table.          *)

\* Both conversions return a mask, whatever they are given.
LEMMA MaskIsNat ==
  \A x : dbus_flags_to_unix_events(x) \in Nat
PROOF
  <1>1. \A t, b : b \in Nat => Bit(t, b) \in Nat
    BY DEF Bit
  <1> QED
    BY <1>1 DEF dbus_flags_to_unix_events, DBUS_WATCH_READABLE,
                DBUS_WATCH_WRITABLE, DBUS_WATCH_ERROR, DBUS_WATCH_HANGUP

\* With unambiguous searches the slot found is the only one that matches.
LEMMA FirstFound ==
  ASSUME NEW t, DOMAIN t \subseteq Nat, DistinctKeys(t), NEW fd, NEW events,
         NEW k \in Positions(t, fd, events)
  PROVE  First(Positions(t, fd, events)) = k
PROOF
  <1>1. Positions(t, fd, events) = {k}
    BY DEF Positions, DistinctKeys
  <1>2. k \in Nat
    BY DEF Positions
  <1> QED
    BY <1>1, <1>2 DEF First

\* A removal yields a table one shorter, whose members are the old ones
\* without the removed one.
LEMMA RemoveSlotProperties ==
  ASSUME NEW S, NEW t \in Seq(S), NEW k \in DOMAIN t
  PROVE  /\ RemoveSlot(t, k) \in Seq(S)
         /\ Len(RemoveSlot(t, k)) = Len(t) - 1
         /\ DOMAIN RemoveSlot(t, k) = 1 .. (Len(t) - 1)
         /\ \A j \in 1 .. (Len(t) - 1) :
              RemoveSlot(t, k)[j] = IF j = k THEN t[Len(t)] ELSE t[j]
PROOF
  <1> DEFINE n == Len(t) - 1
             r == [j \in 1 .. n |-> IF j = k THEN t[Len(t)] ELSE t[j]]
  <1>1. n \in Nat /\ DOMAIN t = 1 .. (n + 1) /\ \A j \in 1 .. (n + 1) : t[j] \in S
    BY LenProperties, ElementOfSeq
  <1>2. r \in [1 .. n -> S]
    BY <1>1
  <1>3. r \in Seq(S) /\ Len(r) = n
    BY <1>1, <1>2, IsASeq, LenProperties
  <1> QED
    BY <1>1, <1>3 DEF RemoveSlot

\* Removing a member keeps the searches unambiguous.
LEMMA RemoveSlotDistinct ==
  ASSUME NEW S, NEW t \in Seq(S), NEW k \in DOMAIN t, DistinctKeys(t)
  PROVE  DistinctKeys(RemoveSlot(t, k))
PROOF
  <1> DEFINE r == RemoveSlot(t, k)
             o(j) == IF j = k THEN Len(t) ELSE j
  <1>1. /\ DOMAIN t = 1 .. Len(t) /\ Len(t) \in Nat /\ k \in 1 .. Len(t)
        /\ DOMAIN r = 1 .. (Len(t) - 1)
    BY RemoveSlotProperties, LenProperties
  <1>2. \A j \in 1 .. (Len(t) - 1) : r[j] = IF j = k THEN t[Len(t)] ELSE t[j]
    BY RemoveSlotProperties
  <1>3. \A j \in DOMAIN r : r[j] = t[o(j)] /\ o(j) \in DOMAIN t
    BY <1>1, <1>2
  <1>4. \A i, j \in DOMAIN r : o(i) = o(j) => i = j
    BY <1>1
  <1> QED
    BY <1>3, <1>4 DEF DistinctKeys

\* Placing a slot no search would have found keeps them unambiguous.
LEMMA AppendDistinct ==
  ASSUME NEW S, NEW t \in Seq(S), NEW s \in S, DistinctKeys(t),
         Positions(t, s.fd, s.events) = {}
  PROVE  DistinctKeys(Append(t, s))
PROOF
  <1>1. /\ Len(t) \in Nat /\ DOMAIN t = 1 .. Len(t)
        /\ DOMAIN Append(t, s) = 1 .. (Len(t) + 1)
        /\ \A j \in 1 .. Len(t) : Append(t, s)[j] = t[j]
        /\ Append(t, s)[Len(t) + 1] = s
    BY LenProperties, AppendProperties
  <1>2. \A j \in 1 .. Len(t) : ~(t[j].fd = s.fd /\ t[j].events = s.events)
    BY <1>1 DEF Positions
  <1> QED
    BY <1>1, <1>2 DEF DistinctKeys

-----------------------------------------------------------------------------
(* Types.                                                                  *)

\* The parts of a control message.
LEMMA PartsTyped ==
  /\ Ctl(EXIT) \in Items /\ Ctl(ADD) \in Items
  /\ Ctl(REMOVE) \in Items /\ Ctl(WAKEUP) \in Items
  /\ FdItem \in Items
  /\ \A w \in Watches : FlagsItem(w) \in Items /\ PtrItem(w) \in Items
PROOF
  BY DEF Items

\* What the callbacks write are control messages.
LEMMA MessagesTyped ==
  /\ \A w \in Watches : \A on : /\ dbusAddWatch(w, on) \in Seq(Items)
                               /\ dbusRemoveWatch(w) \in Seq(Items)
                               /\ dbusToggleWatch(w, on) \in Seq(Items)
  /\ dbusWakeup \in Seq(Items)
  /\ AddAll \in Seq(Items) /\ RemoveAll \in Seq(Items)
PROOF
  <1>1. \A w \in Watches : \A on : dbusAddWatch(w, on) \in Seq(Items)
    BY PartsTyped DEF dbusAddWatch
  <1>2. \A w \in Watches : dbusRemoveWatch(w) \in Seq(Items)
    BY PartsTyped DEF dbusRemoveWatch
  <1>3. dbusWakeup \in Seq(Items)
    BY PartsTyped DEF dbusWakeup
  <1>4. Rd \in Watches /\ Wr \in Watches /\ << >> \in Seq(Items)
    BY DEF Watches
  <1>5. AddAll \in Seq(Items)
    BY <1>1, <1>4, ConcatProperties DEF AddAll
  <1>6. RemoveAll \in Seq(Items)
    BY <1>2, <1>4, ConcatProperties DEF RemoveAll
  <1> QED
    BY <1>1, <1>2, <1>3, <1>5, <1>6 DEF dbusToggleWatch

\* A thread that enters libdbus is left with control messages to write.
LEMMA CallTyped ==
  ASSUME NEW t \in Threads, NEW msgs \in Seq(Items), Call(t, msgs)
  PROVE  items' \in Seq(Items) /\ owner' \in Threads \cup {NoOne}
PROOF
  BY DEF Call

\* No call into libdbus leaves the types of its state.
LEMMA LibraryTypes ==
  ASSUME BusTypes, NEW t \in Threads,
         ReadMessages(t) \/ Disconnect(t) \/ Flush(t) \/ QueueOutgoing(t)
  PROVE  BusTypes'
PROOF
  <1>1. CASE ReadMessages(t)
    <2>1. items' \in Seq(Items) /\ owner' \in Threads \cup {NoOne}
      BY <1>1, CallTyped, MessagesTyped DEF ReadMessages
    <2> QED
      BY <1>1, <2>1 DEF ReadMessages, BusTypes, busVars
  <1>2. CASE Disconnect(t)
    <2>1. Hooked(RemoveAll) \o dbusWakeup \in Seq(Items)
      BY MessagesTyped, ConcatProperties, EmptySeq DEF Hooked
    <2>2. items' \in Seq(Items) /\ owner' \in Threads \cup {NoOne}
      BY <1>2, <2>1, CallTyped DEF Disconnect
    <2> QED
      BY <1>2, <2>2 DEF Disconnect, BusTypes
  <1>3. CASE Flush(t)
    <2>1. Hooked(dbusToggleWatch(Wr, enabled')) \in Seq(Items)
      BY MessagesTyped, EmptySeq DEF Hooked, Watches
    <2>2. items' \in Seq(Items) /\ owner' \in Threads \cup {NoOne}
      BY <1>3, <2>1, CallTyped DEF Flush
    <2> QED
      BY <1>3, <2>2 DEF Flush, BusTypes
  <1>4. CASE QueueOutgoing(t)
    <2>1. Hooked(dbusToggleWatch(Wr, enabled')) \o dbusWakeup \in Seq(Items)
      BY MessagesTyped, ConcatProperties, EmptySeq DEF Hooked, Watches
    <2>2. items' \in Seq(Items) /\ owner' \in Threads \cup {NoOne}
      BY <1>4, <2>1, CallTyped DEF QueueOutgoing
    <2> QED
      BY <1>4, <2>2 DEF QueueOutgoing, BusTypes
  <1> QED
    BY <1>1, <1>2, <1>3, <1>4

Slots == SlotSet({BusFd, CtlR}, Ptrs)

\* A handler finds a descriptor, flags and a pointer where it reads them.
LEMMA ReadTyped ==
  ASSUME stream \in Seq(Items)
  PROVE  /\ CanRead(AddFields) =>
              /\ stream[1].val = BusFd /\ stream[3].val \in Watches
              /\ Len(stream) >= 3
         /\ CanRead(RemoveFields) => stream[1].val = BusFd /\ Len(stream) >= 2
PROOF
  <1>1. \A s \in Items : /\ s.kind = "fd" => s.val = BusFd
                         /\ s.kind = "watch" => s.val \in Watches
    BY DEF Items, Ctl, FdItem, FlagsItem, PtrItem
  <1>2. \A k \in 1 .. Len(stream) : stream[k] \in Items
    BY ElementOfSeq
  <1>3. Len(stream) \in Nat
    BY LenProperties
  <1>4. Len(AddFields) = 3 /\ AddFields[1] = "fd" /\ AddFields[3] = "watch"
        /\ Len(RemoveFields) = 2 /\ RemoveFields[1] = "fd"
    BY DEF AddFields, RemoveFields
  <1>5. ASSUME CanRead(AddFields)
        PROVE  stream[1].val = BusFd /\ stream[3].val \in Watches
               /\ Len(stream) >= 3
    <2>1. Len(stream) >= 3 /\ stream[1].kind = "fd" /\ stream[3].kind = "watch"
      BY <1>4, <1>5 DEF CanRead
    <2> QED
      BY <2>1, <1>1, <1>2, <1>3
  <1>6. ASSUME CanRead(RemoveFields)
        PROVE  stream[1].val = BusFd /\ Len(stream) >= 2
    <2>1. Len(stream) >= 2 /\ stream[1].kind = "fd"
      BY <1>4, <1>6 DEF CanRead
    <2> QED
      BY <2>1, <1>1, <1>2, <1>3
  <1> QED
    BY <1>5, <1>6

\* What is left in the socket after n reads.
LEMMA RestTyped ==
  ASSUME stream \in Seq(Items), NEW n \in Nat \ {0}
  PROVE  SubSeq(stream, n, Len(stream)) \in Seq(Items)
PROOF
  <1>1. Len(stream) \in Nat /\ \A k \in 1 .. Len(stream) : stream[k] \in Items
    BY ElementOfSeq, LenProperties
  <1> QED
    BY <1>1, SubSeqProperties

\* What poll and the handled watch do to the table: revents only.
SameSlots(u, t) ==
  /\ u \in Seq(Slots) /\ Len(u) = Len(t) /\ DOMAIN u = DOMAIN t
  /\ \A k \in DOMAIN t : u[k].fd = t[k].fd /\ u[k].events = t[k].events

\* Clearing or setting revents changes nothing else of a table.
LEMMA ReventsTyped ==
  ASSUME NEW t \in Seq(Slots), NEW r, r \in [DOMAIN t -> Nat],
         NEW u, u = [k \in DOMAIN t |-> [t[k] EXCEPT !.revents = r[k]]]
  PROVE  SameSlots(u, t)
PROOF
  <1> DEFINE n == Len(t)
  <1>1. n \in Nat /\ DOMAIN t = 1 .. n /\ \A k \in 1 .. n : t[k] \in Slots
    BY LenProperties, ElementOfSeq
  <1>2. \A k \in 1 .. n : /\ [t[k] EXCEPT !.revents = r[k]] \in Slots
                         /\ u[k].fd = t[k].fd /\ u[k].events = t[k].events
    BY <1>1 DEF Slots, SlotSet
  <1>3. u \in [1 .. n -> Slots]
    BY <1>1, <1>2
  <1>4. u \in Seq(Slots)
    BY <1>1, <1>3, SeqDef
  <1>5. Len(u) = n /\ DOMAIN u = 1 .. n
    BY <1>1, <1>4, LenProperties
  <1> QED
    BY <1>1, <1>2, <1>4, <1>5 DEF SameSlots

LEMMA ConstantTypes ==
  /\ BusFd \in Nat \ {0} /\ CtlR \in Nat \ {0} /\ CtlW \in Nat \ {0}
  /\ BusFd # CtlR /\ CtlR # CtlW
  /\ InitialSize \in Nat \ {0}
PROOF
  BY DescriptorsAssumption, SizesAssumption

LEMMA ControlSlotTyped ==
  /\ ControlSlot \in Slots /\ <<ControlSlot>> \in Seq(Slots)
  /\ ControlSlot.fd = CtlR /\ ControlSlot.events = POLLIN
PROOF
  BY ConstantTypes DEF ControlSlot, NewSlot, Slots, SlotSet, POLLIN, Ptrs

LEMMA InitTyped == Init => TypeOK
PROOF
  <1> SUFFICES ASSUME Init PROVE TypeOK
    OBVIOUS
  <1>1. << >> \in Seq(Slots) /\ << >> \in Seq(Items)
    OBVIOUS
  <1>2. FieldTypes
    BY <1>1 DEF Init, FieldTypes, Slots, PcStates, LoopStates
  <1>3. BusTypes
    BY <1>1 DEF Init, BusTypes, Watches
  <1> QED
    BY <1>2, <1>3 DEF TypeOK

\* Placing a slot keeps the types of the arrays.
LEMMA PlaceTyped ==
  ASSUME FieldTypes, NEW slot \in Slots, Place(slot)
  PROVE  /\ table' \in Seq(Slots)
         /\ pollDataSize' \in Nat /\ pollCap' \in Nat /\ watchCap' \in Nat
PROOF
  <1>1. table \in Seq(Slots) /\ Append(table, slot) \in Seq(Slots) /\ Len(table) \in Nat
    BY AppendProperties, LenProperties DEF FieldTypes, Slots
  <1>2. pollDataSize \in Nat /\ pollCap \in Nat /\ watchCap \in Nat
    BY DEF FieldTypes
  <1>3. CASE Grow(slot)
    BY SMTT(30), <1>1, <1>2, <1>3 DEF Grow, natVars
  <1>4. CASE UNCHANGED natVars
    BY <1>1, <1>2, <1>4 DEF natVars
  <1>5. CASE table' = Append(table, slot) /\ UNCHANGED <<pollDataSize, pollCap, watchCap>>
    BY <1>1, <1>2, <1>5
  <1> QED
    BY <1>3, <1>4, <1>5 DEF Place

LEMMA PolledTable ==
  ASSUME table \in Seq(Slots),
         table' = [k \in DOMAIN table |->
                     [table[k] EXCEPT !.revents = Revents(table[k])]]
  PROVE  SameSlots(table', table)
PROOF
  <1> DEFINE r == [k \in DOMAIN table |-> Revents(table[k])]
  <1>1. \A s : Revents(s) \in Nat
    BY DEF Revents, Bit, POLLNVAL, POLLIN, POLLOUT, POLLHUP
  <1>2. r \in [DOMAIN table -> Nat]
    BY <1>1
  <1>3. table' = [k \in DOMAIN table |-> [table[k] EXCEPT !.revents = r[k]]]
    OBVIOUS
  <1> HIDE DEF r
  <1> QED
    BY <1>2, <1>3, ReventsTyped

LEMMA HandledTable ==
  ASSUME table \in Seq(Slots), NEW i, table' = [table EXCEPT ![i].revents = 0]
  PROVE  SameSlots(table', table)
PROOF
  <1> DEFINE r == [k \in DOMAIN table |-> IF k = i THEN 0 ELSE table[k].revents]
  <1>1. table = [k \in DOMAIN table |-> table[k]]
    BY LenProperties
  <1>2. \A k \in DOMAIN table : table[k] \in Slots
    BY LenProperties, ElementOfSeq
  <1>3. r \in [DOMAIN table -> Nat]
    BY <1>2 DEF Slots, SlotSet
  <1>4. \A k \in DOMAIN table :
          [table[k] EXCEPT !.revents = r[k]]
            = IF k = i THEN [table[i] EXCEPT !.revents = 0] ELSE table[k]
    BY <1>2 DEF Slots, SlotSet
  <1>5. table' = [k \in DOMAIN table |-> [table[k] EXCEPT !.revents = r[k]]]
    BY <1>1, <1>4
  <1> HIDE DEF r
  <1> QED
    BY <1>3, <1>5, ReventsTyped

\* No step leaves the types.
LEMMA NextTyped ==
  ASSUME TypeOK, DistinctKeys(table), [Next]_vars
  PROVE  TypeOK'
PROOF
  <1> USE DEF TypeOK
  <1>1. Clients \subseteq Threads
    BY DEF Threads
  <1>2. Loop \in Threads
    BY DEF Threads
  <1>3. CASE UNCHANGED vars
    BY <1>3 DEF vars, FieldTypes, BusTypes
  <1>4. ASSUME NEW c \in Clients, StartStop(c)
        PROVE  TypeOK'
    <2>1. BusTypes'
      BY <1>4 DEF StartStop, StartEventLoop, StartAlloc, StartSetUp, StopEventLoop,
        StopWrite, StopJoin, StopClose, ClientOnly, BusTypes, busVars, callVars
    <2>2. CASE StartEventLoop(c)
      BY <2>1, <2>2 DEF StartEventLoop, FieldTypes, PcStates, natVars, fdVars, ClientOnly
    <2>3. CASE StartAlloc(c)
      <3> USE <2>3 DEF StartAlloc, FieldTypes, PcStates, ClientOnly
      <3>1. << >> \in Seq(Slots) /\ << >> \in Seq(Items)
        OBVIOUS
      <3>2. CASE table' = <<ControlSlot>> /\ pc'[c] = "setup"
        BY <2>1, <3>1, <3>2, ControlSlotTyped, ConstantTypes DEF RollBack, Slots
      <3>3. CASE RollBack(c)
        BY <2>1, <3>1, <3>3 DEF RollBack, Slots
      <3> QED
        BY <2>1, <2>3, <3>2, <3>3 DEF StartAlloc
    <2>4. CASE StartSetUp(c)
      <3> USE <2>4 DEF StartSetUp, FieldTypes, PcStates, ClientOnly
      <3>1. << >> \in Seq(Slots)
        OBVIOUS
      <3>2. CASE loop' = "hook" /\ UNCHANGED <<natVars, fdVars>>
        BY <2>1, <3>2 DEF natVars, fdVars, LoopStates, RollBack
      <3>3. CASE RollBack(c) /\ UNCHANGED loop
        BY <2>1, <3>1, <3>3 DEF RollBack, Slots
      <3> QED
        BY <2>4, <3>2, <3>3 DEF StartSetUp
    <2>5. CASE StopEventLoop(c)
      BY <2>1, <2>5 DEF StopEventLoop, FieldTypes, PcStates, natVars, fdVars, ClientOnly
    <2>6. CASE StopWrite(c)
      <3>1. stream' \in Seq(Items)
        BY <2>6, PartsTyped, AppendProperties DEF StopWrite, FieldTypes
      <3> QED
        BY <2>1, <2>6, <3>1 DEF StopWrite, FieldTypes, PcStates, natVars, fdVars, ClientOnly
    <2>7. CASE StopJoin(c)
      <3>1. << >> \in Seq(Slots)
        OBVIOUS
      <3> QED
        BY <2>1, <2>7, <3>1 DEF StopJoin, FieldTypes, PcStates, LoopStates, fdVars, ClientOnly, Slots
    <2>8. CASE StopClose(c)
      BY <2>1, <2>8 DEF StopClose, FieldTypes, PcStates, natVars, ClientOnly
    <2> QED
      BY <1>4, <2>2, <2>3, <2>4, <2>5, <2>6, <2>7, <2>8 DEF StartStop
  <1>5. ASSUME NEW c \in Clients, UseBus(c)
        PROVE  TypeOK'
    <2>1. BusTypes'
      <3>1. ReadMessages(c) \/ Disconnect(c) \/ Flush(c) \/ QueueOutgoing(c)
        BY <1>5 DEF UseBus, AppRead, AppSend, AppFlush, AppDisconnect
      <3>2. c \in Threads
        BY <1>1
      <3> QED
        BY <3>1, <3>2, LibraryTypes
    <2>2. FieldTypes'
      BY <1>5 DEF UseBus, AppRead, AppSend, AppFlush, AppDisconnect,
                  LoopFieldsUnchanged, natVars, fdVars, FieldTypes
    <2> QED
      BY <2>1, <2>2
  <1>6. ASSUME NEW t \in Threads, WriteControl(t)
        PROVE  TypeOK'
    <2>1. Head(items) \in Items /\ Tail(items) \in Seq(Items)
      BY <1>6, HeadTailProperties DEF WriteControl, BusTypes
    <2>2. Append(stream, Head(items)) \in Seq(Items)
      BY <2>1, AppendProperties DEF FieldTypes
    <2>3. stream' \in Seq(Items) /\ fault' \in {"none", "frame", "watch"}
      BY <1>6, <2>2 DEF WriteControl, FieldTypes
    <2> QED
      BY <1>6, <2>1, <2>3 DEF WriteControl, FieldTypes, BusTypes, natVars, fdVars, busVars
  <1>7. CASE Bus
    <2>1. CASE BusSends
      <3>1. inbound' \in Nat
        BY <2>1 DEF BusSends, BusTypes
      <3>4. used' \in [starts : Nat, msgs : Nat, sends : Nat]
        BY <2>1 DEF BusSends, FieldTypes
      <3>2. FieldTypes'
        BY <2>1, <3>4 DEF BusSends, LoopFieldsUnchanged, natVars, fdVars, FieldTypes
      <3>3. BusTypes'
        BY <2>1, <3>1 DEF BusSends, busVars, callVars, BusTypes
      <3> QED
        BY <3>2, <3>3
    <2>2. CASE BusCloses
      BY <2>2 DEF BusCloses, LoopFieldsUnchanged, natVars, fdVars, busVars, callVars,
                  FieldTypes, BusTypes
    <2> QED
      BY <1>7, <2>1, <2>2 DEF Bus
  <1>8. CASE RunLoop
    <2>1. CASE LoopHook
      <3>1. items' \in Seq(Items) /\ owner' \in Threads \cup {NoOne}
        BY <1>2, <2>1, CallTyped, MessagesTyped DEF LoopHook
      <3> QED
        BY <2>1, <3>1 DEF LoopHook, LoopFieldsUnchanged, natVars, fdVars, FieldTypes,
                          BusTypes, LoopStates
    <2>2. CASE LoopWakeHook
      BY <2>2 DEF LoopWakeHook, LoopFieldsUnchanged, natVars, fdVars, callVars,
                  FieldTypes, BusTypes, LoopStates
    <2>14. CASE LoopStarted
      BY <2>14 DEF LoopStarted, natVars, fdVars, busVars, callVars, FieldTypes, BusTypes,
                   LoopStates
    <2>3. CASE LoopScan
      BY <2>3 DEF LoopScan, LoopOnly, natVars, fdVars, busVars, callVars, FieldTypes,
                  BusTypes, LoopStates
    <2>4. CASE LoopReceive
      <3>1. stream # << >> => Tail(stream) \in Seq(Items)
        BY HeadTailProperties DEF FieldTypes
      <3>2. /\ stream' \in Seq(Items) /\ loop' \in LoopStates /\ idx' \in Nat \ {0}
            /\ fault' \in {"none", "frame", "watch"}
        <4>1. CASE stream = << >> /\ UNCHANGED <<stream, fault>>
          BY <2>4, <4>1 DEF LoopReceive, FieldTypes, LoopStates
        <4>2. CASE UNCHANGED <<loop, idx, stream>> /\ fault' = "frame"
          BY <4>2 DEF FieldTypes
        <4>3. CASE stream # << >> /\ stream' = Tail(stream) /\ UNCHANGED <<idx, fault>>
                   /\ loop' \in {"unhook", "add", "remove", "drain"}
          BY <3>1, <4>3 DEF FieldTypes, LoopStates
        <4> QED
          BY <2>4, <4>1, <4>2, <4>3 DEF LoopReceive
      <3> QED
        BY <2>4, <3>2 DEF LoopReceive, LoopOnly, natVars, fdVars, busVars, callVars,
                          FieldTypes, BusTypes
    <2>5. CASE handleWatchAdd
      <3>1. stream' \in Seq(Items)
        BY <2>5, RestTyped DEF handleWatchAdd, FieldTypes
      <3> DEFINE slot == NewSlot(stream[1].val,
                   dbus_flags_to_unix_events(stream[2].val), stream[3].val)
      <3>2. slot \in Slots
        BY <2>5, ReadTyped, MaskIsNat DEF handleWatchAdd, FieldTypes, NewSlot, Slots, SlotSet, Ptrs
      <3>3. /\ table' \in Seq(Slots)
            /\ pollDataSize' \in Nat /\ pollCap' \in Nat /\ watchCap' \in Nat
        BY <2>5, <3>2, PlaceTyped DEF handleWatchAdd
      <3> QED
        BY <2>5, <3>1, <3>3, SMTT(30) DEF handleWatchAdd, LoopOnly, fdVars, busVars, callVars,
                                        FieldTypes, BusTypes, LoopStates, Slots
    <2>6. CASE handleWatchRemove
      <3>1. stream' \in Seq(Items)
        BY <2>6, RestTyped DEF handleWatchRemove, FieldTypes
      <3> DEFINE found == Positions(table, stream[1].val,
                                    dbus_flags_to_unix_events(stream[2].val))
      <3>2. table' \in Seq(Slots)
        <4>1. CASE found = {}
          BY <2>6, <4>1 DEF handleWatchRemove, FieldTypes, Slots
        <4>2. CASE found # {}
          <5>1. table \in Seq(Slots) /\ table' = RemoveSlot(table, First(found))
            BY <2>6, <4>2 DEF handleWatchRemove, FieldTypes, Slots
          <5>2. DOMAIN table \subseteq Nat
            BY <5>1, LenProperties
          <5>3. PICK k \in found : TRUE
            BY <4>2
          <5>4. First(found) = k /\ k \in DOMAIN table
            BY <5>2, <5>3, FirstFound DEF Positions
          <5> QED
            BY <5>1, <5>4, RemoveSlotProperties
        <4> QED
          BY <4>1, <4>2
      <3> QED
        BY <2>6, <3>1, <3>2 DEF handleWatchRemove, LoopOnly, fdVars, busVars, callVars,
                                FieldTypes, BusTypes, LoopStates, Slots
    <2>7. CASE LoopMisreads \/ LoopHandleDead
      BY <2>7 DEF LoopMisreads, LoopHandleDead, LoopOnly, natVars, fdVars, busVars,
                  callVars, FieldTypes, BusTypes
    <2>8. CASE LoopHandleWatch
      <3>1. table' \in Seq(Slots)
        BY <2>8, HandledTable DEF LoopHandleWatch, FieldTypes, Slots, SameSlots
      <3> DEFINE w == table[idx].watch
                 flags == unix_events_to_dbus_flags(table[idx].revents)
      <3>2. BusTypes'
        <4>1. \/ ReadMessages(Loop) \/ Disconnect(Loop) \/ Flush(Loop)
              \/ UNCHANGED <<busVars, callVars, inbound, hup, incoming>>
          BY <2>8 DEF LoopHandleWatch, HandleEffect
        <4> QED
          BY <1>2, <4>1, LibraryTypes DEF BusTypes, busVars, callVars
      <3> QED
        BY <2>8, <3>1, <3>2 DEF LoopHandleWatch, fdVars, FieldTypes, LoopStates, Slots
    <2>9. CASE LoopDispatch
      BY <2>9 DEF LoopDispatch, LoopFieldsUnchanged, natVars, fdVars, busVars, callVars,
                  FieldTypes, BusTypes, LoopStates
    <2>10. CASE LoopPoll
      <3>1. table' \in Seq(Slots)
        BY <2>10, PolledTable DEF LoopPoll, FieldTypes, Slots, SameSlots
      <3> QED
        BY <2>10, <3>1 DEF LoopPoll, LoopOnly, fdVars, busVars, callVars, FieldTypes,
                           BusTypes, LoopStates, Slots
    <2>11. CASE LoopUnhook
      <3>1. Hooked(RemoveAll) \in Seq(Items)
        BY MessagesTyped, EmptySeq DEF Hooked
      <3>2. items' \in Seq(Items) /\ owner' \in Threads \cup {NoOne}
        BY <1>2, <2>11, <3>1, CallTyped DEF LoopUnhook
      <3> QED
        BY <2>11, <3>2 DEF LoopUnhook, LoopFieldsUnchanged, natVars, fdVars, FieldTypes,
                           BusTypes, LoopStates
    <2>12. CASE LoopTearDown
      <3>1. BusTypes'
        BY <1>2, <2>12, LibraryTypes DEF LoopTearDown
      <3> QED
        BY <2>12, <3>1 DEF LoopTearDown, LoopFieldsUnchanged, natVars, fdVars, FieldTypes
    <2>13. CASE LoopClose
      BY <2>13 DEF LoopClose, natVars, busVars, callVars, FieldTypes, BusTypes, LoopStates
    <2> QED
      BY <1>8, <2>1, <2>2, <2>3, <2>4, <2>5, <2>6, <2>7, <2>8, <2>9, <2>10, <2>11,
         <2>12, <2>13, <2>14 DEF RunLoop
  <1> QED
    BY <1>3, <1>4, <1>5, <1>6, <1>7, <1>8 DEF Next

-----------------------------------------------------------------------------
(* The table.                                                              *)

Shape == TableFits /\ ControlSlotFirst

\* The steps that touch the table, its size or its arrays.
LEMMA TableSteps ==
  ASSUME [Next]_vars
  PROVE  \/ UNCHANGED natVars
         \/ \E c \in Clients : StartAlloc(c) \/ StartSetUp(c) \/ StopJoin(c)
         \/ handleWatchAdd \/ handleWatchRemove \/ LoopHandleWatch \/ LoopPoll
PROOF
  <1>1. ASSUME NEW c \in Clients, StartStop(c)
        PROVE  UNCHANGED natVars \/ StartAlloc(c) \/ StartSetUp(c) \/ StopJoin(c)
    BY <1>1 DEF StartStop, StartEventLoop, StopEventLoop, StopWrite, StopClose
  <1>2. ASSUME NEW c \in Clients, UseBus(c)
        PROVE  UNCHANGED natVars
    BY <1>2 DEF UseBus, AppRead, AppSend, AppFlush, AppDisconnect, LoopFieldsUnchanged
  <1>3. ASSUME NEW t \in Threads, WriteControl(t)
        PROVE  UNCHANGED natVars
    BY <1>3 DEF WriteControl
  <1>4. Bus => UNCHANGED natVars
    BY DEF Bus, BusSends, BusCloses, LoopFieldsUnchanged
  <1>5. RunLoop => \/ UNCHANGED natVars
                   \/ handleWatchAdd \/ handleWatchRemove \/ LoopHandleWatch \/ LoopPoll
    BY DEF RunLoop, LoopHook, LoopWakeHook, LoopStarted, LoopScan, LoopReceive,
           LoopMisreads, LoopHandleDead, LoopDispatch, LoopUnhook, LoopTearDown,
           LoopClose, LoopFieldsUnchanged
  <1>6. UNCHANGED vars => UNCHANGED natVars
    BY DEF vars, natVars
  <1> QED
    BY <1>1, <1>2, <1>3, <1>4, <1>5, <1>6 DEF Next

LEMMA EmptyShape ==
  ASSUME table' = << >>, pollDataSize' = 0, pollCap' = 0, watchCap' = 0
  PROVE  Shape'
PROOF
  BY DEF Shape, TableFits, ControlSlotFirst, DistinctKeys

LEMMA FreshShape ==
  ASSUME table' = <<ControlSlot>>, pollDataSize' = InitialSize,
         pollCap' = InitialSize, watchCap' = InitialSize
  PROVE  Shape'
PROOF
  <1>1. Len(table') = 1 /\ DOMAIN table' = 1 .. 1 /\ table'[1] = ControlSlot
    OBVIOUS
  <1> QED
    BY <1>1, ControlSlotTyped, ConstantTypes DEF Shape, TableFits, ControlSlotFirst, DistinctKeys

LEMMA SameShape ==
  ASSUME table \in Seq(Slots), Shape, SameSlots(table', table),
         UNCHANGED <<pollDataSize, pollCap, watchCap>>
  PROVE  Shape'
PROOF
  <1>1. Len(table) \in Nat /\ DOMAIN table = 1 .. Len(table)
    BY LenProperties
  <1>2. table' # << >> => table # << >> /\ 1 \in DOMAIN table
    BY <1>1, EmptySeq DEF SameSlots
  <1> QED
    BY <1>1, <1>2 DEF Shape, SameSlots, TableFits, ControlSlotFirst, DistinctKeys

\* A placed slot for the bus goes behind the control slot.
LEMMA PlacedShape ==
  ASSUME FieldTypes, Shape, table # << >>, NEW slot \in Slots, slot.fd = BusFd,
         Place(slot)
  PROVE  Shape' /\ table' # << >>
PROOF
  <1>1. /\ table \in Seq(Slots) /\ Len(table) \in Nat \ {0}
        /\ DOMAIN table = 1 .. Len(table)
        /\ pollDataSize \in Nat /\ pollCap \in Nat /\ watchCap \in Nat
    BY LenProperties, EmptySeq DEF FieldTypes, Slots
  <1> DEFINE u == Append(table, slot)
  <1>2. /\ Len(u) = Len(table) + 1 /\ DOMAIN u = 1 .. (Len(table) + 1)
        /\ \A k \in 1 .. Len(table) : u[k] = table[k]
        /\ u[Len(table) + 1] = slot
        /\ u # << >>
    BY <1>1, AppendProperties, LenProperties, EmptySeq
  <1>3. ASSUME Positions(table, slot.fd, slot.events) = {}, table' = u
        PROVE  ControlSlotFirst' /\ table' # << >>
    <2>1. DistinctKeys(table')
      BY <1>1, <1>3, AppendDistinct DEF Shape, ControlSlotFirst
    <2>2. /\ u[1].fd = CtlR /\ u[1].events = POLLIN
          /\ \A k \in DOMAIN u : k > 1 => u[k].fd = BusFd
      BY <1>1, <1>2 DEF Shape, ControlSlotFirst
    <2> HIDE DEF u
    <2> QED
      BY <1>2, <1>3, <2>1, <2>2 DEF ControlSlotFirst
  <1> HIDE DEF u
  <1>4. CASE UNCHANGED natVars
    BY <1>4 DEF natVars, Shape, TableFits, ControlSlotFirst
  <1>5. CASE Positions(table, slot.fd, slot.events) = {} /\ Len(table) = pollDataSize
             /\ Grow(slot)
    <2>1. CASE table' = u /\ pollCap' = Len(table) + 1 /\ watchCap' = Len(table) + 1
               /\ pollDataSize' = pollDataSize + 1
      <3>1. TableFits'
        BY <1>1, <1>2, <1>5, <2>1 DEF TableFits
      <3> QED
        BY <1>3, <1>5, <2>1, <3>1 DEF Shape
    <2>2. CASE pollCap' = Len(table) + 1 /\ UNCHANGED <<table, pollDataSize, watchCap>>
      BY <1>1, <1>5, <2>2 DEF Shape, TableFits, ControlSlotFirst
    <2> QED
      BY <1>4, <1>5, <2>1, <2>2 DEF Grow, u
  <1>6. CASE /\ Positions(table, slot.fd, slot.events) = {} /\ Len(table) # pollDataSize
             /\ table' = u /\ UNCHANGED <<pollDataSize, pollCap, watchCap>>
    <2>1. Len(table') = Len(table) + 1
      BY <1>2, <1>6
    <2>2. /\ Len(table) # pollDataSize /\ Len(table) <= pollDataSize
          /\ pollDataSize <= pollCap /\ pollDataSize <= watchCap
      BY <1>6 DEF Shape, TableFits
    <2>3. Len(table) + 1 <= pollDataSize
      <3>1. Len(table) \in Int /\ pollDataSize \in Int
        BY <1>1
      <3> QED
        BY <2>2, <3>1
    <2>4. UNCHANGED <<pollDataSize, pollCap, watchCap>>
      BY <1>6
    <2>5. TableFits'
      BY <2>1, <2>2, <2>3, <2>4 DEF TableFits
    <2> QED
      BY <1>3, <1>6, <2>5 DEF Shape
  <1> QED
    BY <1>4, <1>5, <1>6 DEF Place, u

\* The slot of a watch is never the control slot, which stays in place.
LEMMA RemovedShape ==
  ASSUME FieldTypes, Shape, NEW events,
         NEW k \in Positions(table, BusFd, events),
         table' = RemoveSlot(table, k), UNCHANGED <<pollDataSize, pollCap, watchCap>>
  PROVE  Shape' /\ table' # << >>
PROOF
  <1>1. /\ table \in Seq(Slots) /\ Len(table) \in Nat
        /\ DOMAIN table = 1 .. Len(table)
        /\ pollDataSize \in Nat /\ pollCap \in Nat /\ watchCap \in Nat
    BY LenProperties DEF FieldTypes, Slots
  <1>2. k \in 1 .. Len(table) /\ table[k].fd = BusFd
    BY <1>1 DEF Positions
  <1>3. table # << >> /\ table[1].fd = CtlR
    BY <1>1, <1>2, EmptySeq DEF Shape, ControlSlotFirst
  <1>4. k > 1 /\ Len(table) > 1
    BY <1>1, <1>2, <1>3, ConstantTypes
  <1>5. /\ table' \in Seq(Slots) /\ Len(table') = Len(table) - 1
        /\ DOMAIN table' = 1 .. (Len(table) - 1)
        /\ \A j \in 1 .. (Len(table) - 1) :
             table'[j] = IF j = k THEN table[Len(table)] ELSE table[j]
    <2>1. k \in DOMAIN table
      BY <1>1, <1>2
    <2>2. /\ RemoveSlot(table, k) \in Seq(Slots)
          /\ Len(RemoveSlot(table, k)) = Len(table) - 1
          /\ DOMAIN RemoveSlot(table, k) = 1 .. (Len(table) - 1)
          /\ \A j \in 1 .. (Len(table) - 1) :
               RemoveSlot(table, k)[j] = IF j = k THEN table[Len(table)] ELSE table[j]
      BY <1>1, <2>1, RemoveSlotProperties
    <2> QED
      BY <2>2
  <1>6. DistinctKeys(table')
    BY <1>1, <1>2, RemoveSlotDistinct DEF Shape, ControlSlotFirst
  <1>7. table' # << >>
    BY <1>4, <1>5, EmptySeq
  <1>8. table'[1] = table[1]
    BY <1>1, <1>4, <1>5
  <1>9. \A j \in DOMAIN table' : j > 1 => table'[j].fd = BusFd
    BY <1>1, <1>4, <1>5 DEF Shape, ControlSlotFirst
  <1>10. TableFits'
    BY <1>1, <1>5 DEF Shape, TableFits
  <1> QED
    BY <1>3, <1>6, <1>7, <1>8, <1>9, <1>10 DEF Shape, ControlSlotFirst

\* The event loop never empties its table.
LEMMA LoopShape ==
  ASSUME TypeOK, Shape, Lifecycle, RunLoop, ~ UNCHANGED natVars,
         \/ handleWatchAdd \/ handleWatchRemove \/ LoopHandleWatch \/ LoopPoll
  PROVE  Shape' /\ table' # << >>
PROOF
  <1>1. loop \in {"add", "remove", "handle", "poll"}
    BY DEF handleWatchAdd, handleWatchRemove, LoopHandleWatch, LoopPoll, At
  <1>2. table # << >>
    BY <1>1 DEF Lifecycle, Allocated
  <1>3. FieldTypes /\ table \in Seq(Slots) /\ stream \in Seq(Items)
    BY DEF TypeOK, FieldTypes, Slots
  <1>4. CASE handleWatchAdd
    <2> DEFINE slot == NewSlot(stream[1].val,
                 dbus_flags_to_unix_events(stream[2].val), stream[3].val)
    <2>1. slot \in Slots /\ slot.fd = BusFd
      BY <1>3, <1>4, ReadTyped, MaskIsNat DEF handleWatchAdd, NewSlot, Slots, SlotSet, Ptrs
    <2>2. Place(slot)
      BY <1>4 DEF handleWatchAdd
    <2> HIDE DEF slot
    <2> QED
      BY <1>2, <1>3, <2>1, <2>2, PlacedShape
  <1>5. CASE handleWatchRemove
    <2> DEFINE events == dbus_flags_to_unix_events(stream[2].val)
               found == Positions(table, BusFd, events)
    <2>1. stream[1].val = BusFd
      BY <1>3, <1>5, ReadTyped DEF handleWatchRemove
    <2>2. /\ table' = IF found = {} THEN table ELSE RemoveSlot(table, First(found))
          /\ UNCHANGED <<pollDataSize, pollCap, watchCap>>
      BY <1>5, <2>1 DEF handleWatchRemove
    <2>3. found # {}
      BY <2>2 DEF natVars
    <2>4. PICK k \in found : TRUE
      BY <2>3
    <2>5. First(found) = k
      <3>1. DOMAIN table \subseteq Nat /\ DistinctKeys(table)
        BY <1>3, LenProperties DEF Shape, ControlSlotFirst
      <3> QED
        BY <2>4, <3>1, FirstFound
    <2> QED
      BY <1>3, <2>2, <2>3, <2>4, <2>5, RemovedShape
  <1>6. CASE LoopHandleWatch \/ LoopPoll
    <2>1. SameSlots(table', table) /\ UNCHANGED <<pollDataSize, pollCap, watchCap>>
      BY <1>3, <1>6, HandledTable, PolledTable DEF LoopHandleWatch, LoopPoll
    <2>2. Shape'
      BY <1>3, <2>1, SameShape
    <2>3. table' # << >>
      BY <1>2, <1>3, <2>1, EmptySeq DEF SameSlots
    <2> QED
      BY <2>2, <2>3
  <1> QED
    BY <1>4, <1>5, <1>6

LEMMA ShapeStep ==
  ASSUME TypeOK, Shape, Lifecycle, [Next]_vars
  PROVE  Shape'
PROOF
  <1>1. CASE UNCHANGED natVars
    BY <1>1 DEF natVars, Shape, TableFits, ControlSlotFirst
  <1>2. ASSUME NEW c \in Clients, StartAlloc(c) \/ StartSetUp(c) \/ StopJoin(c)
        PROVE  Shape'
    <2>1. CASE table' = << >> /\ pollDataSize' = 0 /\ pollCap' = 0 /\ watchCap' = 0
      BY <2>1, EmptyShape
    <2>2. CASE table' = <<ControlSlot>> /\ pollDataSize' = InitialSize
               /\ pollCap' = InitialSize /\ watchCap' = InitialSize
      BY <2>2, FreshShape
    <2> QED
      BY <1>2, <1>1, <2>1, <2>2 DEF StartAlloc, StartSetUp, StopJoin, RollBack
  <1>3. ASSUME ~ UNCHANGED natVars,
               handleWatchAdd \/ handleWatchRemove \/ LoopHandleWatch \/ LoopPoll
        PROVE  Shape'
    BY <1>3, LoopShape DEF RunLoop
  <1> QED
    BY <1>1, <1>2, <1>3, TableSteps

-----------------------------------------------------------------------------
(* The life of the loop.                                                   *)

\* The loop's steps inside its life: the table stays, and so do the
\* descriptors until the loop closes its own.
LEMMA LoopSteps ==
  ASSUME TypeOK, TypeOK', Shape, Lifecycle, RunLoop
  PROVE  /\ UNCHANGED <<mutex, pc, controlFdW>>
         /\ table' # << >> /\ pollCap' > 0 /\ watchCap' > 0
         /\ \/ /\ loop' \notin {"none", "done"} /\ loop \notin {"none", "done"}
               /\ UNCHANGED <<controlFdR, open>>
            \/ /\ loop \notin {"none", "done"} /\ loop' = "done"
               /\ controlFdR' = 0 /\ open' = open \ {controlFdR}
PROOF
  <1> DEFINE Bystander ==
        LoopHook \/ LoopWakeHook \/ LoopStarted \/ LoopScan \/ LoopReceive
          \/ LoopMisreads \/ LoopHandleDead \/ LoopDispatch \/ LoopUnhook \/ LoopTearDown
      Toucher == handleWatchAdd \/ handleWatchRemove \/ LoopHandleWatch \/ LoopPoll
  <1>1. Bystander => /\ UNCHANGED <<natVars, mutex, pc, controlFdW, controlFdR, open>>
                     /\ loop' \notin {"none", "done"} /\ loop \notin {"none", "done"}
    BY DEF At, LoopHook, LoopWakeHook, LoopStarted, LoopScan, LoopReceive, LoopMisreads,
           LoopHandleDead, LoopDispatch, LoopUnhook, LoopTearDown, LoopFieldsUnchanged,
           LoopOnly, fdVars
  <1>2. Toucher => /\ UNCHANGED <<mutex, pc, controlFdW, controlFdR, open>>
                   /\ loop' \notin {"none", "done"} /\ loop \notin {"none", "done"}
    BY DEF At, handleWatchAdd, handleWatchRemove, LoopHandleWatch, LoopPoll, LoopOnly, fdVars
  <1>3. LoopClose => /\ UNCHANGED <<natVars, mutex, pc, controlFdW>>
                     /\ loop = "teardown" /\ loop' = "done"
                     /\ controlFdR' = 0 /\ open' = open \ {controlFdR}
    BY DEF LoopClose, At
  <1>4. loop \notin {"none", "done"}
    BY <1>1, <1>2, <1>3 DEF RunLoop
  <1>5. Allocated
    BY <1>4 DEF Lifecycle
  <1>6. CASE UNCHANGED natVars
    BY <1>1, <1>2, <1>3, <1>5, <1>6 DEF Allocated, natVars, RunLoop
  <1>7. CASE ~ UNCHANGED natVars
    <2>1. Toucher
      BY <1>1, <1>3, <1>7 DEF RunLoop
    <2>2. Shape' /\ table' # << >>
      BY <1>7, <2>1, LoopShape
    <2>3. table' \in Seq(Slots) /\ pollDataSize' \in Nat /\ pollCap' \in Nat
          /\ watchCap' \in Nat
      BY DEF TypeOK, FieldTypes, Slots
    <2>4. Len(table') \in Nat \ {0}
      BY <2>2, <2>3, EmptySeq
    <2>5. Len(table') <= pollDataSize' /\ pollDataSize' <= pollCap' /\ pollDataSize' <= watchCap'
      BY <2>2 DEF Shape, TableFits
    <2>6. pollCap' > 0 /\ watchCap' > 0
      BY <2>3, <2>4, <2>5
    <2> QED
      BY <1>2, <2>1, <2>2, <2>6
  <1> QED
    BY <1>6, <1>7

\* Clients other than the one that steps are idle when it holds the mutex.
LEMMA LifecycleStep ==
  ASSUME TypeOK, TypeOK', Shape, Lifecycle, [Next]_vars
  PROVE  Lifecycle'
PROOF
  <1> USE DEF Released, Allocated, Finished, Joined
  <1>1. NoOne \notin Clients /\ pc \in [Clients -> PcStates]
    BY ClientsAssumption DEF TypeOK, FieldTypes
  <1>2. CASE UNCHANGED vars
    BY <1>2 DEF vars, Lifecycle
  <1>3. ASSUME NEW c \in Clients, StartStop(c)
        PROVE  Lifecycle'
    <2>1. CASE StartEventLoop(c)
      BY <1>1, <2>1 DEF StartEventLoop, natVars, fdVars, Lifecycle
    <2>2. CASE StartAlloc(c)
      <3>1. CASE RollBack(c)
        BY <1>1, <2>2, <3>1 DEF StartAlloc, RollBack, Lifecycle
      <3>2. CASE table' = <<ControlSlot>> /\ pc' = [pc EXCEPT ![c] = "setup"]
                 /\ ~ RollBack(c)
        <4>1. /\ table' # << >> /\ pollCap' > 0 /\ watchCap' > 0
              /\ controlFdR' = CtlR /\ controlFdW' = CtlW /\ open' = {CtlR, CtlW}
          BY <2>2, <3>2, ConstantTypes DEF StartAlloc, Lifecycle
        <4> QED
          BY <1>1, <2>2, <3>2, <4>1 DEF StartAlloc, Lifecycle
      <3> QED
        BY <2>2, <3>1, <3>2 DEF StartAlloc
    <2>3. CASE StartSetUp(c)
      BY <1>1, <2>3 DEF StartSetUp, RollBack, natVars, fdVars, Lifecycle
    <2>4. CASE StopEventLoop(c)
      BY <1>1, <2>4 DEF StopEventLoop, natVars, fdVars, Lifecycle
    <2>5. CASE StopWrite(c)
      BY <1>1, <2>5 DEF StopWrite, natVars, fdVars, Lifecycle
    <2>6. CASE StopJoin(c)
      BY <1>1, <2>6 DEF StopJoin, fdVars, Lifecycle
    <2>7. CASE StopClose(c)
      BY <1>1, <2>7 DEF StopClose, natVars, Lifecycle
    <2> QED
      BY <1>3, <2>1, <2>2, <2>3, <2>4, <2>5, <2>6, <2>7 DEF StartStop
  <1>4. ASSUME NEW c \in Clients, UseBus(c)
        PROVE  Lifecycle'
    BY <1>4 DEF UseBus, AppRead, AppSend, AppFlush, AppDisconnect, LoopFieldsUnchanged,
                natVars, fdVars, Lifecycle
  <1>5. ASSUME NEW t \in Threads, WriteControl(t)
        PROVE  Lifecycle'
    BY <1>5 DEF WriteControl, natVars, fdVars, Lifecycle
  <1>6. CASE Bus
    BY <1>6 DEF Bus, BusSends, BusCloses, LoopFieldsUnchanged, natVars, fdVars, Lifecycle
  <1>7. CASE RunLoop
    <2>1. loop \notin {"none", "done"} /\ Allocated
      BY <1>7, LoopSteps DEF Lifecycle
    <2>2. CASE loop' \notin {"none", "done"} /\ UNCHANGED <<controlFdR, open>>
      BY <1>7, <2>1, <2>2, LoopSteps DEF Lifecycle
    <2>3. CASE loop' = "done" /\ controlFdR' = 0 /\ open' = open \ {controlFdR}
      BY <1>7, <2>1, <2>3, LoopSteps, ConstantTypes DEF Lifecycle
    <2> QED
      BY <1>7, <2>2, <2>3, LoopSteps
  <1> QED
    BY <1>2, <1>3, <1>4, <1>5, <1>6, <1>7 DEF Next

-----------------------------------------------------------------------------
(* The theorems.                                                           *)

IInv == TypeOK /\ Shape /\ Lifecycle

LEMMA InitInv == Init => IInv
PROOF
  <1> SUFFICES ASSUME Init PROVE IInv
    OBVIOUS
  <1>1. Shape
    BY DEF Init, Shape, TableFits, ControlSlotFirst, DistinctKeys
  <1>2. Lifecycle
    BY DEF Init, Lifecycle, Released
  <1> QED
    BY <1>1, <1>2, InitTyped DEF IInv

LEMMA NextInv == IInv /\ [Next]_vars => IInv'
PROOF
  <1> SUFFICES ASSUME IInv, [Next]_vars PROVE IInv'
    OBVIOUS
  <1>1. TypeOK /\ Shape /\ Lifecycle /\ DistinctKeys(table)
    BY DEF IInv, Shape, ControlSlotFirst
  <1>2. TypeOK'
    BY <1>1, NextTyped
  <1>3. Shape'
    BY <1>1, ShapeStep
  <1>4. Lifecycle'
    BY <1>1, <1>2, LifecycleStep
  <1> QED
    BY <1>2, <1>3, <1>4 DEF IInv

\* The inductive invariant: types, the shape of the table and what is
\* allocated in each phase of starting, running and stopping the loop.
THEOREM Invariance == Spec => []IInv
PROOF
  BY InitInv, NextInv, PTL DEF Spec

\* The fields of tBluetoothEvent, the control socket and the threads keep
\* their types, whatever the threads do.
THEOREM TypeCorrect == Spec => []TypeOK
PROOF
  <1>1. IInv => TypeOK
    BY DEF IInv
  <1> QED
    BY <1>1, Invariance, PTL

\* pollData and watchData are never accessed out of bounds, also after a
\* growth of which only one malloc succeeded.
THEOREM TableIsSafe == Spec => []TableFits
PROOF
  <1>1. IInv => TableFits
    BY DEF IInv, Shape
  <1> QED
    BY <1>1, Invariance, PTL

\* pollData[0] stays the control socket and no two members answer to the
\* same search, whatever sequence of watches is added and removed.
THEOREM ControlStaysFirst == Spec => []ControlSlotFirst
PROOF
  <1>1. IInv => ControlSlotFirst
    BY DEF IInv, Shape
  <1> QED
    BY <1>1, Invariance, PTL

\* Nothing the running loop uses is freed or closed under it, by any number
\* of threads that start and stop it.
THEOREM LoopKeepsTable == Spec => []LoopOwnsTable
PROOF
  <1>1. IInv => LoopOwnsTable
    BY DEF IInv, Lifecycle, Allocated, LoopOwnsTable
  <1> QED
    BY <1>1, Invariance, PTL

\* Outside startEventLoop and stopEventLoop, no loop means that nothing is
\* allocated and no descriptor is open: neither a failed start nor a stop
\* leaks.
THEOREM StoppedIsReleased == Spec => []StoppedMeansReleased
PROOF
  <1>1. IInv => StoppedMeansReleased
    BY DEF IInv, Lifecycle, Allocated, Finished, Released, StoppedMeansReleased, TypeOK,
           FieldTypes
  <1> QED
    BY <1>1, Invariance, PTL

\* isEventLoopRunning answers 1 only while there is a loop thread.
THEOREM RunningIsThread == Spec => []RunningMeansThread
PROOF
  <1>1. IInv => RunningMeansThread
    BY DEF IInv, Lifecycle, RunningMeansThread
  <1> QED
    BY <1>1, Invariance, PTL

\* At most one event loop thread exists at any time.
THEOREM OnlyOneLoop == Spec => OneLoop
PROOF
  <1> DEFINE Step == loop' = "hook" /\ loop # "hook" => loop = "none"
  <1>1. IInv /\ [Next]_vars => [Step]_vars
    <2> SUFFICES ASSUME IInv, Next, loop' = "hook", loop # "hook" PROVE loop = "none"
      OBVIOUS
    <2>1. ASSUME NEW c \in Clients, StartStop(c) PROVE loop = "none"
      BY <2>1 DEF StartStop, StartEventLoop, StartAlloc, StartSetUp, StopEventLoop,
                  StopWrite, StopJoin, StopClose, IInv, Lifecycle
    <2>2. ASSUME NEW c \in Clients, UseBus(c) PROVE FALSE
      BY <2>2 DEF UseBus, AppRead, AppSend, AppFlush, AppDisconnect
    <2>3. ASSUME NEW t \in Threads, WriteControl(t) PROVE FALSE
      BY <2>3 DEF WriteControl
    <2>4. ~ Bus
      BY DEF Bus, BusSends, BusCloses
    <2>5. ~ RunLoop
      BY DEF RunLoop, LoopHook, LoopWakeHook, LoopStarted, LoopScan, LoopReceive,
             handleWatchAdd, handleWatchRemove, LoopMisreads, LoopHandleDead,
             LoopHandleWatch, LoopDispatch, LoopPoll, LoopUnhook, LoopTearDown, LoopClose
    <2>6. ~ UNCHANGED vars
      BY DEF vars
    <2> QED
      BY <2>1, <2>2, <2>3, <2>4, <2>5, <2>6 DEF Next
  <1> QED
    BY <1>1, Invariance, PTL DEF Spec, OneLoop

-----------------------------------------------------------------------------
(***************************************************************************)
(* The event loop implements LoopService, for any number of threads: every *)
(* behaviour of EventLoop, seen through Phase, Thread, mutex, running and  *)
(* incoming, is a behaviour of the service.                                *)
(***************************************************************************)

-----------------------------------------------------------------------------
(* EXIT bytes.                                                             *)

\* No callback of libdbus writes an EXIT byte.
LEMMA NoExitWritten ==
  /\ \A on : dbusToggleWatch(Wr, on) \in Seq(Messages)
  /\ dbusWakeup \in Seq(Messages)
  /\ AddAll \in Seq(Messages) /\ RemoveAll \in Seq(Messages)
PROOF
  <1>1. /\ Ctl(ADD) \in Messages /\ Ctl(REMOVE) \in Messages
        /\ Ctl(WAKEUP) \in Messages /\ FdItem \in Messages
        /\ \A w \in Watches : FlagsItem(w) \in Messages /\ PtrItem(w) \in Messages
    BY PartsTyped DEF Messages, Ctl, FdItem, FlagsItem, PtrItem, EXIT, ADD, REMOVE, WAKEUP
  <1>2. \A w \in Watches : \A on : dbusAddWatch(w, on) \in Seq(Messages)
    BY <1>1 DEF dbusAddWatch
  <1>3. \A w \in Watches : \A on : dbusRemoveWatch(w) \in Seq(Messages)
    BY <1>1 DEF dbusRemoveWatch
  <1>4. dbusWakeup \in Seq(Messages)
    BY <1>1 DEF dbusWakeup
  <1>5. Rd \in Watches /\ Wr \in Watches /\ << >> \in Seq(Messages)
    BY DEF Watches
  <1>6. AddAll \in Seq(Messages)
    BY <1>2, <1>5, ConcatProperties DEF AddAll
  <1>7. RemoveAll \in Seq(Messages)
    BY <1>3, <1>5, ConcatProperties DEF RemoveAll
  <1> QED
    BY <1>2, <1>3, <1>4, <1>5, <1>6, <1>7 DEF dbusToggleWatch

\* So what a thread still has to write never holds one.
LEMMA LibraryWritesNoExit ==
  ASSUME NEW t,
         ReadMessages(t) \/ Disconnect(t) \/ Flush(t) \/ QueueOutgoing(t)
  PROVE  items' \in Seq(Messages)
PROOF
  <1>1. << >> \in Seq(Messages)
    OBVIOUS
  <1>2. CASE ReadMessages(t)
    BY <1>2, NoExitWritten DEF ReadMessages, Call
  <1>3. CASE Disconnect(t)
    <2>1. Hooked(RemoveAll) \o dbusWakeup \in Seq(Messages)
      BY <1>1, NoExitWritten, ConcatProperties DEF Hooked
    <2> QED
      BY <1>3, <2>1 DEF Disconnect, Call
  <1>4. CASE Flush(t)
    BY <1>1, <1>4, NoExitWritten DEF Flush, Call, Hooked
  <1>5. CASE QueueOutgoing(t)
    <2>1. Hooked(dbusToggleWatch(Wr, enabled')) \o dbusWakeup \in Seq(Messages)
      BY <1>1, NoExitWritten, ConcatProperties DEF Hooked
    <2> QED
      BY <1>5, <2>1 DEF QueueOutgoing, Call
  <1> QED
    BY <1>2, <1>3, <1>4, <1>5

\* Reading from the front of the socket leaves the EXIT bytes that were
\* behind what was read, and no other.
LEMMA ExitsLeft ==
  ASSUME NEW s \in Seq(Items), NEW n \in Nat \ {0},
         NEW u, u = SubSeq(s, n, Len(s))
  PROVE  \A k \in ExitsIn(u) : k \in Nat /\ k >= 1 /\ k + n - 1 \in ExitsIn(s)
PROOF
  <1>1. Len(s) \in Nat /\ DOMAIN s = 1 .. Len(s)
    BY LenProperties
  <1>2. CASE n > Len(s)
    <2>1. u = << >>
      BY <1>1, <1>2, SubSeqProperties
    <2> QED
      BY <2>1 DEF ExitsIn
  <1>3. CASE n <= Len(s)
    <2>1. /\ DOMAIN u = 1 .. Len(s) - n + 1
          /\ \A k \in 1 .. Len(s) - n + 1 : u[k] = s[k + n - 1]
      BY <1>1, <1>3, SubSeqProperties
    <2> QED
      BY <1>1, <1>3, <2>1 DEF ExitsIn
  <1> QED
    BY <1>1, <1>2, <1>3

\* The same for a control byte, with the byte that was read.
LEMMA ExitsInTail ==
  ASSUME NEW s \in Seq(Items), s # << >>
  PROVE  /\ \A k \in ExitsIn(Tail(s)) : k \in Nat /\ k >= 1 /\ k + 1 \in ExitsIn(s)
         /\ Head(s) = Ctl(EXIT) => 1 \in ExitsIn(s)
PROOF
  <1>1. /\ Len(s) \in Nat \ {0} /\ DOMAIN s = 1 .. Len(s)
        /\ Head(s) = s[1]
        /\ Len(Tail(s)) = Len(s) - 1
        /\ \A k \in 1 .. Len(Tail(s)) : Tail(s)[k] = s[k + 1]
        /\ DOMAIN Tail(s) = 1 .. Len(Tail(s))
    BY HeadTailProperties, LenProperties, EmptySeq
  <1> QED
    BY <1>1 DEF ExitsIn

\* Writing to the socket.
LEMMA ExitsWritten ==
  ASSUME NEW s \in Seq(Items), NEW x \in Items
  PROVE  /\ x # Ctl(EXIT) => ExitsIn(Append(s, x)) = ExitsIn(s)
         /\ ExitsIn(s) = {} => \A j, k \in ExitsIn(Append(s, x)) : j = k
PROOF
  <1>1. /\ Len(s) \in Nat /\ DOMAIN s = 1 .. Len(s)
        /\ DOMAIN Append(s, x) = 1 .. Len(s) + 1
        /\ Append(s, x)[Len(s) + 1] = x
        /\ \A k \in 1 .. Len(s) : Append(s, x)[k] = s[k]
    BY AppendProperties, LenProperties
  <1>2. \A k \in 1 .. Len(s) + 1 : k \in 1 .. Len(s) \/ k = Len(s) + 1
    BY <1>1
  <1>3. \A k \in 1 .. Len(s) : k \in 1 .. Len(s) + 1
    BY <1>1
  <1> QED
    BY <1>1, <1>2, <1>3 DEF ExitsIn

-----------------------------------------------------------------------------
(* An EXIT byte is there only for a stop.                                  *)

Over == loop \in {"unhook", "teardown", "done"}
Awaited == \E c \in Clients : pc[c] = "join"

\* Steps that neither read nor write the socket, nor end the loop.
LEMMA SocketLeftAlone ==
  ASSUME StopRequests, UNCHANGED stream, items' \in Seq(Messages),
         Over' => Over, Awaited => Awaited'
  PROVE  StopRequests'
PROOF
  BY DEF StopRequests, Over, Awaited, ExitsIn

\* Steps of the loop that read n - 1 items of the socket and go on.
LEMMA SocketRead ==
  ASSUME StopRequests, NEW n \in Nat \ {0}, stream \in Seq(Items),
         stream' = SubSeq(stream, n, Len(stream)),
         UNCHANGED <<items, pc>>, ~ Over'
  PROVE  StopRequests'
PROOF
  <1>1. \A k \in ExitsIn(stream') : k \in Nat /\ k + n - 1 \in ExitsIn(stream)
    BY ExitsLeft
  <1>2. \A j, k \in ExitsIn(stream') : j = k
    <2>1. \A j, k \in ExitsIn(stream') : j + n - 1 = k + n - 1
      BY <1>1 DEF StopRequests
    <2> QED
      BY <1>1, <2>1
  <1>3. ExitsIn(stream') # {} => ExitsIn(stream) # {}
    BY <1>1
  <1> QED
    BY <1>2, <1>3 DEF StopRequests, Over

\* Only a stop that found a loop writes EXIT, and only that loop reads it.
LEMMA StopRequestsStep ==
  ASSUME TypeOK, TypeOK', Shape, Lifecycle, StopRequests, [Next]_vars
  PROVE  StopRequests'
PROOF
  <1>1. /\ NoOne \notin Clients /\ pc \in [Clients -> PcStates]
        /\ stream \in Seq(Items) /\ items \in Seq(Messages)
    BY ClientsAssumption DEF TypeOK, FieldTypes, StopRequests
  <1>2. CASE UNCHANGED vars
    BY <1>2 DEF vars, StopRequests
  <1>3. ASSUME NEW c \in Clients, StartStop(c)
        PROVE  StopRequests'
    <2>1. items' = items
      BY <1>3 DEF StartStop, StartEventLoop, StartAlloc, StartSetUp, StopEventLoop,
                  StopWrite, StopJoin, StopClose, ClientOnly, callVars
    <2>2. CASE StartEventLoop(c) \/ StopEventLoop(c)
      <3>1. UNCHANGED <<stream, loop>> /\ (Awaited => Awaited')
        BY <1>1, <2>2 DEF StartEventLoop, StopEventLoop, Awaited
      <3> QED
        BY <1>1, <2>1, <3>1, SocketLeftAlone DEF Over
    <2>3. CASE StartAlloc(c)
      <3>1. loop = "none" /\ UNCHANGED loop /\ (stream' = << >> \/ UNCHANGED stream)
        BY <2>3 DEF StartAlloc, Lifecycle
      <3>2. ~ Awaited
        BY <1>1, <2>3 DEF StartAlloc, Lifecycle, Awaited
      <3> QED
        BY <1>1, <2>1, <3>1, <3>2 DEF StopRequests, ExitsIn, Awaited
    <2>4. CASE StartSetUp(c)
      <3>1. UNCHANGED stream /\ ~ Over'
        BY <2>4 DEF StartSetUp, Lifecycle, Over
      <3>2. ~ Awaited
        BY <1>1, <2>4 DEF StartSetUp, Lifecycle, Awaited
      <3> QED
        BY <1>1, <2>1, <3>1, <3>2, SocketLeftAlone DEF Over
    <2>5. CASE StopWrite(c)
      <3>1. ~ Awaited
        BY <1>1, <2>5 DEF StopWrite, Lifecycle, Awaited
      <3>2. ExitsIn(stream) = {} /\ ~ Over
        BY <3>1 DEF StopRequests, Awaited, Over
      <3>3. stream' = Append(stream, Ctl(EXIT)) /\ UNCHANGED loop /\ Awaited'
        BY <1>1, <2>5 DEF StopWrite, Awaited
      <3>4. \A j, k \in ExitsIn(stream') : j = k
        BY <1>1, <3>2, <3>3, ExitsWritten, PartsTyped
      <3> QED
        BY <1>1, <2>1, <3>2, <3>3, <3>4 DEF StopRequests, Over, Awaited
    <2>6. CASE StopJoin(c)
      <3>1. UNCHANGED stream /\ ExitsIn(stream) = {} /\ ~ Over'
        BY <2>6 DEF StopJoin, StopRequests, Over
      <3> QED
        BY <1>1, <2>1, <3>1 DEF StopRequests, ExitsIn, Over
    <2>7. CASE StopClose(c)
      <3>1. UNCHANGED <<stream, loop>> /\ ~ Awaited
        BY <1>1, <2>7 DEF StopClose, Lifecycle, Awaited
      <3> QED
        BY <1>1, <2>1, <3>1, SocketLeftAlone DEF Over
    <2> QED
      BY <1>3, <2>2, <2>3, <2>4, <2>5, <2>6, <2>7 DEF StartStop
  <1>4. ASSUME NEW c \in Clients, UseBus(c)
        PROVE  StopRequests'
    <2>1. ReadMessages(c) \/ Disconnect(c) \/ Flush(c) \/ QueueOutgoing(c)
      BY <1>4 DEF UseBus, AppRead, AppSend, AppFlush, AppDisconnect
    <2>2. UNCHANGED <<stream, loop, pc>>
      BY <1>4 DEF UseBus, AppRead, AppSend, AppFlush, AppDisconnect, LoopFieldsUnchanged
    <2> QED
      BY <2>1, <2>2, LibraryWritesNoExit, SocketLeftAlone DEF Over, Awaited
  <1>5. ASSUME NEW t \in Threads, WriteControl(t)
        PROVE  StopRequests'
    <2>1. /\ items' = Tail(items) /\ items # << >> /\ UNCHANGED <<loop, pc>>
          /\ stream' = stream \/ stream' = Append(stream, Head(items))
      BY <1>5 DEF WriteControl
    <2>2. items' \in Seq(Messages) /\ Head(items) \in Messages
      BY <1>1, <2>1, HeadTailProperties
    <2>3. ExitsIn(stream') = ExitsIn(stream)
      BY <1>1, <2>1, <2>2, ExitsWritten DEF Messages
    <2> QED
      BY <2>1, <2>2, <2>3 DEF StopRequests
  <1>6. CASE Bus
    BY <1>1, <1>6, SocketLeftAlone
       DEF Bus, BusSends, BusCloses, LoopFieldsUnchanged, callVars, Over, Awaited
  <1>7. CASE RunLoop
    <2>1. pc' = pc
      BY <1>7, LoopSteps
    <2>2. CASE LoopHook \/ LoopUnhook
      <3>1. items' \in Seq(Messages)
        BY <2>2, NoExitWritten, EmptySeq DEF LoopHook, LoopUnhook, Call, Hooked
      <3>2. UNCHANGED stream /\ (Over' => Over)
        BY <2>2 DEF LoopHook, LoopUnhook, LoopFieldsUnchanged, Over, At
      <3> QED
        BY <2>1, <3>1, <3>2, SocketLeftAlone DEF Awaited
    <2>3. CASE \/ LoopWakeHook \/ LoopStarted \/ LoopScan \/ LoopMisreads \/ LoopHandleDead
               \/ LoopDispatch \/ LoopPoll \/ LoopClose
      <3>1. UNCHANGED <<stream, items>> /\ (Over' => Over)
        BY <2>3 DEF LoopWakeHook, LoopStarted, LoopScan, LoopMisreads, LoopHandleDead,
             LoopDispatch, LoopPoll, LoopClose, LoopFieldsUnchanged, LoopOnly, callVars, Over, At
      <3> QED
        BY <1>1, <2>1, <3>1, SocketLeftAlone DEF Awaited
    <2>4. CASE LoopHandleWatch \/ LoopTearDown
      <3>1. UNCHANGED stream /\ (Over' => Over)
        BY <2>4 DEF LoopHandleWatch, LoopTearDown, LoopFieldsUnchanged, Over
      <3>2. items' \in Seq(Messages)
        BY <1>1, <2>4, LibraryWritesNoExit DEF LoopHandleWatch, LoopTearDown, HandleEffect, callVars
      <3> QED
        BY <2>1, <3>1, <3>2, SocketLeftAlone DEF Awaited
    <2>5. CASE handleWatchAdd
      <3>1. stream' = SubSeq(stream, 4, Len(stream)) /\ UNCHANGED items /\ ~ Over'
        BY <2>5 DEF handleWatchAdd, LoopOnly, callVars, Over
      <3>2. 4 \in Nat \ {0} /\ UNCHANGED <<items, pc>> /\ StopRequests
        BY <2>1, <3>1
      <3> QED
        BY <1>1, <3>1, <3>2, SocketRead
    <2>6. CASE handleWatchRemove
      <3>1. stream' = SubSeq(stream, 3, Len(stream)) /\ UNCHANGED items /\ ~ Over'
        BY <2>6 DEF handleWatchRemove, LoopOnly, callVars, Over
      <3>2. 3 \in Nat \ {0} /\ UNCHANGED <<items, pc>> /\ StopRequests
        BY <2>1, <3>1
      <3> QED
        BY <1>1, <3>1, <3>2, SocketRead
    <2>7. CASE LoopReceive
      <3>1. items' = items
        BY <2>7 DEF LoopReceive, LoopOnly, callVars
      <3>2. CASE UNCHANGED stream
        <4>1. Over' => Over
          BY <2>7, <3>2, <1>1, HeadTailProperties DEF LoopReceive, Over
        <4> QED
          BY <1>1, <2>1, <3>1, <3>2, <4>1, SocketLeftAlone DEF Awaited
      <3>3. CASE stream' = Tail(stream) /\ stream # << >> /\ Head(stream).kind = "ctl"
        <4>1. \A k \in ExitsIn(stream') : k \in Nat /\ k >= 1 /\ k + 1 \in ExitsIn(stream)
          BY <1>1, <3>3, ExitsInTail
        <4>2. \A j, k \in ExitsIn(stream') : j = k
          <5>1. \A j, k \in ExitsIn(stream') : j + 1 = k + 1
            BY <4>1 DEF StopRequests
          <5> QED
            BY <4>1, <5>1
        <4>3. Over' => Head(stream) = Ctl(EXIT)
          <5>1. Over' => Head(stream).val = EXIT
            BY <2>7, <3>3 DEF LoopReceive, Over, At
          <5>2. Head(stream) \in Items
            BY <1>1, <3>3, HeadTailProperties
          <5> QED
            BY <3>3, <5>1, <5>2 DEF Items, Ctl, FdItem, FlagsItem, PtrItem
        <4>4. Over' => 1 \in ExitsIn(stream) /\ ExitsIn(stream') = {}
          <5>1. Over' => 1 \in ExitsIn(stream)
            BY <1>1, <3>3, <4>3, ExitsInTail
          <5>2. \A k \in ExitsIn(stream') : 1 \in ExitsIn(stream) => k + 1 = 1
            BY <4>1 DEF StopRequests
          <5> QED
            BY <4>1, <5>1, <5>2
        <4>5. ExitsIn(stream') # {} => Awaited
          BY <4>1 DEF StopRequests, Awaited
        <4>6. Over' => Awaited
          BY <4>4 DEF StopRequests, Awaited
        <4> QED
          BY <1>1, <2>1, <3>1, <4>2, <4>4, <4>5, <4>6 DEF StopRequests, Awaited, Over
      <3> QED
        BY <2>7, <3>2, <3>3 DEF LoopReceive
    <2> QED
      BY <1>7, <2>2, <2>3, <2>4, <2>5, <2>6, <2>7 DEF RunLoop
  <1> QED
    BY <1>2, <1>3, <1>4, <1>5, <1>6, <1>7 DEF Next

-----------------------------------------------------------------------------
(* The refinement.                                                         *)

Serving == IInv /\ StopRequests

LEMMA ServingInv == Spec => []Serving
PROOF
  <1>1. Init => StopRequests
    BY DEF Init, StopRequests, ExitsIn
  <1>2. Serving /\ [Next]_vars => Serving'
    <2> SUFFICES ASSUME Serving, [Next]_vars PROVE Serving'
      OBVIOUS
    <2>1. IInv'
      BY NextInv DEF Serving
    <2>2. StopRequests'
      BY <2>1, StopRequestsStep DEF Serving, IInv
    <2> QED
      BY <2>1, <2>2 DEF Serving
  <1> QED
    BY <1>1, <1>2, InitInv, PTL DEF Spec, Serving

\* The phase, by who holds the mutex and where it is.
PhaseFacts ==
  /\ mutex = NoOne => Phase = IF loop = "none" THEN "off" ELSE "on"
  /\ \A c \in Clients :
       /\ pc[c] \in {"alloc", "setup"} => Phase = "starting" /\ mutex = c
       /\ pc[c] \in {"exit", "join", "close"} => Phase = "stopping" /\ mutex = c

LEMMA PhaseInv == Spec => []PhaseFacts
PROOF
  <1>1. Serving => PhaseFacts
    <2> SUFFICES ASSUME Serving PROVE PhaseFacts
      OBVIOUS
    <2>1. NoOne \notin Clients /\ pc \in [Clients -> PcStates] /\ Lifecycle
      BY ClientsAssumption DEF Serving, IInv, TypeOK, FieldTypes
    <2>2. ASSUME NEW c \in Clients, pc[c] # "idle"
          PROVE  mutex = c /\ \A d \in Clients : pc[d] # "idle" => d = c
      BY <2>1, <2>2 DEF Lifecycle
    <2>3. mutex = NoOne => \A c \in Clients : pc[c] = "idle"
      BY <2>1 DEF Lifecycle
    <2> QED
      BY <2>1, <2>2, <2>3 DEF PhaseFacts, Phase
  <1> QED
    BY <1>1, ServingInv, PTL

\* A step that moves no client and keeps the loop alive or gone keeps the
\* phase and the thread.
LEMMA PhaseKept ==
  ASSUME UNCHANGED pc, loop' = loop \/ ({loop, loop'} \cap {"none", "done"} = {})
  PROVE  UNCHANGED <<Phase, Thread>>
PROOF
  BY DEF Phase, Thread

\* What a use of the connection does to the queue of messages.
LEMMA Queued ==
  ASSUME TypeOK, NEW t,
         ReadMessages(t) \/ Disconnect(t) \/ Flush(t) \/ QueueOutgoing(t),
         UNCHANGED <<Phase, Thread, mutex, running>>
  PROVE  Service!Arrive \/ UNCHANGED Service!vars
PROOF
  BY DEF TypeOK, BusTypes, ReadMessages, Disconnect, Flush, QueueOutgoing,
         Service!Arrive, Service!vars

\* The event loop implements the service, whatever the number of threads
\* that start and stop it, the failures and the messages of the bus.
THEOREM LoopImplementsService == Spec => ImplementsService
PROOF
  <1> USE DEF Service!vars
  <1>1. Init => Service!Init
    BY DEF Init, Service!Init, Phase, Thread
  <1>2. Serving /\ Serving' /\ PhaseFacts /\ PhaseFacts' /\ [Next]_vars
          => [Service!Next]_(Service!vars)
    <2> SUFFICES ASSUME Serving, Serving', PhaseFacts, PhaseFacts', [Next]_vars
                 PROVE  [Service!Next]_(Service!vars)
      OBVIOUS
    <2>1. /\ TypeOK /\ Lifecycle /\ Lifecycle' /\ StopRequests /\ Shape
          /\ TypeOK' /\ NoOne \notin Clients /\ pc \in [Clients -> PcStates]
      BY ClientsAssumption DEF Serving, IInv, TypeOK, FieldTypes
    <2>2. PhaseFacts
      OBVIOUS
    <2>3. PhaseFacts'
      OBVIOUS
    <2>4. CASE UNCHANGED vars
      BY <2>4 DEF vars, Phase, Thread
    <2>5. ASSUME NEW c \in Clients, StartStop(c)
          PROVE  [Service!Next]_(Service!vars)
      <3>1. incoming' = incoming
        BY <2>5 DEF StartStop, StartEventLoop, StartAlloc, StartSetUp, StopEventLoop,
                    StopWrite, StopJoin, StopClose, ClientOnly
      <3>2. CASE StartEventLoop(c)
        BY <2>1, <2>2, <2>3, <3>1, <3>2
           DEF PhaseFacts, StartEventLoop, Lifecycle, Allocated, Finished, Released, Thread,
               Service!Next, Service!Start, Service!Refuse
      <3>3. CASE StartAlloc(c)
        BY <2>1, <2>2, <2>3, <3>1, <3>3
           DEF PhaseFacts, StartAlloc, RollBack, Lifecycle, Thread, Service!Next, Service!Abandon
      <3>4. CASE StartSetUp(c)
        BY <2>1, <2>2, <2>3, <3>1, <3>4
           DEF PhaseFacts, StartSetUp, RollBack, Lifecycle, Thread, Service!Next, Service!Abandon,
               Service!Launch
      <3>5. CASE StopEventLoop(c)
        BY <2>1, <2>2, <2>3, <3>1, <3>5
           DEF PhaseFacts, StopEventLoop, Lifecycle, Allocated, Finished, Released, Thread,
               Service!Next, Service!Stop, Service!Ignore
      <3>6. CASE StopWrite(c)
        BY <2>1, <2>2, <2>3, <3>1, <3>6 DEF PhaseFacts, StopWrite, Thread
      <3>7. CASE StopJoin(c)
        BY <2>1, <2>2, <2>3, <3>1, <3>7
           DEF PhaseFacts, StopJoin, Thread, Service!Next, Service!Join
      <3>8. CASE StopClose(c)
        BY <2>1, <2>2, <2>3, <3>1, <3>8
           DEF PhaseFacts, StopClose, Lifecycle, Thread, Service!Next, Service!Finish
      <3> QED
        BY <2>5, <3>2, <3>3, <3>4, <3>5, <3>6, <3>7, <3>8 DEF StartStop
    <2>6. ASSUME NEW c \in Clients, UseBus(c)
          PROVE  [Service!Next]_(Service!vars)
      <3>1. UNCHANGED <<pc, loop, mutex, running>>
        BY <2>6 DEF UseBus, AppRead, AppSend, AppFlush, AppDisconnect, LoopFieldsUnchanged
      <3>2. ReadMessages(c) \/ Disconnect(c) \/ Flush(c) \/ QueueOutgoing(c)
        BY <2>6 DEF UseBus, AppRead, AppSend, AppFlush, AppDisconnect
      <3> QED
        BY <2>1, <3>1, <3>2, PhaseKept, Queued DEF Service!Next
    <2>7. ASSUME NEW t \in Threads, WriteControl(t)
          PROVE  [Service!Next]_(Service!vars)
      BY <2>7, PhaseKept DEF WriteControl
    <2>8. CASE Bus
      BY <2>8, PhaseKept DEF Bus, BusSends, BusCloses, LoopFieldsUnchanged
    <2>9. CASE RunLoop
      <3>1. pc' = pc /\ mutex' = mutex /\ loop \notin {"none", "done"} /\ Thread = "alive"
        BY <2>1, <2>9, LoopSteps DEF Thread
      <3>2. CASE LoopClose
        BY <2>1, <2>2, <2>3, <3>1, <3>2
           DEF LoopClose, At, PhaseFacts, StopRequests, Thread, Service!Next, Service!End
      <3>3. CASE LoopStarted
        BY <3>1, <3>3, PhaseKept DEF LoopStarted, Service!Next, Service!Report
      <3>4. CASE LoopDispatch
        BY <2>1, <3>1, <3>4, PhaseKept
           DEF LoopDispatch, LoopFieldsUnchanged, TypeOK, BusTypes, Service!Next, Service!Deliver
      <3>5. CASE LoopHandleWatch \/ LoopTearDown
        <4>1. UNCHANGED running /\ loop' \notin {"none", "done"}
          BY <3>1, <3>5 DEF LoopHandleWatch, LoopTearDown, LoopFieldsUnchanged
        <4>2. UNCHANGED incoming \/ ReadMessages(Loop) \/ Disconnect(Loop) \/ Flush(Loop)
          BY <3>5 DEF LoopHandleWatch, LoopTearDown, HandleEffect
        <4> QED
          BY <2>1, <3>1, <4>1, <4>2, PhaseKept, Queued DEF Service!Next
      <3>6. CASE \/ LoopHook \/ LoopWakeHook \/ LoopScan \/ LoopReceive \/ LoopMisreads
                 \/ handleWatchAdd \/ handleWatchRemove \/ LoopHandleDead \/ LoopPoll
                 \/ LoopUnhook
        <4>1. UNCHANGED <<running, incoming>> /\ loop' \notin {"none", "done"}
          BY <3>1, <3>6
             DEF LoopHook, LoopWakeHook, LoopScan, LoopReceive, LoopMisreads, handleWatchAdd,
                 handleWatchRemove, LoopHandleDead, LoopPoll, LoopUnhook,
                 LoopFieldsUnchanged, LoopOnly
        <4> QED
          BY <3>1, <4>1, PhaseKept
      <3> QED
        BY <2>9, <3>2, <3>3, <3>4, <3>5, <3>6 DEF RunLoop
    <2> QED
      BY <2>4, <2>5, <2>6, <2>7, <2>8, <2>9 DEF Next
  <1> QED
    BY <1>1, <1>2, ServingInv, PhaseInv, PTL DEF Spec, ImplementsService, Service!Spec

-----------------------------------------------------------------------------
(***************************************************************************)
(* The control socket.  Behind InSync and NoDeadWatchHandled stands        *)
(* SyncInv: what the handler in progress, the socket and the callbacks     *)
(* still hold (Pending) is a sequence of whole messages, up to one that an *)
(* EXIT byte tore, and handling it leads from the table to the watches     *)
(* libdbus has enabled.  Every write extends Pending by a message that     *)
(* says what changed, every handler takes the first message off it and     *)
(* does to the table what the message says, and the EXIT byte of a stop,   *)
(* wherever among the writes of the callbacks it lands, is either a        *)
(* message of its own or tears one.                                        *)
(***************************************************************************)

-----------------------------------------------------------------------------
(* What the control messages are made of.                                  *)

\* The items tell each other apart.
LEMMA ItemFacts ==
  /\ \A c : Ctl(c).kind = "ctl"
  /\ FdItem.kind = "fd"
  /\ \A w : FlagsItem(w).kind = "flags" /\ PtrItem(w).kind = "watch"
  /\ Ctl(ADD) # Ctl(REMOVE) /\ Ctl(ADD) # Ctl(EXIT) /\ Ctl(ADD) # Ctl(WAKEUP)
  /\ Ctl(REMOVE) # Ctl(EXIT) /\ Ctl(REMOVE) # Ctl(WAKEUP)
  /\ Ctl(EXIT) # Ctl(WAKEUP)
  /\ \A v, w \in Watches : FlagsItem(v) = FlagsItem(w) => v = w
  /\ \A v, w : PtrItem(v) = PtrItem(w) => v = w
  /\ \A s \in Items :
       s.kind = "ctl" => s \in {Ctl(EXIT), Ctl(ADD), Ctl(REMOVE), Ctl(WAKEUP)}
PROOF
  <1>1. \A v, w \in Watches : FlagsItem(v) = FlagsItem(w) => v = w
    <2>1. \A v, w : FlagsItem(v) = FlagsItem(w) => FlagsOf(v) = FlagsOf(w)
      BY DEF FlagsItem
    <2>2. \A v, w \in Watches : FlagsOf(v) = FlagsOf(w) => v = w
      BY DEF FlagsOf, Watches, DBUS_WATCH_READABLE, DBUS_WATCH_WRITABLE
    <2> QED
      BY <2>1, <2>2
  <1>2. \A v, w : PtrItem(v) = PtrItem(w) => v = w
    BY DEF PtrItem
  <1> QED
    BY <1>1, <1>2 DEF Ctl, FdItem, FlagsItem, PtrItem, Items, EXIT, ADD, REMOVE, WAKEUP

\* q is p without its first d items.
Dropped(p, q, d) ==
  /\ Len(q) = Len(p) - d
  /\ \A k \in 1 .. Len(q) : q[k] = p[k + d]

\* The first d items are whole messages: no field lies beyond them, and none
\* is an EXIT byte.
Closed(p, d) ==
  \A j \in 1 .. d : \A k \in Nat : FieldOf(p, j, k) => k <= d /\ p[k] # Ctl(EXIT)

LEMMA DroppedWhole ==
  ASSUME NEW p \in Seq(Items), NEW q \in Seq(Items), NEW d \in Nat,
         Dropped(p, q, d), Closed(p, d),
         NEW n \in d .. Len(p), WholeTo(p, n)
  PROVE  WholeTo(q, n - d)
PROOF
  <1>1. Len(p) \in Nat /\ Len(q) \in Nat /\ Len(q) = Len(p) - d
    BY LenProperties DEF Dropped
  <1>2. \A k \in 1 .. Len(q) : q[k] = p[k + d]
    BY DEF Dropped
  <1> SUFFICES ASSUME NEW k \in 1 .. (n - d)
               PROVE  /\ q[k] \in {Ctl(ADD), Ctl(REMOVE)} =>
                           /\ k + 2 <= n - d /\ q[k + 1] = FdItem
                           /\ \E w \in Watches :
                                /\ q[k + 2] = FlagsItem(w)
                                /\ q[k] = Ctl(ADD) => k + 3 <= n - d /\ q[k + 3] = PtrItem(w)
                      /\ q[k].kind # "ctl" => \E j \in 1 .. (k - 1) : FieldOf(q, j, k)
    BY DEF WholeTo
  <1>3. /\ k \in Nat /\ k >= 1 /\ k + d \in 1 .. n /\ q[k] = p[k + d]
        /\ n \in Nat /\ n <= Len(p)
    BY <1>1, <1>2
  <1>4. ASSUME q[k] \in {Ctl(ADD), Ctl(REMOVE)}
        PROVE  /\ k + 2 <= n - d /\ q[k + 1] = FdItem
               /\ \E w \in Watches :
                    /\ q[k + 2] = FlagsItem(w)
                    /\ q[k] = Ctl(ADD) => k + 3 <= n - d /\ q[k + 3] = PtrItem(w)
    <2>1. k + d + 2 <= n /\ p[k + d + 1] = FdItem
      BY <1>3, <1>4 DEF WholeTo
    <2>2. PICK w \in Watches :
            /\ p[k + d + 2] = FlagsItem(w)
            /\ p[k + d] = Ctl(ADD) => k + d + 3 <= n /\ p[k + d + 3] = PtrItem(w)
      BY <1>3, <1>4 DEF WholeTo
    <2>3. k + 2 <= n - d /\ q[k + 1] = p[k + d + 1] /\ q[k + 2] = p[k + d + 2]
      <3>1. k + 2 <= n - d /\ k + 1 \in 1 .. Len(q) /\ k + 2 \in 1 .. Len(q)
        <4>1. k + d + 2 <= n /\ n - d <= Len(q)
          BY <1>1, <1>3, <2>1
        <4>2. k + 2 <= n - d
          BY <1>3, <4>1
        <4>3. k + 1 >= 1 /\ k + 2 >= 1 /\ k + 1 \in Nat /\ k + 2 \in Nat
          BY <1>3
        <4>4. Len(q) \in Int /\ n - d \in Int
          BY <1>1, <1>3
        <4>5. k + 1 <= Len(q) /\ k + 2 <= Len(q)
          BY <4>1, <4>2, <4>3, <4>4, <1>3
        <4> QED
          BY <4>2, <4>3, <4>4, <4>5
      <3>2. (k + 1) + d = k + d + 1 /\ (k + 2) + d = k + d + 2
        BY <1>3
      <3>3. q[k + 1] = p[(k + 1) + d] /\ q[k + 2] = p[(k + 2) + d]
        BY <1>2, <3>1
      <3> QED
        BY <3>1, <3>2, <3>3
    <2>4. q[k] = Ctl(ADD) => k + 3 <= n - d /\ q[k + 3] = p[k + d + 3]
      <3>1. ASSUME q[k] = Ctl(ADD)
            PROVE  k + 3 <= n - d /\ k + 3 \in 1 .. Len(q) /\ (k + 3) + d = k + d + 3
        BY <1>1, <1>3, <2>2, <3>1
      <3>2. k + 3 \in 1 .. Len(q) => q[k + 3] = p[(k + 3) + d]
        BY <1>2
      <3> QED
        BY <3>1, <3>2
    <2> QED
      BY <2>1, <2>2, <2>3, <2>4, <1>3
  <1>5. ASSUME q[k].kind # "ctl"
        PROVE  \E j \in 1 .. (k - 1) : FieldOf(q, j, k)
    <2>1. PICK j \in 1 .. (k + d - 1) : FieldOf(p, j, k + d)
      BY <1>3, <1>5 DEF WholeTo
    <2>2. j > d
      <3>1. ASSUME j <= d PROVE FALSE
        <4>1. j \in 1 .. d /\ k + d \in Nat
          BY <1>3, <3>1
        <4>2. k + d <= d
          BY <4>1, <2>1 DEF Closed
        <4> QED
          BY <1>3, <4>2
      <3> QED
        BY <3>1
    <2>3. j - d \in 1 .. (k - 1) /\ q[j - d] = p[j]
      <3>1. j - d \in 1 .. (k - 1) /\ j - d \in 1 .. Len(q) /\ (j - d) + d = j
        BY <1>1, <1>3, <2>2
      <3> QED
        BY <1>2, <3>1
    <2>4. FieldOf(q, j - d, k)
      BY <1>3, <2>1, <2>3 DEF FieldOf
    <2> QED
      BY <2>3, <2>4
  <1> QED
    BY <1>4, <1>5

\* What is left of the operations after d items are gone.
LEMMA DroppedOps ==
  ASSUME NEW p \in Seq(Items), NEW q \in Seq(Items), NEW d \in Nat,
         Dropped(p, q, d), NEW w
  PROVE  /\ \A k \in Ops(q, w) : k \in Nat /\ k >= 1 /\ k + d \in Ops(p, w)
         /\ \A k \in Ops(p, w) : k > d => k - d \in Ops(q, w)
         /\ \A k \in Ops(q, w) : q[k] = p[k + d]
PROOF
  <1>1. Len(p) \in Nat /\ Len(q) \in Nat /\ Len(q) = Len(p) - d
    BY LenProperties DEF Dropped
  <1>2. \A k \in 1 .. Len(q) : q[k] = p[k + d]
    BY DEF Dropped
  <1>3. ASSUME NEW k \in 1 .. (Len(q) - 2)
        PROVE  /\ k \in Nat /\ k + d \in 1 .. (Len(p) - 2)
               /\ q[k] = p[k + d] /\ q[k + 1] = p[k + d + 1] /\ q[k + 2] = p[k + d + 2]
    <2>1. /\ k \in Nat /\ k + d \in 1 .. (Len(p) - 2)
          /\ k \in 1 .. Len(q) /\ k + 1 \in 1 .. Len(q) /\ k + 2 \in 1 .. Len(q)
          /\ (k + 1) + d = k + d + 1 /\ (k + 2) + d = k + d + 2
      BY <1>1
    <2>2. q[k] = p[k + d] /\ q[k + 1] = p[(k + 1) + d] /\ q[k + 2] = p[(k + 2) + d]
      BY <1>2, <2>1
    <2> QED
      BY <2>1, <2>2
  <1>4. ASSUME NEW k \in Ops(p, w), k > d
        PROVE  k - d \in Ops(q, w)
    <2>1. k \in 1 .. (Len(p) - 2)
      BY <1>4 DEF Ops
    <2>2. k - d \in 1 .. (Len(q) - 2) /\ (k - d) + d = k
      BY <1>1, <1>4, <2>1
    <2>3. PICK i \in 1 .. (Len(q) - 2) : i = k - d /\ i + d = k
      BY <2>2
    <2>4. q[i] = p[k] /\ q[i + 1] = p[k + 1] /\ q[i + 2] = p[k + 2]
      BY <1>3, <2>3
    <2> QED
      BY <2>3, <2>4 DEF Ops
  <1>5. ASSUME NEW k \in Ops(q, w)
        PROVE  k \in Nat /\ k >= 1 /\ k + d \in Ops(p, w) /\ q[k] = p[k + d]
    <2>1. PICK i \in 1 .. (Len(q) - 2) : i = k
      BY DEF Ops
    <2>2. /\ i \in Nat /\ i + d \in 1 .. (Len(p) - 2) /\ q[i] = p[i + d]
          /\ q[i + 1] = p[i + d + 1] /\ q[i + 2] = p[i + d + 2]
      BY <1>3
    <2>3. i >= 1
      BY <2>2
    <2>4. i + d \in Ops(p, w)
      BY <2>1, <2>2 DEF Ops
    <2> QED
      BY <2>1, <2>2, <2>3, <2>4
  <1> QED
    BY <1>4, <1>5

\* A torn message behind them stays torn.
LEMMA DroppedTorn ==
  ASSUME NEW p \in Seq(Items), NEW q \in Seq(Items), NEW d \in Nat,
         Dropped(p, q, d), Closed(p, d), Torn(p)
  PROVE  Torn(q)
PROOF
  <1>1. /\ Len(p) \in Nat /\ Len(q) \in Nat /\ Len(q) = Len(p) - d
        /\ DOMAIN p = 1 .. Len(p) /\ DOMAIN q = 1 .. Len(q)
    BY LenProperties DEF Dropped
  <1>2. \A k \in 1 .. Len(q) : q[k] = p[k + d]
    BY DEF Dropped
  <1>3. PICK j \in 1 .. Len(p), k \in 1 .. Len(p) :
               WholeTo(p, j - 1) /\ FieldOf(p, j, k) /\ p[k] = Ctl(EXIT)
    BY <1>1 DEF Torn
  <1>4. j \in Nat /\ k \in Nat /\ j < k
    BY <1>1, <1>3 DEF FieldOf
  <1>5. j > d
    <2>1. ASSUME j <= d PROVE FALSE
      <3>1. j \in 1 .. d
        BY <1>1, <1>4, <2>1
      <3> QED
        BY <1>3, <1>4, <3>1 DEF Closed
    <2> QED
      BY <1>4, <2>1
  <1>6. /\ j - 1 \in d .. Len(p) /\ (j - 1) - d = (j - d) - 1
        /\ j - d \in 1 .. Len(q) /\ k - d \in 1 .. Len(q)
        /\ (j - d) + d = j /\ (k - d) + d = k
    BY <1>1, <1>4, <1>5
  <1>7. WholeTo(q, (j - d) - 1)
    BY <1>3, <1>6, DroppedWhole
  <1>8. q[j - d] = p[j] /\ q[k - d] = p[k]
    BY <1>2, <1>6
  <1>9. FieldOf(q, j - d, k - d)
    BY <1>3, <1>4, <1>6, <1>8 DEF FieldOf
  <1> QED
    BY <1>1, <1>3, <1>6, <1>7, <1>8, <1>9 DEF Torn

\* q is p with more behind it.
Extends(q, p) ==
  Len(q) >= Len(p) /\ \A k \in 1 .. Len(p) : q[k] = p[k]

LEMMA ExtendedWhole ==
  ASSUME NEW p \in Seq(Items), NEW q \in Seq(Items), Extends(q, p),
         NEW n \in 0 .. Len(p), WholeTo(p, n)
  PROVE  WholeTo(q, n)
PROOF
  <1>1. Len(p) \in Nat /\ Len(q) \in Nat /\ Len(q) >= Len(p)
    BY LenProperties DEF Extends
  <1>2. \A k \in 1 .. n : q[k] = p[k]
    BY <1>1 DEF Extends
  <1>3. ASSUME NEW k \in 1 .. n, q[k] \in {Ctl(ADD), Ctl(REMOVE)}
        PROVE  /\ k + 2 <= n /\ q[k + 1] = FdItem
               /\ \E w \in Watches :
                    /\ q[k + 2] = FlagsItem(w)
                    /\ q[k] = Ctl(ADD) => k + 3 <= n /\ q[k + 3] = PtrItem(w)
    <2>1. /\ k + 2 <= n /\ p[k + 1] = FdItem
          /\ \E w \in Watches :
                    /\ p[k + 2] = FlagsItem(w)
                    /\ q[k] = Ctl(ADD) => k + 3 <= n /\ p[k + 3] = PtrItem(w)
      BY <1>2, <1>3 DEF WholeTo
    <2>2. k + 1 \in 1 .. n /\ k + 2 \in 1 .. n /\ (k + 3 <= n => k + 3 \in 1 .. n)
      BY <1>1, <2>1
    <2> QED
      BY <1>2, <2>1, <2>2
  <1>4. ASSUME NEW k \in 1 .. n, q[k].kind # "ctl"
        PROVE  \E j \in 1 .. (k - 1) : FieldOf(q, j, k)
    <2>1. PICK j \in 1 .. (k - 1) : FieldOf(p, j, k)
      BY <1>2, <1>4 DEF WholeTo
    <2>2. j \in 1 .. n
      BY <1>1
    <2> QED
      BY <1>2, <2>1, <2>2 DEF FieldOf
  <1> QED
    BY <1>3, <1>4 DEF WholeTo

\* A torn message stays torn whatever is written behind it.
LEMMA ExtendedTorn ==
  ASSUME NEW p \in Seq(Items), NEW q \in Seq(Items), Extends(q, p), Torn(p)
  PROVE  Torn(q)
PROOF
  <1>1. /\ Len(p) \in Nat /\ Len(q) \in Nat /\ Len(q) >= Len(p)
        /\ DOMAIN p = 1 .. Len(p) /\ DOMAIN q = 1 .. Len(q)
    BY LenProperties DEF Extends
  <1>2. PICK j \in 1 .. Len(p), k \in 1 .. Len(p) :
               WholeTo(p, j - 1) /\ FieldOf(p, j, k) /\ p[k] = Ctl(EXIT)
    BY <1>1 DEF Torn
  <1>3. j - 1 \in 0 .. Len(p) /\ j \in 1 .. Len(q) /\ k \in 1 .. Len(q)
    BY <1>1
  <1>4. WholeTo(q, j - 1)
    BY <1>2, <1>3, ExtendedWhole
  <1>5. q[j] = p[j] /\ q[k] = p[k]
    BY DEF Extends
  <1> QED
    BY <1>1, <1>2, <1>3, <1>4, <1>5 DEF Torn, FieldOf

\* The items of two sequences, one behind the other.
LEMMA Joined2 ==
  ASSUME NEW p \in Seq(Items), NEW m \in Seq(Items)
  PROVE  /\ p \o m \in Seq(Items)
         /\ Len(p) \in Nat /\ Len(m) \in Nat
         /\ Len(p \o m) = Len(p) + Len(m)
         /\ Extends(p \o m, p)
         /\ Dropped(p \o m, m, Len(p))
PROOF
  <1>1. /\ p \o m \in Seq(Items) /\ Len(p \o m) = Len(p) + Len(m)
        /\ \A i \in 1 .. Len(p) + Len(m) :
             (p \o m)[i] = IF i <= Len(p) THEN p[i] ELSE m[i - Len(p)]
    BY ConcatProperties
  <1>2. Len(p) \in Nat /\ Len(m) \in Nat
    BY LenProperties
  <1>3. ASSUME NEW k \in 1 .. Len(p) PROVE (p \o m)[k] = p[k]
    BY <1>1, <1>2
  <1>4. ASSUME NEW k \in 1 .. Len(m) PROVE m[k] = (p \o m)[k + Len(p)]
    <2>1. k + Len(p) \in 1 .. Len(p) + Len(m) /\ ~ (k + Len(p) <= Len(p))
          /\ (k + Len(p)) - Len(p) = k
      BY <1>2
    <2> QED
      BY <1>1, <2>1
  <1>5. Len(p \o m) >= Len(p) /\ Len(m) = Len(p \o m) - Len(p)
    BY <1>1, <1>2
  <1> QED
    BY <1>1, <1>2, <1>3, <1>4, <1>5 DEF Extends, Dropped

\* Whole messages behind whole messages are whole messages.
LEMMA JoinedWhole ==
  ASSUME NEW p \in Seq(Items), NEW m \in Seq(Items), Whole(p), Whole(m)
  PROVE  Whole(p \o m)
PROOF
  <1> DEFINE q == p \o m
             d == Len(p)
  <1>1. /\ q \in Seq(Items) /\ d \in Nat /\ Len(m) \in Nat
        /\ Len(q) = d + Len(m) /\ Extends(q, p)
        /\ \A k \in 1 .. Len(m) : m[k] = q[k + d]
    BY Joined2 DEF Dropped
  <1> HIDE DEF q, d
  <1>2. WholeTo(q, d)
    BY <1>1, ExtendedWhole DEF Whole, d
  <1>3. ASSUME NEW k \in 1 .. Len(q), q[k] \in {Ctl(ADD), Ctl(REMOVE)}
        PROVE  /\ k + 2 <= Len(q) /\ q[k + 1] = FdItem
               /\ \E w \in Watches :
                    /\ q[k + 2] = FlagsItem(w)
                    /\ q[k] = Ctl(ADD) => k + 3 <= Len(q) /\ q[k + 3] = PtrItem(w)
    <2>1. CASE k <= d
      <3>1. k \in 1 .. d
        BY <1>1, <2>1
      <3>2. /\ k + 2 <= d /\ q[k + 1] = FdItem
            /\ \E w \in Watches :
                    /\ q[k + 2] = FlagsItem(w)
                    /\ q[k] = Ctl(ADD) => k + 3 <= d /\ q[k + 3] = PtrItem(w)
        BY <1>2, <1>3, <3>1 DEF WholeTo
      <3>3. \A x \in Int : x <= d => x <= Len(q)
        BY <1>1
      <3> QED
        BY <1>1, <3>2, <3>3
    <2>2. CASE k > d
      <3> DEFINE i == k - d
      <3>1. i \in 1 .. Len(m) /\ i \in Nat /\ k = i + d
        BY <1>1, <2>2
      <3> HIDE DEF i
      <3>2. m[i] = q[k]
        BY <1>1, <3>1
      <3>3. i + 2 <= Len(m) /\ m[i + 1] = FdItem
        BY <1>3, <3>1, <3>2 DEF Whole, WholeTo
      <3>4. PICK w \in Watches :
              /\ m[i + 2] = FlagsItem(w)
              /\ m[i] = Ctl(ADD) => i + 3 <= Len(m) /\ m[i + 3] = PtrItem(w)
        BY <1>3, <3>1, <3>2 DEF Whole, WholeTo
      <3>5. /\ i + 1 \in 1 .. Len(m) /\ i + 2 \in 1 .. Len(m)
            /\ (i + 1) + d = k + 1 /\ (i + 2) + d = k + 2 /\ (i + 3) + d = k + 3
            /\ k + 2 <= Len(q)
        <4>1. i >= 1 /\ i + 2 <= Len(m) /\ i \in Nat /\ Len(m) \in Nat
          BY <1>1, <3>1, <3>3
        <4>2. i + 1 \in 1 .. Len(m) /\ i + 2 \in 1 .. Len(m)
          BY <4>1
        <4>3. (i + 1) + d = k + 1 /\ (i + 2) + d = k + 2 /\ (i + 3) + d = k + 3
          BY <1>1, <3>1
        <4>4. k + 2 <= d + Len(m)
          BY <1>1, <3>1, <4>1
        <4> QED
          BY <1>1, <4>2, <4>3, <4>4
      <3>6. i + 3 <= Len(m) => i + 3 \in 1 .. Len(m) /\ k + 3 <= Len(q)
        BY <1>1, <3>1
      <3>7. /\ m[i + 1] = q[k + 1] /\ m[i + 2] = q[k + 2]
            /\ i + 3 \in 1 .. Len(m) => m[i + 3] = q[k + 3]
        <4>1. m[i + 1] = q[(i + 1) + d] /\ m[i + 2] = q[(i + 2) + d]
          BY <1>1, <3>5
        <4>2. i + 3 \in 1 .. Len(m) => m[i + 3] = q[(i + 3) + d]
          BY <1>1
        <4> QED
          BY <3>5, <4>1, <4>2
      <3>8. k + 2 <= Len(q) /\ q[k + 1] = FdItem /\ q[k + 2] = FlagsItem(w)
        BY <3>3, <3>4, <3>5, <3>7, Zenon
      <3>9. q[k] = Ctl(ADD) => k + 3 <= Len(q) /\ q[k + 3] = PtrItem(w)
        BY <3>2, <3>4, <3>6, <3>7
      <3> QED
        BY <3>8, <3>9, Zenon
    <2> QED
      BY <1>1, <2>1, <2>2
  <1>4. ASSUME NEW k \in 1 .. Len(q), q[k].kind # "ctl"
        PROVE  \E j \in 1 .. (k - 1) : FieldOf(q, j, k)
    <2>1. CASE k <= d
      BY <1>1, <1>2, <1>4, <2>1 DEF WholeTo
    <2>2. CASE k > d
      <3> DEFINE i == k - d
      <3>1. i \in 1 .. Len(m) /\ i \in Nat /\ k = i + d
        BY <1>1, <2>2
      <3> HIDE DEF i
      <3>2. PICK j \in 1 .. (i - 1) : FieldOf(m, j, i)
        BY <1>1, <1>4, <3>1 DEF Whole, WholeTo
      <3>3. j \in 1 .. Len(m) /\ j \in Nat /\ j + d \in 1 .. (k - 1)
        BY <1>1, <3>1
      <3>4. m[j] = q[j + d]
        BY <1>1, <3>3
      <3>5. FieldOf(q, j + d, k)
        BY <1>1, <3>1, <3>2, <3>3, <3>4 DEF FieldOf
      <3> QED
        BY <3>3, <3>5
    <2> QED
      BY <1>1, <2>1, <2>2
  <1>5. WholeTo(q, Len(q))
    BY <1>3, <1>4 DEF WholeTo
  <1> QED
    BY <1>5 DEF Whole, q

\* The operations in whole messages and in what is behind them.
LEMMA JoinedOps ==
  ASSUME NEW p \in Seq(Items), NEW m \in Seq(Items), Whole(p), NEW w \in Watches
  PROVE  /\ \A k \in Ops(p \o m, w) :
              k \in Ops(p, w) \/ (k > Len(p) /\ k - Len(p) \in Ops(m, w))
         /\ \A k \in Ops(p, w) :
              k \in Ops(p \o m, w) /\ k <= Len(p) /\ (p \o m)[k] = p[k]
         /\ \A k \in Ops(m, w) :
              k \in Nat \ {0} /\ k + Len(p) \in Ops(p \o m, w)
              /\ (p \o m)[k + Len(p)] = m[k]
PROOF
  <1> DEFINE q == p \o m
             d == Len(p)
  <1>1. /\ q \in Seq(Items) /\ d \in Nat /\ Len(m) \in Nat
        /\ Len(q) = d + Len(m) /\ Dropped(q, m, d)
        /\ \A k \in 1 .. d : q[k] = p[k]
    BY Joined2 DEF Extends
  <1> HIDE DEF q
  <1>2. /\ \A k \in Ops(m, w) : k \in Nat /\ k >= 1 /\ k + d \in Ops(q, w)
        /\ \A k \in Ops(q, w) : k > d => k - d \in Ops(m, w)
        /\ \A k \in Ops(m, w) : m[k] = q[k + d]
    BY <1>1, DroppedOps
  <1>3. ASSUME NEW k \in Ops(q, w), k <= d
        PROVE  k \in Ops(p, w)
    <2>1. k \in Nat /\ k >= 1
      BY <1>1 DEF Ops
    <2>2. k \in 1 .. d
      BY <1>1, <1>3, <2>1
    <2>3. p[k] = q[k] /\ q[k] \in {Ctl(ADD), Ctl(REMOVE)}
      BY <1>1, <2>2 DEF Ops
    <2>4. k + 2 <= d
      BY <2>2, <2>3 DEF Whole, WholeTo, d
    <2>5. k + 1 \in 1 .. d /\ k + 2 \in 1 .. d /\ k \in 1 .. d - 2
      BY <1>1, <2>1, <2>4
    <2>6. q[k + 1] = p[k + 1] /\ q[k + 2] = p[k + 2]
      BY <1>1, <2>5
    <2> QED
      BY <2>3, <2>5, <2>6 DEF Ops, d
  <1>4. ASSUME NEW k \in Ops(p, w)
        PROVE  k \in Ops(q, w) /\ k <= d /\ q[k] = p[k]
    <2>1. k \in 1 .. d - 2
      BY DEF Ops, d
    <2>2. /\ k \in 1 .. d /\ k + 1 \in 1 .. d /\ k + 2 \in 1 .. d /\ k \in 1 .. Len(q) - 2
          /\ k <= d
      BY <1>1, <2>1
    <2>3. q[k] = p[k] /\ q[k + 1] = p[k + 1] /\ q[k + 2] = p[k + 2]
      BY <1>1, <2>2
    <2> QED
      BY <2>2, <2>3 DEF Ops
  <1>5. \A k \in Ops(q, w) : k \in Nat
    BY <1>1 DEF Ops
  <1>6. \A k \in Ops(q, w) : k <= d \/ k > d
    BY <1>1, <1>5
  <1>7. \A k \in Ops(m, w) : k \in Nat \ {0}
    BY <1>2
  <1> QED
    BY <1>2, <1>3, <1>4, <1>6, <1>7 DEF q, d

\* What is written last decides.
LEMMA JoinedPolled ==
  ASSUME NEW p \in Seq(Items), NEW m \in Seq(Items), Whole(p), NEW w \in Watches, NEW t, NEW u
  PROVE  /\ Ops(m, w) = {} =>
              (WillBePolled(p \o m, t, w) <=> WillBePolled(p, t, w))
         /\ Ops(m, w) # {} =>
              (WillBePolled(p \o m, t, w) <=> WillBePolled(m, u, w))
PROOF
  <1> DEFINE q == p \o m
             d == Len(p)
  <1>1. /\ \A k \in Ops(q, w) : k \in Ops(p, w) \/ (k > d /\ k - d \in Ops(m, w))
        /\ \A k \in Ops(p, w) : k \in Ops(q, w) /\ k <= d /\ q[k] = p[k]
        /\ \A k \in Ops(m, w) : k \in Nat \ {0} /\ k + d \in Ops(q, w) /\ q[k + d] = m[k]
    <2>1. /\ \A k \in Ops(p \o m, w) :
               k \in Ops(p, w) \/ (k > Len(p) /\ k - Len(p) \in Ops(m, w))
          /\ \A k \in Ops(p, w) :
               k \in Ops(p \o m, w) /\ k <= Len(p) /\ (p \o m)[k] = p[k]
          /\ \A k \in Ops(m, w) :
               k \in Nat \ {0} /\ k + Len(p) \in Ops(p \o m, w)
               /\ (p \o m)[k + Len(p)] = m[k]
      BY JoinedOps
    <2> QED
      BY <2>1
  <1>2. d \in Nat
    BY LenProperties
  <1>3. \A k \in Ops(q, w) : k \in Nat
    BY Joined2 DEF Ops
  <1>4. \A k \in Ops(p, w) : k \in Nat
    BY <1>2 DEF Ops
  <1> HIDE DEF q, d
  <1>5. ASSUME Ops(m, w) = {}
        PROVE  WillBePolled(q, t, w) <=> WillBePolled(p, t, w)
    <2>1. Ops(q, w) = Ops(p, w) /\ \A k \in Ops(p, w) : q[k] = p[k]
      BY <1>1, <1>5
    <2> QED
      BY <2>1 DEF WillBePolled
  <1>6. ASSUME Ops(m, w) # {}
        PROVE  WillBePolled(q, t, w) <=> WillBePolled(m, u, w)
    <2>1. Ops(q, w) # {}
      BY <1>1, <1>6
    <2>2. ASSUME NEW k \in Ops(m, w), m[k] = Ctl(ADD), \A j \in Ops(m, w) : j <= k
          PROVE  q[k + d] = Ctl(ADD) /\ k + d \in Ops(q, w) /\ \A j \in Ops(q, w) : j <= k + d
      <3>1. k \in Nat /\ k >= 1 /\ k + d \in Ops(q, w) /\ q[k + d] = m[k]
        BY <1>1
      <3>2. ASSUME NEW j \in Ops(q, w) PROVE j <= k + d
        <4>1. CASE j \in Ops(p, w)
          <5>1. j <= d /\ j \in Nat
            BY <1>1, <1>4, <4>1
          <5> QED
            BY <1>2, <3>1, <5>1
        <4>2. CASE j > d /\ j - d \in Ops(m, w)
          <5>1. j - d <= k /\ j \in Nat
            BY <1>3, <2>2, <4>2
          <5> QED
            BY <1>2, <3>1, <5>1
        <4> QED
          BY <1>1, <4>1, <4>2
      <3> QED
        BY <2>2, <3>1, <3>2
    <2>3. ASSUME NEW k \in Ops(q, w), q[k] = Ctl(ADD), \A j \in Ops(q, w) : j <= k
          PROVE  /\ k - d \in Ops(m, w) /\ m[k - d] = Ctl(ADD)
                 /\ \A j \in Ops(m, w) : j <= k - d
      <3>1. PICK i \in Ops(m, w) : TRUE
        BY <1>6
      <3>2. i \in Nat \ {0} /\ i + d <= k /\ k \in Nat
        BY <1>1, <1>3, <2>3
      <3>3. k > d
        BY <1>2, <3>2
      <3>4. k \notin Ops(p, w)
        <4>1. k \in Ops(p, w) => k <= d
          BY <1>1
        <4> QED
          BY <1>2, <3>2, <3>3, <4>1
      <3>5. k - d \in Ops(m, w)
        BY <1>1, <3>4
      <3>6. (k - d) + d = k
        BY <1>2, <3>2
      <3>7. m[k - d] = q[k]
        BY <1>1, <3>5, <3>6
      <3>8. ASSUME NEW j \in Ops(m, w) PROVE j <= k - d
        <4>1. j + d <= k /\ j \in Nat
          BY <1>1, <2>3
        <4> QED
          BY <1>2, <3>2, <4>1
      <3> QED
        BY <2>3, <3>5, <3>7, <3>8
    <2>4. (\E k \in Ops(q, w) : q[k] = Ctl(ADD) /\ \A j \in Ops(q, w) : j <= k)
            <=> \E k \in Ops(m, w) : m[k] = Ctl(ADD) /\ \A j \in Ops(m, w) : j <= k
      BY <2>2, <2>3
    <2> QED
      BY <1>6, <2>1, <2>4 DEF WillBePolled
  <1> QED
    BY <1>5, <1>6 DEF q

-----------------------------------------------------------------------------
(* What the callbacks write.                                               *)

LEMMA NothingSaid ==
  \A m : m = << >> => Whole(m) /\ \A w : Ops(m, w) = {}
PROOF
  BY DEF Whole, WholeTo, Ops

LEMMA WakeupSaid ==
  LET m == <<Ctl(WAKEUP)>>
  IN  m \in Seq(Items) /\ Whole(m) /\ \A w : Ops(m, w) = {}
PROOF
  <1> DEFINE m == <<Ctl(WAKEUP)>>
  <1>1. m \in Seq(Items) /\ Len(m) = 1 /\ m[1] = Ctl(WAKEUP)
    BY PartsTyped
  <1> HIDE DEF m
  <1>2. Whole(m)
    BY <1>1, ItemFacts DEF Whole, WholeTo
  <1>3. \A w : Ops(m, w) = {}
    BY <1>1 DEF Ops
  <1> QED
    BY <1>1, <1>2, <1>3 DEF m

LEMMA AdditionSaid ==
  ASSUME NEW w \in Watches, NEW on, w \in on, NEW u
  PROVE  LET m == dbusAddWatch(w, on)
         IN  /\ m \in Seq(Items) /\ Whole(m)
             /\ Ops(m, w) # {} /\ WillBePolled(m, u, w)
             /\ \A v \in Watches : v # w => Ops(m, v) = {}
PROOF
  <1> DEFINE m == dbusAddWatch(w, on)
  <1>1. /\ m \in Seq(Items) /\ Len(m) = 4 /\ m[1] = Ctl(ADD) /\ m[2] = FdItem
        /\ m[3] = FlagsItem(w) /\ m[4] = PtrItem(w)
    BY PartsTyped DEF dbusAddWatch
  <1> HIDE DEF m
  <1>2. \A k \in 1 .. 4 : k = 1 \/ k = 2 \/ k = 3 \/ k = 4
    OBVIOUS
  <1>3. /\ m[2] \notin {Ctl(ADD), Ctl(REMOVE)} /\ m[3] \notin {Ctl(ADD), Ctl(REMOVE)}
        /\ m[4] \notin {Ctl(ADD), Ctl(REMOVE)}
    BY <1>1, ItemFacts
  <1>4. Whole(m)
    <2>1. ASSUME NEW k \in 1 .. 4, m[k] \in {Ctl(ADD), Ctl(REMOVE)}
          PROVE  /\ k + 2 <= 4 /\ m[k + 1] = FdItem
                 /\ \E v \in Watches :
                      /\ m[k + 2] = FlagsItem(v)
                      /\ m[k] = Ctl(ADD) => k + 3 <= 4 /\ m[k + 3] = PtrItem(v)
      <3>1. k = 1
        BY <1>2, <1>3, <2>1
      <3>2. 1 + 2 <= 4 /\ 1 + 3 <= 4 /\ 1 + 1 = 2 /\ 1 + 2 = 3 /\ 1 + 3 = 4
        OBVIOUS
      <3> QED
        BY <1>1, <3>1, <3>2
    <2>2. ASSUME NEW k \in 1 .. 4, m[k].kind # "ctl"
          PROVE  \E j \in 1 .. (k - 1) : FieldOf(m, j, k)
      <3>1. k # 1
        BY <1>1, <2>2, ItemFacts
      <3>2. 1 \in 1 .. (k - 1) /\ k \in (1 + 1) .. (1 + 3)
        BY <3>1
      <3> QED
        BY <1>1, <3>2 DEF FieldOf
    <2> QED
      BY <1>1, <2>1, <2>2 DEF Whole, WholeTo
  <1>5. \A v \in Watches : \A k \in Ops(m, v) : k = 1
    <2>1. ASSUME NEW v \in Watches, NEW k \in Ops(m, v) PROVE k = 1
      <3>1. k \in 1 .. 4 /\ m[k] \in {Ctl(ADD), Ctl(REMOVE)}
        BY <1>1 DEF Ops
      <3> QED
        BY <1>2, <1>3, <3>1
    <2> QED
      BY <2>1
  <1>6. 1 \in Ops(m, w)
    BY <1>1 DEF Ops
  <1>7. WillBePolled(m, u, w)
    BY <1>1, <1>5, <1>6 DEF WillBePolled
  <1>8. ASSUME NEW v \in Watches, v # w PROVE Ops(m, v) = {}
    <2>1. 1 \in Ops(m, v) => FlagsItem(v) = FlagsItem(w)
      BY <1>1 DEF Ops
    <2> QED
      BY <1>5, <1>8, <2>1, ItemFacts
  <1> QED
    BY <1>1, <1>4, <1>6, <1>7, <1>8 DEF m

LEMMA RemovalSaid ==
  ASSUME NEW w \in Watches, NEW u
  PROVE  LET m == dbusRemoveWatch(w)
         IN  /\ m \in Seq(Items) /\ Whole(m)
             /\ Ops(m, w) # {} /\ ~ WillBePolled(m, u, w)
             /\ \A v \in Watches : v # w => Ops(m, v) = {}
PROOF
  <1> DEFINE m == dbusRemoveWatch(w)
  <1>1. /\ m \in Seq(Items) /\ Len(m) = 3 /\ m[1] = Ctl(REMOVE) /\ m[2] = FdItem
        /\ m[3] = FlagsItem(w)
    BY PartsTyped DEF dbusRemoveWatch
  <1> HIDE DEF m
  <1>2. \A k \in 1 .. 3 : k = 1 \/ k = 2 \/ k = 3
    OBVIOUS
  <1>3. /\ m[2] \notin {Ctl(ADD), Ctl(REMOVE)} /\ m[3] \notin {Ctl(ADD), Ctl(REMOVE)}
    BY <1>1, ItemFacts
  <1>4. Whole(m)
    <2>1. ASSUME NEW k \in 1 .. 3, m[k] \in {Ctl(ADD), Ctl(REMOVE)}
          PROVE  /\ k + 2 <= 3 /\ m[k + 1] = FdItem
                 /\ \E v \in Watches :
                      /\ m[k + 2] = FlagsItem(v)
                      /\ m[k] = Ctl(ADD) => k + 3 <= 3 /\ m[k + 3] = PtrItem(v)
      <3>1. k = 1
        BY <1>2, <1>3, <2>1
      <3>2. 1 + 2 <= 3 /\ 1 + 1 = 2 /\ 1 + 2 = 3
        OBVIOUS
      <3> QED
        BY <1>1, <3>1, <3>2, ItemFacts
    <2>2. ASSUME NEW k \in 1 .. 3, m[k].kind # "ctl"
          PROVE  \E j \in 1 .. (k - 1) : FieldOf(m, j, k)
      <3>1. k # 1
        BY <1>1, <2>2, ItemFacts
      <3>2. 1 \in 1 .. (k - 1) /\ k \in (1 + 1) .. (1 + 2)
        BY <3>1
      <3> QED
        BY <1>1, <3>2 DEF FieldOf
    <2> QED
      BY <1>1, <2>1, <2>2 DEF Whole, WholeTo
  <1>5. \A v \in Watches : \A k \in Ops(m, v) : k = 1
    <2>1. ASSUME NEW v \in Watches, NEW k \in Ops(m, v) PROVE k = 1
      <3>1. k \in 1 .. 3 /\ m[k] \in {Ctl(ADD), Ctl(REMOVE)}
        BY <1>1 DEF Ops
      <3> QED
        BY <1>2, <1>3, <3>1
    <2> QED
      BY <2>1
  <1>6. 1 \in Ops(m, w)
    BY <1>1 DEF Ops
  <1>7. ~ WillBePolled(m, u, w)
    BY <1>1, <1>5, <1>6, ItemFacts DEF WillBePolled
  <1>8. ASSUME NEW v \in Watches, v # w PROVE Ops(m, v) = {}
    <2>1. 1 \in Ops(m, v) => FlagsItem(v) = FlagsItem(w)
      BY <1>1 DEF Ops
    <2> QED
      BY <1>5, <1>8, <2>1, ItemFacts
  <1> QED
    BY <1>1, <1>4, <1>6, <1>7, <1>8 DEF m

\* The messages m, written while the watches on are to be polled, are whole
\* and the last word they say about a watch is right; about the watches in
\* about they say something, about others nothing.
Says(m, about, on) ==
  /\ m \in Seq(Items) /\ Whole(m)
  /\ \A w \in Watches :
       /\ Ops(m, w) # {} <=> w \in about
       /\ w \in about => \A u : WillBePolled(m, u, w) <=> w \in on

\* One behind the other, the last word counts.
LEMMA SaysBoth ==
  ASSUME NEW l, NEW m, NEW A, NEW B, NEW on,
         Says(l, A, on), Says(m, B, on)
  PROVE  Says(l \o m, A \cup B, on)
PROOF
  <1>1. l \in Seq(Items) /\ m \in Seq(Items) /\ Whole(l) /\ Whole(m)
    BY DEF Says
  <1>2. l \o m \in Seq(Items) /\ Whole(l \o m)
    BY <1>1, JoinedWhole, Joined2
  <1>3. ASSUME NEW w \in Watches
        PROVE  Ops(l \o m, w) # {} <=> w \in A \cup B
    BY <1>1, JoinedOps DEF Says
  <1>4. ASSUME NEW w \in Watches, w \in A \cup B, NEW u
        PROVE  WillBePolled(l \o m, u, w) <=> w \in on
    <2>1. CASE w \in B
      <3>1. Ops(m, w) # {}
        BY <2>1 DEF Says
      <3>2. WillBePolled(l \o m, u, w) <=> WillBePolled(m, u, w)
        BY <1>1, <3>1, JoinedPolled
      <3> QED
        BY <2>1, <3>2 DEF Says
    <2>2. CASE w \notin B
      <3>1. Ops(m, w) = {} /\ w \in A
        BY <1>4, <2>2 DEF Says
      <3>2. WillBePolled(l \o m, u, w) <=> WillBePolled(l, u, w)
        BY <1>1, <3>1, JoinedPolled
      <3> QED
        BY <3>1, <3>2 DEF Says
    <2> QED
      BY <2>1, <2>2
  <1> QED
    BY <1>2, <1>3, <1>4 DEF Says

LEMMA SaysNothing ==
  ASSUME NEW on
  PROVE  Says(<< >>, {}, on) /\ Says(<<Ctl(WAKEUP)>>, {}, on) /\ Says(dbusWakeup, {}, on)
PROOF
  <1>1. << >> \in Seq(Items)
    OBVIOUS
  <1>2. Says(<< >>, {}, on)
    BY <1>1, NothingSaid DEF Says
  <1>3. Says(<<Ctl(WAKEUP)>>, {}, on)
    BY WakeupSaid DEF Says
  <1> QED
    BY <1>2, <1>3 DEF dbusWakeup

LEMMA SaysRemove ==
  ASSUME NEW w \in Watches, NEW on, w \notin on
  PROVE  Says(dbusRemoveWatch(w), {w}, on)
PROOF
  <1>1. dbusRemoveWatch(w) \in Seq(Items) /\ Whole(dbusRemoveWatch(w))
    BY RemovalSaid
  <1>2. \A v \in Watches : Ops(dbusRemoveWatch(w), v) # {} <=> v = w
    BY RemovalSaid
  <1>3. \A u : ~ WillBePolled(dbusRemoveWatch(w), u, w)
    BY RemovalSaid
  <1> QED
    BY <1>1, <1>2, <1>3 DEF Says

LEMMA SaysAdd ==
  ASSUME NEW w \in Watches, NEW on
  PROVE  Says(dbusAddWatch(w, on), {w} \cap on, on)
PROOF
  <1>1. CASE w \notin on
    <2>1. dbusAddWatch(w, on) = << >> /\ {w} \cap on = {}
      BY <1>1 DEF dbusAddWatch
    <2> QED
      BY <2>1, SaysNothing
  <1>2. CASE w \in on
    <2>1. dbusAddWatch(w, on) \in Seq(Items) /\ Whole(dbusAddWatch(w, on))
      BY <1>2, AdditionSaid
    <2>2. \A v \in Watches : Ops(dbusAddWatch(w, on), v) # {} <=> v = w
      BY <1>2, AdditionSaid
    <2>3. \A u : WillBePolled(dbusAddWatch(w, on), u, w)
      BY <1>2, AdditionSaid
    <2>4. \A v : v \in {w} \cap on <=> v = w
      BY <1>2
    <2> QED
      BY <1>2, <2>1, <2>2, <2>3, <2>4 DEF Says
  <1> QED
    BY <1>1, <1>2

LEMMA SaysToggle ==
  ASSUME NEW w \in Watches, NEW on
  PROVE  Says(dbusToggleWatch(w, on), {w}, on)
PROOF
  <1>1. CASE w \in on
    <2>1. {w} \cap on = {w}
      BY <1>1
    <2> QED
      BY <1>1, <2>1, SaysAdd DEF dbusToggleWatch
  <1>2. CASE w \notin on
    BY <1>2, SaysRemove DEF dbusToggleWatch
  <1> QED
    BY <1>1, <1>2

\* dbus_connection_set_watch_functions says all there is to say.
LEMMA SaysAll ==
  /\ enabled \subseteq Watches => Says(AddAll, enabled, enabled)
  /\ live \subseteq Watches => Says(RemoveAll, live, {})
PROOF
  <1>1. Rd \in Watches /\ Wr \in Watches /\ Watches = {Rd, Wr}
    BY DEF Watches
  <1>2. ASSUME enabled \subseteq Watches
        PROVE  Says(AddAll, enabled, enabled)
    <2>1. Says(AddAll, ({Rd} \cap enabled) \cup ({Wr} \cap enabled), enabled)
      BY <1>1, SaysAdd, SaysBoth DEF AddAll
    <2>2. ({Rd} \cap enabled) \cup ({Wr} \cap enabled) = enabled
      BY <1>1, <1>2
    <2> QED
      BY <2>1, <2>2
  <1>3. ASSUME live \subseteq Watches
        PROVE  Says(RemoveAll, live, {})
    <2> DEFINE r(w) == IF w \in live THEN dbusRemoveWatch(w) ELSE << >>
    <2>1. ASSUME NEW w \in Watches
          PROVE  Says(r(w), {w} \cap live, {})
      <3>1. CASE w \in live
        <4>1. {w} \cap live = {w} /\ w \notin {}
          BY <3>1
        <4>2. Says(dbusRemoveWatch(w), {w}, {})
          BY <4>1, SaysRemove
        <4> QED
          BY <3>1, <4>1, <4>2
      <3>2. CASE w \notin live
        <4>1. {w} \cap live = {}
          BY <3>2
        <4> QED
          BY <3>2, <4>1, SaysNothing
      <3> QED
        BY <3>1, <3>2
    <2>2. RemoveAll = r(Rd) \o r(Wr)
      BY DEF RemoveAll
    <2> HIDE DEF r
    <2>3. Says(RemoveAll, ({Rd} \cap live) \cup ({Wr} \cap live), {})
      BY <1>1, <2>1, <2>2, SaysBoth
    <2>4. ({Rd} \cap live) \cup ({Wr} \cap live) = live
      BY <1>1, <1>3
    <2> QED
      BY <2>3, <2>4
  <1> QED
    BY <1>2, <1>3

\* What a use of the connection with the watch functions installed writes is
\* right about every watch whose state it changed.
LEMMA LibrarySays ==
  ASSUME BusTypes, hooked, NEW t,
         ReadMessages(t) \/ Disconnect(t) \/ Flush(t) \/ QueueOutgoing(t)
  PROVE  \E A \in SUBSET Watches :
           /\ Says(items', A, enabled')
           /\ \A w \in Watches \ A : w \in enabled' <=> w \in enabled
PROOF
  <1>1. Wr \in Watches /\ enabled \subseteq live /\ live \subseteq Watches
    BY DEF Watches, BusTypes
  <1>2. CASE ReadMessages(t)
    <2>1. items' = dbusWakeup /\ enabled' = enabled
      BY <1>2 DEF ReadMessages, Call, busVars
    <2>2. Says(items', {}, enabled')
      BY <2>1, SaysNothing
    <2> QED
      BY <2>1, <2>2
  <1>3. CASE Disconnect(t)
    <2>1. items' = RemoveAll \o dbusWakeup /\ enabled' = {}
      BY <1>3 DEF Disconnect, Call, Hooked
    <2>2. Says(items', live \cup {}, {})
      BY <1>1, <2>1, SaysAll, SaysNothing, SaysBoth
    <2>3. live \cup {} = live
      OBVIOUS
    <2> QED
      BY <1>1, <2>1, <2>2, <2>3
  <1>4. CASE Flush(t)
    <2>1. items' = dbusToggleWatch(Wr, enabled') /\ enabled' = enabled \ {Wr}
      BY <1>4 DEF Flush, Call, Hooked
    <2>2. Says(items', {Wr}, enabled')
      BY <1>1, <2>1, SaysToggle
    <2> QED
      BY <1>1, <2>1, <2>2
  <1>5. CASE QueueOutgoing(t)
    <2>1. /\ items' = dbusToggleWatch(Wr, enabled') \o dbusWakeup
          /\ enabled' = enabled \cup {Wr}
      BY <1>5 DEF QueueOutgoing, Call, Hooked
    <2>2. Says(items', {Wr} \cup {}, enabled')
      BY <1>1, <2>1, SaysToggle, SaysNothing, SaysBoth
    <2>3. {Wr} \cup {} = {Wr}
      OBVIOUS
    <2> QED
      BY <1>1, <2>1, <2>2, <2>3
  <1> QED
    BY <1>2, <1>3, <1>4, <1>5

-----------------------------------------------------------------------------
(* An EXIT byte written between other items.                               *)

\* q is p with an EXIT byte at e.
Inserted(p, q, e) ==
  /\ Len(q) = Len(p) + 1 /\ q[e] = Ctl(EXIT)
  /\ \A k \in 1 .. Len(p) : q[IF k < e THEN k ELSE k + 1] = p[k]

\* Between two messages it is a message of its own.
LEMMA InsertedWhole ==
  ASSUME NEW p \in Seq(Items), NEW q \in Seq(Items), NEW e \in 1 .. Len(p) + 1,
         Inserted(p, q, e), Whole(p),
         \A j \in 1 .. (e - 1) : \A k \in e .. Len(p) : ~ FieldOf(p, j, k)
  PROVE  /\ Whole(q)
         /\ \A t : \A w \in Watches : WillBePolled(q, t, w) <=> WillBePolled(p, t, w)
PROOF
  <1> DEFINE f(k) == IF k < e THEN k ELSE k + 1
  <1>1. /\ Len(p) \in Nat /\ Len(q) = Len(p) + 1 /\ e \in Nat /\ e >= 1
        /\ q[e] = Ctl(EXIT) /\ \A k \in 1 .. Len(p) : q[f(k)] = p[k]
    BY LenProperties DEF Inserted
  <1>2. \A k \in 1 .. Len(p) : (k < e => f(k) = k) /\ (k >= e => f(k) = k + 1)
    BY <1>1
  <1>3. \A k \in 1 .. Len(q) : k # e => \E i \in 1 .. Len(p) : k = f(i)
    <2> SUFFICES ASSUME NEW k \in 1 .. Len(q), k # e
                 PROVE  \E i \in 1 .. Len(p) : k = f(i)
      OBVIOUS
    <2>1. CASE k < e
      <3>1. k \in 1 .. Len(p)
        BY <1>1, <2>1
      <3> QED
        BY <2>1, <3>1
    <2>2. CASE k > e
      <3>1. k - 1 \in 1 .. Len(p) /\ ~ (k - 1 < e) /\ (k - 1) + 1 = k
        BY <1>1, <2>2
      <3> QED
        BY <3>1
    <2> QED
      BY <1>1, <2>1, <2>2
  <1> HIDE DEF f
  <1>4. /\ \A k \in 1 .. Len(p) : f(k) \in 1 .. Len(q) /\ f(k) # e
        /\ \A j, k \in 1 .. Len(p) : j <= k <=> f(j) <= f(k)
    BY <1>1 DEF f
  \* The fields of a message stay behind its control byte.
  <1>5. ASSUME NEW k \in 1 .. Len(p), NEW n \in {2, 3}, k + n <= Len(p), FieldOf(p, k, k + n)
        PROVE  /\ \A i \in 1 .. n : k + i \in 1 .. Len(p) /\ f(k + i) = f(k) + i
               /\ f(k) + n <= Len(q)
    <2>1. CASE k >= e
      <3>1. \A i \in 0 .. n : k + i \in 1 .. Len(p) /\ k + i >= e
        BY <1>1, <1>5, <2>1
      <3>2. \A i \in 0 .. n : f(k + i) = (k + i) + 1
        BY <1>2, <3>1
      <3>3. f(k) = k + 1 /\ k \in Nat
        BY <1>1, <1>2, <2>1
      <3>4. ASSUME NEW i \in 1 .. n
            PROVE  k + i \in 1 .. Len(p) /\ f(k + i) = f(k) + i
        <4>1. i \in 0 .. n /\ (k + i) + 1 = (k + 1) + i
          BY <1>5, <3>3
        <4>2. f(k + i) = (k + i) + 1
          BY <3>2, <4>1
        <4> QED
          BY <3>1, <3>3, <4>1, <4>2
      <3>5. (k + 1) + n <= Len(q)
        BY <1>1, <1>5, <3>3
      <3> QED
        BY <3>3, <3>4, <3>5
    <2>2. CASE k < e
      <3>1. k \in 1 .. (e - 1)
        BY <1>1, <2>2
      <3>2. k + n < e
        <4>1. k + n \notin e .. Len(p)
          BY <1>5, <3>1
        <4> QED
          BY <1>1, <1>5, <4>1
      <3>3. \A i \in 0 .. n : k + i \in 1 .. Len(p) /\ k + i < e
        BY <1>1, <1>5, <3>2
      <3>4. \A i \in 0 .. n : f(k + i) = k + i
        BY <1>2, <3>3
      <3>5. f(k) = k /\ f(k) + n <= Len(q)
        BY <1>1, <1>2, <1>5, <2>2
      <3>6. \A i \in 1 .. n : i \in 0 .. n
        BY <1>5
      <3> QED
        BY <3>3, <3>4, <3>5, <3>6
    <2> QED
      BY <1>1, <2>1, <2>2
  <1>6. ASSUME NEW k \in 1 .. Len(p), p[k] \in {Ctl(ADD), Ctl(REMOVE)}
        PROVE  /\ f(k) + 2 <= Len(q) /\ q[f(k) + 1] = FdItem
               /\ \E w \in Watches :
                    /\ q[f(k) + 2] = FlagsItem(w)
                    /\ p[k] = Ctl(ADD) => f(k) + 3 <= Len(q) /\ q[f(k) + 3] = PtrItem(w)
               /\ p[k + 1] = FdItem /\ q[f(k) + 2] = p[k + 2] /\ k + 2 <= Len(p)
    <2>1. k + 2 <= Len(p) /\ p[k + 1] = FdItem
      BY <1>6 DEF Whole, WholeTo
    <2>2. PICK w \in Watches :
            /\ p[k + 2] = FlagsItem(w)
            /\ p[k] = Ctl(ADD) => k + 3 <= Len(p) /\ p[k + 3] = PtrItem(w)
      BY <1>6 DEF Whole, WholeTo
    <2>3. k \in Nat /\ k + 2 \in (k + 1) .. (k + 3) /\ k + 2 \in (k + 1) .. (k + 2)
          /\ k + 3 \in (k + 1) .. (k + 3)
      BY <1>1
    <2>4. FieldOf(p, k, k + 2)
      BY <1>6, <2>3 DEF FieldOf
    <2>5. /\ \A i \in 1 .. 2 : k + i \in 1 .. Len(p) /\ f(k + i) = f(k) + i
          /\ f(k) + 2 <= Len(q)
      BY <1>5, <2>1, <2>4
    <2>6. /\ k + 1 \in 1 .. Len(p) /\ f(k + 1) = f(k) + 1
          /\ k + 2 \in 1 .. Len(p) /\ f(k + 2) = f(k) + 2
      <3>1. 1 \in 1 .. 2 /\ 2 \in 1 .. 2
        OBVIOUS
      <3> QED
        BY <2>5, <3>1
    <2>7. q[f(k) + 1] = p[k + 1] /\ q[f(k) + 2] = p[k + 2]
      BY <1>1, <2>6
    <2>8. ASSUME p[k] = Ctl(ADD)
          PROVE  f(k) + 3 <= Len(q) /\ q[f(k) + 3] = p[k + 3]
      <3>1. FieldOf(p, k, k + 3) /\ k + 3 <= Len(p)
        BY <2>2, <2>3, <2>8 DEF FieldOf
      <3>2. /\ \A i \in 1 .. 3 : k + i \in 1 .. Len(p) /\ f(k + i) = f(k) + i
            /\ f(k) + 3 <= Len(q)
        BY <1>5, <3>1
      <3>3. k + 3 \in 1 .. Len(p) /\ f(k + 3) = f(k) + 3
        BY <3>2
      <3> QED
        BY <1>1, <3>2, <3>3
    <2> QED
      BY <2>1, <2>2, <2>5, <2>7, <2>8
  <1>7. Whole(q)
    <2>1. ASSUME NEW k \in 1 .. Len(q), q[k] \in {Ctl(ADD), Ctl(REMOVE)}
          PROVE  /\ k + 2 <= Len(q) /\ q[k + 1] = FdItem
                 /\ \E w \in Watches :
                      /\ q[k + 2] = FlagsItem(w)
                      /\ q[k] = Ctl(ADD) => k + 3 <= Len(q) /\ q[k + 3] = PtrItem(w)
      <3>1. k # e
        BY <1>1, <2>1, ItemFacts
      <3>2. PICK i \in 1 .. Len(p) : k = f(i)
        BY <1>3, <3>1
      <3>3. q[k] = p[i]
        BY <1>1, <3>2
      <3> QED
        BY <1>6, <2>1, <3>2, <3>3
    <2>2. ASSUME NEW k \in 1 .. Len(q), q[k].kind # "ctl"
          PROVE  \E j \in 1 .. (k - 1) : FieldOf(q, j, k)
      <3>1. k # e
        BY <1>1, <2>2, ItemFacts
      <3>2. PICK i \in 1 .. Len(p) : k = f(i)
        BY <1>3, <3>1
      <3>3. q[k] = p[i]
        BY <1>1, <3>2
      <3>4. PICK j \in 1 .. (i - 1) : FieldOf(p, j, i)
        BY <2>2, <3>3 DEF Whole, WholeTo
      <3>5. j \in 1 .. Len(p) /\ j < i /\ j \in Nat /\ i \in Nat
        BY <1>1, <3>2, <3>4
      <3>6. f(i) = f(j) + (i - j) /\ f(j) \in 1 .. (k - 1)
        <4>1. j < e => i < e
          <5>1. j < e /\ i >= e => j \in 1 .. (e - 1) /\ i \in e .. Len(p)
            BY <1>1, <3>5
          <5> QED
            BY <1>1, <3>4, <3>5, <5>1
        <4>2. (f(j) = j /\ f(i) = i) \/ (f(j) = j + 1 /\ f(i) = i + 1)
          BY <1>1, <3>5, <4>1 DEF f
        <4>3. /\ k \in Nat /\ k = f(i) /\ i \in Nat /\ j \in Nat /\ j >= 1 /\ j < i
          BY <1>1, <3>2, <3>5
        <4>4. CASE f(j) = j /\ f(i) = i
          BY <4>3, <4>4
        <4>5. CASE f(j) = j + 1 /\ f(i) = i + 1
          BY <4>3, <4>5
        <4> QED
          BY <4>2, <4>4, <4>5
      <3>7. q[f(j)] = p[j]
        BY <1>1, <3>5
      <3>8. i - j \in 1 .. 3 /\ (p[j] = Ctl(REMOVE) => i - j \in 1 .. 2)
            /\ p[j] \in {Ctl(ADD), Ctl(REMOVE)}
        BY <3>4, <3>5, ItemFacts DEF FieldOf
      <3>9. f(j) \in Nat /\ k = f(j) + (i - j)
        BY <3>2, <3>6
      <3>10. k \in (f(j) + 1) .. (f(j) + 3) /\ (p[j] = Ctl(REMOVE) => k \in (f(j) + 1) .. (f(j) + 2))
        BY <3>5, <3>8, <3>9
      <3>11. FieldOf(q, f(j), k)
        BY <3>7, <3>8, <3>10 DEF FieldOf
      <3> QED
        BY <3>6, <3>11
    <2> QED
      BY <2>1, <2>2 DEF Whole, WholeTo
  <1>8. ASSUME NEW w \in Watches
        PROVE  /\ \A k \in Ops(p, w) : f(k) \in Ops(q, w) /\ q[f(k)] = p[k]
               /\ \A k \in Ops(q, w) : \E i \in Ops(p, w) : k = f(i)
    <2>1. ASSUME NEW k \in Ops(p, w)
          PROVE  f(k) \in Ops(q, w) /\ q[f(k)] = p[k]
      <3>1. /\ k \in 1 .. Len(p) /\ p[k] \in {Ctl(ADD), Ctl(REMOVE)}
            /\ p[k + 2] = FlagsItem(w)
        BY <1>1 DEF Ops
      <3>2. /\ f(k) + 2 <= Len(q) /\ q[f(k) + 1] = FdItem /\ q[f(k) + 2] = p[k + 2]
        BY <1>6, <3>1
      <3>3. q[f(k)] = p[k] /\ f(k) \in 1 .. Len(q)
        BY <1>1, <1>4, <3>1
      <3>4. f(k) \in 1 .. Len(q) - 2
        BY <1>1, <3>2, <3>3
      <3> QED
        BY <3>1, <3>2, <3>3, <3>4 DEF Ops
    <2>2. ASSUME NEW k \in Ops(q, w)
          PROVE  \E i \in Ops(p, w) : k = f(i)
      <3>1. /\ k \in 1 .. Len(q) /\ q[k] \in {Ctl(ADD), Ctl(REMOVE)}
            /\ q[k + 2] = FlagsItem(w)
        BY <1>1 DEF Ops
      <3>2. k # e
        BY <1>1, <3>1, ItemFacts
      <3>3. PICK i \in 1 .. Len(p) : k = f(i)
        BY <1>3, <3>1, <3>2
      <3>4. q[k] = p[i]
        BY <1>1, <3>3
      <3>5. p[i + 1] = FdItem /\ q[k + 2] = p[i + 2] /\ i + 2 <= Len(p)
        BY <1>6, <3>1, <3>3, <3>4
      <3>6. i \in 1 .. Len(p) - 2
        BY <1>1, <3>3, <3>5
      <3>7. i \in Ops(p, w)
        BY <3>1, <3>4, <3>5, <3>6 DEF Ops
      <3> QED
        BY <3>3, <3>7
    <2> QED
      BY <2>1, <2>2
  <1>9. ASSUME NEW w \in Watches, NEW t
        PROVE  WillBePolled(q, t, w) <=> WillBePolled(p, t, w)
    <2>1. Ops(p, w) = {} <=> Ops(q, w) = {}
      BY <1>8
    <2>2. \A k \in Ops(p, w) : k \in 1 .. Len(p)
      BY <1>1 DEF Ops
    <2>3. ASSUME NEW k \in Ops(p, w), p[k] = Ctl(ADD), \A j \in Ops(p, w) : j <= k
          PROVE  f(k) \in Ops(q, w) /\ q[f(k)] = Ctl(ADD) /\ \A j \in Ops(q, w) : j <= f(k)
      BY <1>4, <1>8, <2>2, <2>3
    <2>4. ASSUME NEW k \in Ops(q, w), q[k] = Ctl(ADD), \A j \in Ops(q, w) : j <= k
          PROVE  \E i \in Ops(p, w) : p[i] = Ctl(ADD) /\ \A j \in Ops(p, w) : j <= i
      <3>1. PICK i \in Ops(p, w) : k = f(i)
        BY <1>8
      <3>2. \A j \in Ops(p, w) : f(j) <= f(i)
        BY <1>8, <2>4, <3>1
      <3>3. \A j \in Ops(p, w) : j <= i
        BY <1>4, <2>2, <3>2
      <3> QED
        BY <1>8, <2>4, <3>1, <3>3
    <2> QED
      BY <2>1, <2>3, <2>4 DEF WillBePolled
  <1> QED
    BY <1>7, <1>9

\* Whole messages up to any control byte among them.
LEMMA WholeUpTo ==
  ASSUME NEW p \in Seq(Items), Whole(p), NEW j \in 1 .. Len(p),
         p[j] \in {Ctl(ADD), Ctl(REMOVE)}
  PROVE  WholeTo(p, j - 1)
PROOF
  <1>1. Len(p) \in Nat /\ j \in Nat /\ p[j].kind = "ctl"
    BY LenProperties, ItemFacts
  <1>2. ASSUME NEW k \in 1 .. (j - 1), p[k] \in {Ctl(ADD), Ctl(REMOVE)}
        PROVE  /\ k + 2 <= j - 1 /\ p[k + 1] = FdItem
               /\ \E w \in Watches :
                    /\ p[k + 2] = FlagsItem(w)
                    /\ p[k] = Ctl(ADD) => k + 3 <= j - 1 /\ p[k + 3] = PtrItem(w)
    <2>1. k \in 1 .. Len(p) /\ k \in Nat /\ k < j
      BY <1>1
    <2>2. k + 2 <= Len(p) /\ p[k + 1] = FdItem
      BY <1>2, <2>1 DEF Whole, WholeTo
    <2>3. PICK w \in Watches :
            /\ p[k + 2] = FlagsItem(w)
            /\ p[k] = Ctl(ADD) => k + 3 <= Len(p) /\ p[k + 3] = PtrItem(w)
      BY <1>2, <2>1 DEF Whole, WholeTo
    <2>4. p[k + 1].kind = "fd" /\ p[k + 2].kind = "flags"
      BY <2>2, <2>3, ItemFacts
    <2>5. j # k + 1 /\ j # k + 2
      BY <1>1, <2>4
    <2>6. k + 2 <= j - 1
      BY <1>1, <2>1, <2>5
    <2>7. p[k] = Ctl(ADD) => j # k + 3
      BY <1>1, <2>3, ItemFacts
    <2>8. p[k] = Ctl(ADD) => k + 3 <= j - 1
      BY <1>1, <2>1, <2>6, <2>7
    <2> QED
      BY <2>2, <2>3, <2>6, <2>8
  <1>3. ASSUME NEW k \in 1 .. (j - 1), p[k].kind # "ctl"
        PROVE  \E i \in 1 .. (k - 1) : FieldOf(p, i, k)
    BY <1>1, <1>3 DEF Whole, WholeTo
  <1> QED
    BY <1>2, <1>3 DEF WholeTo

\* Inside a message it tears that message.
LEMMA InsertedTorn ==
  ASSUME NEW p \in Seq(Items), NEW q \in Seq(Items), NEW e \in 1 .. Len(p) + 1,
         Inserted(p, q, e), Whole(p),
         NEW j \in 1 .. (e - 1), NEW k \in e .. Len(p), FieldOf(p, j, k)
  PROVE  Torn(q)
PROOF
  <1>1. /\ Len(p) \in Nat /\ Len(q) = Len(p) + 1 /\ Len(q) \in Nat
        /\ e \in Nat /\ e >= 1 /\ DOMAIN q = 1 .. Len(q)
        /\ j \in Nat /\ j < e /\ k \in Nat /\ k >= e /\ j >= 1 /\ k <= Len(p)
        /\ q[e] = Ctl(EXIT)
    BY LenProperties DEF Inserted
  <1>2. \A i \in 1 .. (e - 1) : i \in 1 .. Len(p) /\ q[i] = p[i]
    BY <1>1 DEF Inserted
  <1>3. j \in 1 .. Len(p) /\ j \in 1 .. Len(q) /\ e \in 1 .. Len(q)
    BY <1>1
  <1>4. p[j] \in {Ctl(ADD), Ctl(REMOVE)} /\ q[j] = p[j]
    BY <1>2 DEF FieldOf
  <1>5. WholeTo(p, j - 1)
    BY <1>3, <1>4, WholeUpTo
  <1>6. WholeTo(q, j - 1)
    <2>1. \A i \in 1 .. (j - 1) : q[i] = p[i]
      BY <1>1, <1>2
    <2>2. ASSUME NEW i \in 1 .. (j - 1), q[i] \in {Ctl(ADD), Ctl(REMOVE)}
          PROVE  /\ i + 2 <= j - 1 /\ q[i + 1] = FdItem
                 /\ \E w \in Watches :
                      /\ q[i + 2] = FlagsItem(w)
                      /\ q[i] = Ctl(ADD) => i + 3 <= j - 1 /\ q[i + 3] = PtrItem(w)
      <3>1. /\ i + 2 <= j - 1 /\ p[i + 1] = FdItem
            /\ \E w \in Watches :
                 /\ p[i + 2] = FlagsItem(w)
                 /\ q[i] = Ctl(ADD) => i + 3 <= j - 1 /\ p[i + 3] = PtrItem(w)
        BY <1>5, <2>1, <2>2 DEF WholeTo
      <3>2. /\ i + 1 \in 1 .. (j - 1) /\ i + 2 \in 1 .. (j - 1)
            /\ i + 3 <= j - 1 => i + 3 \in 1 .. (j - 1)
        BY <1>1, <3>1
      <3> QED
        BY <2>1, <3>1, <3>2
    <2>3. ASSUME NEW i \in 1 .. (j - 1), q[i].kind # "ctl"
          PROVE  \E h \in 1 .. (i - 1) : FieldOf(q, h, i)
      <3>1. PICK h \in 1 .. (i - 1) : FieldOf(p, h, i)
        BY <1>5, <2>1, <2>3 DEF WholeTo
      <3>2. h \in 1 .. (j - 1)
        BY <1>1
      <3> QED
        BY <2>1, <3>1, <3>2 DEF FieldOf
    <2> QED
      BY <2>2, <2>3 DEF WholeTo
  <1>7. FieldOf(q, j, e)
    BY <1>1, <1>4 DEF FieldOf
  <1> QED
    BY <1>1, <1>3, <1>6, <1>7 DEF Torn

-----------------------------------------------------------------------------
(* What is pending.                                                        *)

LEMMA PendingTyped ==
  ASSUME stream \in Seq(Items), items \in Seq(Items)
  PROVE  /\ InHand \in Seq(Items) /\ Pending \in Seq(Items)
         /\ InHand \o stream \in Seq(Items)
         /\ Len(InHand) \in {0, 1} /\ Len(stream) \in Nat /\ Len(items) \in Nat
         /\ Len(InHand \o stream) = Len(InHand) + Len(stream)
         /\ Pending = (InHand \o stream) \o items
PROOF
  <1>1. InHand \in Seq(Items) /\ Len(InHand) \in {0, 1}
    <2>1. CASE loop = "add"
      BY <2>1, PartsTyped DEF InHand
    <2>2. CASE loop = "remove"
      BY <2>2, PartsTyped DEF InHand
    <2>3. CASE loop \notin {"add", "remove"}
      BY <2>3, EmptySeq DEF InHand
    <2> QED
      BY <2>1, <2>2, <2>3
  <1>2. InHand \o stream \in Seq(Items) /\ Len(InHand \o stream) = Len(InHand) + Len(stream)
    BY <1>1, ConcatProperties
  <1>3. (InHand \o stream) \o items \in Seq(Items)
    BY <1>2, ConcatProperties
  <1>4. Pending = (InHand \o stream) \o items
    BY DEF Pending
  <1> QED
    BY <1>1, <1>2, <1>3, <1>4, LenProperties

\* A table with the same watches is polled the same.
LEMMA PolledAlike ==
  ASSUME NEW t, NEW u, NEW p, NEW w, InTable(t, w) <=> InTable(u, w)
  PROVE  WillBePolled(p, t, w) <=> WillBePolled(p, u, w)
PROOF
  BY DEF WillBePolled

\* A message torn or not, an EXIT byte is pending only in the socket.
LEMMA ExitIsInSocket ==
  ASSUME stream \in Seq(Items), items \in Seq(Messages),
         NEW k \in 1 .. Len(Pending), Pending[k] = Ctl(EXIT)
  PROVE  \E i \in DOMAIN stream : stream[i] = Ctl(EXIT)
PROOF
  <1> DEFINE h == InHand
             a == h \o stream
  <1>1. items \in Seq(Items)
    BY SeqMonotonic DEF Messages
  <1>2. /\ h \in Seq(Items) /\ a \in Seq(Items) /\ Len(h) \in Nat /\ Len(stream) \in Nat
        /\ Len(items) \in Nat /\ Len(a) = Len(h) + Len(stream) /\ Pending = a \o items
    BY <1>1, PendingTyped
  <1>3. /\ Len(Pending) = Len(a) + Len(items)
        /\ \A i \in 1 .. Len(a) + Len(items) :
             Pending[i] = IF i <= Len(a) THEN a[i] ELSE items[i - Len(a)]
        /\ \A i \in 1 .. Len(h) + Len(stream) :
             a[i] = IF i <= Len(h) THEN h[i] ELSE stream[i - Len(h)]
    BY <1>1, <1>2, ConcatProperties
  <1>4. \A i \in 1 .. Len(h) : h[i] # Ctl(EXIT)
    BY ItemFacts DEF InHand
  <1>5. \A i \in 1 .. Len(items) : items[i] # Ctl(EXIT)
    BY ElementOfSeq DEF Messages
  <1>6. DOMAIN stream = 1 .. Len(stream)
    BY LenProperties
  <1> HIDE DEF h, a
  <1>7. k <= Len(a)
    <2>1. ASSUME k > Len(a) PROVE FALSE
      <3>1. k - Len(a) \in 1 .. Len(items) /\ ~ (k <= Len(a))
        BY <1>2, <1>3, <2>1
      <3> QED
        BY <1>3, <1>5, <3>1
    <2> QED
      BY <1>2, <1>3, <2>1
  <1>8. a[k] = Ctl(EXIT) /\ k \in 1 .. Len(h) + Len(stream)
    BY <1>2, <1>3, <1>7
  <1>9. ~ (k <= Len(h))
    BY <1>2, <1>3, <1>4, <1>8
  <1>10. k - Len(h) \in 1 .. Len(stream) /\ stream[k - Len(h)] = Ctl(EXIT)
    BY <1>2, <1>3, <1>8, <1>9
  <1> QED
    BY <1>6, <1>10

LEMMA Behind ==
  \A p, l, m \in Seq(Items) : p \o (l \o m) = (p \o l) \o m /\ p \o l \in Seq(Items)
PROOF
  BY ConcatAssociative, ConcatProperties

LEMMA Moved ==
  ASSUME NEW h \in Seq(Items), NEW s \in Seq(Items), NEW m \in Seq(Items), m # << >>
  PROVE  (h \o Append(s, Head(m))) \o Tail(m) = (h \o s) \o m
PROOF
  <1>1. /\ Head(m) \in Items /\ Tail(m) \in Seq(Items)
        /\ <<Head(m)>> \in Seq(Items) /\ <<Head(m)>> \o Tail(m) = m
    BY HeadTailProperties
  <1>2. PICK x \in Seq(Items) : x = <<Head(m)>>
    BY <1>1
  <1>3. PICK r \in Seq(Items) : r = Tail(m)
    BY <1>1
  <1>4. Append(s, Head(m)) = s \o x
    BY <1>1, <1>2, AppendIsConcat
  <1>5. x \o r = m
    BY <1>1, <1>2, <1>3
  <1>6. (h \o (s \o x)) \o r = (h \o s) \o (x \o r)
    <2>1. PICK g \in Seq(Items) : g = h \o s
      BY Behind
    <2>2. h \o (s \o x) = (h \o s) \o x
      BY Behind, SMTT(30)
    <2>3. (g \o x) \o r = g \o (x \o r)
      BY Behind, SMTT(30)
    <2> QED
      BY <2>1, <2>2, <2>3
  <1> QED
    BY <1>3, <1>4, <1>5, <1>6

\* A write moves one item from a callback to the socket.
LEMMA PendingWritten ==
  ASSUME stream \in Seq(Items), items \in Seq(Items), items # << >>,
         stream' = Append(stream, Head(items)), items' = Tail(items), UNCHANGED loop
  PROVE  Pending' = Pending
PROOF
  <1>1. InHand' = InHand /\ InHand \in Seq(Items)
    BY PendingTyped DEF InHand
  <1>2. (InHand \o Append(stream, Head(items))) \o Tail(items) = (InHand \o stream) \o items
    BY <1>1, Moved
  <1>3. Pending' = (InHand' \o stream') \o items' /\ Pending = (InHand \o stream) \o items
    BY DEF Pending
  <1> QED
    BY <1>1, <1>2, <1>3

\* The control byte of an addition or a removal goes from the socket to the
\* handler.
LEMMA PendingReceived ==
  ASSUME stream \in Seq(Items), items \in Seq(Items), stream # << >>,
         loop \notin {"add", "remove"}, stream' = Tail(stream), UNCHANGED items,
         InHand' = <<Head(stream)>>
  PROVE  Pending' = Pending
PROOF
  <1>1. /\ Head(stream) \in Items /\ Tail(stream) \in Seq(Items)
        /\ <<Head(stream)>> \o Tail(stream) = stream
    BY HeadTailProperties
  <1>2. InHand = << >> /\ << >> \o stream = stream
    BY ConcatEmptySeq DEF InHand
  <1>3. Pending' = (InHand' \o stream') \o items' /\ Pending = (InHand \o stream) \o items
    BY DEF Pending
  <1> QED
    BY <1>1, <1>2, <1>3

\* Dropping twice.
LEMMA DroppedTwice ==
  ASSUME NEW p \in Seq(Items), NEW q \in Seq(Items), NEW r \in Seq(Items),
         NEW d \in Nat, NEW e \in Nat, Dropped(p, q, d), Dropped(q, r, e)
  PROVE  Dropped(p, r, d + e)
PROOF
  <1>1. /\ Len(p) \in Nat /\ Len(q) \in Nat /\ Len(r) \in Nat
        /\ Len(q) = Len(p) - d /\ Len(r) = Len(q) - e
    BY LenProperties DEF Dropped
  <1>2. Len(r) = Len(p) - (d + e)
    BY <1>1
  <1>3. ASSUME NEW k \in 1 .. Len(r) PROVE r[k] = p[k + (d + e)]
    <2>1. k + e \in 1 .. Len(q) /\ (k + e) + d = k + (d + e)
      BY <1>1
    <2>2. r[k] = q[k + e]
      BY DEF Dropped
    <2>3. q[k + e] = p[(k + e) + d]
      BY <2>1 DEF Dropped
    <2> QED
      BY <2>1, <2>2, <2>3
  <1> QED
    BY <1>2, <1>3 DEF Dropped

\* Dropping with something behind.
LEMMA DroppedBefore ==
  ASSUME NEW s \in Seq(Items), NEW r \in Seq(Items), NEW m \in Seq(Items),
         NEW n \in Nat, Dropped(s, r, n)
  PROVE  Dropped(s \o m, r \o m, n)
PROOF
  <1>1. PICK a \in Seq(Items) : a = s \o m
    BY Joined2
  <1>2. PICK b \in Seq(Items) : b = r \o m
    BY Joined2
  <1>3. /\ Len(s) \in Nat /\ Len(r) \in Nat /\ Len(m) \in Nat
        /\ Len(a) = Len(s) + Len(m) /\ Extends(a, s) /\ Dropped(a, m, Len(s))
    BY <1>1, Joined2
  <1>4. Len(b) = Len(r) + Len(m) /\ Extends(b, r) /\ Dropped(b, m, Len(r))
    BY <1>2, Joined2
  <1>5. Len(r) = Len(s) - n
    BY DEF Dropped
  <1>6. Len(b) = Len(a) - n
    BY <1>3, <1>4, <1>5
  <1>7. ASSUME NEW k \in 1 .. Len(b) PROVE b[k] = a[k + n]
    <2>1. CASE k <= Len(r)
      <3>1. k \in 1 .. Len(r) /\ k + n \in 1 .. Len(s)
        BY <1>3, <1>5, <2>1
      <3>2. b[k] = r[k] /\ r[k] = s[k + n] /\ s[k + n] = a[k + n]
        BY <1>3, <1>4, <3>1 DEF Extends, Dropped
      <3> QED
        BY <3>2
    <2>2. CASE k > Len(r)
      <3>1. PICK i \in 1 .. Len(m) : i + Len(r) = k
        <4>1. k - Len(r) \in 1 .. Len(m) /\ (k - Len(r)) + Len(r) = k
          BY <1>3, <1>4, <2>2
        <4> QED
          BY <4>1
      <3>2. i + Len(s) = k + n
        BY <1>3, <1>5, <3>1
      <3>3. m[i] = b[i + Len(r)] /\ m[i] = a[i + Len(s)]
        BY <1>3, <1>4 DEF Dropped
      <3> QED
        BY <3>1, <3>2, <3>3
    <2> QED
      BY <1>3, <2>1, <2>2
  <1> QED
    BY <1>1, <1>2, <1>6, <1>7 DEF Dropped

\* Dropping all that is in front, and something more.
LEMMA DroppedFront ==
  ASSUME NEW h \in Seq(Items), NEW s \in Seq(Items), NEW r \in Seq(Items),
         NEW m \in Seq(Items), NEW n \in Nat, Dropped(s, r, n)
  PROVE  Dropped((h \o s) \o m, r \o m, Len(h) + n)
PROOF
  <1>1. PICK a \in Seq(Items) : a = s \o m
    BY Behind
  <1>2. PICK b \in Seq(Items) : b = r \o m
    BY Behind
  <1>3. PICK p \in Seq(Items) : p = h \o a
    BY Behind
  <1>4. Len(h) \in Nat /\ Dropped(p, a, Len(h))
    BY <1>3, Joined2
  <1>5. Dropped(a, b, n)
    BY <1>1, <1>2, DroppedBefore
  <1>6. p = (h \o s) \o m
    BY <1>1, <1>3, Behind, SMTT(30)
  <1> QED
    BY <1>2, <1>4, <1>5, <1>6, DroppedTwice

\* A handler is done with the message in its hand and n items of the socket.
LEMMA PendingDropped ==
  ASSUME stream \in Seq(Items), items \in Seq(Items), UNCHANGED items,
         NEW n \in 1 .. Len(stream),
         stream' = SubSeq(stream, n + 1, Len(stream)), InHand' = << >>
  PROVE  Dropped(Pending, Pending', Len(InHand) + n)
PROOF
  <1>1. /\ InHand \in Seq(Items) /\ Len(stream) \in Nat
        /\ Pending = (InHand \o stream) \o items
    BY PendingTyped
  <1>2. /\ stream' \in Seq(Items) /\ Len(stream') = Len(stream) - n
        /\ \A k \in 1 .. Len(stream) - n : stream'[k] = stream[k + n]
    <2>1. n + 1 \in Int /\ Len(stream) \in Int
          /\ \A k \in (n + 1) .. Len(stream) : stream[k] \in Items
      BY <1>1, ElementOfSeq
    <2>2. /\ stream' \in Seq(Items)
          /\ Len(stream') = IF n + 1 <= Len(stream) THEN Len(stream) - (n + 1) + 1 ELSE 0
          /\ \A i \in 1 .. Len(stream) - (n + 1) + 1 : stream'[i] = stream[(n + 1) + i - 1]
      BY <2>1, SubSeqProperties
    <2>3. Len(stream) - (n + 1) + 1 = Len(stream) - n
      BY <1>1
    <2>4. \A i \in 1 .. Len(stream) - n : (n + 1) + i - 1 = i + n
      BY <1>1
    <2>5. Len(stream') = Len(stream) - n
      <3>1. n \in Nat /\ n >= 1 /\ n <= Len(stream) /\ Len(stream) \in Nat
        BY <1>1
      <3>2. CASE n + 1 <= Len(stream)
        BY <2>2, <2>3, <3>2
      <3>3. CASE ~ (n + 1 <= Len(stream))
        <4>1. Len(stream') = 0
          BY <2>2, <3>3
        <4>2. n = Len(stream)
          BY <3>1, <3>3
        <4> QED
          BY <3>1, <4>1, <4>2
      <3> QED
        BY <3>2, <3>3
    <2> QED
      BY <2>2, <2>3, <2>4, <2>5
  <1>3. PICK r \in Seq(Items) : r = stream'
    BY <1>2
  <1>4. Pending' = r \o items
    <2>1. Pending' = (<< >> \o r) \o items
      BY <1>3 DEF Pending
    <2> QED
      BY <1>3, <2>1, ConcatEmptySeq
  <1>5. Dropped(stream, r, n)
    BY <1>1, <1>2, <1>3 DEF Dropped
  <1> QED
    BY <1>1, <1>4, <1>5, DroppedFront

LEMMA ExitBetween ==
  ASSUME NEW h \in Seq(Items), NEW s \in Seq(Items), NEW m \in Seq(Items)
  PROVE  \E e \in 1 .. Len((h \o s) \o m) + 1 :
           Inserted((h \o s) \o m, (h \o Append(s, Ctl(EXIT))) \o m, e)
PROOF
  <1>1. PICK a \in Seq(Items) : a = h \o s
    BY Behind
  <1>2. PICK x \in Seq(Items) : x = <<Ctl(EXIT)>>
    <2>1. <<Ctl(EXIT)>> \in Seq(Items)
      BY PartsTyped
    <2> QED
      BY <2>1
  <1>3. Len(x) = 1 /\ x[1] = Ctl(EXIT)
    BY <1>2
  <1>4. PICK b \in Seq(Items) : b = a \o x
    BY Behind
  <1>5. h \o Append(s, Ctl(EXIT)) = b
    <2>1. Append(s, Ctl(EXIT)) = s \o x
      BY <1>2, PartsTyped, AppendIsConcat
    <2>2. h \o (s \o x) = (h \o s) \o x
      BY Behind, SMTT(30)
    <2> QED
      BY <1>1, <1>4, <2>1, <2>2
  <1>6. Len(a) \in Nat /\ Len(m) \in Nat
    BY LenProperties
  <1>7. /\ Len(b) = Len(a) + Len(x)
        /\ \A i \in 1 .. Len(a) + Len(x) : b[i] = IF i <= Len(a) THEN a[i] ELSE x[i - Len(a)]
    BY <1>4, ConcatProperties
  <1>8. PICK p \in Seq(Items) : p = a \o m
    BY Behind
  <1>9. PICK q \in Seq(Items) : q = b \o m
    BY Behind
  <1>10. /\ Len(p) = Len(a) + Len(m)
         /\ \A i \in 1 .. Len(a) + Len(m) : p[i] = IF i <= Len(a) THEN a[i] ELSE m[i - Len(a)]
    BY <1>8, ConcatProperties
  <1>11. /\ Len(q) = Len(b) + Len(m)
         /\ \A i \in 1 .. Len(b) + Len(m) : q[i] = IF i <= Len(b) THEN b[i] ELSE m[i - Len(b)]
    BY <1>9, ConcatProperties
  <1>12. PICK e \in Nat : e = Len(a) + 1 /\ Len(b) = e
    BY <1>3, <1>6, <1>7
  <1>13. q[e] = Ctl(EXIT)
    <2>1. /\ e \in 1 .. Len(b) + Len(m) /\ e \in 1 .. Len(a) + Len(x) /\ e <= Len(b)
          /\ ~ (e <= Len(a)) /\ e - Len(a) = 1
      BY <1>3, <1>6, <1>12
    <2> QED
      BY <1>3, <1>7, <1>11, <2>1
  <1>14. ASSUME NEW k \in 1 .. Len(p)
         PROVE  q[IF k < e THEN k ELSE k + 1] = p[k]
    <2>1. CASE k <= Len(a)
      <3>1. /\ k < e /\ k \in 1 .. Len(a) + Len(x) /\ k <= Len(b)
            /\ k \in 1 .. Len(b) + Len(m) /\ k \in 1 .. Len(a) + Len(m)
        BY <1>3, <1>6, <1>10, <1>12, <2>1
      <3>2. q[k] = b[k] /\ b[k] = a[k] /\ p[k] = a[k]
        BY <1>7, <1>10, <1>11, <2>1, <3>1
      <3> QED
        BY <3>1, <3>2
    <2>2. CASE k > Len(a)
      <3>1. /\ ~ (k < e) /\ ~ (k + 1 <= Len(b)) /\ ~ (k <= Len(a))
            /\ (k + 1) - Len(b) = k - Len(a)
            /\ k + 1 \in 1 .. Len(b) + Len(m) /\ k \in 1 .. Len(a) + Len(m)
        BY <1>6, <1>10, <1>12, <2>2
      <3>2. q[k + 1] = m[(k + 1) - Len(b)] /\ p[k] = m[k - Len(a)]
        BY <1>10, <1>11, <3>1
      <3> QED
        BY <3>1, <3>2
    <2> QED
      BY <1>6, <1>10, <2>1, <2>2
  <1>15. Len(q) = Len(p) + 1 /\ e \in 1 .. Len(p) + 1
    BY <1>6, <1>10, <1>11, <1>12
  <1>16. Inserted(p, q, e)
    BY <1>13, <1>14, <1>15 DEF Inserted
  <1>17. p = (h \o s) \o m /\ q = (h \o Append(s, Ctl(EXIT))) \o m
    BY <1>1, <1>5, <1>8, <1>9
  <1> QED
    BY <1>15, <1>16, <1>17

\* The EXIT byte of stopEventLoop goes between the socket and the callback.
LEMMA PendingStopped ==
  ASSUME stream \in Seq(Items), items \in Seq(Items), UNCHANGED <<items, loop>>,
         stream' = Append(stream, Ctl(EXIT))
  PROVE  \E e \in 1 .. Len(Pending) + 1 : Inserted(Pending, Pending', e)
PROOF
  <1>1. InHand \in Seq(Items) /\ InHand' = InHand
    BY PendingTyped DEF InHand
  <1>2. \E e \in 1 .. Len((InHand \o stream) \o items) + 1 :
          Inserted((InHand \o stream) \o items,
                   (InHand \o Append(stream, Ctl(EXIT))) \o items, e)
    BY <1>1, ExitBetween
  <1>3. /\ Pending' = (InHand \o Append(stream, Ctl(EXIT))) \o items
        /\ Pending = (InHand \o stream) \o items
    BY <1>1 DEF Pending
  <1> QED
    BY <1>2, <1>3

\* A callback begins.
LEMMA PendingCalled ==
  ASSUME stream \in Seq(Items), items = << >>, items' \in Seq(Items),
         UNCHANGED <<InHand, stream>>
  PROVE  Pending' = Pending \o items'
PROOF
  <1>1. items \in Seq(Items)
    OBVIOUS
  <1>2. InHand \o stream \in Seq(Items)
    BY <1>1, PendingTyped
  <1>3. Pending = InHand \o stream
    BY <1>2, ConcatEmptySeq DEF Pending
  <1>4. Pending' = (InHand' \o stream') \o items'
    BY DEF Pending
  <1> QED
    BY <1>3, <1>4

-----------------------------------------------------------------------------
(* What leads to the watches libdbus wants.                                *)

\* A table with the same watches leads to the same.
LEMMA LeadsAlike ==
  ASSUME NEW p, NEW t, NEW u, NEW on, Leads(p, t, on),
         \A w \in Watches : InTable(t, w) <=> InTable(u, w)
  PROVE  Leads(p, u, on)
PROOF
  <1>1. \A w \in Watches : WillBePolled(p, t, w) <=> WillBePolled(p, u, w)
    BY PolledAlike
  <1> QED
    BY <1>1 DEF Leads

\* A callback begins to write what it has to say.
LEMMA LeadsCalled ==
  ASSUME NEW p \in Seq(Items), NEW m, NEW t, NEW on, NEW new, NEW A \in SUBSET Watches,
         Leads(p, t, on), Says(m, A, new),
         \A w \in Watches \ A : w \in new <=> w \in on
  PROVE  Leads(p \o m, t, new)
PROOF
  <1>1. m \in Seq(Items) /\ Whole(m)
    BY DEF Says
  <1>2. p \o m \in Seq(Items) /\ Extends(p \o m, p)
    BY <1>1, Joined2
  <1>3. CASE Torn(p)
    BY <1>2, <1>3, ExtendedTorn DEF Leads
  <1>4. CASE ~ Torn(p)
    <2>1. Whole(p) /\ Whole(p \o m)
      BY <1>1, <1>4, JoinedWhole DEF Leads
    <2>2. ASSUME NEW w \in Watches
          PROVE  /\ WillBePolled(p \o m, t, w) => w \in new
                 /\ w \in new => AllocFails \/ WillBePolled(p \o m, t, w)
      <3>1. CASE w \in A
        <4>1. Ops(m, w) # {} /\ (WillBePolled(m, t, w) <=> w \in new)
          BY <3>1 DEF Says
        <4>2. WillBePolled(p \o m, t, w) <=> WillBePolled(m, t, w)
          BY <1>1, <2>1, <4>1, JoinedPolled
        <4> QED
          BY <4>1, <4>2
      <3>2. CASE w \notin A
        <4>1. Ops(m, w) = {} /\ (w \in new <=> w \in on)
          BY <3>2 DEF Says
        <4>2. WillBePolled(p \o m, t, w) <=> WillBePolled(p, t, w)
          BY <1>1, <2>1, <4>1, JoinedPolled
        <4>3. /\ WillBePolled(p, t, w) => w \in on
              /\ w \in on => AllocFails \/ WillBePolled(p, t, w)
          BY <1>4 DEF Leads
        <4> QED
          BY <4>1, <4>2, <4>3
      <3> QED
        BY <3>1, <3>2
    <2> QED
      BY <2>1, <2>2 DEF Leads
  <1> QED
    BY <1>3, <1>4

\* The EXIT byte of a stop is written while there is no other.
LEMMA LeadsStopped ==
  ASSUME NEW p \in Seq(Items), NEW q \in Seq(Items), NEW e \in 1 .. Len(p) + 1,
         NEW t, NEW on, Inserted(p, q, e), Leads(p, t, on), ~ Torn(p)
  PROVE  Leads(q, t, on)
PROOF
  <1>1. Whole(p)
    BY DEF Leads
  <1>2. CASE \A j \in 1 .. (e - 1) : \A k \in e .. Len(p) : ~ FieldOf(p, j, k)
    <2>1. Whole(q) /\ \A w \in Watches : WillBePolled(q, t, w) <=> WillBePolled(p, t, w)
      BY <1>1, <1>2, InsertedWhole
    <2> QED
      BY <2>1 DEF Leads
  <1>3. ASSUME NEW j \in 1 .. (e - 1), NEW k \in e .. Len(p), FieldOf(p, j, k)
        PROVE  Leads(q, t, on)
    <2>1. Torn(q)
      BY <1>1, <1>3, InsertedTorn
    <2> QED
      BY <2>1 DEF Leads
  <1> QED
    BY <1>2, <1>3

\* The first d items are handled: what is said about w behind them still
\* decides, or else the table does.
LEMMA DroppedPolled ==
  ASSUME NEW p \in Seq(Items), NEW q \in Seq(Items), NEW d \in Nat,
         Dropped(p, q, d), NEW w, NEW t, NEW u
  PROVE  /\ (\E k \in Ops(p, w) : k > d) =>
              (WillBePolled(q, u, w) <=> WillBePolled(p, t, w))
         /\ (\A k \in Ops(p, w) : k <= d) =>
              (WillBePolled(q, u, w) <=> InTable(u, w))
PROOF
  <1>1. /\ \A k \in Ops(q, w) : k \in Nat /\ k >= 1 /\ k + d \in Ops(p, w)
        /\ \A k \in Ops(p, w) : k > d => k - d \in Ops(q, w)
        /\ \A k \in Ops(q, w) : q[k] = p[k + d]
    BY DroppedOps
  <1>2. \A k \in Ops(p, w) : k \in Nat
    BY LenProperties DEF Ops
  <1>3. ASSUME NEW k \in Ops(p, w), k > d
        PROVE  WillBePolled(q, u, w) <=> WillBePolled(p, t, w)
    <2>1. Ops(q, w) # {} /\ Ops(p, w) # {}
      BY <1>1, <1>3
    <2>2. ASSUME NEW i \in Ops(q, w), q[i] = Ctl(ADD), \A j \in Ops(q, w) : j <= i
          PROVE  /\ i + d \in Ops(p, w) /\ p[i + d] = Ctl(ADD)
                 /\ \A j \in Ops(p, w) : j <= i + d
      <3>1. i \in Nat /\ i >= 1 /\ i + d \in Ops(p, w) /\ q[i] = p[i + d]
        BY <1>1
      <3>2. ASSUME NEW j \in Ops(p, w) PROVE j <= i + d
        <4>1. j \in Nat
          BY <1>2
        <4>2. CASE j > d
          <5>1. j - d <= i
            BY <1>1, <2>2, <4>2
          <5> QED
            BY <3>1, <4>1, <5>1
        <4>3. CASE j <= d
          BY <3>1, <4>1, <4>3
        <4> QED
          BY <4>1, <4>2, <4>3
      <3> QED
        BY <2>2, <3>1, <3>2
    <2>3. ASSUME NEW i \in Ops(p, w), p[i] = Ctl(ADD), \A j \in Ops(p, w) : j <= i
          PROVE  /\ i - d \in Ops(q, w) /\ q[i - d] = Ctl(ADD)
                 /\ \A j \in Ops(q, w) : j <= i - d
      <3>1. i \in Nat /\ i > d
        BY <1>2, <1>3, <2>3
      <3>2. i - d \in Ops(q, w) /\ (i - d) + d = i
        BY <1>1, <3>1
      <3>3. q[i - d] = p[i]
        BY <1>1, <3>2
      <3>4. ASSUME NEW j \in Ops(q, w) PROVE j <= i - d
        <4>1. j \in Nat /\ j + d <= i
          BY <1>1, <2>3
        <4> QED
          BY <3>1, <4>1
      <3> QED
        BY <2>3, <3>2, <3>3, <3>4
    <2>4. (\E i \in Ops(q, w) : q[i] = Ctl(ADD) /\ \A j \in Ops(q, w) : j <= i)
            <=> \E i \in Ops(p, w) : p[i] = Ctl(ADD) /\ \A j \in Ops(p, w) : j <= i
      BY <2>2, <2>3
    <2> QED
      BY <2>1, <2>4 DEF WillBePolled
  <1>4. ASSUME \A k \in Ops(p, w) : k <= d
        PROVE  WillBePolled(q, u, w) <=> InTable(u, w)
    <2>1. ASSUME NEW k \in Ops(q, w) PROVE FALSE
      <3>1. k \in Nat /\ k >= 1 /\ k + d <= d
        BY <1>1, <1>4
      <3> QED
        BY <3>1
    <2>2. Ops(q, w) = {}
      BY <2>1
    <2> QED
      BY <2>2 DEF WillBePolled
  <1> QED
    BY <1>3, <1>4

\* A wakeup, or an EXIT byte, says nothing about watches.
LEMMA LeadsLone ==
  ASSUME NEW p \in Seq(Items), NEW q \in Seq(Items), NEW t, NEW on,
         Dropped(p, q, 1), Leads(p, t, on), Len(p) >= 1,
         p[1] \in {Ctl(EXIT), Ctl(WAKEUP)}
  PROVE  Leads(q, t, on)
PROOF
  <1>1. p[1] # Ctl(ADD) /\ p[1] # Ctl(REMOVE)
    BY ItemFacts
  <1>2. Closed(p, 1)
    <2>1. \A k : ~ FieldOf(p, 1, k)
      BY <1>1 DEF FieldOf
    <2>2. \A j \in 1 .. 1 : j = 1
      OBVIOUS
    <2> QED
      BY <2>1, <2>2 DEF Closed
  <1>3. CASE Torn(p)
    BY <1>2, <1>3, DroppedTorn DEF Leads
  <1>4. CASE ~ Torn(p)
    <2>1. Whole(p)
      BY <1>4 DEF Leads
    <2>2. Whole(q)
      <3>1. Len(p) \in 1 .. Len(p) /\ Len(p) - 1 = Len(q) /\ 1 \in Nat
        BY LenProperties DEF Dropped
      <3>2. WholeTo(q, Len(p) - 1)
        BY <1>2, <2>1, <3>1, DroppedWhole DEF Whole
      <3> QED
        BY <3>1, <3>2 DEF Whole
    <2>3. ASSUME NEW w \in Watches
          PROVE  WillBePolled(q, t, w) <=> WillBePolled(p, t, w)
      <3>1. \A k \in Ops(p, w) : k \in Nat /\ k >= 1 /\ k # 1
        BY <1>1, LenProperties DEF Ops
      <3>2. \A k \in Ops(p, w) : k > 1
        BY <3>1
      <3>3. CASE Ops(p, w) = {}
        BY <3>3, DroppedPolled DEF WillBePolled
      <3>4. CASE Ops(p, w) # {}
        BY <3>2, <3>4, DroppedPolled
      <3> QED
        BY <3>3, <3>4
    <2> QED
      BY <1>4, <2>2, <2>3 DEF Leads
  <1> QED
    BY <1>3, <1>4

\* The first message is an addition or a removal with all its fields.
AddFirst(p) ==
  /\ Len(p) >= 4 /\ p[1] = Ctl(ADD)
  /\ p[2].kind = "fd" /\ p[3].kind = "flags" /\ p[4].kind = "watch"

RemoveFirst(p) ==
  /\ Len(p) >= 3 /\ p[1] = Ctl(REMOVE)
  /\ p[2].kind = "fd" /\ p[3].kind = "flags"

\* Then it is about a watch, and whole.
LEMMA FirstMessage ==
  ASSUME NEW p \in Seq(Items), NEW t, NEW on, Leads(p, t, on),
         AddFirst(p) \/ RemoveFirst(p)
  PROVE  \E w \in Watches :
           /\ p[2] = FdItem /\ p[3] = FlagsItem(w)
           /\ AddFirst(p) => p[4] = PtrItem(w)
PROOF
  <1>1. Len(p) \in Nat /\ Len(p) >= 3 /\ DOMAIN p = 1 .. Len(p)
    BY LenProperties DEF AddFirst, RemoveFirst
  <1>2. p[1] \in {Ctl(ADD), Ctl(REMOVE)} /\ (AddFirst(p) => p[1] = Ctl(ADD))
    BY DEF AddFirst, RemoveFirst
  <1>3. ASSUME NEW n \in Nat, n >= 1, WholeTo(p, n)
        PROVE  \E w \in Watches :
                 /\ p[2] = FdItem /\ p[3] = FlagsItem(w)
                 /\ p[1] = Ctl(ADD) => p[4] = PtrItem(w)
    <2>1. 1 \in 1 .. n /\ 1 + 1 = 2 /\ 1 + 2 = 3 /\ 1 + 3 = 4
      BY <1>3
    <2> QED
      BY <1>2, <1>3, <2>1 DEF WholeTo
  <1>4. CASE Torn(p)
    <2>1. PICK j \in 1 .. Len(p), k \in 1 .. Len(p) :
                 WholeTo(p, j - 1) /\ FieldOf(p, j, k) /\ p[k] = Ctl(EXIT)
      BY <1>1, <1>4 DEF Torn
    <2>2. ASSUME j = 1 PROVE FALSE
      <3>1. p[k].kind = "ctl"
        BY <2>1, ItemFacts
      <3>2. CASE AddFirst(p)
        <4>1. k = 2 \/ k = 3 \/ k = 4
          BY <2>1, <2>2, <3>2, ItemFacts DEF FieldOf, AddFirst
        <4> QED
          BY <3>1, <3>2, <4>1 DEF AddFirst
      <3>3. CASE RemoveFirst(p)
        <4>1. k = 2 \/ k = 3
          BY <2>1, <2>2, <3>3, ItemFacts DEF FieldOf, RemoveFirst
        <4> QED
          BY <3>1, <3>3, <4>1 DEF RemoveFirst
      <3> QED
        BY <3>2, <3>3
    <2>3. j - 1 \in Nat /\ j - 1 >= 1
      BY <1>1, <2>2
    <2> QED
      BY <1>2, <1>3, <2>1, <2>3
  <1>5. CASE Whole(p)
    BY <1>1, <1>2, <1>3, <1>5 DEF Whole
  <1> QED
    BY <1>4, <1>5 DEF Leads

\* Nothing beyond it belongs to it, and it holds no EXIT byte.
LEMMA FirstClosed ==
  ASSUME NEW p \in Seq(Items)
  PROVE  (AddFirst(p) => Closed(p, 4)) /\ (RemoveFirst(p) => Closed(p, 3))
PROOF
  <1>1. ASSUME NEW j, p[j].kind # "ctl"
        PROVE  \A k : ~ FieldOf(p, j, k)
    BY <1>1, ItemFacts DEF FieldOf
  <1>2. ASSUME AddFirst(p) PROVE Closed(p, 4)
    <2>1. \A j \in 1 .. 4 : j = 1 \/ j = 2 \/ j = 3 \/ j = 4
      OBVIOUS
    <2>2. \A k : ~ FieldOf(p, 2, k) /\ ~ FieldOf(p, 3, k) /\ ~ FieldOf(p, 4, k)
      BY <1>1, <1>2 DEF AddFirst
    <2>3. ASSUME NEW k \in Nat, FieldOf(p, 1, k) PROVE k <= 4 /\ p[k] # Ctl(EXIT)
      <3>1. k = 2 \/ k = 3 \/ k = 4
        BY <1>2, <2>3, ItemFacts DEF FieldOf, AddFirst
      <3>2. k <= 4
        BY <3>1
      <3> QED
        BY <1>2, <3>1, <3>2, ItemFacts DEF AddFirst
    <2> QED
      BY <2>1, <2>2, <2>3 DEF Closed
  <1>3. ASSUME RemoveFirst(p) PROVE Closed(p, 3)
    <2>1. \A j \in 1 .. 3 : j = 1 \/ j = 2 \/ j = 3
      OBVIOUS
    <2>2. \A k : ~ FieldOf(p, 2, k) /\ ~ FieldOf(p, 3, k)
      BY <1>1, <1>3 DEF RemoveFirst
    <2>3. ASSUME NEW k \in Nat, FieldOf(p, 1, k) PROVE k <= 3 /\ p[k] # Ctl(EXIT)
      <3>1. k = 2 \/ k = 3
        BY <1>3, <2>3, ItemFacts DEF FieldOf, RemoveFirst
      <3>2. k <= 3
        BY <3>1
      <3> QED
        BY <1>3, <3>1, <3>2, ItemFacts DEF RemoveFirst
    <2> QED
      BY <2>1, <2>2, <2>3 DEF Closed
  <1> QED
    BY <1>2, <1>3

\* The first message is handled with the table t, which leaves u: the watch
\* w it is about is in u as the message said, or is lost to a failed growth;
\* the others are as they were.
LEMMA LeadsHandled ==
  ASSUME NEW p \in Seq(Items), NEW q \in Seq(Items), NEW t, NEW u, NEW on,
         NEW d \in {3, 4}, NEW w \in Watches, Dropped(p, q, d), Leads(p, t, on),
         \/ d = 4 /\ AddFirst(p)
         \/ d = 3 /\ RemoveFirst(p),
         p[2] = FdItem, p[3] = FlagsItem(w),
         p[1] = Ctl(REMOVE) => ~ InTable(u, w),
         p[1] = Ctl(ADD) => AllocFails \/ InTable(u, w),
         \A v \in Watches \ {w} : InTable(t, v) <=> InTable(u, v)
  PROVE  Leads(q, u, on)
PROOF
  <1>1. Closed(p, d) /\ d \in Nat
    BY FirstClosed
  <1>2. /\ Len(p) \in Nat /\ Len(p) >= 3 /\ Len(p) >= d
        /\ p[1] \in {Ctl(ADD), Ctl(REMOVE)}
    BY LenProperties DEF AddFirst, RemoveFirst
  <1>3. CASE Torn(p)
    BY <1>1, <1>3, DroppedTorn DEF Leads
  <1>4. CASE ~ Torn(p)
    <2>1. /\ Whole(p)
          /\ \A v \in Watches :
               /\ WillBePolled(p, t, v) => v \in on
               /\ v \in on => AllocFails \/ WillBePolled(p, t, v)
      BY <1>4 DEF Leads
    <2>2. Whole(q)
      <3>1. Len(p) \in d .. Len(p) /\ Len(p) - d = Len(q)
        BY <1>1, <1>2 DEF Dropped
      <3>2. WholeTo(q, Len(p) - d)
        BY <1>1, <2>1, <3>1, DroppedWhole DEF Whole
      <3> QED
        BY <3>1, <3>2 DEF Whole
    <2>3. 1 \in Ops(p, w)
      <3>1. 1 \in 1 .. Len(p) - 2 /\ 1 + 1 = 2 /\ 1 + 2 = 3
        BY <1>2
      <3> QED
        BY <1>2, <3>1 DEF Ops
    <2>4. ASSUME NEW v \in Watches, NEW k \in Ops(p, v), k <= d
          PROVE  k = 1 /\ v = w
      <3>1. k \in Nat /\ k >= 1 /\ p[k] \in {Ctl(ADD), Ctl(REMOVE)}
            /\ p[k + 2] = FlagsItem(v)
        BY <1>2 DEF Ops
      <3>2. k = 1 \/ k = 2 \/ k = 3 \/ (k = 4 /\ d = 4)
        BY <2>4, <3>1
      <3>3. p[2].kind # "ctl" /\ p[3].kind # "ctl" /\ (d = 4 => p[4].kind # "ctl")
        BY DEF AddFirst, RemoveFirst
      <3>4. p[k].kind = "ctl"
        BY <3>1, ItemFacts
      <3>5. k = 1
        BY <3>2, <3>3, <3>4
      <3>6. 1 + 2 = 3
        OBVIOUS
      <3> QED
        BY <3>1, <3>5, <3>6, ItemFacts
    <2>5. \A v \in Watches : \A k \in Ops(p, v) : k \in Nat
      BY <1>2 DEF Ops
    <2>6. ASSUME NEW v \in Watches
          PROVE  /\ WillBePolled(q, u, v) => v \in on
                 /\ v \in on => AllocFails \/ WillBePolled(q, u, v)
      <3>1. CASE \E k \in Ops(p, v) : k > d
        BY <1>1, <2>1, <3>1, DroppedPolled
      <3>2. CASE \A k \in Ops(p, v) : k <= d
        <4>1. WillBePolled(q, u, v) <=> InTable(u, v)
          BY <1>1, <3>2, DroppedPolled
        <4>2. CASE v # w
          <5>1. Ops(p, v) = {}
            BY <2>4, <3>2, <4>2
          <5> QED
            BY <2>1, <4>1, <4>2, <5>1 DEF WillBePolled
        <4>3. CASE v = w
          <5>1. \A k \in Ops(p, v) : k = 1
            BY <2>4, <3>2
          <5>2. 1 <= 1
            OBVIOUS
          <5>3. WillBePolled(p, t, v) <=> p[1] = Ctl(ADD)
            BY <2>3, <4>3, <5>1, <5>2 DEF WillBePolled
          <5>4. Ctl(ADD) # Ctl(REMOVE)
            BY ItemFacts
          <5>5. CASE p[1] = Ctl(ADD)
            BY <2>1, <4>1, <4>3, <5>3, <5>5
          <5>6. CASE p[1] = Ctl(REMOVE)
            <6>1. ~ WillBePolled(q, u, v) /\ ~ WillBePolled(p, t, v)
              BY <4>1, <4>3, <5>3, <5>4, <5>6
            <6> QED
              BY <2>1, <6>1
          <5> QED
            BY <1>2, <5>5, <5>6
        <4> QED
          BY <4>2, <4>3
      <3> QED
        BY <1>1, <2>5, <3>1, <3>2
    <2> QED
      BY <2>2, <2>6 DEF Leads
  <1> QED
    BY <1>3, <1>4

-----------------------------------------------------------------------------
(* What the handlers do to the table.                                      *)

\* The poll events of the two watches differ.
LEMMA EventsApart ==
  \A v, w \in Watches :
    dbus_flags_to_unix_events(FlagsOf(v)) = dbus_flags_to_unix_events(FlagsOf(w)) => v = w
PROOF
  <1>1. dbus_flags_to_unix_events(1) = 1
    BY DEF dbus_flags_to_unix_events, Bit, Has, POLLIN, POLLOUT, POLLERR, POLLHUP,
           DBUS_WATCH_READABLE, DBUS_WATCH_WRITABLE, DBUS_WATCH_ERROR, DBUS_WATCH_HANGUP
  <1>2. dbus_flags_to_unix_events(2) = 0
    BY DEF dbus_flags_to_unix_events, Bit, Has, POLLIN, POLLOUT, POLLERR, POLLHUP,
           DBUS_WATCH_READABLE, DBUS_WATCH_WRITABLE, DBUS_WATCH_ERROR, DBUS_WATCH_HANGUP
  <1>3. /\ FlagsOf(Rd) = 1 /\ FlagsOf(Wr) = 2 /\ Watches = {Rd, Wr}
    BY WatchesAssumption DEF FlagsOf, Watches, DBUS_WATCH_READABLE, DBUS_WATCH_WRITABLE
  <1> QED
    BY <1>1, <1>2, <1>3

\* The slot of a watch is found where the watch is in the table.
LEMMA SlotOfWatch ==
  ASSUME table \in Seq(Slots), ControlSlotFirst, WatchSlots, NEW w \in Watches,
         NEW k \in Positions(table, BusFd, dbus_flags_to_unix_events(FlagsOf(w)))
  PROVE  k \in Nat /\ k > 1 /\ k <= Len(table) /\ k \in DOMAIN table /\ table[k].watch = w
PROOF
  <1>1. /\ Len(table) \in Nat /\ DOMAIN table = 1 .. Len(table)
        /\ k \in 1 .. Len(table) /\ table[k].fd = BusFd
        /\ table[k].events = dbus_flags_to_unix_events(FlagsOf(w))
    BY LenProperties DEF Positions
  <1>2. k # 1
    <2>1. table # << >>
      BY <1>1
    <2> QED
      BY <1>1, <2>1, ConstantTypes DEF ControlSlotFirst
  <1>3. k \in Nat /\ k > 1 /\ k <= Len(table)
    BY <1>1, <1>2
  <1>4. /\ table[k].watch \in Watches
        /\ table[k].events = dbus_flags_to_unix_events(FlagsOf(table[k].watch))
    BY <1>1, <1>3 DEF WatchSlots
  <1> QED
    BY <1>1, <1>3, <1>4, EventsApart

\* handleWatchAdd: the watch is in the table, or the growth failed.
LEMMA PlacedWatch ==
  ASSUME table \in Seq(Slots), ControlSlotFirst, WatchSlots, NEW w \in Watches,
         NEW slot \in Slots,
         slot = NewSlot(BusFd, dbus_flags_to_unix_events(FlagsOf(w)), w), Place(slot)
  PROVE  /\ WatchSlots'
         /\ AllocFails \/ InTable(table', w)
         /\ \A v \in Watches \ {w} : InTable(table, v) <=> InTable(table', v)
PROOF
  <1>1. /\ slot.fd = BusFd /\ slot.events = dbus_flags_to_unix_events(FlagsOf(w))
        /\ slot.watch = w
    BY DEF NewSlot
  <1>2. CASE Positions(table, slot.fd, slot.events) # {}
    <2>1. PICK k \in Positions(table, slot.fd, slot.events) : TRUE
      BY <1>2
    <2>2. k \in DOMAIN table /\ table[k].watch = w
      BY <1>1, SlotOfWatch
    <2>3. InTable(table, w)
      BY <1>1, <2>1, <2>2 DEF InTable, Positions
    <2>4. table' = table
      BY <1>2 DEF Place, natVars
    <2> QED
      BY <2>3, <2>4 DEF WatchSlots
  <1>3. CASE Positions(table, slot.fd, slot.events) = {}
    <2>1. table' = Append(table, slot) \/ (AllocFails /\ table' = table)
      BY <1>3 DEF Place, Grow, natVars
    <2>2. CASE table' = table /\ AllocFails
      BY <2>2 DEF WatchSlots
    <2>3. CASE table' = Append(table, slot)
      <3>1. /\ Len(table) \in Nat /\ DOMAIN table = 1 .. Len(table)
            /\ DOMAIN table' = 1 .. (Len(table) + 1)
            /\ \A k \in 1 .. Len(table) : table'[k] = table[k]
            /\ table'[Len(table) + 1] = slot
        BY <2>3, AppendProperties, LenProperties
      <3>2. \A k \in 1 .. (Len(table) + 1) : k \in 1 .. Len(table) \/ k = Len(table) + 1
        BY <3>1
      <3>3. Len(table) + 1 \in 1 .. (Len(table) + 1) /\ 1 .. Len(table) \subseteq 1 .. (Len(table) + 1)
        BY <3>1
      <3>4. WatchSlots'
        <4>1. ASSUME NEW k \in 1 .. (Len(table) + 1), k > 1
              PROVE  /\ table'[k].watch \in Watches
                     /\ table'[k].events = dbus_flags_to_unix_events(FlagsOf(table'[k].watch))
          BY <1>1, <3>1, <3>2, <4>1 DEF WatchSlots
        <4> QED
          BY <3>1, <4>1 DEF WatchSlots
      <3>5. InTable(table', w)
        BY <1>1, <3>1, <3>3 DEF InTable
      <3>6. ASSUME NEW v \in Watches \ {w}
            PROVE  InTable(table, v) <=> InTable(table', v)
        BY <1>1, <3>1, <3>2, <3>3 DEF InTable
      <3> QED
        BY <3>4, <3>5, <3>6
    <2> QED
      BY <2>1, <2>2, <2>3
  <1> QED
    BY <1>2, <1>3

\* handleWatchRemove: the watch is not in the table any more.
LEMMA RemovedWatch ==
  ASSUME table \in Seq(Slots), ControlSlotFirst, WatchSlots, NEW w \in Watches,
         NEW found, found = Positions(table, BusFd, dbus_flags_to_unix_events(FlagsOf(w))),
         table' = IF found = {} THEN table ELSE RemoveSlot(table, First(found))
  PROVE  /\ WatchSlots'
         /\ ~ InTable(table', w)
         /\ \A v \in Watches \ {w} : InTable(table, v) <=> InTable(table', v)
PROOF
  <1>1. CASE found = {}
    <2>1. table' = table
      BY <1>1
    <2>2. ~ InTable(table, w)
      BY <1>1 DEF InTable, Positions
    <2> QED
      BY <2>1, <2>2 DEF WatchSlots
  <1>2. CASE found # {}
    <2>1. PICK k \in found : TRUE
      BY <1>2
    <2>2. First(found) = k
      <3>1. DOMAIN table \subseteq Nat /\ DistinctKeys(table)
        BY LenProperties DEF ControlSlotFirst
      <3> QED
        BY <2>1, <3>1, FirstFound
    <2>3. /\ k \in Nat /\ k > 1 /\ k <= Len(table) /\ k \in DOMAIN table
          /\ table[k].watch = w
      BY <2>1, SlotOfWatch
    <2>4. /\ table[k].fd = BusFd /\ table[k].events = dbus_flags_to_unix_events(FlagsOf(w))
      BY <2>1 DEF Positions
    <2>5. PICK n \in Nat : n = Len(table) /\ n >= 2
      BY <2>3, LenProperties
    <2>6. DOMAIN table = 1 .. n
      BY <2>5, LenProperties
    <2>7. /\ DOMAIN table' = 1 .. (n - 1)
          /\ \A j \in 1 .. (n - 1) : table'[j] = IF j = k THEN table[n] ELSE table[j]
      <3>1. table' = RemoveSlot(table, k)
        BY <1>2, <2>2
      <3>2. /\ DOMAIN RemoveSlot(table, k) = 1 .. (Len(table) - 1)
            /\ \A j \in 1 .. (Len(table) - 1) :
                 RemoveSlot(table, k)[j] = IF j = k THEN table[Len(table)] ELSE table[j]
        BY <2>3, RemoveSlotProperties
      <3> QED
        BY <2>5, <3>1, <3>2
    <2>8. \A j \in 1 .. (n - 1) :
            \E i \in 1 .. n : i # k /\ (j > 1 => i > 1) /\ table'[j] = table[i]
      <3>1. ASSUME NEW j \in 1 .. (n - 1)
            PROVE  \E i \in 1 .. n : i # k /\ (j > 1 => i > 1) /\ table'[j] = table[i]
        <4>1. CASE j = k
          <5>1. n \in 1 .. n /\ n # k /\ n > 1
            BY <2>5, <4>1
          <5> QED
            BY <2>7, <4>1, <5>1
        <4>2. CASE j # k
          <5>1. j \in 1 .. n
            BY <2>5
          <5> QED
            BY <2>7, <4>2, <5>1
        <4> QED
          BY <4>1, <4>2
      <3> QED
        BY <3>1
    <2>9. \A i \in 1 .. n : i # k => \E j \in 1 .. (n - 1) : table'[j] = table[i]
      <3>1. ASSUME NEW i \in 1 .. n, i # k
            PROVE  \E j \in 1 .. (n - 1) : table'[j] = table[i]
        <4>1. CASE i = n
          <5>1. k \in 1 .. (n - 1)
            BY <2>3, <2>5, <3>1, <4>1
          <5> QED
            BY <2>7, <4>1, <5>1
        <4>2. CASE i # n
          <5>1. i \in 1 .. (n - 1)
            BY <2>5, <4>2
          <5> QED
            BY <2>7, <3>1, <5>1
        <4> QED
          BY <4>1, <4>2
      <3> QED
        BY <3>1
    <2>10. WatchSlots'
      BY <2>6, <2>7, <2>8 DEF WatchSlots
    <2>11. ~ InTable(table', w)
      <3>1. ASSUME NEW j \in 1 .. (n - 1), table'[j].fd = BusFd,
                   table'[j].events = dbus_flags_to_unix_events(FlagsOf(w))
            PROVE  FALSE
        <4>1. PICK i \in 1 .. n : i # k /\ table'[j] = table[i]
          BY <2>8
        <4>2. i \in DOMAIN table /\ k \in DOMAIN table /\ table[i].fd = table[k].fd
              /\ table[i].events = table[k].events
          BY <2>3, <2>4, <2>6, <3>1, <4>1
        <4> QED
          BY <4>1, <4>2 DEF ControlSlotFirst, DistinctKeys
      <3> QED
        BY <2>7, <3>1 DEF InTable
    <2>12. ASSUME NEW v \in Watches \ {w}
           PROVE  InTable(table, v) <=> InTable(table', v)
      <3>1. ASSUME InTable(table', v) PROVE InTable(table, v)
        <4>1. PICK j \in 1 .. (n - 1) :
                /\ table'[j].fd = BusFd /\ table'[j].watch = v
                /\ table'[j].events = dbus_flags_to_unix_events(FlagsOf(v))
          BY <2>7, <3>1 DEF InTable
        <4>2. PICK i \in 1 .. n : table'[j] = table[i]
          BY <2>8
        <4>3. i \in DOMAIN table
          BY <2>6
        <4> QED
          BY <4>1, <4>2, <4>3 DEF InTable
      <3>2. ASSUME InTable(table, v) PROVE InTable(table', v)
        <4>1. PICK i \in 1 .. n :
                /\ table[i].fd = BusFd /\ table[i].watch = v
                /\ table[i].events = dbus_flags_to_unix_events(FlagsOf(v))
          BY <2>6, <3>2 DEF InTable
        <4>2. i # k
          BY <2>3, <4>1
        <4> QED
          BY <2>7, <2>9, <4>1, <4>2 DEF InTable
      <3> QED
        BY <3>1, <3>2
    <2> QED
      BY <2>10, <2>11, <2>12
  <1> QED
    BY <1>1, <1>2

\* Setting or clearing revents changes no watch.
SameWatches(u, t) ==
  /\ DOMAIN u = DOMAIN t
  /\ \A k \in DOMAIN t :
       u[k].fd = t[k].fd /\ u[k].events = t[k].events /\ u[k].watch = t[k].watch

LEMMA RoundWatches ==
  ASSUME table \in Seq(Slots), NEW i,
         \/ table' = [table EXCEPT ![i].revents = 0]
         \/ table' = [k \in DOMAIN table |->
                        [table[k] EXCEPT !.revents = Revents(table[k])]]
  PROVE  SameWatches(table', table)
PROOF
  <1>1. \A k \in DOMAIN table : table[k] \in Slots
    BY LenProperties, ElementOfSeq
  <1>2. \A s \in Slots : \A r :
          LET x == [s EXCEPT !.revents = r]
          IN  x.fd = s.fd /\ x.events = s.events /\ x.watch = s.watch
    BY DEF Slots, SlotSet
  <1>3. CASE table' = [k \in DOMAIN table |->
                        [table[k] EXCEPT !.revents = Revents(table[k])]]
    BY <1>1, <1>2, <1>3 DEF SameWatches
  <1>4. CASE table' = [table EXCEPT ![i].revents = 0]
    <2>1. /\ DOMAIN table' = DOMAIN table
          /\ \A k \in DOMAIN table :
               table'[k] = IF k = i THEN [table[k] EXCEPT !.revents = 0] ELSE table[k]
      BY <1>4
    <2>2. ASSUME NEW k \in DOMAIN table
          PROVE  /\ table'[k].fd = table[k].fd /\ table'[k].events = table[k].events
                 /\ table'[k].watch = table[k].watch
      <3>1. CASE k = i
        <4>1. table'[k] = [table[k] EXCEPT !.revents = 0] /\ table[k] \in Slots
          BY <1>1, <2>1, <3>1
        <4> QED
          BY <1>2, <4>1
      <3>2. CASE k # i
        BY <2>1, <3>2
      <3> QED
        BY <3>1, <3>2
    <2> QED
      BY <2>1, <2>2 DEF SameWatches
  <1> QED
    BY <1>3, <1>4

LEMMA SameWatchesAlike ==
  ASSUME SameWatches(table', table)
  PROVE  /\ WatchSlots => WatchSlots'
         /\ \A w \in Watches : InTable(table, w) <=> InTable(table', w)
PROOF
  BY DEF SameWatches, WatchSlots, InTable

-----------------------------------------------------------------------------
(* The steps.                                                              *)

\* Where a start has just made the table, and the loop has not used it.
FreshTable ==
  loop \in {"hook", "wakehook", "started"} \/ \E c \in Clients : pc[c] = "setup"

FreshSocket == loop = "hook" \/ \E c \in Clients : pc[c] = "setup"

\* Where the loop can read the next control byte, or is about to end.
Between ==
  {"wakehook", "started", "scan", "drain", "handle", "dispatch", "poll", "unhook"}

LEMMA BetweenHands ==
  ASSUME loop' = loop \/ (loop \in Between /\ loop' \in Between)
  PROVE  InHand' = InHand
PROOF
  BY DEF Between, InHand

\* Steps that write nothing and read nothing.
LEMMA QuietStep ==
  ASSUME SyncInv, SameWatches(table', table),
         FreshTable' => FreshTable /\ UNCHANGED table, FreshSocket' => FreshSocket,
         UNCHANGED <<stream, items, owner, hooked, enabled>>,
         fault' = "none" => fault = "none",
         loop' = loop \/ (loop \in Between /\ loop' \in Between)
  PROVE  SyncInv'
PROOF
  <1>1. Calls'
    BY DEF SyncInv, Calls, Wakeups, Between
  <1>2. Fresh'
    BY DEF SyncInv, Fresh, FreshTable, FreshSocket, ControlSlot
  <1>3. WatchSlots'
    BY SameWatchesAlike DEF SyncInv
  <1>4. Following'
    <2> SUFFICES ASSUME hooked', fault' = "none" PROVE Leads(Pending', table', enabled')
      BY DEF Following
    <2>1. Leads(Pending, table, enabled)
      BY DEF SyncInv, Following
    <2>2. Pending' = Pending
      BY BetweenHands DEF Pending
    <2>3. \A w \in Watches : InTable(table, w) <=> InTable(table', w)
      BY SameWatchesAlike
    <2>4. Leads(Pending, table', enabled)
      BY <2>1, <2>3, LeadsAlike
    <2> QED
      BY <2>2, <2>4
  <1> QED
    BY <1>1, <1>2, <1>3, <1>4 DEF SyncInv

\* Without the watch functions only wakeups are written.
LEMMA LibraryWakes ==
  ASSUME ~ hooked, NEW t,
         ReadMessages(t) \/ Disconnect(t) \/ Flush(t) \/ QueueOutgoing(t)
  PROVE  Wakeups(items')
PROOF
  <1>1. Wakeups(<< >>) /\ Wakeups(dbusWakeup)
    BY DEF Wakeups, dbusWakeup
  <1>2. << >> \o dbusWakeup = dbusWakeup
    BY MessagesTyped, ConcatEmptySeq
  <1>3. items' = dbusWakeup \/ items' = << >> \/ items' = << >> \o dbusWakeup
    BY DEF ReadMessages, Disconnect, Flush, QueueOutgoing, Call, Hooked
  <1> QED
    BY <1>1, <1>2, <1>3

\* Uses of the connection, by a client or by the loop.
LEMMA CallStep ==
  ASSUME BusTypes, stream \in Seq(Items), SyncInv, NEW t \in Threads,
         ReadMessages(t) \/ Disconnect(t) \/ Flush(t) \/ QueueOutgoing(t),
         SameWatches(table', table), UNCHANGED <<stream, fault>>,
         FreshTable' => FreshTable /\ UNCHANGED table, FreshSocket' => FreshSocket,
         loop' = loop \/ (loop \in Between /\ loop' \in Between),
         t = Loop => loop' \notin {"none", "hook", "done"}
  PROVE  SyncInv'
PROOF
  <1>1. /\ hooked' = hooked /\ owner = NoOne
        /\ owner' = IF items' = << >> THEN NoOne ELSE t
    BY DEF ReadMessages, Disconnect, Flush, QueueOutgoing, Call, busVars
  <1>2. items = << >> /\ t # NoOne
    BY <1>1, ClientsAssumption DEF SyncInv, Calls, Threads
  <1>3. Calls'
    <2>1. ~ hooked => Wakeups(items')
      BY LibraryWakes
    <2>2. hooked' <=> loop' \notin {"none", "hook", "teardown", "done"}
      BY <1>1 DEF SyncInv, Calls, Between
    <2>3. owner' = NoOne <=> items' = << >>
      BY <1>1, <1>2
    <2>4. owner' = Loop => loop' \notin {"none", "hook", "done"}
      BY <1>1, ClientsAssumption
    <2> QED
      BY <1>1, <2>1, <2>2, <2>3, <2>4 DEF Calls
  <1>4. Fresh'
    BY DEF SyncInv, Fresh, FreshTable, FreshSocket, ControlSlot
  <1>5. WatchSlots'
    BY SameWatchesAlike DEF SyncInv
  <1>6. Following'
    <2> SUFFICES ASSUME hooked', fault' = "none" PROVE Leads(Pending', table', enabled')
      BY DEF Following
    <2>1. hooked /\ Leads(Pending, table, enabled)
      BY <1>1 DEF SyncInv, Following
    <2>2. PICK A \in SUBSET Watches :
            /\ Says(items', A, enabled')
            /\ \A w \in Watches \ A : w \in enabled' <=> w \in enabled
      BY <2>1, LibrarySays
    <2>3. items' \in Seq(Items) /\ InHand' = InHand
      BY <2>2, BetweenHands DEF Says
    <2>4. Pending' = Pending \o items'
      BY <1>2, <2>3, PendingCalled
    <2>5. Pending \in Seq(Items)
      BY <1>2, PendingTyped DEF BusTypes
    <2>6. Leads(Pending \o items', table, enabled')
      BY <2>1, <2>2, <2>5, LeadsCalled
    <2>7. \A w \in Watches : InTable(table, w) <=> InTable(table', w)
      BY SameWatchesAlike
    <2> QED
      BY <2>4, <2>6, <2>7, LeadsAlike
  <1> QED
    BY <1>3, <1>4, <1>5, <1>6 DEF SyncInv

\* One write of a callback.
LEMMA WriteStep ==
  ASSUME TypeOK, TypeOK', Lifecycle, SyncInv, NEW t \in Threads, WriteControl(t)
  PROVE  SyncInv'
PROOF
  <1>1. /\ owner = t /\ items # << >> /\ items' = Tail(items)
        /\ owner' = IF items' = << >> THEN NoOne ELSE t
        /\ UNCHANGED <<table, hooked, enabled, loop, pc>>
    BY DEF WriteControl, natVars, busVars
  <1>2. stream \in Seq(Items) /\ items \in Seq(Items) /\ t # NoOne
    BY ClientsAssumption DEF TypeOK, FieldTypes, BusTypes, Threads
  <1>3. /\ Head(items) = items[1] /\ Len(items') = Len(items) - 1 /\ Len(items) \in Nat
        /\ Len(items) >= 1
        /\ \A k \in 1 .. Len(items') : items'[k] = items[k + 1]
        /\ DOMAIN items = 1 .. Len(items) /\ DOMAIN items' = 1 .. Len(items')
        /\ Head(items) \in Items
    BY <1>1, <1>2, HeadTailProperties, LenProperties, EmptySeq
  <1>4. Wakeups(items) => Wakeups(items') /\ Head(items) = Ctl(WAKEUP)
    <2>1. 1 \in DOMAIN items /\ \A k \in DOMAIN items' : k + 1 \in DOMAIN items
      BY <1>3
    <2> QED
      BY <1>3, <2>1 DEF Wakeups
  <1>5. Calls'
    <2>1. owner' = NoOne <=> items' = << >>
      BY <1>1, <1>2
    <2>2. owner' = Loop => loop' \notin {"none", "hook", "done"}
      BY <1>1, ClientsAssumption DEF SyncInv, Calls
    <2>3. ~ hooked' /\ ~ (loop' = "teardown" /\ owner' = Loop) => Wakeups(items')
      <3>1. CASE items' = << >>
        BY <3>1 DEF Wakeups
      <3>2. CASE items' # << >>
        BY <1>1, <1>4, <3>2 DEF SyncInv, Calls
      <3> QED
        BY <3>1, <3>2
    <2> QED
      BY <1>1, <2>1, <2>2, <2>3 DEF SyncInv, Calls
  <1>6. stream' = stream \/ stream' = Append(stream, Head(items))
    BY DEF WriteControl
  <1>7. Fresh'
    <2>1. ASSUME FreshSocket
          PROVE  \A k \in DOMAIN stream' : stream'[k] \in {Ctl(WAKEUP), Ctl(EXIT)}
      <3>1. \A k \in DOMAIN stream : stream[k] \in {Ctl(WAKEUP), Ctl(EXIT)}
        BY <2>1 DEF SyncInv, Fresh, FreshSocket
      <3>2. loop \in {"none", "hook"}
        BY <2>1 DEF FreshSocket, Lifecycle
      <3>3. Head(items) = Ctl(WAKEUP)
        BY <1>4, <3>2 DEF SyncInv, Calls
      <3>4. CASE stream' = stream
        BY <3>1, <3>4
      <3>5. CASE stream' = Append(stream, Head(items))
        <4>1. /\ DOMAIN stream' = 1 .. (Len(stream) + 1) /\ Len(stream) \in Nat
              /\ DOMAIN stream = 1 .. Len(stream)
              /\ \A k \in 1 .. Len(stream) : stream'[k] = stream[k]
              /\ stream'[Len(stream) + 1] = Head(items)
          BY <1>2, <1>3, <3>5, AppendProperties, LenProperties
        <4>2. \A k \in 1 .. (Len(stream) + 1) : k \in 1 .. Len(stream) \/ k = Len(stream) + 1
          BY <4>1
        <4> QED
          BY <3>1, <3>3, <4>1, <4>2
      <3> QED
        BY <1>6, <3>4, <3>5
    <2> QED
      BY <1>1, <2>1 DEF SyncInv, Fresh, FreshSocket, ControlSlot
  <1>8. WatchSlots'
    BY <1>1 DEF SyncInv, WatchSlots
  <1>9. Following'
    <2> SUFFICES ASSUME hooked', fault' = "none" PROVE Leads(Pending', table', enabled')
      BY DEF Following
    <2>1. Allocated
      BY <1>1 DEF Lifecycle, SyncInv, Calls
    <2>2. stream' = Append(stream, Head(items)) /\ fault = "none"
      <3>1. controlFdW # 0 /\ CtlR \in open
        BY <2>1, ConstantTypes DEF Allocated
      <3> QED
        BY <3>1 DEF WriteControl
    <2>3. Pending' = Pending
      BY <1>1, <1>2, <2>2, PendingWritten
    <2>4. Leads(Pending, table, enabled)
      BY <1>1, <2>2 DEF SyncInv, Following
    <2> QED
      BY <1>1, <2>3, <2>4
  <1> QED
    BY <1>5, <1>7, <1>8, <1>9 DEF SyncInv

\* What stopEventLoop writes.
LEMMA StopStep ==
  ASSUME TypeOK, TypeOK', Lifecycle, StopRequests, SyncInv, NEW c \in Clients, StopWrite(c)
  PROVE  SyncInv'
PROOF
  <1>1. /\ stream' = Append(stream, Ctl(EXIT)) /\ pc' = [pc EXCEPT ![c] = "join"]
        /\ pc[c] = "exit" /\ pc \in [Clients -> PcStates]
        /\ UNCHANGED <<table, loop, owner, items, hooked, enabled, fault>>
    BY DEF StopWrite, ClientOnly, natVars, busVars, callVars, TypeOK, FieldTypes
  <1>2. /\ stream \in Seq(Items) /\ stream' \in Seq(Items) /\ items \in Seq(Items)
        /\ items \in Seq(Messages)
    BY DEF TypeOK, FieldTypes, BusTypes, StopRequests
  <1>3. \A d \in Clients : pc[d] # "join" /\ pc[d] # "setup"
    BY <1>1 DEF Lifecycle
  <1>4. \A k \in DOMAIN stream : stream[k] # Ctl(EXIT)
    BY <1>3 DEF StopRequests, ExitsIn
  <1>5. Calls' /\ WatchSlots'
    BY <1>1 DEF SyncInv, Calls, WatchSlots, Wakeups
  <1>6. Fresh'
    <2>1. FreshSocket' => loop = "hook"
      BY <1>1, <1>3 DEF FreshSocket
    <2>2. FreshTable' => FreshTable
      BY <1>1, <1>3 DEF FreshTable
    <2>3. ASSUME FreshSocket', NEW k \in DOMAIN stream'
          PROVE  stream'[k] \in {Ctl(WAKEUP), Ctl(EXIT)}
      <3>1. /\ DOMAIN stream' = 1 .. (Len(stream) + 1) /\ Len(stream) \in Nat
            /\ DOMAIN stream = 1 .. Len(stream)
            /\ \A j \in 1 .. Len(stream) : stream'[j] = stream[j]
            /\ stream'[Len(stream) + 1] = Ctl(EXIT)
        BY <1>1, <1>2, PartsTyped, AppendProperties, LenProperties
      <3>2. k \in 1 .. Len(stream) \/ k = Len(stream) + 1
        BY <3>1
      <3>3. \A j \in DOMAIN stream : stream[j] \in {Ctl(WAKEUP), Ctl(EXIT)}
        BY <2>1, <2>3 DEF SyncInv, Fresh
      <3> QED
        BY <3>1, <3>2, <3>3
    <2> QED
      BY <1>1, <2>2, <2>3 DEF SyncInv, Fresh, FreshSocket, FreshTable, ControlSlot
  <1>7. Following'
    <2> SUFFICES ASSUME hooked', fault' = "none" PROVE Leads(Pending', table', enabled')
      BY DEF Following
    <2>1. Leads(Pending, table, enabled)
      BY <1>1 DEF SyncInv, Following
    <2>2. Pending \in Seq(Items) /\ Pending' \in Seq(Items)
      <3>1. Pending \in Seq(Items) /\ InHand \in Seq(Items) /\ InHand' = InHand
        BY <1>1, <1>2, PendingTyped DEF InHand
      <3>2. InHand \o stream' \in Seq(Items)
        BY <1>2, <3>1, Behind
      <3>3. (InHand \o stream') \o items \in Seq(Items)
        BY <1>2, <3>2, Behind
      <3>4. Pending' = (InHand' \o stream') \o items'
        BY DEF Pending
      <3> QED
        BY <1>1, <3>1, <3>3, <3>4
    <2>3. PICK e \in 1 .. Len(Pending) + 1 : Inserted(Pending, Pending', e)
      BY <1>1, <1>2, PendingStopped
    <2>4. ~ Torn(Pending)
      <3>1. ASSUME NEW k \in 1 .. Len(Pending), Pending[k] = Ctl(EXIT) PROVE FALSE
        BY <1>2, <1>4, <3>1, ExitIsInSocket
      <3>2. DOMAIN Pending = 1 .. Len(Pending)
        BY <2>2, LenProperties
      <3> QED
        BY <3>1, <3>2 DEF Torn
    <2>5. Leads(Pending', table, enabled)
      BY <2>1, <2>2, <2>3, <2>4, LeadsStopped
    <2> QED
      BY <1>1, <2>5
  <1> QED
    BY <1>5, <1>6, <1>7 DEF SyncInv

\* Wakeups and EXIT bytes say nothing about watches.
LEMMA QuietSocket ==
  ASSUME NEW s \in Seq(Items), \A k \in DOMAIN s : s[k] \in {Ctl(WAKEUP), Ctl(EXIT)}
  PROVE  Whole(s) /\ \A w : Ops(s, w) = {}
PROOF
  <1>1. Len(s) \in Nat /\ DOMAIN s = 1 .. Len(s)
    BY LenProperties
  <1>2. \A k \in 1 .. Len(s) : s[k] \notin {Ctl(ADD), Ctl(REMOVE)} /\ s[k].kind = "ctl"
    BY <1>1, ItemFacts
  <1>3. \A k \in 1 .. Len(s) - 2 : k \in 1 .. Len(s)
    BY <1>1
  <1>4. \A w : Ops(s, w) = {}
    BY <1>2, <1>3 DEF Ops
  <1> QED
    BY <1>2, <1>4 DEF Whole, WholeTo

\* The watch functions are installed: everything is said.
LEMMA HookStep ==
  ASSUME TypeOK, TypeOK', Lifecycle, SyncInv, LoopHook
  PROVE  SyncInv'
PROOF
  <1>1. /\ loop = "hook" /\ loop' = "wakehook" /\ hooked' = TRUE /\ owner = NoOne
        /\ items' = AddAll /\ owner' = IF AddAll = << >> THEN NoOne ELSE Loop
        /\ UNCHANGED <<table, stream, pc, enabled, fault>>
    BY DEF LoopHook, At, Call, LoopFieldsUnchanged, natVars
  <1>2. /\ stream \in Seq(Items) /\ items \in Seq(Items) /\ enabled \subseteq Watches
        /\ items = << >>
    BY <1>1 DEF TypeOK, FieldTypes, BusTypes, SyncInv, Calls
  <1>3. Calls'
    <2>1. owner' = NoOne <=> items' = << >>
      BY <1>1, ClientsAssumption
    <2> QED
      BY <1>1, <2>1 DEF Calls
  <1>4. \A c \in Clients : pc[c] # "setup"
    BY <1>1 DEF Lifecycle
  <1>5. /\ table = <<ControlSlot>>
        /\ \A k \in DOMAIN stream : stream[k] \in {Ctl(WAKEUP), Ctl(EXIT)}
    BY <1>1 DEF SyncInv, Fresh
  <1>6. Fresh'
    BY <1>1, <1>4, <1>5 DEF Fresh, ControlSlot
  <1>7. WatchSlots'
    BY <1>1 DEF SyncInv, WatchSlots
  <1>8. Leads(stream, table, {})
    <2>1. \A w : ~ InTable(table, w)
      <3>1. DOMAIN table = {1} /\ table[1] = ControlSlot
        BY <1>5
      <3>2. BusFd # CtlR
        BY ConstantTypes
      <3> QED
        BY <3>1, <3>2, ControlSlotTyped DEF InTable
    <2> QED
      BY <1>2, <1>5, <2>1, QuietSocket DEF Leads, WillBePolled
  <1>9. Following'
    <2>1. Says(AddAll, enabled, enabled)
      BY <1>2, SaysAll
    <2>2. Leads(stream \o AddAll, table, enabled)
      BY <1>2, <1>8, <2>1, LeadsCalled
    <2>3. Pending' = stream \o AddAll
      <3>1. InHand' = << >> /\ << >> \o stream = stream
        BY <1>1, <1>2, ConcatEmptySeq DEF InHand
      <3>2. Pending' = (InHand' \o stream') \o items'
        BY DEF Pending
      <3> QED
        BY <1>1, <3>1, <3>2
    <2> QED
      BY <1>1, <2>2, <2>3 DEF Following
  <1> QED
    BY <1>3, <1>6, <1>7, <1>9 DEF SyncInv

\* The watch functions are taken away: everything is unsaid.
LEMMA UnhookStep ==
  ASSUME Lifecycle, SyncInv, LoopUnhook
  PROVE  SyncInv'
PROOF
  <1>1. /\ loop = "unhook" /\ loop' = "teardown" /\ hooked' = FALSE /\ owner = NoOne
        /\ owner' = IF items' = << >> THEN NoOne ELSE Loop
        /\ UNCHANGED <<table, stream, pc, enabled, fault>>
    BY DEF LoopUnhook, At, Call, LoopFieldsUnchanged, natVars
  <1>2. Calls'
    <2>1. owner' = NoOne <=> items' = << >>
      BY <1>1, ClientsAssumption
    <2>2. owner' = Loop \/ Wakeups(items')
      BY <1>1 DEF Wakeups
    <2> QED
      BY <1>1, <2>1, <2>2 DEF Calls
  <1>3. \A c \in Clients : pc[c] # "setup"
    BY <1>1 DEF Lifecycle
  <1>4. Fresh' /\ WatchSlots' /\ Following'
    BY <1>1, <1>3 DEF SyncInv, Fresh, WatchSlots, Following
  <1> QED
    BY <1>2, <1>4 DEF SyncInv

\* Steps without the watch functions that leave the callbacks alone.
LEMMA ColdStep ==
  ASSUME SyncInv, ~ hooked, UNCHANGED <<hooked, items, owner>>, owner # Loop,
         loop' \in {"none", "hook", "done"}, Fresh', WatchSlots'
  PROVE  SyncInv'
PROOF
  <1>1. Calls'
    BY DEF SyncInv, Calls, Wakeups
  <1> QED
    BY <1>1 DEF SyncInv, Following

\* The life of the table and the thread.
LEMMA LifeStep ==
  ASSUME TypeOK, Lifecycle, SyncInv,
         \/ \E c \in Clients : StartAlloc(c) \/ StartSetUp(c) \/ StopJoin(c)
         \/ LoopClose
  PROVE  SyncInv'
PROOF
  <1>1. pc \in [Clients -> PcStates]
    BY DEF TypeOK, FieldTypes
  <1>2. CASE LoopClose
    <2>1. /\ loop = "teardown" /\ loop' = "done" /\ owner # Loop
          /\ UNCHANGED <<table, stream, pc, hooked, items, owner>>
      BY <1>2 DEF LoopClose, At, natVars, busVars, callVars
    <2>2. \A c \in Clients : pc[c] # "setup"
      BY <2>1 DEF Lifecycle
    <2>3. Fresh' /\ WatchSlots'
      BY <2>1, <2>2 DEF SyncInv, Fresh, WatchSlots
    <2>4. ~ hooked
      BY <2>1 DEF SyncInv, Calls
    <2> QED
      BY <2>1, <2>3, <2>4, ColdStep
  <1>3. ASSUME NEW c \in Clients, StartAlloc(c) \/ StartSetUp(c) \/ StopJoin(c)
        PROVE  SyncInv'
    <2>1. /\ loop \in {"none", "done"} /\ loop' \in {"none", "hook"}
          /\ UNCHANGED <<hooked, items, owner>>
      BY <1>3 DEF StartAlloc, StartSetUp, StopJoin, Lifecycle, ClientOnly, busVars, callVars
    <2>2. ~ hooked /\ owner # Loop
      BY <2>1 DEF SyncInv, Calls
    <2>3. \A d \in Clients \ {c} : pc[d] = "idle" /\ pc'[d] = "idle"
      BY <1>1, <1>3 DEF StartAlloc, StartSetUp, StopJoin, RollBack, Lifecycle
    <2>4. CASE StartAlloc(c) /\ table' = <<ControlSlot>> /\ stream' = << >> /\ UNCHANGED loop
      <3>1. DOMAIN table' = {1} /\ DOMAIN stream' = {}
        BY <2>4
      <3>2. Fresh'
        BY <2>4, <3>1 DEF Fresh, ControlSlot
      <3>3. WatchSlots'
        BY <3>1 DEF WatchSlots
      <3> QED
        BY <2>1, <2>2, <3>2, <3>3, ColdStep
    <2>5. CASE StartSetUp(c) /\ UNCHANGED <<table, stream>> /\ loop' = "hook"
      <3>1. pc[c] = "setup"
        BY <2>5 DEF StartSetUp
      <3>2. Fresh' /\ WatchSlots'
        BY <2>5, <3>1 DEF SyncInv, Fresh, WatchSlots, ControlSlot
      <3> QED
        BY <2>1, <2>2, <3>2, ColdStep
    <2>6. CASE table' = << >> /\ loop' = "none" /\ pc' = [pc EXCEPT ![c] = "idle"]
      <3>1. \A d \in Clients : pc'[d] # "setup"
        BY <1>1, <2>3, <2>6
      <3>2. Fresh' /\ WatchSlots'
        BY <2>6, <3>1 DEF Fresh, WatchSlots
      <3> QED
        BY <2>1, <2>2, <3>2, ColdStep
    <2>7. CASE StopJoin(c)
      <3>1. \A d \in Clients : pc'[d] # "setup"
        BY <1>1, <2>3, <2>7 DEF StopJoin
      <3>2. table' = << >> /\ loop' = "none"
        BY <2>7 DEF StopJoin
      <3>3. Fresh' /\ WatchSlots'
        BY <3>1, <3>2 DEF Fresh, WatchSlots
      <3> QED
        BY <2>1, <2>2, <3>3, ColdStep
    <2>8. CASE (StartAlloc(c) \/ StartSetUp(c)) /\ RollBack(c) /\ UNCHANGED loop
      <3>1. loop = "none"
        BY <2>8 DEF StartAlloc, StartSetUp, Lifecycle
      <3> QED
        BY <2>6, <2>8, <3>1 DEF RollBack
    <2> QED
      BY <1>3, <2>4, <2>5, <2>7, <2>8 DEF StartAlloc, StartSetUp, natVars
  <1> QED
    BY <1>2, <1>3

\* Where the items of the hand and of the socket are among the pending ones.
LEMMA PendingItems ==
  ASSUME stream \in Seq(Items), items \in Seq(Items)
  PROVE  /\ Len(Pending) \in Nat /\ Len(Pending) >= Len(InHand) + Len(stream)
         /\ \A k \in 1 .. Len(InHand) : Pending[k] = InHand[k]
         /\ \A k \in 1 .. Len(stream) : Pending[k + Len(InHand)] = stream[k]
PROOF
  <1>1. PICK h \in Seq(Items) : h = InHand
    BY PendingTyped
  <1>2. PICK a \in Seq(Items) : a = h \o stream
    BY Behind
  <1>3. PICK p \in Seq(Items) : p = a \o items
    BY Behind
  <1>4. Pending = p
    BY <1>1, <1>2, <1>3 DEF Pending
  <1>5. Len(h) \in Nat /\ Len(stream) \in Nat /\ Len(items) \in Nat
    BY LenProperties
  <1>6. /\ Len(a) = Len(h) + Len(stream) /\ Extends(a, h) /\ Dropped(a, stream, Len(h))
    BY <1>2, Joined2
  <1>7. Len(p) = Len(a) + Len(items) /\ Extends(p, a)
    BY <1>3, Joined2
  <1>8. \A k \in 1 .. Len(a) : p[k] = a[k]
    BY <1>7 DEF Extends
  <1>9. ASSUME NEW k \in 1 .. Len(h) PROVE p[k] = h[k]
    <2>1. k \in 1 .. Len(a)
      BY <1>5, <1>6
    <2> QED
      BY <1>6, <1>8, <2>1 DEF Extends
  <1>10. ASSUME NEW k \in 1 .. Len(stream) PROVE p[k + Len(h)] = stream[k]
    <2>1. k + Len(h) \in 1 .. Len(a)
      BY <1>5, <1>6
    <2>2. stream[k] = a[k + Len(h)]
      BY <1>6 DEF Dropped
    <2> QED
      BY <1>8, <2>1, <2>2
  <1>11. Len(p) \in Nat /\ Len(p) >= Len(h) + Len(stream)
    BY <1>5, <1>6, <1>7
  <1> QED
    BY <1>1, <1>4, <1>9, <1>10, <1>11

LEMMA PendingStaysTyped ==
  ASSUME TypeOK'
  PROVE  Pending' \in Seq(Items)
PROOF
  <1>1. stream' \in Seq(Items) /\ items' \in Seq(Items)
    BY DEF TypeOK, FieldTypes, BusTypes
  <1>2. InHand' \in Seq(Items)
    <2>1. <<Ctl(ADD)>> \in Seq(Items) /\ <<Ctl(REMOVE)>> \in Seq(Items) /\ << >> \in Seq(Items)
      BY PartsTyped
    <2> QED
      BY <2>1 DEF InHand
  <1>3. InHand' \o stream' \in Seq(Items)
    BY <1>1, <1>2, Behind
  <1>4. (InHand' \o stream') \o items' \in Seq(Items)
    BY <1>1, <1>3, Behind
  <1> QED
    BY <1>4 DEF Pending

\* A control byte is read.
LEMMA ReceiveStep ==
  ASSUME TypeOK, TypeOK', Lifecycle, SyncInv, LoopReceive
  PROVE  SyncInv'
PROOF
  <1>1. /\ loop = "drain" /\ UNCHANGED <<table, owner, items, hooked, enabled, pc>>
        /\ stream \in Seq(Items) /\ items \in Seq(Items)
    BY DEF LoopReceive, At, LoopOnly, natVars, callVars, busVars, TypeOK, FieldTypes, BusTypes
  <1>2. \A c \in Clients : pc[c] # "setup"
    BY <1>1 DEF Lifecycle
  <1>3. CASE UNCHANGED stream
    <2>1. loop' \in Between /\ (fault' = "none" => fault = "none")
          /\ loop' \notin {"hook", "wakehook", "started"}
      <3>1. CASE loop' = "scan" /\ UNCHANGED fault
        BY <3>1 DEF Between
      <3>2. CASE fault' = "frame" /\ UNCHANGED loop
        BY <1>1, <3>2 DEF Between
      <3>3. stream # << >> => Tail(stream) # stream
        <4>1. stream # << >> => Len(Tail(stream)) = Len(stream) - 1 /\ Len(stream) \in Nat
          BY <1>1, HeadTailProperties, LenProperties
        <4> QED
          BY <4>1
      <3> QED
        BY <1>3, <3>1, <3>2, <3>3 DEF LoopReceive
    <2>2. SameWatches(table', table) /\ ~ FreshTable' /\ ~ FreshSocket'
      BY <1>1, <1>2, <2>1 DEF SameWatches, FreshTable, FreshSocket
    <2>3. loop \in Between
      BY <1>1 DEF Between
    <2> QED
      BY <1>1, <1>3, <2>1, <2>2, <2>3, QuietStep
  <1>4. CASE /\ stream # << >> /\ Head(stream).kind = "ctl" /\ stream' = Tail(stream)
             /\ loop' = (CASE Head(stream).val = EXIT -> "unhook"
                           [] Head(stream).val = ADD -> "add"
                           [] Head(stream).val = REMOVE -> "remove"
                           [] OTHER -> "drain")
             /\ UNCHANGED fault
    <2>1. Head(stream) \in {Ctl(EXIT), Ctl(ADD), Ctl(REMOVE), Ctl(WAKEUP)}
      BY <1>1, <1>4, ItemFacts, HeadTailProperties
    <2>2. \/ Head(stream) = Ctl(ADD) /\ loop' = "add"
          \/ Head(stream) = Ctl(REMOVE) /\ loop' = "remove"
          \/ Head(stream) \in {Ctl(EXIT), Ctl(WAKEUP)} /\ loop' \in {"unhook", "drain"}
      <3>1. \A c : Ctl(c).val = c
        BY DEF Ctl
      <3> QED
        BY <1>4, <2>1, <3>1 DEF EXIT, ADD, REMOVE, WAKEUP
    <2>3. Calls' /\ Fresh' /\ WatchSlots'
      BY <1>1, <1>2, <2>2 DEF SyncInv, Calls, Fresh, WatchSlots, Wakeups
    <2>4. Following'
      <3> SUFFICES ASSUME hooked', fault' = "none" PROVE Leads(Pending', table', enabled')
        BY DEF Following
      <3>1. Leads(Pending, table, enabled)
        BY <1>1, <1>4 DEF SyncInv, Following
      <3>2. CASE loop' \in {"add", "remove"}
        <4>1. InHand' = <<Head(stream)>>
          BY <2>2, <3>2 DEF InHand
        <4>2. Pending' = Pending
          BY <1>1, <1>4, <4>1, PendingReceived
        <4> QED
          BY <1>1, <3>1, <4>2
      <3>3. CASE loop' \in {"unhook", "drain"}
        <4>1. InHand' = << >> /\ InHand = << >> /\ Len(InHand) = 0
          BY <1>1, <3>3 DEF InHand
        <4>2. /\ Len(stream) \in Nat /\ Len(stream) >= 1 /\ 1 \in 1 .. Len(stream)
              /\ Head(stream) = stream[1]
          BY <1>1, <1>4, EmptySeq, LenProperties, HeadTailProperties
        <4>3. stream' = SubSeq(stream, 1 + 1, Len(stream))
          BY <1>1, <1>4, TailIsSubSeq
        <4>4. Dropped(Pending, Pending', Len(InHand) + 1)
          BY <1>1, <4>1, <4>2, <4>3, PendingDropped
        <4>5. Pending[1 + Len(InHand)] = stream[1] /\ Len(Pending) \in Nat
              /\ Len(Pending) >= Len(InHand) + Len(stream)
          BY <1>1, <4>2, PendingItems
        <4>6. Dropped(Pending, Pending', 1) /\ Pending[1] = Head(stream) /\ Len(Pending) >= 1
          BY <4>1, <4>2, <4>4, <4>5
        <4>7. Pending[1] \in {Ctl(EXIT), Ctl(WAKEUP)}
          BY <2>2, <3>3, <4>6
        <4>8. Pending \in Seq(Items) /\ Pending' \in Seq(Items)
          BY <1>1, PendingTyped, PendingStaysTyped
        <4> QED
          BY <1>1, <3>1, <4>6, <4>7, <4>8, LeadsLone
      <3> QED
        BY <2>2, <3>2, <3>3
    <2> QED
      BY <2>3, <2>4 DEF SyncInv
  <1> QED
    BY <1>3, <1>4 DEF LoopReceive

\* A watch is added.
LEMMA AddStep ==
  ASSUME TypeOK, TypeOK', ControlSlotFirst, Lifecycle, SyncInv, fault = "none",
         handleWatchAdd
  PROVE  SyncInv'
PROOF
  <1>1. /\ loop = "add" /\ loop' = "drain"
        /\ UNCHANGED <<owner, items, hooked, enabled, pc, fault>>
        /\ stream \in Seq(Items) /\ items \in Seq(Items) /\ table \in Seq(Slots)
        /\ stream' = SubSeq(stream, 3 + 1, Len(stream))
    BY DEF handleWatchAdd, At, LoopOnly, callVars, busVars, TypeOK, FieldTypes, BusTypes, Slots
  <1>2. /\ Len(stream) \in Nat /\ Len(stream) >= 3
        /\ stream[1].kind = "fd" /\ stream[2].kind = "flags" /\ stream[3].kind = "watch"
    <2>1. Len(AddFields) = 3 /\ 1 \in 1 .. 3 /\ 2 \in 1 .. 3 /\ 3 \in 1 .. 3
      BY DEF AddFields
    <2>2. AddFields[1] = "fd" /\ AddFields[2] = "flags" /\ AddFields[3] = "watch"
      BY DEF AddFields
    <2> QED
      BY <1>1, <2>1, <2>2, LenProperties DEF handleWatchAdd, CanRead
  <1>3. InHand = <<Ctl(ADD)>> /\ Len(InHand) = 1 /\ InHand[1] = Ctl(ADD) /\ InHand' = << >>
    BY <1>1 DEF InHand
  <1>4. /\ Pending \in Seq(Items) /\ Pending' \in Seq(Items)
    BY <1>1, PendingTyped, PendingStaysTyped
  <1>5. /\ Len(Pending) \in Nat /\ Len(Pending) >= 4 /\ Pending[1] = Ctl(ADD)
        /\ Pending[2] = stream[1] /\ Pending[3] = stream[2] /\ Pending[4] = stream[3]
    <2>1. /\ Len(Pending) \in Nat /\ Len(Pending) >= Len(InHand) + Len(stream)
          /\ \A k \in 1 .. Len(InHand) : Pending[k] = InHand[k]
          /\ \A k \in 1 .. Len(stream) : Pending[k + Len(InHand)] = stream[k]
      BY <1>1, PendingItems
    <2>2. 1 \in 1 .. Len(stream) /\ 2 \in 1 .. Len(stream) /\ 3 \in 1 .. Len(stream)
      BY <1>2
    <2>3. Pending[1 + 1] = stream[1] /\ Pending[2 + 1] = stream[2] /\ Pending[3 + 1] = stream[3]
      BY <1>3, <2>1, <2>2
    <2> QED
      BY <1>2, <1>3, <2>1, <2>3
  <1>6. AddFirst(Pending)
    BY <1>2, <1>5 DEF AddFirst
  <1>7. hooked /\ Leads(Pending, table, enabled)
    BY <1>1 DEF SyncInv, Calls, Following
  <1>8. PICK w \in Watches :
          Pending[2] = FdItem /\ Pending[3] = FlagsItem(w) /\ Pending[4] = PtrItem(w)
    BY <1>4, <1>6, <1>7, FirstMessage
  <1>9. /\ stream[1].val = BusFd /\ stream[2].val = FlagsOf(w) /\ stream[3].val = w
    BY <1>5, <1>8 DEF FdItem, FlagsItem, PtrItem
  <1>10. PICK slot \in Slots :
           slot = NewSlot(BusFd, dbus_flags_to_unix_events(FlagsOf(w)), w)
    BY MaskIsNat DEF NewSlot, Slots, SlotSet, Ptrs
  <1>11. Place(slot)
    BY <1>9, <1>10 DEF handleWatchAdd
  <1>12. /\ WatchSlots'
         /\ AllocFails \/ InTable(table', w)
         /\ \A v \in Watches \ {w} : InTable(table, v) <=> InTable(table', v)
    BY <1>1, <1>10, <1>11, PlacedWatch DEF SyncInv
  <1>13. Dropped(Pending, Pending', 4)
    <2>1. 3 \in 1 .. Len(stream)
      BY <1>2
    <2>2. Dropped(Pending, Pending', Len(InHand) + 3)
      BY <1>1, <1>3, <2>1, PendingDropped
    <2> QED
      BY <1>3, <2>2
  <1>14. Leads(Pending', table', enabled)
    <2>1. Pending[1] = Ctl(ADD) /\ Pending[1] # Ctl(REMOVE)
      BY <1>5, ItemFacts
    <2> QED
      BY <1>4, <1>6, <1>7, <1>8, <1>12, <1>13, <2>1, LeadsHandled
  <1>15. Calls' /\ Fresh'
    <2>1. \A c \in Clients : pc[c] # "setup"
      BY <1>1 DEF Lifecycle
    <2> QED
      BY <1>1, <2>1 DEF SyncInv, Calls, Fresh, Wakeups
  <1> QED
    BY <1>1, <1>12, <1>14, <1>15 DEF SyncInv, Following

\* A watch is removed.
LEMMA RemoveStep ==
  ASSUME TypeOK, TypeOK', ControlSlotFirst, Lifecycle, SyncInv, fault = "none",
         handleWatchRemove
  PROVE  SyncInv'
PROOF
  <1>1. /\ loop = "remove" /\ loop' = "drain"
        /\ UNCHANGED <<owner, items, hooked, enabled, pc, fault>>
        /\ stream \in Seq(Items) /\ items \in Seq(Items) /\ table \in Seq(Slots)
        /\ stream' = SubSeq(stream, 2 + 1, Len(stream))
    BY DEF handleWatchRemove, At, LoopOnly, callVars, busVars, TypeOK, FieldTypes, BusTypes,
           Slots
  <1>2. /\ Len(stream) \in Nat /\ Len(stream) >= 2
        /\ stream[1].kind = "fd" /\ stream[2].kind = "flags"
    <2>1. Len(RemoveFields) = 2 /\ 1 \in 1 .. 2 /\ 2 \in 1 .. 2
      BY DEF RemoveFields
    <2>2. RemoveFields[1] = "fd" /\ RemoveFields[2] = "flags"
      BY DEF RemoveFields
    <2> QED
      BY <1>1, <2>1, <2>2, LenProperties DEF handleWatchRemove, CanRead
  <1>3. InHand = <<Ctl(REMOVE)>> /\ Len(InHand) = 1 /\ InHand[1] = Ctl(REMOVE)
        /\ InHand' = << >>
    BY <1>1 DEF InHand
  <1>4. /\ Pending \in Seq(Items) /\ Pending' \in Seq(Items)
    BY <1>1, PendingTyped, PendingStaysTyped
  <1>5. /\ Len(Pending) \in Nat /\ Len(Pending) >= 3 /\ Pending[1] = Ctl(REMOVE)
        /\ Pending[2] = stream[1] /\ Pending[3] = stream[2]
    <2>1. /\ Len(Pending) \in Nat /\ Len(Pending) >= Len(InHand) + Len(stream)
          /\ \A k \in 1 .. Len(InHand) : Pending[k] = InHand[k]
          /\ \A k \in 1 .. Len(stream) : Pending[k + Len(InHand)] = stream[k]
      BY <1>1, PendingItems
    <2>2. 1 \in 1 .. Len(stream) /\ 2 \in 1 .. Len(stream)
      BY <1>2
    <2>3. Pending[1 + 1] = stream[1] /\ Pending[2 + 1] = stream[2]
      BY <1>3, <2>1, <2>2
    <2> QED
      BY <1>2, <1>3, <2>1, <2>3
  <1>6. RemoveFirst(Pending)
    BY <1>2, <1>5 DEF RemoveFirst
  <1>7. hooked /\ Leads(Pending, table, enabled)
    BY <1>1 DEF SyncInv, Calls, Following
  <1>8. PICK w \in Watches : Pending[2] = FdItem /\ Pending[3] = FlagsItem(w)
    BY <1>4, <1>6, <1>7, FirstMessage
  <1>9. /\ stream[1].val = BusFd /\ stream[2].val = FlagsOf(w)
    BY <1>5, <1>8 DEF FdItem, FlagsItem
  <1>10. PICK found :
           /\ found = Positions(table, BusFd, dbus_flags_to_unix_events(FlagsOf(w)))
           /\ table' = IF found = {} THEN table ELSE RemoveSlot(table, First(found))
    BY <1>9 DEF handleWatchRemove
  <1>11. /\ WatchSlots'
         /\ ~ InTable(table', w)
         /\ \A v \in Watches \ {w} : InTable(table, v) <=> InTable(table', v)
    BY <1>1, <1>10, RemovedWatch DEF SyncInv
  <1>12. Dropped(Pending, Pending', 3)
    <2>1. 2 \in 1 .. Len(stream)
      BY <1>2
    <2>2. Dropped(Pending, Pending', Len(InHand) + 2)
      BY <1>1, <1>3, <2>1, PendingDropped
    <2> QED
      BY <1>3, <2>2
  <1>13. Leads(Pending', table', enabled)
    <2>1. Pending[1] = Ctl(REMOVE) /\ Pending[1] # Ctl(ADD)
      BY <1>5, ItemFacts
    <2> QED
      BY <1>4, <1>6, <1>7, <1>8, <1>11, <1>12, <2>1, LeadsHandled
  <1>14. Calls' /\ Fresh'
    <2>1. \A c \in Clients : pc[c] # "setup"
      BY <1>1 DEF Lifecycle
    <2> QED
      BY <1>1, <2>1 DEF SyncInv, Calls, Fresh, Wakeups
  <1> QED
    BY <1>1, <1>11, <1>13, <1>14 DEF SyncInv, Following

\* Every step keeps what is pending in step with libdbus.
LEMMA SyncStep ==
  ASSUME TypeOK, TypeOK', Shape, Lifecycle, StopRequests, SyncInv, [Next]_vars
  PROVE  SyncInv'
PROOF
  <1>1. /\ stream \in Seq(Items) /\ table \in Seq(Slots) /\ BusTypes
        /\ pc \in [Clients -> PcStates] /\ ControlSlotFirst
    BY DEF TypeOK, FieldTypes, Slots, Shape
  <1>2. UNCHANGED table => SameWatches(table', table)
    BY DEF SameWatches
  <1>3. CASE UNCHANGED vars
    <2>1. UNCHANGED <<table, stream, items, owner, hooked, enabled, fault, loop, pc>>
      BY <1>3 DEF vars
    <2>2. (FreshTable' => FreshTable) /\ (FreshSocket' => FreshSocket)
      BY <2>1 DEF FreshTable, FreshSocket
    <2> QED
      BY <1>2, <2>1, <2>2, QuietStep
  <1>4. ASSUME NEW c \in Clients, StartStop(c)
        PROVE  SyncInv'
    <2>1. CASE StartEventLoop(c) \/ StopEventLoop(c) \/ StopClose(c)
      <3>1. /\ UNCHANGED <<table, stream, items, owner, hooked, enabled, fault, loop>>
            /\ \A d \in Clients : pc'[d] = "setup" => pc[d] = "setup"
        BY <1>1, <2>1 DEF StartEventLoop, StopEventLoop, StopClose, ClientOnly, natVars,
                          busVars, callVars
      <3>2. (FreshTable' => FreshTable) /\ (FreshSocket' => FreshSocket)
        BY <3>1 DEF FreshTable, FreshSocket
      <3> QED
        BY <1>2, <3>1, <3>2, QuietStep
    <2>2. CASE StartAlloc(c) \/ StartSetUp(c) \/ StopJoin(c)
      BY <2>2, LifeStep
    <2>3. CASE StopWrite(c)
      BY <2>3, StopStep
    <2> QED
      BY <1>4, <2>1, <2>2, <2>3 DEF StartStop
  <1>5. ASSUME NEW c \in Clients, UseBus(c)
        PROVE  SyncInv'
    <2>1. ReadMessages(c) \/ Disconnect(c) \/ Flush(c) \/ QueueOutgoing(c)
      BY <1>5 DEF UseBus, AppRead, AppSend, AppFlush, AppDisconnect
    <2>2. UNCHANGED <<table, stream, fault, loop, pc>>
      BY <1>5 DEF UseBus, AppRead, AppSend, AppFlush, AppDisconnect, LoopFieldsUnchanged,
                  natVars
    <2>3. (FreshTable' => FreshTable) /\ (FreshSocket' => FreshSocket)
      BY <2>2 DEF FreshTable, FreshSocket
    <2>4. c \in Threads /\ c # Loop
      BY ClientsAssumption DEF Threads
    <2> QED
      BY <1>1, <1>2, <2>1, <2>2, <2>3, <2>4, CallStep
  <1>6. ASSUME NEW t \in Threads, WriteControl(t)
        PROVE  SyncInv'
    BY <1>6, WriteStep
  <1>7. CASE Bus
    <2>1. UNCHANGED <<table, stream, items, owner, hooked, enabled, fault, loop, pc>>
      BY <1>7 DEF Bus, BusSends, BusCloses, LoopFieldsUnchanged, natVars, busVars, callVars
    <2>2. (FreshTable' => FreshTable) /\ (FreshSocket' => FreshSocket)
      BY <2>1 DEF FreshTable, FreshSocket
    <2> QED
      BY <1>2, <2>1, <2>2, QuietStep
  <1>8. CASE RunLoop /\ fault = "none"
    <2>1. /\ pc' = pc /\ loop \notin {"none", "done"}
      BY <1>8, LoopSteps
    <2>2. \A c \in Clients : pc[c] # "setup"
      BY <2>1 DEF Lifecycle
    <2>3. CASE LoopHook
      BY <2>3, HookStep
    <2>4. CASE LoopUnhook
      BY <2>4, UnhookStep
    <2>5. CASE LoopClose
      BY <2>5, LifeStep
    <2>6. CASE LoopReceive
      BY <2>6, ReceiveStep
    <2>7. CASE handleWatchAdd
      BY <1>1, <1>8, <2>7, AddStep
    <2>8. CASE handleWatchRemove
      BY <1>1, <1>8, <2>8, RemoveStep
    <2>9. CASE LoopWakeHook \/ LoopStarted \/ LoopScan \/ LoopDispatch
      <3>1. /\ UNCHANGED <<table, stream, items, owner, hooked, enabled, fault>>
            /\ loop \in Between /\ loop' \in Between
            /\ loop' \in {"hook", "wakehook", "started"} => loop = "wakehook"
        BY <2>9 DEF LoopWakeHook, LoopStarted, LoopScan, LoopDispatch, At, Between,
             LoopFieldsUnchanged, LoopOnly, natVars, busVars, callVars
      <3>2. (FreshTable' => FreshTable) /\ (FreshSocket' => FreshSocket)
        <4>1. loop' # "hook"
          BY <3>1 DEF Between
        <4> QED
          BY <2>1, <2>2, <3>1, <4>1 DEF FreshTable, FreshSocket
      <3> QED
        BY <1>2, <3>1, <3>2, QuietStep
    <2>10. CASE LoopMisreads \/ LoopHandleDead
      <3>1. /\ UNCHANGED <<table, stream, items, owner, hooked, enabled, loop>>
            /\ fault' # "none"
        BY <2>10 DEF LoopMisreads, LoopHandleDead, LoopOnly, natVars, busVars, callVars
      <3>2. (FreshTable' => FreshTable) /\ (FreshSocket' => FreshSocket)
        BY <2>1, <3>1 DEF FreshTable, FreshSocket
      <3> QED
        BY <1>2, <3>1, <3>2, QuietStep
    <2>11. CASE LoopPoll
      <3>1. SameWatches(table', table)
        BY <1>1, <2>11, RoundWatches DEF LoopPoll
      <3>2. /\ UNCHANGED <<stream, items, owner, hooked, enabled, fault>>
            /\ loop \in Between /\ loop' \in Between /\ loop' = "scan"
        BY <2>11 DEF LoopPoll, At, Between, LoopOnly, busVars, callVars
      <3>3. ~ FreshTable' /\ ~ FreshSocket'
        BY <2>1, <2>2, <3>2 DEF FreshTable, FreshSocket
      <3> QED
        BY <3>1, <3>2, <3>3, QuietStep
    <2>12. CASE LoopHandleWatch
      <3>1. SameWatches(table', table)
        BY <1>1, <2>12, RoundWatches DEF LoopHandleWatch
      <3>2. /\ UNCHANGED <<stream, fault>>
            /\ loop \in Between /\ loop' \in Between /\ loop' = "dispatch"
        BY <2>12 DEF LoopHandleWatch, At, Between
      <3>3. ~ FreshTable' /\ ~ FreshSocket'
        BY <2>1, <2>2, <3>2 DEF FreshTable, FreshSocket
      <3>4. CASE UNCHANGED <<busVars, callVars>>
        <4>1. UNCHANGED <<items, owner, hooked, enabled>>
          BY <3>4 DEF busVars, callVars
        <4> QED
          BY <3>1, <3>2, <3>3, <4>1, QuietStep
      <3>5. CASE ReadMessages(Loop) \/ Disconnect(Loop) \/ Flush(Loop)
        <4>1. Loop \in Threads /\ loop' \notin {"none", "hook", "done"}
          BY <3>2 DEF Threads
        <4> QED
          BY <1>1, <3>1, <3>2, <3>3, <3>5, <4>1, CallStep
      <3> QED
        BY <2>12, <3>4, <3>5 DEF LoopHandleWatch, HandleEffect
    <2>13. CASE LoopTearDown
      <3>1. UNCHANGED <<table, stream, fault, loop>> /\ loop = "teardown"
        BY <2>13 DEF LoopTearDown, At, LoopFieldsUnchanged, natVars
      <3>2. ReadMessages(Loop) \/ Disconnect(Loop) \/ Flush(Loop)
        BY <2>13 DEF LoopTearDown
      <3>3. ~ FreshTable' /\ ~ FreshSocket'
        BY <2>1, <2>2, <3>1 DEF FreshTable, FreshSocket
      <3>4. Loop \in Threads /\ loop' \notin {"none", "hook", "done"}
        BY <3>1 DEF Threads
      <3> QED
        BY <1>1, <1>2, <3>1, <3>2, <3>3, <3>4, CallStep
    <2> QED
      BY <1>8, <2>3, <2>4, <2>5, <2>6, <2>7, <2>8, <2>9, <2>10, <2>11, <2>12, <2>13
         DEF RunLoop
  <1> QED
    BY <1>3, <1>4, <1>5, <1>6, <1>7, <1>8 DEF Next

\* The inductive invariant of the control socket.
InStep == Serving /\ SyncInv

LEMMA InStepInv == Spec => []InStep
PROOF
  <1>1. Init => SyncInv
    <2> SUFFICES ASSUME Init PROVE SyncInv
      OBVIOUS
    <2>1. Calls
      BY ClientsAssumption DEF Init, Calls, Wakeups
    <2>2. Fresh /\ WatchSlots /\ Following
      BY DEF Init, Fresh, WatchSlots, Following
    <2> QED
      BY <2>1, <2>2 DEF SyncInv
  <1>2. Serving /\ SyncInv /\ Serving' /\ [Next]_vars => SyncInv'
    BY SyncStep DEF Serving, IInv
  <1> QED
    BY <1>1, <1>2, ServingInv, PTL DEF Spec, InStep

\* Unless the memory runs out, the loop ends up polling exactly the watches
\* libdbus wants polled, with their own pointers, once it has read what was
\* written to it: whatever the order of calls of several threads.
THEOREM TableFollows ==
  ASSUME ~ AllocFails
  PROVE  Spec => []InSync
PROOF
  <1>1. InStep => InSync
    <2> SUFFICES ASSUME InStep, hooked, fault = "none", ~ ExitPending, NEW w \in Watches
                 PROVE  WillBePolled(Pending, table, w) <=> w \in enabled
      BY DEF InSync
    <2>1. Leads(Pending, table, enabled)
      BY DEF InStep, SyncInv, Following
    <2>2. ~ Torn(Pending)
      BY DEF Torn, ExitPending
    <2> QED
      BY <2>1, <2>2 DEF Leads
  <1> QED
    BY <1>1, InStepInv, PTL

\* Also when it runs out: the loop may lose a watch it could not grow for,
\* but it never goes on polling one that libdbus has switched off or freed.
THEOREM NothingStale == Spec => []NoStaleWatch
PROOF
  <1>1. InStep => NoStaleWatch
    <2> SUFFICES ASSUME InStep, hooked, fault = "none", ~ ExitPending, NEW w \in Watches,
                        WillBePolled(Pending, table, w)
                 PROVE  w \in enabled
      BY DEF NoStaleWatch
    <2>1. Leads(Pending, table, enabled)
      BY DEF InStep, SyncInv, Following
    <2>2. ~ Torn(Pending)
      BY DEF Torn, ExitPending
    <2> QED
      BY <2>1, <2>2 DEF Leads
  <1> QED
    BY <1>1, InStepInv, PTL

-----------------------------------------------------------------------------
(* Messages that are misread.                                              *)

\* What is pending is torn by the EXIT byte of a stop that waits.
LEMMA TornByStop ==
  ASSUME TypeOK, StopRequests, Torn(Pending)
  PROVE  Awaited
PROOF
  <1>1. /\ stream \in Seq(Items) /\ items \in Seq(Items) /\ items \in Seq(Messages)
    BY DEF TypeOK, FieldTypes, BusTypes, StopRequests
  <1>2. DOMAIN Pending = 1 .. Len(Pending)
    BY <1>1, PendingTyped, LenProperties
  <1>3. PICK k \in 1 .. Len(Pending) : Pending[k] = Ctl(EXIT)
    BY <1>2 DEF Torn
  <1>4. \E i \in DOMAIN stream : stream[i] = Ctl(EXIT)
    BY <1>1, <1>3, ExitIsInSocket
  <1> QED
    BY <1>4 DEF StopRequests, ExitsIn, Awaited

\* The loop misreads nothing else.
LEMMA MisreadIsTorn ==
  ASSUME TypeOK, SyncInv, fault = "none", LoopReceive \/ LoopMisreads, fault' # "none"
  PROVE  Torn(Pending)
PROOF
  <1>1. stream \in Seq(Items) /\ items \in Seq(Items)
    BY DEF TypeOK, FieldTypes, BusTypes
  <1>2. loop \in {"drain", "add", "remove"}
    BY DEF LoopReceive, LoopMisreads, At
  <1>3. Leads(Pending, table, enabled)
    BY <1>2 DEF SyncInv, Calls, Following
  <1>4. /\ Len(Pending) \in Nat /\ Len(Pending) >= Len(InHand) + Len(stream)
        /\ \A k \in 1 .. Len(InHand) : Pending[k] = InHand[k]
        /\ \A k \in 1 .. Len(stream) : Pending[k + Len(InHand)] = stream[k]
        /\ Len(stream) \in Nat
    BY <1>1, PendingItems, LenProperties
  <1> SUFFICES ASSUME Whole(Pending) PROVE FALSE
    BY <1>3 DEF Leads
  <1>5. CASE LoopReceive
    <2>1. stream # << >> /\ Head(stream).kind # "ctl" /\ loop = "drain"
      BY <1>5 DEF LoopReceive, At
    <2>2. Len(InHand) = 0 /\ Len(stream) >= 1 /\ Head(stream) = stream[1]
      BY <1>1, <2>1, EmptySeq, LenProperties, HeadTailProperties DEF InHand
    <2>3. 1 \in 1 .. Len(stream) /\ 1 \in 1 .. Len(Pending)
      BY <1>4, <2>2
    <2>4. Pending[1 + Len(InHand)] = stream[1]
      BY <1>4, <2>3
    <2>5. Pending[1].kind # "ctl"
      BY <2>1, <2>2, <2>4
    <2>6. \E j \in 1 .. (1 - 1) : TRUE
      BY <2>3, <2>5 DEF Whole, WholeTo
    <2> QED
      BY <2>6
  <1>6. ASSUME NEW kinds \in {AddFields, RemoveFields}, MisreadsOne(kinds),
               loop = "add" <=> kinds = AddFields, loop = "remove" <=> kinds = RemoveFields
        PROVE  FALSE
    <2>1. /\ Len(AddFields) = 3 /\ AddFields[1] = "fd" /\ AddFields[2] = "flags"
          /\ AddFields[3] = "watch"
          /\ Len(RemoveFields) = 2 /\ RemoveFields[1] = "fd" /\ RemoveFields[2] = "flags"
      BY DEF AddFields, RemoveFields
    <2>2. /\ Len(InHand) = 1 /\ InHand[1] \in {Ctl(ADD), Ctl(REMOVE)}
          /\ InHand[1] = Ctl(ADD) <=> kinds = AddFields
      <3>1. Ctl(ADD) # Ctl(REMOVE)
        BY ItemFacts
      <3>2. CASE kinds = AddFields
        <4>1. InHand = <<Ctl(ADD)>>
          BY <1>6, <3>2 DEF InHand
        <4> QED
          BY <3>2, <4>1
      <3>3. CASE kinds = RemoveFields
        <4>1. loop = "remove"
          BY <1>6, <3>3
        <4>2. InHand = <<Ctl(REMOVE)>>
          BY <4>1 DEF InHand
        <4>3. kinds # AddFields
          BY <2>1, <3>3
        <4> QED
          BY <3>1, <4>2, <4>3
      <3> QED
        BY <3>2, <3>3
    <2>3. PICK k \in 1 .. Len(kinds) : k <= Len(stream) /\ stream[k].kind # kinds[k]
      BY <1>6 DEF MisreadsOne
    <2>4. k = 1 \/ k = 2 \/ (k = 3 /\ kinds = AddFields)
      BY <2>1, <2>3
    <2>5. k \in 1 .. Len(stream) /\ k \in Nat /\ k >= 1
      BY <1>4, <2>1, <2>3
    <2>6. Pending[k + 1] = stream[k] /\ 1 \in 1 .. Len(Pending) /\ Pending[1] = InHand[1]
      <3>1. Pending[k + Len(InHand)] = stream[k]
        BY <1>4, <2>5
      <3>2. 1 \in 1 .. Len(InHand) /\ 1 \in 1 .. Len(Pending)
        BY <1>4, <2>2, <2>5
      <3> QED
        BY <1>4, <2>2, <3>1, <3>2
    <2>7. PICK w \in Watches :
            /\ Pending[2] = FdItem /\ Pending[3] = FlagsItem(w)
            /\ Pending[1] = Ctl(ADD) => Pending[4] = PtrItem(w)
      <3>1. 1 + 1 = 2 /\ 1 + 2 = 3 /\ 1 + 3 = 4
        OBVIOUS
      <3> QED
        BY <2>2, <2>6, <3>1 DEF Whole, WholeTo
    <2>8. /\ Pending[2].kind = "fd" /\ Pending[3].kind = "flags"
          /\ kinds = AddFields => Pending[4].kind = "watch"
      BY <2>2, <2>6, <2>7, ItemFacts
    <2>9. kinds[1] = "fd" /\ kinds[2] = "flags" /\ (kinds = AddFields => kinds[3] = "watch")
      BY <2>1
    <2>10. CASE k = 1
      <3>1. Pending[2] = stream[1]
        BY <2>6, <2>10
      <3> QED
        BY <2>3, <2>8, <2>9, <2>10, <3>1
    <2>11. CASE k = 2
      <3>1. Pending[3] = stream[2]
        BY <2>6, <2>11
      <3> QED
        BY <2>3, <2>8, <2>9, <2>11, <3>1
    <2>12. CASE k = 3 /\ kinds = AddFields
      <3>1. Pending[4] = stream[3]
        BY <2>6, <2>12
      <3> QED
        BY <2>3, <2>8, <2>9, <2>12, <3>1
    <2> QED
      BY <2>4, <2>10, <2>11, <2>12
  <1>7. CASE LoopMisreads
    <2>1. AddFields # RemoveFields
      BY DEF AddFields, RemoveFields
    <2>2. \/ loop = "add" /\ MisreadsOne(AddFields)
          \/ loop = "remove" /\ MisreadsOne(RemoveFields)
      BY <1>7 DEF LoopMisreads, At
    <2> QED
      BY <1>6, <2>1, <2>2
  <1> QED
    BY <1>5, <1>7

\* The steps that misread a message.
LEMMA FrameSteps ==
  ASSUME fault = "none", Next, fault' = "frame"
  PROVE  LoopReceive \/ LoopMisreads
PROOF
  <1>1. ASSUME NEW c \in Clients, StartStop(c) \/ UseBus(c)
        PROVE  UNCHANGED fault
    BY <1>1 DEF StartStop, StartEventLoop, StartAlloc, StartSetUp, StopEventLoop, StopWrite,
         StopJoin, StopClose, ClientOnly, UseBus, AppRead, AppSend, AppFlush, AppDisconnect,
         LoopFieldsUnchanged
  <1>2. ASSUME NEW t \in Threads, WriteControl(t)
        PROVE  fault' # "frame"
    BY <1>2 DEF WriteControl
  <1>3. Bus => UNCHANGED fault
    BY DEF Bus, BusSends, BusCloses, LoopFieldsUnchanged
  <1>4. RunLoop => \/ UNCHANGED fault \/ fault' = "watch" \/ LoopReceive \/ LoopMisreads
    BY DEF RunLoop, LoopHook, LoopWakeHook, LoopStarted, LoopScan, handleWatchAdd,
         handleWatchRemove, LoopHandleDead, LoopHandleWatch, LoopDispatch, LoopPoll,
         LoopUnhook, LoopTearDown, LoopClose, LoopFieldsUnchanged
  <1>5. UNCHANGED vars => UNCHANGED fault
    BY DEF vars
  <1> QED
    BY <1>1, <1>2, <1>3, <1>4, <1>5 DEF Next

\* A control message is misread only while a client waits in stopEventLoop:
\* nothing that libdbus and the loop write or read in any order does it, but
\* the EXIT byte, which is written without the lock of the connection.
THEOREM OnlyStopTearsMessages == Spec => []OnlyStopTears
PROOF
  <1>1. Init => OnlyStopTears
    BY DEF Init, OnlyStopTears
  <1>2. InStep /\ OnlyStopTears /\ [Next]_vars => OnlyStopTears'
    <2> SUFFICES ASSUME InStep, OnlyStopTears, [Next]_vars, fault' = "frame"
                 PROVE  Awaited'
      BY DEF OnlyStopTears, Awaited
    <2>1. CASE UNCHANGED vars
      BY <2>1 DEF vars, OnlyStopTears, Awaited
    <2>2. CASE Next /\ fault # "none"
      BY <2>1, <2>2 DEF Next
    <2>3. CASE Next /\ fault = "none"
      <3>1. LoopReceive \/ LoopMisreads
        BY <2>3, FrameSteps
      <3>2. Torn(Pending)
        BY <2>3, <3>1, MisreadIsTorn DEF InStep, Serving, IInv
      <3>3. Awaited
        BY <3>2, TornByStop DEF InStep, Serving, IInv
      <3>4. pc' = pc
        BY <3>1 DEF LoopReceive, LoopMisreads, LoopOnly
      <3> QED
        BY <3>3, <3>4 DEF Awaited
    <2> QED
      BY <2>1, <2>2, <2>3
  <1> QED
    BY <1>1, <1>2, InStepInv, PTL DEF Spec

-----------------------------------------------------------------------------
(* Watches that libdbus has freed.                                         *)

\* The control slot is the first and the only one of the loop's socket.
LEMMA ControlSlotKnown ==
  ASSUME TypeOK, ControlSlotFirst, Lifecycle, loop \notin {"none", "done"}
  PROVE  /\ Len(table) \in Nat \ {0} /\ DOMAIN table = 1 .. Len(table)
         /\ controlFdR = CtlR /\ table[1].fd = CtlR /\ table[1].events = POLLIN
         /\ \A k \in DOMAIN table : table[k].fd = CtlR => k = 1
PROOF
  <1>1. table \in Seq(Slots) /\ table # << >> /\ controlFdR = CtlR
    BY DEF TypeOK, FieldTypes, Slots, Lifecycle, Allocated
  <1>2. Len(table) \in Nat \ {0} /\ DOMAIN table = 1 .. Len(table)
    BY <1>1, EmptySeq, LenProperties
  <1>3. BusFd # CtlR
    BY DescriptorsAssumption
  <1>4. ASSUME NEW k \in DOMAIN table, table[k].fd = CtlR PROVE k = 1
    <2>1. ~ (k > 1)
      BY <1>3, <1>4 DEF ControlSlotFirst
    <2> QED
      BY <1>2, <2>1
  <1> QED
    BY <1>1, <1>2, <1>4 DEF ControlSlotFirst

\* Once the connection is closed and the loop has read what was written, no
\* watch is left in the table.
LEMMA ShutTable ==
  ASSUME TypeOK, ControlSlotFirst, Lifecycle, SyncInv, Closing, live = {}, fault = "none",
         loop \in {"drain", "poll"}, owner # Loop, stream = << >>
  PROVE  Len(table) = 1
PROOF
  <1>1. /\ items \in Seq(Items) /\ stream \in Seq(Items) /\ enabled = {}
    BY DEF TypeOK, FieldTypes, BusTypes
  <1>2. Leads(Pending, table, {})
    BY <1>1 DEF SyncInv, Calls, Following
  <1>3. Pending = items
    <2>1. InHand = << >>
      BY DEF InHand
    <2>2. << >> \o << >> = << >> /\ << >> \o items = items
      BY <1>1, ConcatEmptySeq
    <2> QED
      BY <2>1, <2>2 DEF Pending
  <1>4. \A k \in DOMAIN items : items[k] = Ctl(WAKEUP)
    BY DEF Closing, Wakeups
  <1>5. DOMAIN items = 1 .. Len(items) /\ Len(items) \in Nat
    BY <1>1, LenProperties
  <1>6. ~ Torn(Pending)
    BY <1>3, <1>4, ItemFacts DEF Torn
  <1>7. \A w \in Watches : Ops(Pending, w) = {}
    <2> SUFFICES ASSUME NEW w \in Watches, NEW k \in Ops(items, w) PROVE FALSE
      BY <1>3
    <2>1. k \in 1 .. Len(items) - 2 /\ items[k] \in {Ctl(ADD), Ctl(REMOVE)}
      BY DEF Ops
    <2>2. k \in 1 .. Len(items)
      BY <1>5, <2>1
    <2> QED
      BY <1>4, <1>5, <2>1, <2>2, ItemFacts
  <1>8. \A w \in Watches : ~ InTable(table, w)
    BY <1>2, <1>6, <1>7 DEF Leads, WillBePolled
  <1>9. Len(table) \in Nat \ {0} /\ DOMAIN table = 1 .. Len(table)
    BY ControlSlotKnown
  <1>10. ASSUME Len(table) # 1 PROVE FALSE
    <2>1. 2 \in DOMAIN table /\ 2 > 1
      BY <1>9, <1>10
    <2>2. table[2].fd = BusFd
      BY <2>1 DEF ControlSlotFirst
    <2>3. /\ table[2].watch \in Watches
          /\ table[2].events = dbus_flags_to_unix_events(FlagsOf(table[2].watch))
      BY <2>1 DEF SyncInv, WatchSlots
    <2>4. InTable(table, table[2].watch)
      BY <2>1, <2>2, <2>3 DEF InTable
    <2> QED
      BY <1>8, <2>3, <2>4
  <1> QED
    BY <1>10

\* poll reports the control socket when something is in it.
LEMMA ControlReported ==
  ASSUME stream # << >>, controlFdR = CtlR, NEW s, s.fd = CtlR, s.events = POLLIN
  PROVE  Revents(s) # 0
PROOF
  <1>1. Has(POLLIN, POLLIN)
    BY DEF Has, POLLIN
  <1> QED
    BY <1>1 DEF Revents, Bit, POLLIN

\* Steps that leave the connection and the scan alone.
LEMMA ClosingKept ==
  ASSUME Closing, UNCHANGED live, fault' = "none" => fault = "none",
         loop' \in {"handle", "scan"} => UNCHANGED <<loop, idx, table>>,
         live = {} /\ fault = "none" /\ owner' # Loop => Wakeups(items')
  PROVE  Closing'
PROOF
  <1>1. live' \in {{}, Watches}
    BY DEF Closing, Watches
  <1>2. loop' = "handle" => idx' \in 2 .. Len(table')
    BY DEF Closing
  <1>3. ASSUME fault' = "none", live' = {}
        PROVE  /\ owner' # Loop => Wakeups(items')
               /\ loop' # "handle"
               /\ loop' = "scan" => Len(table') = 1 \/ (idx' = 1 /\ table'[1].revents # 0)
    BY <1>3 DEF Closing
  <1> QED
    BY <1>1, <1>2, <1>3 DEF Closing, Watches

\* What the loop calls it finishes before it goes on.
LEMMA LoopCalls ==
  ASSUME NEW msgs, Call(Loop, msgs), owner' # Loop
  PROVE  Wakeups(items')
PROOF
  <1>1. items' = << >>
    BY DEF Call
  <1> QED
    BY <1>1 DEF Wakeups

\* The loop finds the connection closed.
LEMMA LoopDisconnects ==
  ASSUME Disconnect(Loop), loop' \in {"dispatch", "teardown"}
  PROVE  Closing'
PROOF
  <1>1. live' = {} /\ (owner' # Loop => Wakeups(items'))
    BY LoopCalls DEF Disconnect
  <1> QED
    BY <1>1 DEF Closing

\* The steps of the clients, of the callbacks and of the bus.
LEMMA ClosingOutside ==
  ASSUME Noticers = {}, TypeOK, Lifecycle, SyncInv, Closing, fault = "none",
         \/ \E c \in Clients : StartStop(c) \/ UseBus(c)
         \/ \E t \in Threads : WriteControl(t)
         \/ Bus
  PROVE  Closing'
PROOF
  <1>1. CASE Bus
    BY <1>1, ClosingKept DEF Bus, BusSends, BusCloses, LoopFieldsUnchanged, natVars, busVars,
         callVars, Closing, Wakeups
  <1>2. ASSUME NEW c \in Clients, UseBus(c)
        PROVE  Closing'
    <2>1. enabled \subseteq live
      BY DEF TypeOK, BusTypes
    <2>2. live # {} /\ UNCHANGED live
      BY <1>2, <2>1 DEF UseBus, AppRead, AppSend, AppFlush, AppDisconnect, ReadMessages,
           QueueOutgoing, Flush, busVars
    <2>3. UNCHANGED <<loop, idx, table, fault>>
      BY <1>2 DEF UseBus, AppRead, AppSend, AppFlush, AppDisconnect, LoopFieldsUnchanged,
           natVars
    <2> QED
      BY <2>2, <2>3, ClosingKept
  <1>3. ASSUME NEW c \in Clients, StartStop(c)
        PROVE  Closing'
    <2>1. UNCHANGED <<live, owner, items, fault, idx>>
      BY <1>3 DEF StartStop, StartEventLoop, StartAlloc, StartSetUp, StopEventLoop,
           StopWrite, StopJoin, StopClose, ClientOnly, busVars, callVars
    <2>2. loop' \in {"handle", "scan"} => UNCHANGED <<loop, table>>
      BY <1>3 DEF StartStop, StartEventLoop, StartAlloc, StartSetUp, StopEventLoop,
           StopWrite, StopJoin, StopClose, natVars, Lifecycle
    <2>3. live = {} /\ owner # Loop => Wakeups(items)
      BY DEF Closing
    <2> QED
      BY <2>1, <2>2, <2>3, ClosingKept DEF Wakeups
  <1>4. ASSUME NEW t \in Threads, WriteControl(t)
        PROVE  Closing'
    <2>1. /\ UNCHANGED <<live, loop, idx, table>> /\ owner = t /\ items # << >>
          /\ items' = Tail(items)
          /\ owner' = IF items' = << >> THEN NoOne ELSE t
      BY <1>4 DEF WriteControl, natVars, busVars
    <2>2. items \in Seq(Items)
      BY DEF TypeOK, BusTypes
    <2>3. ASSUME live = {}, owner' # Loop PROVE Wakeups(items')
      <3>1. CASE t = Loop
        <4>1. items' = << >>
          BY <2>1, <2>3, <3>1
        <4> QED
          BY <4>1 DEF Wakeups
      <3>2. CASE t # Loop
        <4>1. \A k \in DOMAIN items : items[k] = Ctl(WAKEUP)
          BY <2>1, <2>3, <3>2 DEF Closing, Wakeups
        <4>2. PICK s \in Seq(Items) : s = Tail(items)
          BY <2>1, <2>2, HeadTailProperties
        <4>3. /\ DOMAIN items = 1 .. Len(items) /\ DOMAIN s = 1 .. Len(s)
              /\ Len(items) \in Nat /\ Len(s) = Len(items) - 1
              /\ \A k \in 1 .. Len(s) : s[k] = items[k + 1]
          BY <2>1, <2>2, <4>2, LenProperties, HeadTailProperties
        <4>4. ASSUME NEW k \in DOMAIN s PROVE s[k] = Ctl(WAKEUP)
          <5>1. k + 1 \in 1 .. Len(items)
            BY <4>3
          <5> QED
            BY <4>1, <4>3, <5>1
        <4> QED
          BY <2>1, <4>2, <4>4 DEF Wakeups
      <3> QED
        BY <3>1, <3>2
    <2> QED
      BY <2>1, <2>3, ClosingKept
  <1> QED
    BY <1>1, <1>2, <1>3, <1>4

\* The steps of the loop.
LEMMA ClosingLoop ==
  ASSUME TypeOK, ControlSlotFirst, Lifecycle, SyncInv, Closing, fault = "none", RunLoop
  PROVE  Closing' /\ fault' # "watch"
PROOF
  <1>1. /\ loop \notin {"none", "done"} /\ owner # Loop
        /\ enabled \subseteq live
    BY DEF RunLoop, At, LoopHook, LoopWakeHook, LoopStarted, LoopScan, LoopReceive,
         handleWatchAdd, handleWatchRemove, LoopMisreads, LoopHandleDead, LoopHandleWatch,
         LoopDispatch, LoopPoll, LoopUnhook, LoopTearDown, LoopClose, TypeOK, BusTypes
  <1>2. /\ Len(table) \in Nat \ {0} /\ DOMAIN table = 1 .. Len(table)
        /\ controlFdR = CtlR /\ table[1].fd = CtlR /\ table[1].events = POLLIN
        /\ \A k \in DOMAIN table : table[k].fd = CtlR => k = 1
        /\ idx \in Nat \ {0} /\ table \in Seq(Slots)
    BY <1>1, ControlSlotKnown DEF TypeOK, FieldTypes, Slots
  <1>3. live = {} => Wakeups(items)
    BY <1>1 DEF Closing
  <1>4. CASE LoopHook \/ LoopUnhook
    <2>1. /\ owner' # Loop => Wakeups(items')
          /\ UNCHANGED <<live, fault>> /\ loop' \notin {"handle", "scan"}
      BY <1>4, LoopCalls DEF LoopHook, LoopUnhook, LoopFieldsUnchanged
    <2> QED
      BY <2>1, ClosingKept
  <1>5. CASE LoopWakeHook \/ LoopDispatch \/ LoopClose
    <2>1. UNCHANGED <<live, fault, items>> /\ loop' \notin {"handle", "scan"}
      BY <1>5 DEF LoopWakeHook, LoopDispatch, LoopClose, LoopFieldsUnchanged, busVars,
           callVars, At
    <2> QED
      BY <1>3, <2>1, ClosingKept DEF Wakeups
  <1>6. CASE handleWatchAdd \/ handleWatchRemove \/ LoopMisreads
    <2>1. /\ UNCHANGED <<live, items>> /\ loop' \notin {"handle", "scan"}
          /\ fault' \in {"none", "frame"}
      BY <1>6 DEF handleWatchAdd, handleWatchRemove, LoopMisreads, LoopOnly, busVars,
           callVars, At
    <2> QED
      BY <1>3, <2>1, ClosingKept DEF Wakeups
  <1>7. CASE LoopTearDown
    <2>1. UNCHANGED <<loop, fault>> /\ loop = "teardown"
      BY <1>7 DEF LoopTearDown, At, LoopFieldsUnchanged
    <2>2. CASE ReadMessages(Loop) \/ Flush(Loop)
      <3>1. (owner' # Loop => Wakeups(items')) /\ UNCHANGED live
        BY <2>2, LoopCalls DEF ReadMessages, Flush, busVars
      <3> QED
        BY <2>1, <3>1, ClosingKept
    <2>3. CASE Disconnect(Loop)
      BY <2>1, <2>3, LoopDisconnects
    <2> QED
      BY <1>7, <2>1, <2>2, <2>3 DEF LoopTearDown
  <1>8. CASE LoopHandleWatch
    <2>1. loop' = "dispatch" /\ UNCHANGED fault
      BY <1>8 DEF LoopHandleWatch
    <2>2. CASE ReadMessages(Loop) \/ Flush(Loop)
      <3>1. (owner' # Loop => Wakeups(items')) /\ UNCHANGED live
        BY <2>2, LoopCalls DEF ReadMessages, Flush, busVars
      <3> QED
        BY <2>1, <3>1, ClosingKept
    <2>3. CASE Disconnect(Loop)
      BY <2>1, <2>3, LoopDisconnects
    <2>4. CASE UNCHANGED <<busVars, callVars>>
      BY <1>3, <2>1, <2>4, ClosingKept DEF busVars, callVars, Wakeups
    <2> QED
      BY <1>8, <2>1, <2>2, <2>3, <2>4 DEF LoopHandleWatch, HandleEffect
  <1>9. CASE LoopHandleDead
    <2>1. loop = "handle" /\ table[idx].watch \notin live
      BY <1>9 DEF LoopHandleDead, At
    <2>2. idx \in DOMAIN table /\ idx > 1
      BY <1>2, <2>1 DEF Closing
    <2>3. table[idx].watch \in Watches
      BY <2>2 DEF SyncInv, WatchSlots
    <2> QED
      BY <2>1, <2>3 DEF Closing
  <1>10. CASE LoopStarted
    <2>1. UNCHANGED <<table, live, items, fault>> /\ loop = "started" /\ loop' = "scan"
      BY <1>10 DEF LoopStarted, At, natVars, busVars, callVars
    <2>2. table = <<ControlSlot>>
      BY <2>1 DEF SyncInv, Fresh
    <2>3. Len(table') = 1
      BY <2>1, <2>2
    <2> QED
      BY <1>3, <2>1, <2>3 DEF Closing, Wakeups
  <1>11. CASE LoopScan
    <2>1. UNCHANGED <<table, live, items, fault>> /\ loop = "scan"
      BY <1>11 DEF LoopScan, At, LoopOnly, natVars, busVars, callVars
    <2>2. CASE loop' = "dispatch"
      BY <1>3, <2>1, <2>2, ClosingKept DEF Wakeups
    <2>3. CASE idx <= Len(table) /\ table[idx].revents = 0 /\ loop' = "scan"
      <3>1. live = {} => Len(table) = 1
        BY <2>1, <2>3 DEF Closing
      <3>2. live' = {} => Len(table') = 1
        BY <2>1, <3>1
      <3> QED
        BY <1>3, <2>1, <2>3, <3>2 DEF Closing, Wakeups
    <2>4. CASE idx <= Len(table) /\ UNCHANGED idx
               /\ loop' = IF table[idx].fd = controlFdR THEN "drain" ELSE "handle"
      <3>1. CASE table[idx].fd = CtlR
        <4>1. loop' = "drain"
          BY <1>2, <2>4, <3>1
        <4> QED
          BY <1>3, <2>1, <4>1, ClosingKept DEF Wakeups
      <3>2. CASE table[idx].fd # CtlR
        <4>1. idx # 1 /\ loop' = "handle"
          BY <1>2, <2>4, <3>2
        <4>2. idx \in 2 .. Len(table)
          BY <1>2, <2>4, <4>1
        <4>3. live # {}
          <5>1. Len(table) # 1
            BY <1>2, <4>2
          <5> QED
            BY <2>1, <4>1, <5>1 DEF Closing
        <4>4. idx' \in 2 .. Len(table')
          BY <2>1, <2>4, <4>2
        <4> QED
          BY <2>1, <4>3, <4>4 DEF Closing
      <3> QED
        BY <2>1, <3>1, <3>2
    <2> QED
      BY <1>11, <2>1, <2>2, <2>3, <2>4 DEF LoopScan
  <1>12. CASE LoopReceive
    <2>1. UNCHANGED <<table, live, items, owner>> /\ loop = "drain"
      BY <1>12 DEF LoopReceive, At, LoopOnly, natVars, busVars, callVars
    <2>2. CASE stream = << >> /\ loop' = "scan" /\ UNCHANGED fault
      <3>1. live = {} => Len(table) = 1
        BY <1>1, <2>1, <2>2, ShutTable
      <3>2. live' = {} => Len(table') = 1
        BY <2>1, <3>1
      <3> QED
        BY <1>3, <2>1, <2>2, <3>2 DEF Closing, Wakeups
    <2>3. CASE loop' \notin {"handle", "scan"} /\ fault' \in {"none", "frame"}
      BY <1>3, <2>1, <2>3, ClosingKept DEF Wakeups
    <2> QED
      BY <1>12, <2>1, <2>2, <2>3 DEF LoopReceive
  <1>13. CASE LoopPoll
    <2>1. /\ UNCHANGED <<live, items, fault>> /\ loop = "poll"
          /\ loop' = "scan" /\ idx' = 1
          /\ table' = [k \in DOMAIN table |->
                         [table[k] EXCEPT !.revents = Revents(table[k])]]
      BY <1>13 DEF LoopPoll, At, LoopOnly, busVars, callVars
    <2>2. CASE stream = << >>
      <3>1. live = {} => Len(table) = 1
        BY <1>1, <2>1, <2>2, ShutTable
      <3>2. Len(table') = Len(table)
        BY <1>2, <2>1, PolledTable DEF SameSlots
      <3> QED
        BY <1>3, <2>1, <3>1, <3>2 DEF Closing, Wakeups
    <2>3. CASE stream # << >>
      <3>1. Revents(table[1]) # 0
        BY <1>2, <2>3, ControlReported
      <3>2. 1 \in DOMAIN table /\ table[1] \in Slots
        BY <1>2, ElementOfSeq
      <3>3. table'[1] = [table[1] EXCEPT !.revents = Revents(table[1])]
        BY <2>1, <3>2
      <3>4. table'[1].revents # 0
        BY <3>1, <3>2, <3>3 DEF Slots, SlotSet
      <3> QED
        BY <1>3, <2>1, <3>4 DEF Closing, Wakeups
    <2> QED
      BY <2>2, <2>3
  <1> QED
    BY <1>4, <1>5, <1>6, <1>7, <1>8, <1>9, <1>10, <1>11, <1>12, <1>13 DEF RunLoop

\* Where the loop may be once the connection is closed, and that it never
\* comes to a freed watch.
LEMMA ClosingInv ==
  ASSUME Noticers = {}
  PROVE  Spec => [](Closing /\ NoDeadWatchHandled)
PROOF
  <1>1. Init => Closing /\ NoDeadWatchHandled
    <2> SUFFICES ASSUME Init PROVE Closing /\ NoDeadWatchHandled
      OBVIOUS
    <2>1. fault = "none" /\ live = Watches /\ loop = "none" /\ Rd \in live
      BY DEF Init, Watches
    <2> QED
      BY <2>1 DEF Closing, NoDeadWatchHandled
  <1>2. InStep /\ Closing /\ NoDeadWatchHandled /\ [Next]_vars
          => Closing' /\ NoDeadWatchHandled'
    <2> SUFFICES ASSUME InStep, Closing, NoDeadWatchHandled, [Next]_vars
                 PROVE  Closing' /\ fault' # "watch"
      BY DEF NoDeadWatchHandled
    <2>1. TypeOK /\ ControlSlotFirst /\ Lifecycle /\ SyncInv
      BY DEF InStep, Serving, IInv, Shape
    <2>2. CASE UNCHANGED vars
      BY <2>2, ClosingKept DEF vars, NoDeadWatchHandled, Closing, Wakeups
    <2>3. CASE /\ fault = "none"
               /\ \/ \E c \in Clients : StartStop(c) \/ UseBus(c)
                  \/ \E t \in Threads : WriteControl(t)
                  \/ Bus
      <3>1. fault' # "watch"
        BY <2>3 DEF StartStop, StartEventLoop, StartAlloc, StartSetUp, StopEventLoop,
             StopWrite, StopJoin, StopClose, ClientOnly, UseBus, AppRead, AppSend, AppFlush,
             AppDisconnect, LoopFieldsUnchanged, WriteControl, Bus, BusSends, BusCloses
      <3> QED
        BY <2>1, <2>3, <3>1, ClosingOutside
    <2>4. CASE fault = "none" /\ RunLoop
      BY <2>1, <2>4, ClosingLoop
    <2> QED
      BY <2>2, <2>3, <2>4 DEF Next
  <1> QED
    BY <1>1, <1>2, InStepInv, PTL DEF Spec

\* As long as only the loop itself finds the connection closed, it never
\* calls dbus_watch_handle on a watch that libdbus has freed, whichever
\* threads use the connection: the removals are in the socket before it
\* polls again, and the control socket is the first it looks at.
THEOREM FreedWatchNotHandled ==
  ASSUME Noticers = {}
  PROVE  Spec => []NoDeadWatchHandled
PROOF
  BY ClosingInv, PTL

-----------------------------------------------------------------------------
(* What the liveness properties rest on.                                   *)

\* An EXIT byte stays where it is until it is read.
LEMMA ExitsStay ==
  ASSUME NEW s \in Seq(Items), ExitsIn(s) # {}
  PROVE  /\ \A x \in Items : ExitsIn(Append(s, x)) # {}
         /\ \A n \in Nat : \A u :
              /\ n <= Len(s) /\ u = SubSeq(s, n + 1, Len(s))
              /\ \A k \in 1 .. n : s[k] # Ctl(EXIT)
              => ExitsIn(u) # {}
PROOF
  <1>1. Len(s) \in Nat /\ DOMAIN s = 1 .. Len(s)
    BY LenProperties
  <1>2. PICK e \in 1 .. Len(s) : s[e] = Ctl(EXIT)
    BY <1>1 DEF ExitsIn
  <1>3. ASSUME NEW x \in Items
        PROVE  ExitsIn(Append(s, x)) # {}
    <2>1. DOMAIN Append(s, x) = 1 .. Len(s) + 1 /\ Append(s, x)[e] = s[e]
      BY AppendProperties, LenProperties
    <2>2. e \in 1 .. Len(s) + 1
      BY <1>1
    <2> QED
      BY <1>2, <2>1, <2>2 DEF ExitsIn
  <1>4. ASSUME NEW n \in Nat, NEW u, n <= Len(s), u = SubSeq(s, n + 1, Len(s)),
               \A k \in 1 .. n : s[k] # Ctl(EXIT)
        PROVE  ExitsIn(u) # {}
    <2>1. e > n
      BY <1>1, <1>2, <1>4
    <2>2. n + 1 \in Nat /\ n + 1 <= Len(s) /\ e - n \in 1 .. Len(s) - n
          /\ (e - n) + (n + 1) - 1 = e
          /\ Len(s) - (n + 1) + 1 = Len(s) - n
      BY <1>1, <1>4, <2>1
    <2>3. /\ DOMAIN u = 1 .. Len(s) - (n + 1) + 1
          /\ \A k \in 1 .. Len(s) - (n + 1) + 1 : u[k] = s[k + (n + 1) - 1]
      BY <1>1, <1>4, <2>2, SubSeqProperties
    <2>4. e - n \in DOMAIN u /\ u[e - n] = Ctl(EXIT)
      BY <1>2, <2>2, <2>3
    <2> QED
      BY <2>4 DEF ExitsIn
  <1> QED
    BY <1>3, <1>4

\* A client that waits for the loop is the only one that starts or stops.
LEMMA StopAlone ==
  ASSUME TypeOK, Lifecycle, NEW c \in Clients, StartStop(c), Awaited'
  PROVE  StopWrite(c)
PROOF
  <1>1. NoOne \notin Clients /\ pc \in [Clients -> PcStates]
    BY ClientsAssumption DEF TypeOK, FieldTypes
  <1>2. PICK d \in Clients : pc'[d] = "join"
    BY DEF Awaited
  <1>3. CASE StartEventLoop(c) \/ StopEventLoop(c)
    <2>1. mutex = NoOne /\ pc'[d] \in {pc[d], "alloc", "exit"}
      BY <1>1, <1>3 DEF StartEventLoop, StopEventLoop
    <2> QED
      BY <1>1, <1>2, <2>1 DEF Lifecycle
  <1>4. CASE StartAlloc(c) \/ StartSetUp(c) \/ StopJoin(c) \/ StopClose(c)
    <2>1. pc[c] # "idle" /\ pc'[c] # "join" /\ (d # c => pc[d] = pc'[d])
      BY <1>1, <1>4 DEF StartAlloc, StartSetUp, StopJoin, StopClose, RollBack
    <2> QED
      BY <1>1, <1>2, <2>1 DEF Lifecycle
  <1> QED
    BY <1>3, <1>4 DEF StartStop

\* The steps of the loop read an EXIT byte only to end.
LEMMA HeardByLoop ==
  ASSUME TypeOK, RunLoop, ExitsIn(stream) # {} \/ Over
  PROVE  ExitsIn(stream') # {} \/ Over'
PROOF
  <1>1. stream \in Seq(Items)
    BY DEF TypeOK, FieldTypes
  <1>2. Len(stream) \in Nat /\ DOMAIN stream = 1 .. Len(stream)
    BY <1>1, LenProperties
  <1>3. CASE \/ LoopHook \/ LoopWakeHook \/ LoopStarted \/ LoopScan \/ LoopMisreads
             \/ LoopHandleDead \/ LoopHandleWatch \/ LoopDispatch \/ LoopPoll
             \/ LoopUnhook \/ LoopTearDown \/ LoopClose
    <2>1. UNCHANGED stream /\ (Over => Over')
      BY <1>3 DEF LoopHook, LoopWakeHook, LoopStarted, LoopScan, LoopMisreads,
           LoopHandleDead, LoopHandleWatch, LoopDispatch, LoopPoll, LoopUnhook,
           LoopTearDown, LoopClose, LoopFieldsUnchanged, Over, At
    <2> QED
      BY <2>1
  <1>4. CASE handleWatchAdd
    <2>1. /\ ~ Over /\ stream' = SubSeq(stream, 3 + 1, Len(stream)) /\ CanRead(AddFields)
      BY <1>4 DEF handleWatchAdd, At, Over
    <2>2. /\ Len(AddFields) = 3 /\ AddFields[1] = "fd" /\ AddFields[2] = "flags"
          /\ AddFields[3] = "watch"
      BY DEF AddFields
    <2>3. 3 <= Len(stream) /\ \A k \in 1 .. 3 : stream[k].kind = AddFields[k]
      BY <2>1, <2>2 DEF CanRead
    <2>4. \A k \in 1 .. 3 : AddFields[k] # "ctl"
      BY <2>2
    <2>5. \A k \in 1 .. 3 : stream[k] # Ctl(EXIT)
      BY <2>3, <2>4, ItemFacts
    <2> QED
      BY <1>1, <2>1, <2>3, <2>5, ExitsStay
  <1>5. CASE handleWatchRemove
    <2>1. /\ ~ Over /\ stream' = SubSeq(stream, 2 + 1, Len(stream)) /\ CanRead(RemoveFields)
      BY <1>5 DEF handleWatchRemove, At, Over
    <2>2. /\ Len(RemoveFields) = 2 /\ RemoveFields[1] = "fd" /\ RemoveFields[2] = "flags"
      BY DEF RemoveFields
    <2>3. 2 <= Len(stream) /\ \A k \in 1 .. 2 : stream[k].kind = RemoveFields[k]
      BY <2>1, <2>2 DEF CanRead
    <2>4. \A k \in 1 .. 2 : RemoveFields[k] # "ctl"
      BY <2>2
    <2>5. \A k \in 1 .. 2 : stream[k] # Ctl(EXIT)
      BY <2>3, <2>4, ItemFacts
    <2> QED
      BY <1>1, <2>1, <2>3, <2>5, ExitsStay
  <1>6. CASE LoopReceive
    <2>1. ~ Over
      BY <1>6 DEF LoopReceive, At, Over
    <2>2. CASE UNCHANGED stream
      BY <2>1, <2>2
    <2>3. CASE stream # << >> /\ stream' = Tail(stream) /\ Head(stream) = Ctl(EXIT)
               /\ loop' = "unhook"
      BY <2>3 DEF Over
    <2>4. CASE stream # << >> /\ stream' = Tail(stream) /\ Head(stream) # Ctl(EXIT)
      <3>1. stream' = SubSeq(stream, 1 + 1, Len(stream))
        BY <1>1, <2>4, TailIsSubSeq
      <3>2. 1 <= Len(stream) /\ stream[1] = Head(stream)
        BY <1>1, <1>2, <2>4, EmptySeq, HeadTailProperties
      <3>3. \A k \in 1 .. 1 : stream[k] # Ctl(EXIT)
        BY <2>4, <3>2
      <3> QED
        BY <1>1, <2>1, <3>1, <3>2, <3>3, ExitsStay
    <2>5. Head(stream) = Ctl(EXIT) => Head(stream).val = EXIT
      BY DEF Ctl
    <2>6. ASSUME Head(stream) = Ctl(EXIT), stream # << >>, stream' = Tail(stream),
                 loop' = (CASE Head(stream).val = EXIT -> "unhook"
                            [] Head(stream).val = ADD -> "add"
                            [] Head(stream).val = REMOVE -> "remove"
                            [] OTHER -> "drain")
          PROVE  loop' = "unhook"
      <3> DEFINE first == Head(stream).val
      <3>1. first = EXIT /\ EXIT # ADD /\ EXIT # REMOVE
        BY <2>5, <2>6 DEF EXIT, ADD, REMOVE
      <3> HIDE DEF first
      <3> QED
        BY <2>6, <3>1 DEF first
    <2>7. \/ UNCHANGED stream
          \/ stream # << >> /\ stream' = Tail(stream)
               /\ (Head(stream) = Ctl(EXIT) => loop' = "unhook")
      BY <1>6, <2>6 DEF LoopReceive
    <2> QED
      BY <2>2, <2>3, <2>4, <2>7
  <1> QED
    BY <1>3, <1>4, <1>5, <1>6 DEF RunLoop

\* The EXIT byte of a stop is in the socket until the loop ends by it, also
\* among the messages of several threads, unless a message was misread.
THEOREM StopsAreHeard == Spec => []StopIsHeard
PROOF
  <1>1. Init => StopIsHeard
    BY DEF Init, StopIsHeard
  <1>2. Serving /\ StopIsHeard /\ [Next]_vars => StopIsHeard'
    <2> SUFFICES ASSUME Serving, StopIsHeard, [Next]_vars, fault' = "none", Awaited'
                 PROVE  ExitsIn(stream') # {} \/ Over'
      BY DEF StopIsHeard, Awaited, Over
    <2>1. TypeOK /\ TypeOK' /\ Shape /\ Lifecycle /\ stream \in Seq(Items)
      <3>1. IInv'
        BY NextInv DEF Serving
      <3> QED
        BY <3>1 DEF Serving, IInv, TypeOK, FieldTypes
    <2>2. fault = "none" /\ Awaited => ExitsIn(stream) # {} \/ Over
      BY DEF StopIsHeard, Awaited, Over
    <2>3. CASE UNCHANGED vars
      BY <2>2, <2>3 DEF vars, Awaited, Over, ExitsIn
    <2>4. ASSUME fault = "none", NEW c \in Clients, StartStop(c)
          PROVE  ExitsIn(stream') # {}
      <3>1. stream' = Append(stream, Ctl(EXIT))
        BY <2>1, <2>4, StopAlone DEF StopWrite
      <3>2. Len(stream') = Len(stream) + 1 /\ stream'[Len(stream) + 1] = Ctl(EXIT)
            /\ Len(stream) \in Nat /\ DOMAIN stream' = 1 .. Len(stream')
        BY <2>1, <3>1, PartsTyped, AppendProperties, LenProperties
      <3>3. Len(stream) + 1 \in DOMAIN stream'
        BY <3>2
      <3> QED
        BY <3>2, <3>3 DEF ExitsIn
    <2>5. ASSUME fault = "none", NEW c \in Clients, UseBus(c)
          PROVE  UNCHANGED <<stream, loop, pc>>
      BY <2>5 DEF UseBus, AppRead, AppSend, AppFlush, AppDisconnect, LoopFieldsUnchanged
    <2>6. Bus => UNCHANGED <<stream, loop, pc>>
      BY DEF Bus, BusSends, BusCloses, LoopFieldsUnchanged
    <2>7. ASSUME fault = "none", NEW t \in Threads, WriteControl(t)
          PROVE  ExitsIn(stream') # {} \/ Over'
      <3>1. UNCHANGED <<loop, pc>> /\ items # << >> /\ items \in Seq(Items)
            /\ (UNCHANGED stream \/ stream' = Append(stream, Head(items)))
        BY <2>1, <2>7 DEF WriteControl, TypeOK, BusTypes
      <3>2. Head(items) \in Items
        BY <3>1, HeadTailProperties
      <3>3. ExitsIn(stream) # {} \/ Over
        BY <2>2, <2>7, <3>1 DEF Awaited
      <3> QED
        BY <2>1, <3>1, <3>2, <3>3, ExitsStay DEF Over
    <2>8. CASE fault = "none" /\ RunLoop
      <3>1. pc' = pc
        BY <2>1, <2>8, LoopSteps
      <3> QED
        BY <2>1, <2>2, <2>8, <3>1, HeardByLoop DEF Awaited
    <2>9. UNCHANGED <<stream, loop, pc>> /\ fault = "none" => ExitsIn(stream') # {} \/ Over'
      BY <2>2 DEF Awaited, Over
    <2> QED
      BY <2>3, <2>4, <2>5, <2>6, <2>7, <2>8, <2>9 DEF Next
  <1> QED
    BY <1>1, <1>2, ServingInv, PTL DEF Spec

\* A loop that waits has installed the wakeup function.
Waker == loop \notin {"none", "hook", "wakehook"} => wakeHooked

LEMMA WakerStep ==
  ASSUME Waker, [Next]_vars
  PROVE  Waker'
PROOF
  <1>1. CASE UNCHANGED vars
    BY <1>1 DEF Waker, vars
  <1>2. ASSUME NEW c \in Clients, StartStop(c)
        PROVE  Waker'
    BY <1>2 DEF Waker, StartStop, StartEventLoop, StartAlloc, StartSetUp, StopEventLoop,
         StopWrite, StopJoin, StopClose, ClientOnly, busVars
  <1>3. ASSUME NEW c \in Clients, UseBus(c)
        PROVE  UNCHANGED <<wakeHooked, loop>>
    BY <1>3 DEF UseBus, AppRead, AppSend, AppFlush, AppDisconnect, ReadMessages, Flush,
         QueueOutgoing, Disconnect, busVars
  <1>4. ASSUME NEW t \in Threads, WriteControl(t)
        PROVE  UNCHANGED <<wakeHooked, loop>>
    BY <1>4 DEF WriteControl, busVars
  <1>5. Bus => UNCHANGED <<wakeHooked, loop>>
    BY DEF Bus, BusSends, BusCloses, busVars
  <1>6. CASE RunLoop
    <2>1. CASE \/ LoopScan \/ LoopReceive \/ handleWatchAdd \/ handleWatchRemove
               \/ LoopMisreads \/ LoopHandleDead \/ LoopPoll
      BY <2>1 DEF Waker, LoopScan, LoopReceive, handleWatchAdd, handleWatchRemove,
           LoopMisreads, LoopHandleDead, LoopPoll, LoopOnly, busVars, At
    <2>2. CASE \/ LoopHook \/ LoopWakeHook \/ LoopStarted \/ LoopDispatch \/ LoopUnhook
               \/ LoopClose
      BY <2>2 DEF Waker, LoopHook, LoopWakeHook, LoopStarted, LoopDispatch, LoopUnhook,
           LoopClose, busVars, At
    <2>3. CASE LoopHandleWatch \/ LoopTearDown
      <3>1. loop \in {"handle", "teardown"} /\ wakeHooked' = wakeHooked
        BY <2>3 DEF LoopHandleWatch, LoopTearDown, HandleEffect, ReadMessages, Flush,
             Disconnect, busVars, At
      <3> QED
        BY <3>1 DEF Waker
    <2> QED
      BY <1>6, <2>1, <2>2, <2>3 DEF RunLoop
  <1>7. UNCHANGED <<wakeHooked, loop>> => Waker'
    BY DEF Waker
  <1> QED
    BY <1>1, <1>2, <1>3, <1>4, <1>5, <1>6, <1>7 DEF Next

\* The loop goes into poll only with nothing queued.
LEMMA LoopSleeps ==
  ASSUME BusTypes, RunLoop, loop' = "poll"
  PROVE  fault' # "none" \/ ~ incoming' > 0
PROOF
  <1>1. CASE \/ LoopScan \/ LoopReceive \/ handleWatchAdd \/ handleWatchRemove
             \/ LoopMisreads \/ LoopHandleDead \/ LoopHandleWatch \/ LoopPoll
    BY <1>1 DEF LoopScan, LoopReceive, handleWatchAdd, handleWatchRemove,
         LoopMisreads, LoopHandleDead, LoopHandleWatch, LoopPoll, At
  <1>2. CASE \/ LoopHook \/ LoopWakeHook \/ LoopStarted \/ LoopUnhook \/ LoopTearDown
             \/ LoopClose
    BY <1>2 DEF LoopHook, LoopWakeHook, LoopStarted, LoopUnhook, LoopTearDown,
         LoopClose, At
  <1>3. CASE LoopDispatch
    <2>1. CASE incoming > 0
      BY <1>3, <2>1 DEF LoopDispatch, At
    <2> QED
      BY <1>3, <2>1 DEF LoopDispatch
  <1> QED
    BY <1>1, <1>2, <1>3 DEF RunLoop

\* A loop that sleeps while a message is queued has something in its socket,
\* or a callback is about to put it there: no wakeup is lost, whoever queued
\* the message and when.
THEOREM QueuedWakeups == Spec => []QueuedWakes
PROOF
  <1> DEFINE Inv == Waker /\ QueuedWakes
  <1>1. Init => Inv
    BY DEF Init, Waker, QueuedWakes
  <1>2. InStep /\ Inv /\ [Next]_vars => Inv'
    <2> SUFFICES ASSUME InStep, Waker, QueuedWakes, [Next]_vars, loop' = "poll",
                        fault' = "none", incoming' > 0
                 PROVE  stream' # << >> \/ items' # << >>
      BY WakerStep DEF QueuedWakes
    <2>1. /\ TypeOK /\ BusTypes /\ Lifecycle /\ (owner = NoOne => items = << >>)
          /\ stream \in Seq(Items)
      BY DEF InStep, Serving, IInv, SyncInv, Calls, TypeOK, FieldTypes
    <2>2. loop = "poll" /\ fault = "none" /\ incoming > 0 /\ UNCHANGED stream /\ UNCHANGED items
          => stream' # << >> \/ items' # << >>
      BY DEF QueuedWakes
    <2>3. CASE UNCHANGED vars
      BY <2>2, <2>3 DEF vars
    <2>4. ASSUME fault = "none", NEW c \in Clients, StartStop(c)
          PROVE  stream' # << >> \/ items' # << >>
      <3>1. /\ loop = "poll" /\ UNCHANGED <<incoming, items>>
            /\ UNCHANGED stream \/ StopWrite(c)
        BY <2>1, <2>4 DEF StartStop, StartEventLoop, StartAlloc, StartSetUp,
             StopEventLoop, StopWrite, StopJoin, StopClose, ClientOnly, callVars, Lifecycle
      <3>2. CASE StopWrite(c)
        <4>1. stream' = Append(stream, Ctl(EXIT)) /\ Ctl(EXIT) \in Items
          BY <3>2, PartsTyped DEF StopWrite
        <4> QED
          BY <2>1, <4>1, AppendProperties, EmptySeq
      <3> QED
        BY <2>2, <2>4, <3>1, <3>2
    <2>5. ASSUME fault = "none", NEW c \in Clients, UseBus(c)
          PROVE  stream' # << >> \/ items' # << >>
      <3>1. loop = "poll" /\ UNCHANGED stream
        BY <2>5 DEF UseBus, AppRead, AppSend, AppFlush, AppDisconnect, LoopFieldsUnchanged
      <3>2. dbusWakeup = <<Ctl(WAKEUP)>>
        BY <3>1 DEF Waker, dbusWakeup
      <3>3. CASE AppRead(c)
        BY <3>2, <3>3 DEF AppRead, ReadMessages, Call
      <3>4. CASE AppDisconnect(c)
        <4>1. items' = Hooked(RemoveAll) \o <<Ctl(WAKEUP)>>
          BY <3>2, <3>4 DEF AppDisconnect, Disconnect, Call
        <4>2. Hooked(RemoveAll) \in Seq(Items)
          BY MessagesTyped DEF Hooked
        <4>3. <<Ctl(WAKEUP)>> \in Seq(Items)
          BY <3>2, MessagesTyped
        <4> QED
          BY <4>1, <4>2, <4>3
      <3>5. CASE AppSend(c) \/ AppFlush(c)
        <4>1. UNCHANGED incoming /\ owner = NoOne
          BY <3>5 DEF AppSend, AppFlush, QueueOutgoing, Flush, Call
        <4> QED
          BY <2>1, <2>5, <3>1, <4>1 DEF QueuedWakes
      <3> QED
        BY <2>5, <3>3, <3>4, <3>5 DEF UseBus
    <2>6. ASSUME fault = "none", NEW t \in Threads, WriteControl(t)
          PROVE  stream' # << >> \/ items' # << >>
      <3>1. loop = "poll" /\ items # << >> /\ items \in Seq(Items)
        BY <2>1, <2>6 DEF WriteControl, BusTypes
      <3>2. controlFdW # 0 /\ CtlR \in open
        BY <2>1, <3>1, DescriptorsAssumption DEF Lifecycle, Allocated
      <3>3. stream' = Append(stream, Head(items))
        BY <2>6, <3>2 DEF WriteControl
      <3>4. Head(items) \in Items
        BY <3>1, HeadTailProperties
      <3> QED
        BY <2>1, <3>3, <3>4, AppendProperties, EmptySeq
    <2>7. Bus => UNCHANGED <<stream, items, loop, incoming, fault>>
      BY DEF Bus, BusSends, BusCloses, LoopFieldsUnchanged, callVars
    <2>8. ~ RunLoop
      BY <2>1, LoopSleeps
    <2> QED
      BY <2>2, <2>3, <2>4, <2>5, <2>6, <2>7, <2>8 DEF Next
  <1> QED
    BY <1>1, <1>2, InStepInv, PTL DEF Spec
=============================================================================
