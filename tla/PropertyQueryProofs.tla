------------------------- MODULE PropertyQueryProofs ------------------------
(***************************************************************************)
(* What holds of every blocking call and of every dictionary, of any       *)
(* length and with any entries, wherever an allocation fails.              *)
(***************************************************************************)
EXTENDS PropertyQueryProperties, FiniteSetTheorems, SequenceTheorems,
        WellFoundedInduction, NaturalsInduction, TLAPS

-----------------------------------------------------------------------------
(* The tables, and the searches in them.                                   *)

LEMMA Smallest ==
  ASSUME NEW S, S \subseteq Nat, S # {}
  PROVE  \E i \in S : \A j \in S : i <= j
<1>1. \E i \in S : \A j \in S : ~(<<j, i>> \in OpToRel(<, Nat))
  BY NatLessThanWellFounded, WFMin, Zenon
<1>2. PICK i \in S : \A j \in S : ~(<<j, i>> \in OpToRel(<, Nat))
  BY <1>1
<1>3. ASSUME NEW j \in S
      PROVE  i <= j
  <2>1. ~(j < i)
    BY <1>2 DEF OpToRel
  <2>2. i \in Nat /\ j \in Nat
    OBVIOUS
  <2> QED BY <2>1, <2>2
<1> QED BY <1>2, <1>3

LEMMA TableFacts ==
  ASSUME NEW t \in Tables
  PROVE  /\ Len(t) \in Nat /\ DOMAIN t = 1 .. Len(t)
<1>1. /\ Len(adapter_properties) = 11 /\ DOMAIN adapter_properties = 1 .. 11
      /\ Len(remote_device_properties) = 17 /\ DOMAIN remote_device_properties = 1 .. 17
  BY DEF adapter_properties, remote_device_properties
<1> QED BY <1>1 DEF Tables

LEMMA LookupIs ==
  ASSUME table \in Tables, NEW name, Matches(name) # {}
  PROVE  /\ Lookup(name) \in Matches(name) /\ Lookup(name) \in Index
         /\ \A j \in Matches(name) : Lookup(name) <= j
<1>1. Matches(name) \subseteq Index /\ Matches(name) \subseteq Nat
  BY TableFacts DEF Matches, Index, MaxProperties
<1>2. \E i \in Matches(name) : \A j \in Matches(name) : i <= j
  BY <1>1, Smallest
<1> QED BY <1>1, <1>2 DEF Lookup

LEMMA NextIs ==
  ASSUME table \in Tables, Todo # {}
  PROVE  /\ Next0 \in Todo /\ Next0 \in Index
         /\ \A j \in Todo : Next0 <= j
<1>1. Todo \subseteq Index /\ Todo \subseteq Nat
  BY TableFacts DEF Todo, Index, MaxProperties
<1>2. \E i \in Todo : \A j \in Todo : i <= j
  BY <1>1, Smallest
<1> QED BY <1>1, <1>2 DEF Next0

-----------------------------------------------------------------------------
(* The memory of a call, and how far parsing is at each of its places.     *)

CallTypes ==
  /\ call \in Call!FunctionCalls
  /\ step \in {"compose", "append", "send", "take", "returned", "released", "aborted"}
  /\ ret0 \in {"none", "value", "failed", "nomemory", "error"}

\* What a result may leave to the client.
Results0 == IF call.takes = "strings" THEN {"copy", "elements", "list"} ELSE {"copy"}

CallMemory ==
  /\ step = "compose" => live = {} /\ ret0 = "none"
  /\ step = "append" => Call!Composes /\ live = Call!Scratch
  /\ step = "send" => live = Call!Scratch
  /\ step = "take" => /\ call.form # "oneway"
                      /\ live = IF Call!Composes THEN {"reply"}
                                ELSE Call!Scratch \cup {"reply"}
  /\ step = "returned" =>
       CASE ret0 = "error" -> live = IF call.form = "error" THEN {"error"} ELSE {}
         [] ret0 = "value" /\ Call!Composes /\ ~Queries -> live \subseteq Results0
         [] OTHER -> live = {}
  /\ step = "released" => live \subseteq Call!Leaked
  /\ step = "aborted" => live = {}

\* A dictionary is parsed only between its arrival and the return.
Parsed0 == pc \in {"parsed", "freed", "crashed"}
ParsedInTime ==
  Queries => /\ source = "dictionary"
             /\ step \in {"compose", "append", "send"} => pc = "parse" /\ rest = message
             /\ step = "returned" => (pc = "parse" /\ rest = message) \/ Parsed0
             /\ step = "returned" /\ ret0 = "value" => Parsed0
             /\ step # "released"
             /\ step = "aborted" => pc = "parse" /\ rest = message

CallInv == CallTypes /\ CallMemory

LEMMA Forms ==
  ASSUME call \in Call!FunctionCalls
  PROVE  /\ call.form \in {"plain", "error", "inline", "oneway"}
         /\ Queries => call.form = "plain"
         /\ call.form = "oneway" => call.takes = "nothing"
         /\ call.form = "inline" => call.takes \in {"nothing", "path"}
         /\ Call!Composes => call.takes \in {"number", "string", "strings", "bytes", "properties"}
BY DEF Call!FunctionCalls, Call!Results, Queries, Call!Composes

LEMMA CallInit == QueryInit => CallInv
BY DEF QueryInit, Call!Init, CallInv, CallTypes, CallMemory

LEMMA CallStep == CallInv /\ [QueryNext]_queryVars => CallInv'
<1> SUFFICES ASSUME CallInv, [QueryNext]_queryVars
             PROVE  CallInv'
  OBVIOUS
<1> USE DEF CallInv
<1>0. /\ call.form \in {"plain", "error", "inline", "oneway"}
      /\ Queries => call.form = "plain"
      /\ call.form = "oneway" => call.takes = "nothing"
  BY Forms DEF CallTypes
<1> USE <1>0
<1>1. CASE Call!Compose
  BY <1>1 DEF Call!Compose, Call!Return, Call!Composes, Call!Scratch, CallTypes, CallMemory, Queries
<1>2. CASE Call!AppendArgs
  BY <1>2 DEF Call!AppendArgs, Call!Return, Call!Composes, Call!Scratch, CallTypes, CallMemory, Queries
<1>3. CASE Call!Send
  BY <1>3 DEF Call!Send, Call!Return, Call!Composes, Call!Scratch, CallTypes, CallMemory, Queries
<1>4. CASE Call!Take
  <2>1. ASSUME NEW got \in Call!Got(call.takes)
        PROVE  got \cup (IF call.takes = "strings" THEN {"list"} ELSE {}) \subseteq Results0
    BY <2>1 DEF Call!Got, Results0
  <2>2. call.takes # "properties"
    BY <1>4 DEF Call!Take, Call!Results
  <2> QED BY <1>4, <2>1, <2>2 DEF Call!Take, Call!Return, Call!Composes, Call!Scratch, CallTypes, CallMemory, Queries, Results0
<1>5. CASE Call!Release
  BY <1>5 DEF Call!Release, Call!Leaked, Call!Composes, CallTypes, CallMemory, Queries, Results0
<1>6. CASE Call!ServiceCompose
  BY <1>6 DEF Call!ServiceCompose, Call!Return, Call!Composes, Call!Scratch, CallTypes, CallMemory, Queries
<1>7. CASE Call!ServiceSend
  BY <1>7 DEF Call!ServiceSend, Call!Return, Call!Composes, Call!Scratch, CallTypes, CallMemory, Queries
<1>8. CASE Call!ServiceTake
  BY <1>8 DEF Call!ServiceTake, Call!Return, Call!Composes, Call!Scratch, CallTypes, CallMemory, Queries
<1>9. CASE Call!SetProperty
  BY <1>9 DEF Call!SetProperty, Call!Return, Call!Composes, Call!Scratch, CallTypes, CallMemory, Queries
<1>10. CASE QueryReturns
  BY <1>10 DEF QueryReturns, Call!Composes, Call!Scratch, CallTypes, CallMemory, Queries
<1>11. CASE UNCHANGED callVars
  BY <1>11 DEF callVars, CallTypes, CallMemory, Queries, Results0, Call!Composes, Call!Scratch, Call!Leaked
<1> QED BY <1>1, <1>2, <1>3, <1>4, <1>5, <1>6, <1>7, <1>8, <1>9, <1>10, <1>11
        DEF QueryNext, Call!Next, QueryStep, UseProperties, Signalled, queryVars

(***************************************************************************)
(* However a blocking call ends, its message, its reply and an error of    *)
(* its own are released, and the client can free the rest but for the list *)
(* of libdbus.                                                             *)
(***************************************************************************)
THEOREM CallsRelease == QuerySpec => []CallReleases
<1>1. CallInv => CallReleases
  BY Forms DEF CallInv, CallTypes, CallMemory, CallReleases, Results0, Call!Composes
<1> QED BY <1>1, CallInit, CallStep, PTL DEF QuerySpec

(***************************************************************************)
(* A client's error is set when its call was made and got no reply, and    *)
(* only then.                                                              *)
(***************************************************************************)
THEOREM ErrorsAreTheClients == QuerySpec => []ErrorIsTheClients
<1>1. CallInv => ErrorIsTheClients
  BY Forms DEF CallInv, CallTypes, CallMemory, ErrorIsTheClients, Results0, Call!Composes
<1> QED BY <1>1, CallInit, CallStep, PTL DEF QuerySpec

-----------------------------------------------------------------------------
(* What is known of the result at each place of the parser.                *)

Entries == [name : Seq(STRING), type : Types, len : Nat]

ParseTypes ==
  /\ table \in Tables /\ source \in {"dictionary", "change"}
  /\ pc \in {"parse", "count", "alloc", "create", "parsed", "freed", "crashed"}
  /\ message \in Dictionaries
  /\ message \in Seq(Entries)
  /\ source = "change" => Len(message) = 1
  /\ Len(rest) \in 0 .. Len(message)
  /\ rest = SubSeq(message, Len(message) - Len(rest) + 1, Len(message))
  /\ values \in [Index -> [used : BOOLEAN, len : Nat]]
  /\ array \in [num : 0 .. MaxProperties + 1, head : BOOLEAN]
  /\ created \in Seq([prop : Index, len : Nat, copied : BOOLEAN])
  /\ Len(created) <= array.num
  /\ ret \in {0, 1}

\* Where parse_properties is.
Places ==
  /\ pc \in {"parse", "count", "alloc", "create"} => ret = 0
  /\ pc \in {"parse", "count", "alloc"} => created = << >> /\ ~array.head
  /\ pc \in {"count", "alloc", "create"} => source = "dictionary" /\ rest = << >>
  /\ pc = "parse" /\ source = "change" => \A i \in Index : ~values[i].used
  /\ pc = "alloc" => array.num >= MaxProperties
  /\ pc = "create" => array.head /\ array.num >= MaxProperties
  /\ pc \in {"parsed", "freed", "crashed"} /\ ret = 0 /\ source = "dictionary" => rest = << >>

\* head has the used properties in the order of the table, up to some one.
Ordered ==
  /\ \A k \in DOMAIN created :
        /\ k <= created[k].prop
        /\ values[created[k].prop].used
        /\ values[created[k].prop].len = created[k].len
  /\ \A j, k \in DOMAIN created : j < k => created[j].prop < created[k].prop
  /\ \A k \in DOMAIN created, i \in Todo : created[k].prop < i
  /\ ret = 0 /\ array.head /\ pc \in {"parsed", "freed", "crashed"} => Todo = {}

\* Blocks are of arrays not created yet, of what was created, or the head.
Temporary == {Tmp(i) : i \in Todo}
Copies == UNION {{Copy(v.prop), Elements(v.prop)} : v \in ToSet(created)}

Allocated ==
  /\ Head0 \in heap => array.head
  /\ ret = 0 /\ pc # "freed" => heap \subseteq {Head0} \cup Temporary \cup Copies
  /\ pc = "freed" => heap \subseteq Temporary /\ ret = 0
  /\ ret = 1 => heap \subseteq (IF source = "change" THEN {Head0} ELSE {})

ParseInv == ParseTypes /\ Places /\ Ordered /\ Allocated

LEMMA SentEntries ==
  ASSUME table \in Tables, NEW d \in Dictionaries
  PROVE  d \in Seq(Entries)
<1>1. Sent[table] \subseteq Entries
  BY PropertyParseAssumption DEF Entries
<1>2. PICK m \in 0 .. MaxEntries : d \in [1 .. m -> Sent[table]]
  BY DEF Dictionaries, SeqOf
<1>3. m \in Nat
  BY <1>2, PropertyParseAssumption
<1> QED BY <1>1, <1>2, <1>3

LEMMA ParseInit == QueryInit => ParseInv /\ ParsedInTime
<1> SUFFICES ASSUME QueryInit
             PROVE  ParseInv /\ ParsedInTime
  OBVIOUS
<1> USE DEF QueryInit, Init
<1>1. message \in Seq(Entries)
  BY SentEntries
<1>2. Len(message) \in Nat /\ SubSeq(message, 1, Len(message)) = message
  BY <1>1, LenProperties, SubSeqFull
<1>3. MaxProperties \in Nat
  BY TableFacts DEF MaxProperties
<1>4. ParseTypes
  BY <1>1, <1>2, <1>3 DEF ParseTypes, Unused, NoArray
<1>5. Places
  BY DEF Places, Unused, NoArray
<1>6. Ordered
  BY DEF Ordered
<1>7. Allocated
  BY DEF Allocated
<1>8. ParsedInTime
  BY DEF ParsedInTime, Call!Init
<1> QED BY <1>4, <1>5, <1>6, <1>7, <1>8 DEF ParseInv

\* What is left of the dictionary when an entry was parsed.
LEMMA RestShrinks ==
  ASSUME ParseTypes, rest # << >>
  PROVE  /\ Len(Tail(rest)) = Len(rest) - 1 /\ Len(rest) > 0
         /\ Tail(rest) = SubSeq(message, Len(message) - Len(Tail(rest)) + 1, Len(message))
         /\ Head(rest) = message[Len(message) - Len(rest) + 1]
         /\ Head(rest) \in Entries
<1> DEFINE n == Len(message) - Len(rest) + 1
<1>1. Len(message) \in Nat /\ Len(rest) \in 0 .. Len(message)
  BY LenProperties DEF ParseTypes
<1>2. \A i \in n .. Len(message) : message[i] \in Entries
  BY <1>1, ElementOfSeq DEF ParseTypes
<1>3. rest = SubSeq(message, n, Len(message))
  BY DEF ParseTypes
<1>4. rest \in Seq(Entries)
  <2>1. n \in Int /\ Len(message) \in Int
    BY <1>1
  <2> HIDE DEF n
  <2> QED BY <1>2, <1>3, <2>1, SubSeqProperties, Zenon
<1>5. Len(rest) > 0
  BY <1>1, <1>4, EmptySeq
<1>6. n \in 1 .. Len(message) /\ Len(message) \in n .. Len(message)
  BY <1>1, <1>5
<1>7. message \in Seq(Entries)
  BY DEF ParseTypes
<1>8. /\ Head(rest) = message[n]
      /\ Tail(rest) = SubSeq(message, n + 1, Len(message))
  BY <1>3, <1>6, <1>7, HeadTailOfSubSeq, Zenon
<1>9. Len(Tail(rest)) = Len(rest) - 1 /\ Head(rest) \in Entries
  BY <1>4, <1>5, <1>1, HeadTailProperties, EmptySeq
<1>10. n + 1 = Len(message) - Len(Tail(rest)) + 1
  BY <1>1, <1>9
<1> QED BY <1>5, <1>8, <1>9, <1>10

-----------------------------------------------------------------------------
(* Each step of the parser keeps what is known of the result.              *)

\* What no step of the parser changes.
LEMMA Fixed ==
  ASSUME ParseTypes, UNCHANGED input
  PROVE  /\ table' = table /\ source' = source /\ message' = message
         /\ MaxProperties \in Nat /\ Index \subseteq Nat
         /\ MaxProperties' = MaxProperties /\ Index' = Index
         /\ Dictionaries' = Dictionaries
         /\ Len(message) \in Nat
<1>1. table' = table /\ source' = source /\ message' = message
  BY DEF input
<1>2. MaxProperties \in Nat
  BY TableFacts DEF ParseTypes, MaxProperties
<1> QED BY <1>1, <1>2, LenProperties DEF ParseTypes, MaxProperties, Index, Dictionaries

\* Blocks of different kinds are different.
LEMMA Kinds ==
  /\ \A i, j : Tmp(i) = Tmp(j) => i = j
  /\ \A i, j : Tmp(i) # Copy(j) /\ Tmp(i) # Elements(j)
  /\ \A i : Tmp(i) # Head0
BY DEF Tmp, Copy, Elements, Head0

\* Without a property to be created yet, nothing temporary is left.
LEMMA FailureStep ==
  ASSUME ParseInv, pc = "parse", source = "dictionary", Failure,
         UNCHANGED <<input, array, created>>
  PROVE  ParseInv'
<1> USE DEF ParseInv
<1>1. ParseTypes'
  BY Fixed DEF ParseTypes, Failure
<1>2. Places'
  BY Fixed DEF Places, Failure
<1>3. created = << >> /\ ~array.head /\ ret = 0 /\ Copies = {}
  BY DEF Places, Copies, ToSet
<1>4. Ordered'
  BY <1>3, Fixed DEF Ordered, Failure
<1>5. Temporary \subseteq {Tmp(i) : i \in {j \in Index : values[j].used}}
  BY DEF Temporary, Todo
<1>6. heap' = {}
  BY <1>3, <1>5 DEF Allocated, Failure
<1>7. Allocated'
  BY <1>6, Fixed DEF Allocated, Failure
<1> QED BY <1>1, <1>2, <1>4, <1>7

LEMMA EntryStep == ParseInv /\ ParseEntry => ParseInv'
<1> SUFFICES ASSUME ParseInv, ParseEntry
             PROVE  ParseInv'
  OBVIOUS
<1> USE DEF ParseInv
<1> DEFINE e == Head(rest)
           i == Lookup(e.name)
           made == e.type = "array" /\ e.len > 0
<1>1. pc = "parse" /\ source = "dictionary" /\ UNCHANGED <<input, array, created>>
  BY DEF ParseEntry
<1>2. CASE Failure
  BY <1>1, <1>2, FailureStep
<1>3. CASE ~Failure
  <2>1. /\ rest # << >> /\ Known(e)
        /\ values' = [values EXCEPT ![i] = [used |-> TRUE, len |-> e.len]]
        /\ heap' = IF made THEN heap \cup {Tmp(i)} ELSE heap
        /\ rest' = Tail(rest)
        /\ pc' = IF rest' = << >> THEN "count" ELSE "parse"
        /\ ret' = ret
    BY <1>3 DEF ParseEntry
  <2>2. i \in Index
    BY <2>1, LookupIs DEF Known, ParseTypes
  <2>3. e.len \in Nat
    BY <2>1, RestShrinks DEF Entries
  <2> HIDE DEF e, i, made
  <2>4. created = << >> /\ ~array.head /\ ret = 0
    BY <1>1 DEF Places
  <2>5. ParseTypes'
    <3>1. values' \in [Index' -> [used : BOOLEAN, len : Nat]]
      BY <1>1, <2>1, <2>2, <2>3, Fixed DEF ParseTypes
    <3>2. /\ Len(rest') \in 0 .. Len(message)
          /\ rest' = SubSeq(message', Len(message') - Len(rest') + 1, Len(message'))
      <4>1. UNCHANGED message /\ Len(message) \in Nat
        BY <1>1, Fixed
      <4>2. Len(rest) \in 0 .. Len(message)
        BY DEF ParseTypes
      <4>3. /\ Len(Tail(rest)) = Len(rest) - 1 /\ Len(rest) > 0
            /\ Tail(rest) = SubSeq(message, Len(message) - Len(Tail(rest)) + 1, Len(message))
        BY <2>1, RestShrinks
      <4>4. Len(Tail(rest)) \in 0 .. Len(message)
        BY <4>1, <4>2, <4>3
      <4> QED BY <2>1, <4>1, <4>3, <4>4
    <3> QED BY <1>1, <2>1, <3>1, <3>2, Fixed DEF ParseTypes
  <2>6. Places'
    BY <1>1, <2>1, <2>4, Fixed DEF Places
  <2>7. Ordered'
    BY <1>1, <2>4, <2>1 DEF Ordered
  <2>8. Todo' = Todo \cup {i}
    BY <1>1, <2>1, <2>2, <2>4, Fixed DEF Todo, ParseTypes
  <2>9. Allocated'
    <3>1. Temporary' = Temporary \cup {Tmp(i)}
      BY <2>8 DEF Temporary, Tmp
    <3>2. UNCHANGED Copies /\ array' = array
      BY <1>1 DEF Copies
    <3> QED BY <1>1, <2>1, <2>4, <3>1, <3>2, Kinds DEF Allocated
  <2> QED BY <2>5, <2>6, <2>7, <2>9
<1> QED BY <1>2, <1>3

LEMMA CountStep == ParseInv /\ Count => ParseInv'
<1> SUFFICES ASSUME ParseInv, Count
             PROVE  ParseInv'
  OBVIOUS
<1> USE DEF ParseInv
<1>1. /\ pc = "count" /\ pc' \in {"count", "alloc"}
      /\ UNCHANGED <<input, rest, values, created, heap, ret>>
  BY DEF Count
<1>2. UNCHANGED input
  BY <1>1
<1>3. array.num \in Nat /\ array = [num |-> array.num, head |-> array.head]
  BY Fixed, <1>2 DEF ParseTypes
<1>4. /\ array' \in [num : 0 .. MaxProperties + 1, head : BOOLEAN]
      /\ array'.head = array.head /\ array'.num >= array.num
      /\ pc' = "alloc" => array'.num >= MaxProperties
  BY SMTT(30), <1>2, <1>3, Fixed DEF Count, ParseTypes, Index
<1>5. ParseTypes'
  BY <1>1, <1>2, <1>4, Fixed DEF ParseTypes, Places
<1>6. Places' /\ Ordered' /\ Allocated'
  BY <1>1, <1>2, <1>4, Fixed DEF Places, Ordered, Allocated, Todo, Temporary, Copies
<1> QED BY <1>5, <1>6

LEMMA AllocStep == ParseInv /\ AllocHead => ParseInv'
<1> SUFFICES ASSUME ParseInv, AllocHead
             PROVE  ParseInv'
  OBVIOUS
<1> USE DEF ParseInv
<1>1. /\ pc = "alloc" /\ pc' \in {"create", "parsed"}
      /\ array'.num = array.num /\ array'.head = (pc' = "create")
      /\ array' \in [num : 0 .. MaxProperties + 1, head : BOOLEAN]
      /\ heap' = IF pc' = "create" THEN heap \cup {Head0} ELSE heap
      /\ UNCHANGED <<input, rest, values, created, ret>>
  BY DEF AllocHead, ParseTypes, Places
<1>2. UNCHANGED input
  BY <1>1
<1>3. ParseTypes'
  BY <1>1, <1>2, Fixed DEF ParseTypes, Places
<1>4. Places'
  BY <1>1, <1>2, Fixed DEF Places
<1>5. Ordered'
  BY <1>1, <1>2, Fixed DEF Ordered, Places, Todo
<1>6. Allocated'
  BY <1>1, <1>2, Fixed DEF Allocated, Places, Todo, Temporary, Copies
<1> QED BY <1>3, <1>4, <1>5, <1>6

LEMMA CreateStep == ParseInv /\ Create => ParseInv'
<1> SUFFICES ASSUME ParseInv, Create
             PROVE  ParseInv'
  OBVIOUS
<1> USE DEF ParseInv
<1> DEFINE n == Len(created)
<1>1. /\ pc = "create" /\ Todo # {} /\ n < array.num
      /\ UNCHANGED <<pc, input, rest, values, array, ret>>
  BY DEF Create
<1>2. PICK got \in Gets(Next0) :
        /\ created' = Append(created, Result(Next0, got))
        /\ heap' = (heap \ {Tmp(Next0)}) \cup got
  BY DEF Create
<1>3. UNCHANGED input /\ table \in Tables
  BY <1>1 DEF ParseTypes
<1>4. /\ Next0 \in Todo /\ Next0 \in Index
      /\ \A j \in Todo : Next0 <= j
  BY <1>1, <1>3, NextIs
<1> DEFINE S == [prop : Index, len : Nat, copied : BOOLEAN]
<1>5. created \in Seq(S) /\ Result(Next0, got) \in S
  BY <1>4 DEF ParseTypes, Result
<1>6. /\ created' \in Seq(S) /\ Len(created') = n + 1
      /\ \A k \in 1 .. n : created'[k] = created[k]
      /\ created'[n + 1] = Result(Next0, got)
      /\ n \in Nat /\ DOMAIN created = 1 .. n /\ DOMAIN created' = 1 .. n + 1
  BY <1>2, <1>5, AppendProperties, LenProperties
<1>7. /\ created'[n + 1].prop = Next0
      /\ created'[n + 1].len = values[Next0].len
  BY <1>6 DEF Result
<1>8. Todo' = Todo \ {Next0}
  <2>1. ASSUME NEW i
        PROVE  (\A k \in DOMAIN created' : created'[k].prop # i)
                 <=> i # Next0 /\ \A k \in DOMAIN created : created[k].prop # i
    BY <1>6, <1>7
  <2> HIDE DEF n
  <2> QED BY <1>1, <1>3, <1>4, <2>1, Fixed DEF Todo
<1>9. ParseTypes'
  <2>1. created' \in Seq([prop : Index', len : Nat, copied : BOOLEAN])
    BY <1>3, <1>6, Fixed
  <2>2. Len(created') <= array'.num
    BY <1>1, <1>6 DEF ParseTypes
  <2> HIDE DEF n, S
  <2> QED BY <1>1, <1>3, <2>1, <2>2, Fixed DEF ParseTypes
<1>10. Places'
  BY <1>1, <1>3, Fixed DEF Places
<1>11. Ordered'
  <2>1. n > 0 => created[n].prop >= n /\ created[n].prop < Next0
    BY <1>4, <1>6 DEF Ordered
  <2>2. Next0 \in Nat /\ n + 1 <= Next0
    <3>1. Next0 \in 1 .. MaxProperties /\ MaxProperties \in Nat
      BY <1>3, <1>4, Fixed DEF Index
    <3>2. CASE n = 0
      BY <3>1, <3>2
    <3>3. CASE n > 0
      <4>1. created[n] \in S
        <5>1. n \in 1 .. Len(created)
          BY <1>6, <3>3
        <5> QED BY <5>1, <1>5, ElementOfSeq
      <4>2. created[n].prop \in Nat
        BY <4>1, <3>1 DEF Index
      <4> QED BY <3>1, <3>3, <4>2, <2>1, <1>6
    <3> QED BY <3>2, <3>3, <1>6
  <2>3. \A k \in DOMAIN created' :
          /\ k <= created'[k].prop
          /\ values'[created'[k].prop].used
          /\ values'[created'[k].prop].len = created'[k].len
    BY <1>1, <1>4, <1>6, <1>7, <2>2 DEF Ordered, Todo
  <2>4. \A j, k \in DOMAIN created' : j < k => created'[j].prop < created'[k].prop
    BY <1>4, <1>6, <1>7 DEF Ordered
  <2>5. \A k \in DOMAIN created', i \in Todo' : created'[k].prop < i
    <3>1. SUFFICES ASSUME NEW k \in 1 .. n + 1, NEW i \in Todo, i # Next0
                   PROVE  created'[k].prop < i
      BY <1>6, <1>8
    <3>2. i \in Nat /\ Next0 \in Nat /\ Next0 < i
      BY <1>3, <1>4, <3>1, <2>2, Fixed DEF Todo
    <3>3. CASE k = n + 1
      BY <3>2, <3>3, <1>7
    <3>4. CASE k \in 1 .. n
      BY <3>4, <1>6 DEF Ordered
    <3> QED BY <3>3, <3>4, <1>6
  <2> QED BY <1>1, <2>3, <2>4, <2>5 DEF Ordered
<1>12. Allocated'
  <2>1. got \subseteq {Copy(Next0), Elements(Next0)}
    BY DEF Gets, Blocks
  <2>2. Copies' = Copies \cup {Copy(Next0), Elements(Next0)}
    <3>1. ToSet(created') = ToSet(created) \cup {created'[n + 1]}
      BY <1>6 DEF ToSet
    <3> QED BY <3>1, <1>7 DEF Copies, Copy, Elements
  <2>3. Temporary' = Temporary \ {Tmp(Next0)}
    BY <1>8, Kinds DEF Temporary, Tmp
  <2>4. ret = 0
    BY <1>1 DEF Places
  <2>5. array.head
    BY <1>1 DEF Places
  <2> QED BY <1>1, <1>2, <2>1, <2>2, <2>3, <2>4, <2>5 DEF Allocated
<1> QED BY <1>9, <1>10, <1>11, <1>12

\* When head is full, every used property is in it: its loop leaves none.
LEMMA CreatedStep == ParseInv /\ Created => ParseInv'
<1> SUFFICES ASSUME ParseInv, Created
             PROVE  ParseInv'
  OBVIOUS
<1> USE DEF ParseInv
<1> DEFINE n == Len(created)
<1>1. /\ pc = "create" /\ pc' = "parsed"
      /\ UNCHANGED <<input, rest, values, array, created, heap, ret>>
  BY DEF Created
<1>2. UNCHANGED input /\ table \in Tables
  BY <1>1 DEF ParseTypes
<1>3. Todo = {}
  <2>1. SUFFICES ASSUME NEW i \in Todo, n >= array.num
                 PROVE  FALSE
    BY DEF Created
  <2>2. MaxProperties \in Nat /\ i \in 1 .. MaxProperties
    BY <1>2, <2>1, Fixed DEF Todo, Index
  <2>3. array.num >= MaxProperties /\ array.num \in Nat /\ array.head
    BY <1>1, <2>2 DEF Places, ParseTypes
  <2>4. n \in Nat /\ DOMAIN created = 1 .. n
    BY LenProperties DEF ParseTypes
  <2>5. n \in DOMAIN created
    BY <2>1, <2>2, <2>3, <2>4
  <2>6. created[n].prop \in 1 .. MaxProperties
    <3>1. created \in Seq([prop : Index, len : Nat, copied : BOOLEAN])
      BY DEF ParseTypes
    <3>2. created[n] \in [prop : Index, len : Nat, copied : BOOLEAN]
      BY <2>4, <2>5, <3>1, ElementOfSeq
    <3> QED BY <3>2 DEF Index
  <2>7. n <= created[n].prop /\ created[n].prop < i
    BY <2>1, <2>5 DEF Ordered
  <2> QED BY <2>1, <2>2, <2>3, <2>4, <2>6, <2>7
<1>4. ParseTypes' /\ Places'
  BY <1>1, <1>2, Fixed DEF ParseTypes, Places
<1>5. Ordered'
  BY <1>1, <1>2, <1>3, Fixed DEF Ordered, Todo
<1>6. Allocated'
  BY <1>1, <1>2, Fixed DEF Allocated, Todo, Temporary, Copies
<1> QED BY <1>4, <1>5, <1>6

LEMMA ChangeStep == ParseInv /\ parse_property_change => ParseInv'
<1> SUFFICES ASSUME ParseInv, parse_property_change
             PROVE  ParseInv'
  OBVIOUS
<1> USE DEF ParseInv
<1> DEFINE e == Head(message)
           i == Lookup(e.name)
<1>1. /\ pc = "parse" /\ source = "change" /\ pc' = "parsed"
      /\ UNCHANGED <<input, rest>>
  BY DEF parse_property_change
<1>2. UNCHANGED input /\ table \in Tables
  BY <1>1 DEF ParseTypes
<1>3. i' = i
  BY <1>2, Fixed DEF Lookup, Matches
<1>4. /\ created = << >> /\ ret = 0 /\ \A j \in Index : ~values[j].used
      /\ created \in Seq([prop : Index, len : Nat, copied : BOOLEAN])
  BY <1>1 DEF Places, ParseTypes
<1>5. PICK head \in BOOLEAN :
        /\ array' = [num |-> 1, head |-> head]
        /\ \/ /\ ret' = 1 /\ heap' = (IF head THEN {Head0} ELSE {})
              /\ UNCHANGED <<values, created>>
           \/ /\ Known(e) /\ ret' = 0
              /\ values' = [values EXCEPT ![i] = [used |-> TRUE, len |-> e.len]]
              /\ \/ ~head /\ heap' = {} /\ UNCHANGED created
                 \/ head /\ \E got \in Gets(i)' :
                      /\ heap' = {Head0} \cup got
                      /\ created' = <<Result(i, got)'>>
  BY DEF parse_property_change
<1>6. Places'
  BY <1>1, <1>2, Fixed DEF Places
<1>7. /\ MaxProperties \in Nat
      /\ array' \in [num : 0 .. MaxProperties' + 1, head : BOOLEAN] /\ array'.num = 1
  BY <1>2, <1>5, Fixed
<1>8. CASE ret' = 1
  <2>1. ParseTypes'
    BY SMTT(30), <1>1, <1>2, <1>4, <1>5, <1>7, <1>8, Fixed DEF ParseTypes
  <2>2. Ordered'
    BY <1>4, <1>5, <1>8 DEF Ordered
  <2>3. Allocated'
    BY <1>1, <1>2, <1>5, <1>8, Fixed DEF Allocated
  <2> QED BY <1>6, <2>1, <2>2, <2>3
<1>9. CASE ret' # 1
  <2>1. /\ Known(e) /\ ret' = 0
        /\ values' = [values EXCEPT ![i] = [used |-> TRUE, len |-> e.len]]
    BY <1>5, <1>9
  <2>2. i \in Index
    BY <1>2, <2>1, LookupIs DEF Known
  <2>3. message # << >> /\ e.len \in Nat
    <3>1. message \in Seq(Entries) /\ Len(message) = 1
      BY <1>1 DEF ParseTypes
    <3>2. message # << >>
      BY <3>1, EmptySeq
    <3>3. e \in Entries
      BY <3>1, <3>2, HeadTailProperties
    <3> QED BY <3>2, <3>3 DEF Entries
  <2>4. values' \in [Index' -> [used : BOOLEAN, len : Nat]] /\ values'[i].len \in Nat
    BY <1>2, <2>1, <2>2, <2>3, Fixed DEF ParseTypes
  <2>5. /\ \A j \in Index : values'[j].used => j = i
        /\ values'[i].used
    BY <1>4, <2>1, <2>2 DEF ParseTypes
  <2> HIDE DEF e, i
  <2>6. CASE created' = created
    <3>1. ~array'.head /\ heap' = {}
      BY <1>4, <1>5, <1>9, <2>6
    <3>2. ParseTypes'
      BY SMTT(30), <1>1, <1>2, <1>4, <1>7, <2>1, <2>4, <2>6, Fixed DEF ParseTypes
    <3>3. Ordered'
      BY <1>4, <2>6, <3>1 DEF Ordered
    <3>4. Allocated'
      BY <1>1, <2>1, <3>1 DEF Allocated
    <3> QED BY <1>6, <3>2, <3>3, <3>4
  <2>7. CASE created' # created
    <3>1. PICK got \in Gets(i)' :
            heap' = {Head0} \cup got /\ created' = <<Result(i, got)'>> /\ array'.head
      BY <1>5, <1>9, <2>7
    <3>2. Result(i, got)' = [prop |-> i, len |-> values'[i].len, copied |-> Result(i, got)'.copied]
           /\ Result(i, got)'.copied \in BOOLEAN
      BY <1>3 DEF Result
    <3>3. got \subseteq {Copy(i), Elements(i)}
      BY <1>3 DEF Gets, Blocks, Copy, Elements
    <3>4. /\ Len(created') = 1 /\ DOMAIN created' = {1}
          /\ created'[1].prop = i /\ created'[1].len = values'[i].len
          /\ created' \in Seq([prop : Index, len : Nat, copied : BOOLEAN])
      BY <2>2, <2>4, <3>1, <3>2
    <3>5. ParseTypes'
      <4>1. created' \in Seq([prop : Index', len : Nat, copied : BOOLEAN]) /\ Len(created') <= array'.num
        BY <1>2, <1>7, <3>4, Fixed
      <4> QED BY <1>1, <1>2, <1>7, <2>1, <2>4, <4>1, Fixed DEF ParseTypes
    <3>6. Todo' = {}
      BY <1>2, <2>5, <3>4, Fixed DEF Todo
    <3>7. Ordered'
      BY <1>2, <2>2, <2>5, <3>4, <3>6, Fixed DEF Ordered, Index
    <3>8. Copies' = {Copy(i), Elements(i)}
      <4>1. ToSet(created') = {created'[1]}
        BY <3>4 DEF ToSet
      <4> QED BY <4>1, <3>4 DEF Copies, Copy, Elements
    <3>9. Allocated'
      BY <1>1, <2>1, <3>1, <3>3, <3>8 DEF Allocated
    <3> QED BY <1>6, <3>5, <3>7, <3>9
  <2> QED BY <2>6, <2>7
<1> QED BY <1>8, <1>9

\* What a client does with the result.
LEMMA ClientStep ==
  ASSUME ParseInv, pc = "parsed", pc' \in {"parsed", "crashed"} \/ free_property_value,
         UNCHANGED <<input, rest, values, array, created, ret>>,
         heap' = heap \/ free_property_value
  PROVE  ParseInv'
<1> USE DEF ParseInv
<1>1. UNCHANGED input
  OBVIOUS
<1>2. pc' \in {"parsed", "crashed", "freed"} /\ (pc' = "freed" => ret = 0)
  BY DEF free_property_value
<1>3. ParseTypes' /\ Places'
  BY <1>1, <1>2, Fixed DEF ParseTypes, Places
<1>4. Ordered'
  BY <1>1, <1>2, Fixed DEF Ordered, Todo
<1>5. UNCHANGED <<Todo, Temporary, Copies>>
  BY <1>1, Fixed DEF Todo, Temporary, Copies
<1>6. CASE heap' = heap /\ pc' # "freed"
  BY <1>1, <1>2, <1>3, <1>4, <1>5, <1>6, Fixed DEF Allocated
<1>7. CASE ~(heap' = heap /\ pc' # "freed")
  <2>1. free_property_value /\ pc' = "freed" /\ ret = 0 /\ heap' = heap \ ({Head0} \cup Copies)
    BY <1>7 DEF free_property_value, Copies
  <2>2. heap' \subseteq Temporary /\ Head0 \notin heap'
    BY <2>1 DEF Allocated
  <2> QED BY <1>1, <1>3, <1>4, <1>5, <2>1, <2>2 DEF Allocated
<1> QED BY <1>3, <1>4, <1>6, <1>7

LEMMA ParseUnchanged == ParseInv /\ UNCHANGED vars => ParseInv'
<1> SUFFICES ASSUME ParseInv, UNCHANGED vars
             PROVE  ParseInv'
  OBVIOUS
<1> USE DEF ParseInv
<1>1. UNCHANGED <<pc, input, rest, values, array, created, heap, ret>>
  BY DEF vars
<1>2. UNCHANGED input
  BY <1>1
<1>3. ParseTypes' /\ Places'
  BY <1>1, <1>2, Fixed DEF ParseTypes, Places
<1>4. Ordered' /\ Allocated'
  BY <1>1, <1>2, Fixed DEF Ordered, Allocated, Todo, Temporary, Copies
<1> QED BY <1>3, <1>4

LEMMA ParsingStep == ParseInv /\ Parsing => ParseInv'
BY EntryStep, CountStep, AllocStep, CreateStep, CreatedStep, ChangeStep DEF Parsing

LEMMA ParseStep == ParseInv /\ [QueryNext]_queryVars => ParseInv'
<1> SUFFICES ASSUME ParseInv, [QueryNext]_queryVars
             PROVE  ParseInv'
  OBVIOUS
<1>1. CASE Call!Next /\ UNCHANGED vars
  BY <1>1, ParseUnchanged
<1>2. CASE QueryStep
  BY <1>2, ParsingStep DEF QueryStep
<1>3. CASE QueryReturns
  BY <1>3, ParseUnchanged DEF QueryReturns
<1>4. CASE print_property_value
  BY <1>4, ClientStep DEF print_property_value
<1>5. CASE free_property_value
  BY <1>5, ClientStep DEF free_property_value
<1>6. CASE UseProperties
  BY <1>4, <1>5, <1>6, ClientStep DEF UseProperties, Use
<1>7. CASE Signalled
  BY <1>4, <1>5, <1>7, ParsingStep DEF Signalled, Parsing
<1>8. CASE UNCHANGED queryVars
  BY <1>8, ParseUnchanged DEF queryVars
<1> QED BY <1>1, <1>2, <1>3, <1>6, <1>7, <1>8 DEF QueryNext

\* The parser runs between the arrival of a reply and the return.
LEMMA TimeStep ==
  CallInv /\ ParseInv /\ ParsedInTime /\ [QueryNext]_queryVars => ParsedInTime'
<1> SUFFICES ASSUME CallInv, ParseInv, ParsedInTime, [QueryNext]_queryVars
             PROVE  ParsedInTime'
  OBVIOUS
<1>1. call' = call /\ UNCHANGED Queries
  BY DEF Queries, QueryNext, Call!Next, Call!Compose, Call!AppendArgs, Call!Send, Call!Take,
     Call!Release, Call!ServiceCompose, Call!ServiceSend, Call!ServiceTake,
     Call!SetProperty, QueryStep, QueryReturns, UseProperties, Signalled, callVars, queryVars
<1> SUFFICES ASSUME Queries
             PROVE  ParsedInTime'
  BY <1>1 DEF ParsedInTime
<1> USE <1>1
<1>2. CASE Call!Next /\ UNCHANGED vars
  <2>1. UNCHANGED <<pc, rest, message>>
    BY <1>2 DEF vars, input
  <2>2. step # "take"
    BY <1>2 DEF Call!Next, Call!Compose, Call!AppendArgs, Call!Send, Call!Take, Call!Release,
       Call!ServiceCompose, Call!ServiceSend, Call!ServiceTake, Call!SetProperty, Queries,
       Call!Results, CallInv, CallTypes, Call!FunctionCalls
  <2>3. call.form = "plain"
    BY Forms DEF CallInv, CallTypes
  <2>4. UNCHANGED source
    BY <1>2 DEF vars, input
  <2> QED BY <2>1, <2>2, <2>3, <2>4, <1>2
          DEF Call!Next, Call!Compose, Call!AppendArgs, Call!Send, Call!Take, Call!Release,
          Call!ServiceCompose, Call!ServiceSend, Call!ServiceTake, Call!SetProperty,
          Call!Return, Queries, ParsedInTime, Parsed0
<1>3. CASE QueryStep
  <2>1. step = "take" /\ step' = "take"
    BY <1>3 DEF QueryStep, callVars
  <2>2. UNCHANGED source
    BY <1>3 DEF QueryStep, Parsing, ParseEntry, Count, AllocHead, Create, Created,
       parse_property_change, input
  <2> QED BY <2>1, <2>2 DEF ParsedInTime
<1>4. CASE QueryReturns
  BY <1>4 DEF QueryReturns, ParsedInTime, Parsed0, vars, input
<1>5. CASE UseProperties
  BY <1>5 DEF UseProperties, Use, print_property_value, free_property_value, ParsedInTime,
     Parsed0, callVars, input
<1>6. CASE Signalled
  BY <1>6 DEF Signalled, ParsedInTime
<1>7. CASE UNCHANGED queryVars
  BY <1>7 DEF queryVars, vars, input, callVars, ParsedInTime, Parsed0
<1> QED BY <1>2, <1>3, <1>4, <1>5, <1>6, <1>7 DEF QueryNext

IInv == CallInv /\ ParseInv /\ ParsedInTime

LEMMA Inductive == QuerySpec => []IInv
<1>1. QueryInit => IInv
  BY CallInit, ParseInit DEF IInv
<1>2. IInv /\ [QueryNext]_queryVars => IInv'
  BY CallStep, ParseStep, TimeStep DEF IInv
<1> QED BY <1>1, <1>2, PTL DEF QuerySpec

(***************************************************************************)
(* Calls and parsing keep their types: head never holds more than num, and *)
(* the elements of a message are held until they are copied.               *)
(***************************************************************************)
THEOREM QueryTyped == QuerySpec => []TypeOK
<1>1. IInv => TypeOK
  <2> SUFFICES ASSUME IInv
               PROVE  TypeOK
    OBVIOUS
  <2>1. live \subseteq {"err", "msg", "reply", "error", "list", "copy", "elements"}
    BY DEF IInv, CallInv, CallTypes, CallMemory, Results0, Call!Scratch, Call!Leaked
  <2>2. ASSUME NEW i \in Index, Tmp(i) \in heap
        PROVE  values[i].used /\ \A k \in DOMAIN created : created[k].prop # i
    <3>1. Tmp(i) \in Temporary
      <4>1. Tmp(i) \notin Copies /\ Tmp(i) # Head0
        BY Kinds DEF Copies
      <4> QED BY <2>2, <4>1 DEF IInv, ParseInv, ParseTypes, Allocated
    <3> QED BY <3>1, Kinds DEF Temporary, Todo
  <2>3. Len(rest) <= Len(message)
    BY LenProperties DEF IInv, ParseInv, ParseTypes
  <2> QED BY <2>1, <2>2, <2>3
          DEF IInv, CallInv, CallTypes, ParseInv, ParseTypes, TypeOK
<1> QED BY <1>1, Inductive, PTL

(***************************************************************************)
(* Parsing that fails anywhere leaves nothing allocated, but the head of a *)
(* change, and free_property_value releases all that parsing allocated.    *)
(***************************************************************************)
THEOREM ParsingReleasesAll == QuerySpec => []ParsingReleases
<1>1. IInv => ParsingReleases
  BY DEF IInv, ParseInv, Ordered, Allocated, Temporary, ParsingReleases
<1> QED BY <1>1, Inductive, PTL

(***************************************************************************)
(* The reply outlives the pointers into it: it is held as long as any of   *)
(* its entries is being parsed or copied.                                  *)
(***************************************************************************)
THEOREM ReplyIsHeld == QuerySpec => []BorrowedIsHeld
<1>1. IInv => BorrowedIsHeld
  BY Forms DEF IInv, CallInv, CallTypes, CallMemory, ParsedInTime, Parsed0, BorrowedIsHeld,
     Call!Composes
<1> QED BY <1>1, Inductive, PTL

-----------------------------------------------------------------------------
(* Where each entry goes.                                                  *)

Used == {i \in Index : values[i].used}

\* How many entries are parsed.
Taken == IF source = "dictionary" THEN Len(message) - Len(rest)
         ELSE IF pc = "parse" \/ ret = 1 THEN 0 ELSE 1

\* Matches and Lookup in a given table.
MatchesIn(t, name) == {i \in 1 .. Len(t) : IsPrefix(name, t[i].name)}
At(t, name) == CHOOSE i \in MatchesIn(t, name) : \A j \in MatchesIn(t, name) : i <= j

Arrived ==
  /\ \A k \in 1 .. Taken :
        /\ MatchesIn(table, message[k].name) # {}
        /\ At(table, message[k].name) \in Used
        /\ values[At(table, message[k].name)].len = message[k].len
  /\ \A i \in Used : \E k \in 1 .. Taken : i = At(table, message[k].name)
  /\ Cardinality(Used) = Taken

LEMMA AtIsLookup ==
  ASSUME NEW name
  PROVE  Matches(name) = MatchesIn(table, name) /\ Lookup(name) = At(table, name)
BY DEF Matches, Lookup, MatchesIn, At, Index, MaxProperties

LEMMA Names ==
  ASSUME ParseTypes
  PROVE  /\ DOMAIN message = 1 .. Len(message) /\ Len(message) \in Nat
         /\ \A k \in 1 .. Len(message) : message[k] \in Sent[table] /\ message[k] \in Entries
         /\ \A j, k \in 1 .. Len(message) : message[j].name = message[k].name => j = k
<1>1. DOMAIN message = 1 .. Len(message) /\ Len(message) \in Nat
  BY LenProperties DEF ParseTypes
<1>2. PICK m \in 0 .. MaxEntries : message \in [1 .. m -> Sent[table]]
  BY DEF ParseTypes, Dictionaries, SeqOf
<1>3. \A j, k \in DOMAIN message : message[j].name = message[k].name => j = k
  BY DEF ParseTypes, Dictionaries
<1>4. Sent[table] \subseteq Entries
  BY PropertyParseAssumption DEF Entries, ParseTypes
<1> QED BY <1>1, <1>2, <1>3, <1>4

LEMMA Exact ==
  ASSUME ExactNames, ParseTypes, NEW e \in Sent[table], MatchesIn(table, e.name) # {}
  PROVE  table[At(table, e.name)].name = e.name /\ At(table, e.name) \in Index
<1> DEFINE i == At(table, e.name)
<1>1. /\ i \in Matches(e.name) /\ i \in Index
      /\ \A j \in Matches(e.name) : i <= j
  BY LookupIs, AtIsLookup DEF ParseTypes
<1>2. DOMAIN table = Index /\ Index \subseteq Nat /\ Index = 1 .. MaxProperties /\ MaxProperties \in Nat
  BY TableFacts DEF ParseTypes, Index, MaxProperties
<1>3. IsPrefix(e.name, table[i].name)
  BY <1>1 DEF Matches
<1> HIDE DEF i
<1>4. PICK j \in 1 .. i : table[j].name = e.name
  BY <1>1, <1>2, <1>3 DEF ExactNames, ParseTypes
<1>5. e.name \in Seq(STRING)
  BY PropertyParseAssumption DEF ParseTypes
<1>6. IsPrefix(e.name, e.name)
  BY <1>5, LenProperties DEF IsPrefix
<1>7. j \in Index /\ j <= i
  BY <1>1, <1>2, <1>4
<1>8. j \in Matches(e.name)
  BY <1>4, <1>6, <1>7 DEF Matches
<1>9. i <= j
  BY <1>1, <1>8
<1>10. i = j
  BY <1>1, <1>2, <1>7, <1>9
<1> QED BY <1>1, <1>4, <1>10 DEF i

LEMMA UsedFinite ==
  ASSUME ParseTypes
  PROVE  IsFiniteSet(Used)
<1>1. IsFiniteSet(Index)
  BY FS_Interval, TableFacts DEF ParseTypes, Index, MaxProperties
<1> QED BY <1>1, FS_Subset DEF Used

\* An entry that arrives is at a property that was not used yet.
LEMMA OneArrives ==
  ASSUME ExactNames, ParseInv, Arrived, UNCHANGED input, Taken < Len(message), Taken' = Taken + 1,
         Taken \in Nat,
         NEW e, e = message[Taken + 1], MatchesIn(table, e.name) # {},
         values' = [values EXCEPT ![At(table, e.name)] = [used |-> TRUE, len |-> e.len]]
  PROVE  Arrived'
<1> DEFINE i == At(table, e.name)
           n == Taken + 1
<1>1. ParseTypes /\ n \in 1 .. Len(message) /\ e \in Sent[table] /\ e \in Entries
  BY Names DEF ParseInv
<1>2. i \in Index /\ table[i].name = e.name
  BY <1>1, Exact
<1>3. Index' = Index /\ message' = message /\ table' = table
  BY <1>1, Fixed
<1>4. ASSUME NEW k \in 1 .. Taken
      PROVE  At(table, message[k].name) # i /\ At(table, message[k].name) \in Index
  <2>1. k \in 1 .. Len(message) /\ k # n
    BY <1>1
  <2>2. message[k] \in Sent[table] /\ message[k].name # e.name
    BY <1>1, <2>1, Names
  <2>3. MatchesIn(table, message[k].name) # {}
    BY DEF Arrived
  <2>4. /\ table[At(table, message[k].name)].name = message[k].name
        /\ At(table, message[k].name) \in Index
    BY <1>1, <2>2, <2>3, Exact
  <2> QED BY <1>2, <2>2, <2>4
<1>5. i \notin Used
  BY <1>4 DEF Arrived
<1>6. DOMAIN values = Index
  BY <1>1 DEF ParseTypes
<1>7. values' = [values EXCEPT ![i] = [used |-> TRUE, len |-> e.len]] /\ MatchesIn(table, e.name) # {}
  OBVIOUS
<1>8. Used' = Used \cup {i}
  <2> HIDE DEF i
  <2> QED BY <1>2, <1>3, <1>6, <1>7 DEF Used
<1>9. Cardinality(Used') = Taken'
  <2>1. Cardinality(Used \cup {i}) = Cardinality(Used) + 1
    BY <1>1, <1>5, UsedFinite, FS_AddElement
  <2> QED BY <1>8, <2>1 DEF Arrived
<1>10. ASSUME NEW k \in 1 .. n
       PROVE  /\ MatchesIn(table, message[k].name) # {}
              /\ At(table, message[k].name) \in Used'
              /\ values'[At(table, message[k].name)].len = message[k].len
  <2>1. CASE k = n
    <3>1. message[k] = e
      BY <2>1
    <3> HIDE DEF n, i
    <3> QED BY <1>2, <1>6, <1>7, <1>8, <3>1 DEF i
  <2>2. CASE k \in 1 .. Taken
    <3>1. /\ MatchesIn(table, message[k].name) # {}
          /\ At(table, message[k].name) \in Used
          /\ values[At(table, message[k].name)].len = message[k].len
      BY <2>2 DEF Arrived
    <3> HIDE DEF n, i
    <3> QED BY <1>2, <1>4, <1>6, <1>7, <1>8, <2>2, <3>1
  <2> QED BY <2>1, <2>2
<1>11. ASSUME NEW j \in Used'
       PROVE  \E k \in 1 .. n : j = At(table, message[k].name)
  <2>1. CASE j = i
    <3>1. n \in 1 .. n /\ message[n] = e
      BY <1>1
    <3> QED BY <2>1, <3>1
  <2>2. CASE j \in Used
    <3>1. PICK k \in 1 .. Taken : j = At(table, message[k].name)
      BY <2>2 DEF Arrived
    <3>2. k \in 1 .. n
      BY <3>1
    <3> QED BY <3>1, <3>2
  <2> QED BY <1>8, <2>1, <2>2
<1> HIDE DEF i
<1> QED BY <1>3, <1>9, <1>10, <1>11 DEF Arrived

LEMMA NoneArrives ==
  ASSUME ParseTypes, Arrived, UNCHANGED <<input, values>>, Taken' = Taken
  PROVE  Arrived'
<1>1. UNCHANGED <<input, table, message, Index, values>>
  BY Fixed
<1>2. Used' = Used
  BY <1>1 DEF Used
<1> QED BY <1>1, <1>2 DEF Arrived

LEMMA ArrivedInit == QueryInit => Arrived
<1> SUFFICES ASSUME QueryInit
             PROVE  Arrived
  OBVIOUS
<1>1. Used = {}
  BY DEF QueryInit, Init, Used, Unused
<1>2. Taken = 0
  <2>1. message \in Seq(Entries) /\ rest = message /\ pc = "parse"
    BY SentEntries DEF QueryInit, Init
  <2> QED BY <2>1, LenProperties DEF Taken
<1> QED BY <1>1, <1>2, FS_EmptySet DEF Arrived

LEMMA ArrivedParsing ==
  ASSUME ExactNames, ParseInv, Arrived, Parsing
  PROVE  Arrived'
<1>0. ParseTypes /\ Len(message) \in Nat /\ Len(rest) \in 0 .. Len(message)
  BY LenProperties DEF ParseInv, ParseTypes
<1>1. CASE ParseEntry
  <2> DEFINE e == Head(rest)
  <2>1. UNCHANGED input /\ pc = "parse" /\ source = "dictionary" /\ source' = "dictionary"
        /\ message' = message
    BY <1>0, <1>1, Fixed DEF ParseEntry
  <2>2. CASE Failure
    <3>1. UNCHANGED <<input, values, rest>>
      BY <2>1, <2>2 DEF Failure
    <3> QED BY <1>0, <2>1, <3>1, NoneArrives DEF Taken
  <2>3. CASE ~Failure
    <3>1. /\ rest # << >> /\ Known(e) /\ rest' = Tail(rest)
          /\ values' = [values EXCEPT ![Lookup(e.name)] = [used |-> TRUE, len |-> e.len]]
      BY <1>1, <2>3 DEF ParseEntry
    <3>2. /\ Len(Tail(rest)) = Len(rest) - 1 /\ Len(rest) > 0
          /\ e = message[Len(message) - Len(rest) + 1]
      BY <1>0, <3>1, RestShrinks
    <3>3. /\ Taken = Len(message) - Len(rest) /\ Taken \in Nat /\ Taken < Len(message)
          /\ Taken' = Taken + 1
      BY <1>0, <2>1, <3>1, <3>2 DEF Taken
    <3>4. e = message[Taken + 1]
      BY <3>2, <3>3
    <3>5. MatchesIn(table, e.name) # {} /\ At(table, e.name) = Lookup(e.name)
      BY <3>1, AtIsLookup DEF Known
    <3> HIDE DEF e
    <3> QED BY <2>1, <3>1, <3>3, <3>4, <3>5, OneArrives
  <2> QED BY <2>2, <2>3
<1>2. CASE parse_property_change
  <2> DEFINE e == Head(message)
  <2>1. /\ UNCHANGED input /\ pc = "parse" /\ source = "change" /\ source' = "change"
        /\ pc' = "parsed"
    BY <1>0, <1>2, Fixed DEF parse_property_change
  <2>2. Taken = 0 /\ Len(message) = 1
    BY <1>0, <2>1 DEF Taken, ParseTypes
  <2>3. CASE ret' = 1 /\ UNCHANGED values
    BY <1>0, <2>1, <2>2, <2>3, NoneArrives DEF Taken
  <2>4. CASE ~(ret' = 1 /\ UNCHANGED values)
    <3>1. /\ Known(e) /\ ret' = 0
          /\ values' = [values EXCEPT ![Lookup(e.name)] = [used |-> TRUE, len |-> e.len]]
      BY <1>2, <2>4 DEF parse_property_change
    <3>2. e = message[1]
      OBVIOUS
    <3>3. Taken' = 1
      BY <2>1, <3>1 DEF Taken
    <3>4. MatchesIn(table, e.name) # {} /\ At(table, e.name) = Lookup(e.name)
      BY <3>1, AtIsLookup DEF Known
    <3> HIDE DEF e
    <3>5. e = message[Taken + 1] /\ Taken \in Nat /\ Taken < Len(message) /\ Taken' = Taken + 1
      BY <2>2, <3>2, <3>3
    <3> QED BY <2>1, <3>1, <3>4, <3>5, OneArrives
  <2> QED BY <2>3, <2>4
<1>3. CASE Count \/ AllocHead \/ Create \/ Created
  <2>1. /\ UNCHANGED <<input, rest, values, ret>>
        /\ pc \in {"count", "alloc", "create"}
    BY <1>3 DEF Count, AllocHead, Create, Created
  <2>2. source = "dictionary" /\ UNCHANGED <<source, message, rest>>
    BY <1>0, <2>1, Fixed DEF ParseInv, Places
  <2>3. Taken' = Taken
    BY <2>2 DEF Taken
  <2> QED BY <1>0, <2>1, <2>3, NoneArrives
<1> QED BY <1>1, <1>2, <1>3 DEF Parsing

LEMMA ArrivedStep ==
  ASSUME ExactNames, ParseInv, Arrived, [QueryNext]_queryVars
  PROVE  Arrived'
<1>1. ASSUME UNCHANGED <<input, rest, values, ret>>,
             pc' = pc \/ (pc # "parse" /\ pc' # "parse")
      PROVE  Arrived'
  <2>1. UNCHANGED <<source, message, rest>>
    BY <1>1, Fixed DEF ParseInv
  <2>2. Taken' = Taken
    BY <1>1, <2>1 DEF Taken
  <2> QED BY <1>1, <2>2, NoneArrives DEF ParseInv
<1>2. CASE UNCHANGED vars
  BY <1>1, <1>2 DEF vars
<1>3. CASE print_property_value \/ free_property_value
  BY <1>1, <1>3 DEF print_property_value, free_property_value
<1>4. CASE Parsing
  BY <1>4, ArrivedParsing
<1>5. CASE Use
  BY <1>1, <1>3, <1>5 DEF Use
<1> QED BY <1>2, <1>3, <1>4, <1>5
        DEF QueryNext, QueryStep, QueryReturns, UseProperties, Signalled, Parsing, queryVars

\* An array with head has the used properties and nothing else.
LEMMA HeadIsUsed ==
  ASSUME ParseInv, Todo = {}
  PROVE  Len(created) \in Nat /\ Cardinality(Used) = Len(created)
<1> DEFINE n == Len(created)
           f == [k \in 1 .. n |-> created[k].prop]
<1>1. created \in Seq([prop : Index, len : Nat, copied : BOOLEAN])
  BY DEF ParseInv, ParseTypes
<1>2. n \in Nat /\ DOMAIN created = 1 .. n
  BY <1>1, LenProperties
<1>3. \A k \in 1 .. n : created[k].prop \in Used
  <2>1. ASSUME NEW k \in 1 .. n
        PROVE  created[k].prop \in Index
    <3>1. created[k] \in [prop : Index, len : Nat, copied : BOOLEAN]
      BY <1>1, ElementOfSeq
    <3> QED BY <3>1
  <2> QED BY <1>2, <2>1 DEF ParseInv, Ordered, Used
<1>4. \A i \in Used : \E k \in 1 .. n : created[k].prop = i
  BY <1>2 DEF Todo, Used
<1>5. \A j, k \in 1 .. n : created[j].prop = created[k].prop => j = k
  <2>1. \A j, k \in 1 .. n : j < k => created[j].prop < created[k].prop
    BY <1>2 DEF ParseInv, Ordered
  <2>2. \A k \in 1 .. n : created[k].prop \in Nat
    <3>1. Index \subseteq Nat
      BY TableFacts DEF Index, MaxProperties, ParseInv, ParseTypes
    <3> HIDE DEF n
    <3> QED BY <1>3, <3>1 DEF Used
  <2> HIDE DEF n
  <2>3. ASSUME NEW j \in 1 .. n, NEW k \in 1 .. n, j # k
        PROVE  created[j].prop # created[k].prop
    <3>1. j < k \/ k < j
      BY <2>3
    <3> QED BY <2>1, <2>2, <3>1
  <2> QED BY <2>3
<1>6. f \in Bijection(1 .. n, Used)
  <2> HIDE DEF n
  <2>1. f \in [1 .. n -> Used]
    BY <1>3
  <2>2. f \in Injection(1 .. n, Used)
    BY <1>5, <2>1 DEF Injection, IsInjective
  <2>3. f \in Surjection(1 .. n, Used)
    BY <1>4, <2>1 DEF Surjection
  <2> QED BY <2>2, <2>3 DEF Bijection
<1>7. ExistsBijection(1 .. n, Used)
  BY <1>6 DEF ExistsBijection
<1>8. IsFiniteSet(1 .. n) /\ Cardinality(1 .. n) = n
  <2> HIDE DEF n
  <2> QED BY <1>2, FS_Interval
<1>9. Cardinality(Used) = n
  BY <1>7, <1>8, FS_Bijection
<1> QED BY <1>2, <1>9

(***************************************************************************)
(* Every entry that was sent ends up at its own property, in the order of  *)
(* the table, for dictionaries of any length and with any entries, as long *)
(* as BlueZ sends no beginning of a name.                                  *)
(***************************************************************************)
THEOREM NothingIsDropped ==
  ASSUME ExactNames
  PROVE  QuerySpec => []NothingDropped
<1>1. IInv /\ Arrived => NothingDropped
  <2> SUFFICES ASSUME IInv, Arrived, pc = "parsed", ret = 0, array.head
               PROVE  NothingDropped
    BY DEF NothingDropped
  <2>1. ParseInv /\ ParseTypes /\ Todo = {}
    BY DEF IInv, ParseInv, Ordered
  <2>2. Taken = Len(message)
    <3>1. CASE source = "dictionary"
      BY <2>1, <3>1, Names, EmptySeq DEF Taken, ParseInv, Places
    <3>2. CASE source = "change"
      BY <2>1, <3>2 DEF Taken, ParseTypes
    <3> QED BY <2>1, <3>1, <3>2 DEF ParseTypes
  <2>3. Len(created) = Len(message)
    BY <2>1, <2>2, HeadIsUsed DEF Arrived
  <2>4. ASSUME NEW e \in ToSet(message)
        PROVE  \E k \in DOMAIN created :
                 table[created[k].prop].name = e.name /\ created[k].len = e.len
    <3>1. PICK j \in 1 .. Len(message) : e = message[j]
      BY <2>1, Names DEF ToSet
    <3> DEFINE i == At(table, e.name)
    <3>2. MatchesIn(table, e.name) # {} /\ i \in Used /\ values[i].len = e.len
      BY <2>2, <3>1 DEF Arrived
    <3>3. table[i].name = e.name
      BY <2>1, <3>1, <3>2, Names, Exact
    <3> HIDE DEF i
    <3>4. PICK k \in DOMAIN created : created[k].prop = i
      BY <2>1, <3>2 DEF Used, Todo
    <3>5. created[k].len = e.len
      BY <2>1, <3>2, <3>4 DEF ParseInv, Ordered
    <3> QED BY <3>3, <3>4, <3>5
  <2>5. \A j, k \in DOMAIN created : j < k => created[j].prop < created[k].prop
    BY <2>1 DEF ParseInv, Ordered
  <2> QED BY <2>3, <2>4, <2>5 DEF NothingDropped
<1>2. QueryInit => Arrived
  BY ArrivedInit
<1>3. IInv /\ Arrived /\ [QueryNext]_queryVars => Arrived'
  BY ArrivedStep DEF IInv
<1> QED BY <1>1, <1>2, <1>3, Inductive, PTL DEF QuerySpec
=============================================================================
