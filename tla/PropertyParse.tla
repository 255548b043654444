---------------------------- MODULE PropertyParse ---------------------------
(***************************************************************************)
(* Parsing of the properties of a device or an adapter: parse_properties   *)
(* turns the dictionary of a GetProperties reply into an array that        *)
(* free_property_value releases.                                           *)
(*                                                                         *)
(* An entry of the dictionary is parsed by one step, and so is each        *)
(* property of the result; any allocation may fail.  A value is only the   *)
(* number of its elements, a block of memory only what it holds.           *)
(***************************************************************************)
EXTENDS Naturals, Sequences, SequencesExt

CONSTANTS Sent,       \* per table, entries a dictionary may have
          MaxEntries, \* bound on the entries of one dictionary
          OutOfMemory \* an allocation may fail

Types == {"string", "path", "int", "array"}

(* A name is the sequence of its words: one is a prefix of the other as    *)
(* strncmp finds it.                                                       *)
remote_device_properties ==
  << [name |-> <<"Address">>, type |-> "string"], [name |-> <<"Name">>, type |-> "string"],
     [name |-> <<"Icon">>, type |-> "string"], [name |-> <<"Class">>, type |-> "int"],
     [name |-> <<"UUIDs">>, type |-> "array"], [name |-> <<"Services">>, type |-> "array"],
     [name |-> <<"Paired">>, type |-> "int"], [name |-> <<"Connected">>, type |-> "int"],
     [name |-> <<"Trusted">>, type |-> "int"], [name |-> <<"Blocked">>, type |-> "int"],
     [name |-> <<"Alias">>, type |-> "string"], [name |-> <<"Nodes">>, type |-> "array"],
     [name |-> <<"Adapter">>, type |-> "path"],
     [name |-> <<"Legacy", "Pairing">>, type |-> "int"],
     [name |-> <<"RSSI">>, type |-> "int"], [name |-> <<"TX">>, type |-> "int"],
     [name |-> <<"Broadcaster">>, type |-> "int"] >>

adapter_properties ==
  << [name |-> <<"Address">>, type |-> "string"], [name |-> <<"Name">>, type |-> "string"],
     [name |-> <<"Class">>, type |-> "int"], [name |-> <<"Powered">>, type |-> "int"],
     [name |-> <<"Discoverable">>, type |-> "int"],
     [name |-> <<"Discoverable", "Timeout">>, type |-> "int"],
     [name |-> <<"Pairable">>, type |-> "int"],
     [name |-> <<"Pairable", "Timeout">>, type |-> "int"],
     [name |-> <<"Discovering">>, type |-> "int"],
     [name |-> <<"Devices">>, type |-> "array"], [name |-> <<"UUIDs">>, type |-> "array"] >>

Tables == {remote_device_properties, adapter_properties}

ASSUME PropertyParseAssumption ==
  /\ \A t \in Tables : Sent[t] \subseteq [name : Seq(STRING), type : Types, len : Nat]
  /\ MaxEntries \in Nat /\ OutOfMemory \in BOOLEAN

VARIABLES table,   \* the properties that are known, given by the caller
          source,  \* what is parsed: a "dictionary" or a "change" of one property
          pc,      \* "parse", "count", "alloc", "create", "parsed", "freed" or "crashed"
          message, \* the dictionary: what was sent
          rest,    \* the entries not parsed yet
          values,  \* per property: used, and the length
          array,   \* t_property_value_array: num and whether head is allocated
          created, \* the properties in head, in order
          heap,    \* the blocks that are allocated
          ret      \* what parse_properties returned

MaxProperties == Len(table)
Index == 1 .. MaxProperties

input == <<table, source, message>>
vars == <<pc, input, rest, values, array, created, heap, ret>>

Unused == [used |-> FALSE, len |-> 0]
NoArray == [num |-> 0, head |-> FALSE]

(* The blocks: the array get_property makes of the elements of property i, *)
(* the head, and per created property its copy and, of an array, those of  *)
(* the elements.                                                           *)
Tmp(i) == <<"tmp", i>>
Head0 == <<"head", 0>>
Copy(i) == <<"copy", i>>
Elements(i) == <<"elements", i>>

Dictionaries == { d \in SeqOf(Sent[table], MaxEntries) :
                    \A j, k \in DOMAIN d : d[j].name = d[k].name => j = k }

Init == /\ table \in Tables /\ pc = "parse"
        /\ source \in {"dictionary", "change"}
        /\ message \in Dictionaries /\ rest = message
        /\ source = "change" => Len(message) = 1
        /\ values = [i \in Index |-> Unused]
        /\ array = NoArray /\ created = << >>
        /\ heap = {} /\ ret = 0

(* get_property: the first name that the received one is a prefix of.      *)
Matches(name) == {i \in Index : IsPrefix(name, table[i].name)}
\* Mutated: the search runs from the end of the table.
Lookup_Last(name) == CHOOSE i \in Matches(name) : \A j \in Matches(name) : i >= j

Lookup(name) == CHOOSE i \in Matches(name) : \A j \in Matches(name) : i <= j

Known(e) == Matches(e.name) # {} /\ table[Lookup(e.name)].type = e.type

\* Mutated: only the first property's array is freed.
Failure_First == /\ pc' = "parsed" /\ ret' = 1
                 /\ heap' = heap \ {Tmp(i) : i \in {j \in {1} : values[j].used}}
                 /\ UNCHANGED <<values, rest>>

(* The label failure: the arrays got so far are freed.                     *)
Failure == /\ pc' = "parsed" /\ ret' = 1
           /\ heap' = heap \ {Tmp(i) : i \in {j \in Index : values[j].used}}
           /\ UNCHANGED <<values, rest>>

(***************************************************************************)
(* One entry.  A property that is not in the table, or of another type,    *)
(* makes the whole dictionary fail, and so does a dictionary without       *)
(* entries.                                                                *)
(***************************************************************************)
ParseEntry ==
  /\ pc = "parse" /\ source = "dictionary"
  /\ IF rest = << >> \/ ~Known(Head(rest))
     THEN Failure
     ELSE LET e    == Head(rest)
              i    == Lookup(e.name)
              made == e.type = "array" /\ e.len > 0
          IN \/ /\ values' = [values EXCEPT ![i] = [used |-> TRUE, len |-> e.len]]
                /\ heap' = IF made THEN heap \cup {Tmp(i)} ELSE heap
                /\ rest' = Tail(rest)
                /\ pc' = IF rest' = << >> THEN "count" ELSE "parse"
                /\ UNCHANGED ret
             \/ made /\ OutOfMemory /\ Failure
  /\ UNCHANGED <<input, array, created>>

(***************************************************************************)
(* The loop that counts the used properties increments the variable it     *)
(* runs over, once more after each one: it ends at the size of the table   *)
(* or one above, and that is num.                                          *)
(***************************************************************************)
Count == /\ pc = "count"
         /\ IF array.num < MaxProperties
            THEN /\ array' = [array EXCEPT !.num =
                               @ + (IF values[@ + 1].used THEN 2 ELSE 1)]
                 /\ UNCHANGED pc
            ELSE pc' = "alloc" /\ UNCHANGED array
         /\ UNCHANGED <<input, rest, values, created, heap, ret>>

(* Without memory for head it returns 0, and leaves the arrays.            *)
AllocHead == /\ pc = "alloc"
             /\ \/ /\ array' = [array EXCEPT !.head = TRUE]
                   /\ heap' = heap \cup {Head0}
                   /\ pc' = "create"
                \/ /\ OutOfMemory /\ pc' = "parsed"
                   /\ UNCHANGED <<array, heap>>
             /\ UNCHANGED <<input, rest, values, created, ret>>

(* The next property to create, while head has room.                       *)
Todo == {i \in Index : values[i].used /\ \A k \in DOMAIN created : created[k].prop # i}
Next0 == CHOOSE i \in Todo : \A j \in Todo : i <= j

(* The blocks create_prop_array asks for, those it may get, and what it    *)
(* then leaves in head.                                                    *)
Blocks(i) ==
  CASE table[i].type = "int"   -> {}
    [] table[i].type = "array" -> {Copy(i)} \cup (IF values[i].len > 0 THEN {Elements(i)} ELSE {})
    [] OTHER                   -> {Copy(i)}
Gets(i) == { got \in (IF OutOfMemory THEN SUBSET Blocks(i) ELSE {Blocks(i)}) :
               Elements(i) \in got => Copy(i) \in got }
Result(i, got) == [prop |-> i, len |-> values[i].len,
                   copied |-> table[i].type = "array" => Copy(i) \in got]

\* Mutated: the array of the message's elements is not freed.
Create_KeepTmp ==
  /\ pc = "create" /\ Todo # {} /\ Len(created) < array.num
  /\ \E got \in Gets(Next0) :
       /\ created' = Append(created, Result(Next0, got))
       /\ heap' = heap \cup got
  /\ UNCHANGED <<pc, input, rest, values, array, ret>>

(* create_prop_array, for one property, and the end of its array.          *)
Create ==
  /\ pc = "create" /\ Todo # {} /\ Len(created) < array.num
  /\ \E got \in Gets(Next0) :
       /\ created' = Append(created, Result(Next0, got))
       /\ heap' = (heap \ {Tmp(Next0)}) \cup got
  /\ UNCHANGED <<pc, input, rest, values, array, ret>>

Created == /\ pc = "create" /\ (Todo = {} \/ Len(created) >= array.num)
           /\ pc' = "parsed"
           /\ UNCHANGED <<input, rest, values, array, created, heap, ret>>

(***************************************************************************)
(* parse_property_change: one property, out of a signal.  The head is      *)
(* allocated before the property is known, and stays when it is not.       *)
(***************************************************************************)
parse_property_change ==
  /\ pc = "parse" /\ source = "change" /\ pc' = "parsed"
  /\ UNCHANGED <<input, rest>>
  /\ \E head \in (IF OutOfMemory THEN BOOLEAN ELSE {TRUE}) :
       LET e == Head(message)
           i == Lookup(e.name)
           heads == IF head THEN {Head0} ELSE {}
       IN /\ array' = [num |-> 1, head |-> head]
          /\ \/ /\ ~Known(e) \/ (OutOfMemory /\ e.type = "array" /\ e.len > 0)
                /\ ret' = 1 /\ heap' = heads
                /\ UNCHANGED <<values, created>>
             \/ /\ Known(e) /\ ret' = 0
                /\ values' = [values EXCEPT ![i] = [used |-> TRUE, len |-> e.len]]
                /\ \/ ~head /\ heap' = {} /\ UNCHANGED created
                   \/ head /\ \E got \in Gets(i)' :
                        heap' = heads \cup got /\ created' = <<Result(i, got)'>>

(* print_property_value and free_property_value trust the length of an     *)
(* array whose copy could not be allocated.                                *)
Uncopied == \E k \in DOMAIN created : ~created[k].copied /\ created[k].len > 0

print_property_value ==
  /\ pc = "parsed" /\ ret = 0 /\ Uncopied
  /\ pc' = "crashed"
  /\ UNCHANGED <<input, rest, values, array, created, heap, ret>>

\* Mutated: the copies of the elements are not freed.
free_property_value_Shallow ==
  /\ pc = "parsed" /\ ret = 0
  /\ pc' = "freed"
  /\ heap' = heap \ ({Head0} \cup {Copy(v.prop) : v \in ToSet(created)})
  /\ UNCHANGED <<input, rest, values, array, created, ret>>

(* free_property_value: what is in head, and head.                         *)
free_property_value ==
  /\ pc = "parsed" /\ ret = 0
  /\ IF Uncopied
     THEN pc' = "crashed" /\ UNCHANGED heap
     ELSE /\ pc' = "freed"
          /\ heap' = heap \ ({Head0} \cup UNION {{Copy(v.prop), Elements(v.prop)} : v \in ToSet(created)})
  /\ UNCHANGED <<input, rest, values, array, created, ret>>

Parsing == \/ ParseEntry \/ Count \/ AllocHead \/ Create \/ Created
           \/ parse_property_change
Next == Parsing \/ print_property_value \/ free_property_value

Spec == Init /\ [][Next]_vars
=============================================================================
