---------------------------- MODULE PropertyQuery ---------------------------
(***************************************************************************)
(* A client's blocking calls with the results it gets: BlockingCall and,   *)
(* for _getDeviceProperties and _getAdapterProperties, PropertyParse on    *)
(* the reply.  The properties that change, which no call asks for, are     *)
(* parsed out of a signal that is held by libdbus meanwhile.               *)
(***************************************************************************)
EXTENDS PropertyParse

VARIABLES call, step, live, ret0 \* BlockingCall; ret0 is what the client sees

callVars == <<call, step, live, ret0>>
queryVars == <<vars, callVars>>

Call == INSTANCE BlockingCall WITH ret <- ret0

Queries == call.takes = "properties"

\* A signal is there without a call; what other calls get is not a
\* dictionary, and stands for the whole table's.
QueryInit ==
  /\ Init /\ Call!Init
  /\ source = "change" => ~Queries /\ call.form = "oneway"
  /\ (source = "dictionary" /\ ~Queries) =>
        table = adapter_properties /\ message = << >>

\* Mutated: the reply is released before its dictionary is parsed.
QueryStep_UnrefFirst ==
  /\ step = "take" /\ Queries
  /\ live' = live \ {"reply"} /\ Parsing /\ UNCHANGED <<call, step, ret0>>

\* The dictionary is parsed in place: strings are pointers into the reply.
QueryStep ==
  /\ step = "take" /\ Queries
  /\ Parsing /\ UNCHANGED callVars

\* The reply is released, and what parsing returned is not looked at.
QueryReturns ==
  /\ step = "take" /\ Queries /\ pc = "parsed"
  /\ step' = "returned" /\ ret0' = "value" /\ live' = live \ {"reply"}
  /\ UNCHANGED <<call, vars>>

\* The client that was told of success prints and frees its array; one that
\* nobody set is not the client's to tell from others.
Use == IF ret = 0 THEN print_property_value \/ free_property_value
       ELSE /\ pc = "parsed" /\ pc' \in {"parsed", "crashed"}
            /\ UNCHANGED <<input, rest, values, array, created, heap, ret>>

UseProperties ==
  /\ Queries /\ step = "returned" /\ ret0 = "value"
  /\ Use /\ UNCHANGED callVars

Signalled ==
  /\ source = "change" /\ UNCHANGED callVars
  /\ parse_property_change \/ (ret = 0 /\ (print_property_value \/ free_property_value))

QueryNext == \/ Call!Next /\ UNCHANGED vars
             \/ QueryStep \/ QueryReturns \/ UseProperties \/ Signalled

QuerySpec == QueryInit /\ [][QueryNext]_queryVars
=============================================================================
