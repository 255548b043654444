--------------------------- MODULE PropertyQueryMC --------------------------
(* Dictionaries that show the cases of the parser.                         *)
EXTENDS PropertyQueryProperties

Entry(n, t, l) == [name |-> n, type |-> t, len |-> l]

(* Known properties of each kind, one of a wrong type, and an unknown one. *)
SentByAdapter ==
  {Entry(<<"Pairable">>, "int", 1), Entry(<<"Pairable", "Timeout">>, "int", 1),
   Entry(<<"Name">>, "string", 1), Entry(<<"UUIDs">>, "array", 0),
   Entry(<<"UUIDs">>, "array", 2), Entry(<<"Devices">>, "array", 1),
   Entry(<<"Devices">>, "string", 1), Entry(<<"Modalias">>, "string", 1)}

SentByDevice ==
  {Entry(<<"Adapter">>, "path", 1), Entry(<<"Legacy", "Pairing">>, "int", 1),
   Entry(<<"UUIDs">>, "array", 2), Entry(<<"Nodes">>, "array", 1),
   Entry(<<"RSSI">>, "int", 1), Entry(<<"RSSI">>, "string", 1)}

MCSent == [t \in Tables |-> IF t = adapter_properties THEN SentByAdapter ELSE SentByDevice]

\* What NothingIsDropped is proved from holds of these entries.
ASSUME NamesAreExact == ExactNames
=============================================================================
