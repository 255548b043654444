----------------------- MODULE PropertyQueryProperties ----------------------
(* What holds of blocking calls, and of the properties that are parsed.    *)
EXTENDS PropertyQuery

(* Every variable has its type, head has room for what was created, and    *)
(* the elements of the message are held only until they are copied.        *)
TypeOK ==
  /\ pc \in {"parse", "count", "alloc", "create", "parsed", "freed", "crashed"}
  /\ table \in Tables /\ message \in Dictionaries
  /\ Len(rest) <= Len(message)
  /\ rest = SubSeq(message, Len(message) - Len(rest) + 1, Len(message))
  /\ source \in {"dictionary", "change"}
  /\ values \in [Index -> [used : BOOLEAN, len : Nat]]
  /\ array \in [num : 0 .. MaxProperties + 1, head : BOOLEAN]
  /\ created \in Seq([prop : Index, len : Nat, copied : BOOLEAN])
  /\ Len(created) <= array.num
  /\ \A i \in Index : Tmp(i) \in heap =>
        values[i].used /\ \A k \in DOMAIN created : created[k].prop # i
  /\ ret \in {0, 1}
  /\ call \in Call!FunctionCalls
  /\ step \in {"compose", "append", "send", "take", "returned", "released", "aborted"}
  /\ live \subseteq {"err", "msg", "reply", "error", "list", "copy", "elements"}
  /\ ret0 \in {"none", "value", "failed", "nomemory", "error"}

(* BlueZ sends no name that a name of the table begins with, unless an     *)
(* earlier one of the table is that name: strncmp would take it for the    *)
(* longer one.                                                             *)
ExactNames ==
  \A t \in Tables : \A e \in Sent[t] : \A i \in DOMAIN t :
    IsPrefix(e.name, t[i].name) => \E j \in 1 .. i : t[j].name = e.name

(***************************************************************************)
(* Every entry that was sent ends up at its own property, in the order of  *)
(* the table, although a name is compared only as far as the received one  *)
(* goes and head is sized by a loop that does not count: nothing is        *)
(* dropped, doubled, or taken for a property with a longer name.           *)
(***************************************************************************)
NothingDropped ==
  pc = "parsed" /\ ret = 0 /\ array.head =>
     /\ Len(created) = Len(message)
     /\ \A e \in ToSet(message) : \E k \in DOMAIN created :
          table[created[k].prop].name = e.name /\ created[k].len = e.len
     /\ \A j, k \in DOMAIN created : j < k => created[j].prop < created[k].prop

(***************************************************************************)
(* What fails leaves nothing allocated, wherever it failed; only the head  *)
(* of a change that is not known is the client's to free.  What parsing    *)
(* allocated otherwise is released by free_property_value.                 *)
(***************************************************************************)
ParsingReleases ==
  /\ ret = 1 => heap \subseteq (IF source = "change" THEN {Head0} ELSE {})
  /\ pc = "freed" /\ array.head => heap = {}

(***************************************************************************)
(* However a call ends, its message, its reply and an error of its own are *)
(* gone when it returns, and the client can free the rest, except for the  *)
(* list that libdbus made of an array of strings.                          *)
(***************************************************************************)
CallReleases ==
  /\ step = "returned" => live \cap {"err", "msg", "reply"} = {}
  /\ step = "returned" /\ (Queries \/ call.form = "oneway") => live = {}
  /\ step = "released" => live \subseteq Call!Leaked

(***************************************************************************)
(* A client that gives an error finds it set if the call was made and got  *)
(* no reply, and only then: nobody else logs and frees it.                 *)
(***************************************************************************)
ErrorIsTheClients ==
  step = "returned" => ("error" \in live <=> call.form = "error" /\ ret0 = "error")

(***************************************************************************)
(* While the dictionary is parsed, strings are pointers into the reply,    *)
(* which must not be released before the last of them was copied.          *)
(***************************************************************************)
BorrowedIsHeld == Queries /\ (rest # message \/ pc \in {"count", "alloc", "create"})
                    /\ pc \notin {"parsed", "freed", "crashed"} => "reply" \in live
=============================================================================
