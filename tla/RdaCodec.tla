------------------------------ MODULE RdaCodec ------------------------------
(***************************************************************************)
(* The messages that set registers of an RDA chip: how the driver encodes  *)
(* them, and how the parser that was written to read another product's     *)
(* configuration from a trace decodes them.                                *)
(*                                                                         *)
(* A message that sets a register is a sequence of bytes; its first three, *)
(* the same in every such message, are left out, so that it starts with    *)
(* the length.  A byte has Base values: 256, or fewer to let TLC enumerate *)
(* all words.  Registers of the radio (memory type 1) are addressed by     *)
(* number: 4 bytes each, from 0x200 on.                                    *)
(*                                                                         *)
(* A trace is what a driver wrote to the line, message by message.  It     *)
(* comes as a text, which txt2hex converts as far as it fits in a buffer,  *)
(* into a file that it does not truncate; then print_rda_cmd takes the     *)
(* messages apart.  Messages count as equally long, as those that set a    *)
(* register are, so that one takes the place of one in the file.           *)
(***************************************************************************)
EXTENDS Naturals, Integers, Sequences, TLC

CONSTANTS Base,   \* values of a byte
          Buffer, \* messages whose text fits in the buffer
          Inputs, \* the traces that are read
          Earlier \* the traces that may have been converted before

ASSUME BaseAssumption == Base \in Nat /\ Base > 1 /\ Buffer \in Nat

Byte == 0 .. (Base - 1)
Word == 0 .. (Base * Base * Base * Base - 1)
Wrap(n) == n % (Base * Base * Base * Base)
RfBase == 2 * Base

(* The casts to __u8 of a word and of its shifts by 8, 16 and 24.          *)
Bytes(w) == << w % Base, (w \div Base) % Base,
               (w \div (Base * Base)) % Base, (w \div (Base * Base * Base)) % Base >>

(* The decoder's shifts.                                                   *)
FromBytes(b) == b[1] + Base * b[2] + Base * Base * b[3] + Base * Base * Base * b[4]

\* Mutated: the number of a register of the radio is sent as it is.
ByteAddress_Raw(addr, type) == addr

ByteAddress(addr, type) == IF type = 1 THEN Wrap(addr * 4 + RfBase) ELSE addr

(* rdabt_write_memory for one register: RDA_uart_write_array sends every   *)
(* register in a message of its own.  Other products ask for an event.     *)
TypeByte(type, event) == IF event THEN type + 128 ELSE type

Encode(addr, data, type, event) ==
  << 10, TypeByte(type, event), 1 >> \o Bytes(ByteAddress(addr, type)) \o Bytes(data)

Register(b, typebyte) ==
  IF typebyte \in {1, 129} THEN Wrap(FromBytes(b) - RfBase) \div 4 ELSE FromBytes(b)

(* print_rda_cmd for such a message.                                       *)
Decode(m) == << Register(SubSeq(m, 4, 7), m[2]), FromBytes(SubSeq(m, 8, 11)) >>

-----------------------------------------------------------------------------
(* Traces.                                                                 *)

(* A register of the radio has a number below a quarter of the words.      *)
Registers == {r \in [kind : {"register"}, addr : Word, data : Word,
                     type : {0, 1}, event : BOOLEAN] :
                r.type = 1 => r.addr * 4 < Base * Base * Base * Base}

(* Other messages a trace may hold: HCI commands the parser prints as they *)
(* are, a block of two words, and what it does not know or finds too long. *)
Others == [kind : {"raw", "block", "unknown"}]

ASSUME InputsAssumption == Inputs \cup Earlier \subseteq Seq(Registers \cup Others)

VARIABLES trace,  \* what drivers write to the line, in order
          line,   \* the messages written so far
          stage,  \* "line", "hex" or "done"
          left,   \* what the file held before
          file,   \* the messages in the file that is parsed
          output  \* per message read: what the parser prints of it

vars == <<trace, line, stage, left, file, output>>

OnLine(t) ==
  [kind  |-> t.kind,
   bytes |-> IF t.kind = "register" THEN Encode(t.addr, t.data, t.type, t.event)
                                    ELSE << >>]

Init == /\ trace \in Inputs
        /\ \E e \in Earlier : left = [i \in DOMAIN e |-> OnLine(e[i])]
        /\ line = << >> /\ stage = "line" /\ file = left /\ output = << >>

rdabt_write_memory ==
  /\ stage = "line" /\ Len(line) < Len(trace)
  /\ line' = Append(line, OnLine(trace[Len(line) + 1]))
  /\ UNCHANGED <<trace, stage, left, file, output>>

(* A message that is cut: the first n - 1 bytes are its own, the nth may   *)
(* have lost a digit, and the rest is what the file held there.            *)
Mixed(m, o, n, b) ==
  [kind  |-> m.kind,
   bytes |-> [i \in DOMAIN m.bytes |-> IF i < n THEN m.bytes[i] ELSE
                                        IF i = n THEN b ELSE o.bytes[i]]]

(* A head or a length that lost a digit is no message any more.            *)
Cut(m, o) ==
  {o, OnLine([kind |-> "unknown"])}
    \cup (IF m.kind = "register" /\ o.kind = "register"
          THEN {Mixed(m, o, n, b) : n \in 2 .. 11, b \in Byte} ELSE {})

From(s, n) == SubSeq(s, n, Len(s))

(* The text that fits is converted; the rest is dropped without a word.    *)
txt2hex ==
  /\ stage = "line" /\ Len(line) = Len(trace)
  /\ stage' = "hex"
  /\ IF Len(line) <= Buffer THEN file' = line \o From(left, Len(line) + 1)
     ELSE LET whole == SubSeq(line, 1, Buffer)
              cut   == line[Buffer + 1]
          IN IF Len(left) <= Buffer
             THEN \/ file' = whole
                  \/ \E b \in Byte : file' = Append(whole, Mixed(cut, cut, 11, b))
             ELSE \E c \in Cut(cut, left[Buffer + 1]) :
                    file' = Append(whole, c) \o From(left, Buffer + 2)
  /\ UNCHANGED <<trace, line, left, output>>

Printed(m) ==
  [kind |-> m.kind, reg |-> IF m.kind = "register" THEN Decode(m.bytes) ELSE << >>]

(* One round of the loop over the file, which ends at what it does not     *)
(* know.  A block of two words is passed over.                             *)
Readable == Len(output) < Len(file) /\ file[Len(output) + 1].kind # "unknown"

print_rda_cmd ==
  /\ stage = "hex"
  /\ IF Readable
     THEN output' = Append(output, Printed(file[Len(output) + 1])) /\ UNCHANGED stage
     ELSE stage' = "done" /\ UNCHANGED output
  /\ UNCHANGED <<trace, line, left, file>>

Next == rdabt_write_memory \/ txt2hex \/ print_rda_cmd

Spec == Init /\ [][Next]_vars

-----------------------------------------------------------------------------
\* What should be printed of a message: the register and its value, or, of
\* the others, no register.
Meant(t) == [kind |-> t.kind,
             reg |-> IF t.kind = "register" THEN << t.addr, t.data >> ELSE << >>]

(***************************************************************************)
(* What the parser prints are the registers and the values that were       *)
(* written, in their order and none in between is lost: a configuration    *)
(* read from a trace can be copied into the tables.  Byte order, widths    *)
(* and the address of the radio's registers agree on both sides, and the   *)
(* lengths lead from one message to the next.  It is so up to the first    *)
(* message that is not known, and as far as the text fits in the buffer.   *)
(* Nothing is printed behind it, unless an earlier trace was longer.       *)
(***************************************************************************)
TraceReadsBack ==
  /\ \A i \in DOMAIN trace :
       i <= Buffer =>
         /\ i \in DOMAIN output => output[i] = Meant(trace[i])
         /\ stage = "done" /\ (\A j \in 1 .. i : trace[j].kind # "unknown")
              => i \in DOMAIN output
  /\ Len(left) <= Len(trace) => Len(output) <= Len(trace)
=============================================================================
