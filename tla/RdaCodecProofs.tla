--------------------------- MODULE RdaCodecProofs ---------------------------
(* Encoding and decoding of registers, for every register and every number *)
(* of values of a byte; TLC enumerates the words of small bytes only.      *)
EXTENDS RdaCodec, SequenceTheorems, TLAPS

(* Division by a number of at least 1.                                     *)
LEMMA Euclid ==
  ASSUME NEW w \in Nat, NEW b \in Nat \ {0}
  PROVE  /\ w = b * (w \div b) + (w % b)
         /\ w % b \in 0 .. (b - 1) /\ w \div b \in Nat
  BY SMT

(* A second shift continues the first.                                     *)
LEMMA ShiftTwice ==
  ASSUME NEW w \in Nat, NEW b \in Nat \ {0}, NEW c \in Nat \ {0}
  PROVE  w \div (b * c) = (w \div b) \div c
  BY SMT

LEMMA SmallQuotient ==
  ASSUME NEW w \in Nat, NEW b \in Nat \ {0}, NEW c \in Nat \ {0}, w < b * c
  PROVE  w \div b < c
  BY SMT

(* What is small survives wrapping, also one turn away.                    *)
LEMMA SmallWraps ==
  ASSUME NEW n \in Nat \ {0}, NEW x \in 0 .. (n - 1)
  PROVE  x % n = x /\ (x + n) % n = x /\ (x - n) % n = x
  BY SMT

LEMMA BaseFacts ==
  /\ Base \in Nat \ {0} /\ Base * Base \in Nat \ {0}
  /\ Base * Base * Base \in Nat \ {0} /\ Base * Base * Base * Base \in Nat \ {0}
  /\ RfBase < Base * Base * Base * Base /\ RfBase \in Nat
<1>1. Base \in Nat /\ Base >= 2
  BY BaseAssumption
<1>2. Base * Base \in Nat /\ Base * Base >= 2 * Base
  BY <1>1, SMT
<1>3. Base * Base * Base \in Nat /\ Base * Base * Base >= 2 * (Base * Base)
  BY <1>1, <1>2, SMT
<1>4. Base * Base * Base * Base \in Nat /\ Base * Base * Base * Base >= 2 * (Base * Base * Base)
  BY <1>1, <1>3, SMT
<1> QED BY <1>1, <1>2, <1>3, <1>4 DEF RfBase

(* The four bytes of a word put together are the word.                     *)
LEMMA BytesReadBack ==
  ASSUME NEW w \in Word
  PROVE  FromBytes(Bytes(w)) = w
<1> DEFINE q1 == w \div Base
           q2 == q1 \div Base
           q3 == q2 \div Base
<1>1. w \in Nat /\ w < Base * Base * Base * Base
  BY BaseFacts DEF Word
<1>2. w = Base * q1 + (w % Base) /\ q1 \in Nat
  BY <1>1, BaseFacts, Euclid
<1>3. q1 = Base * q2 + (q1 % Base) /\ q2 \in Nat
  BY <1>2, BaseFacts, Euclid
<1>4. q2 = Base * q3 + (q2 % Base) /\ q3 \in Nat
  BY <1>3, BaseFacts, Euclid
<1>5. w \div (Base * Base) = q2
  BY <1>1, BaseFacts, ShiftTwice
<1>6. w \div (Base * Base * Base) = q3
  <2> DEFINE b2 == Base * Base
  <2>1. b2 \in Nat \ {0}
    BY BaseFacts
  <2> HIDE DEF b2
  <2>2. w \div (b2 * Base) = (w \div b2) \div Base
    BY <1>1, <2>1, BaseFacts, ShiftTwice
  <2> QED BY <1>5, <2>2 DEF b2
<1>7. q3 % Base = q3
  <2>1. q3 < Base
    BY <1>1, <1>6, BaseFacts, SmallQuotient
  <2> HIDE DEF q3
  <2> QED BY <1>4, <2>1, BaseFacts, SmallWraps
<1>8. w % Base \in Nat /\ q1 % Base \in Nat /\ q2 % Base \in Nat
  BY <1>1, <1>2, <1>3, BaseFacts, Euclid
<1>9. FromBytes(Bytes(w)) = (w % Base) + Base * (q1 % Base)
                              + Base * Base * (q2 % Base) + Base * Base * Base * q3
  BY <1>5, <1>6, <1>7 DEF Bytes, FromBytes
<1> HIDE DEF q1, q2, q3
<1>10. Base * Base * q2 = Base * Base * Base * q3 + Base * Base * (q2 % Base)
  BY <1>4, <1>8, BaseFacts, SMT
<1>11. Base * q1 = Base * Base * q2 + Base * (q1 % Base)
  BY <1>3, <1>8, BaseFacts, SMT
<1> QED BY <1>2, <1>4, <1>8, <1>9, <1>10, <1>11, BaseFacts, SMT

LEMMA BytesAreInts ==
  ASSUME NEW w \in Word
  PROVE  Bytes(w) \in Seq(Int) /\ Len(Bytes(w)) = 4
<1>1. w \in Nat
  BY BaseFacts DEF Word
<1>2. /\ w % Base \in Int /\ (w \div Base) % Base \in Int
      /\ (w \div (Base * Base)) % Base \in Int
      /\ (w \div (Base * Base * Base)) % Base \in Int
  BY <1>1, BaseFacts, Euclid
<1> QED BY <1>2 DEF Bytes

(* Encoding a register's address and decoding it gives the address.        *)
LEMMA AddressReadsBack ==
  ASSUME NEW addr \in Word, NEW type \in {0, 1},
         type = 1 => addr * 4 < Base * Base * Base * Base,
         NEW event \in BOOLEAN
  PROVE  /\ ByteAddress(addr, type) \in Word
         /\ Register(Bytes(ByteAddress(addr, type)), TypeByte(type, event)) = addr
<1>0. TypeByte(type, event) \in {1, 129} <=> type = 1
  BY DEF TypeByte
<1>1. CASE type = 0
  BY <1>0, <1>1, BytesReadBack DEF ByteAddress, Register
<1>2. CASE type = 1
  <2> DEFINE n == Base * Base * Base * Base
             a == (addr * 4 + RfBase) % n
  <2>1. n \in Nat \ {0} /\ RfBase \in 0 .. (n - 1) /\ addr * 4 \in 0 .. (n - 1) /\ addr \in Nat
    BY <1>2, BaseFacts DEF Word
  <2>2. Word = 0 .. (n - 1) /\ \A x : Wrap(x) = x % n
    BY DEF Word, Wrap
  <2>3. a \in 0 .. (n - 1) /\ (a - RfBase) % n = addr * 4
    <3> HIDE DEF n
    <3>1. CASE addr * 4 + RfBase < n
      <4>1. a = addr * 4 + RfBase
        BY SMTT(30), <2>1, <3>1, SmallWraps
      <4> HIDE DEF a
      <4>2. a - RfBase = addr * 4
        BY <2>1, <4>1
      <4> QED BY <2>1, <3>1, <4>1, <4>2, SmallWraps
    <3>2. CASE addr * 4 + RfBase >= n
      <4>1. addr * 4 + RfBase - n \in 0 .. (n - 1)
        BY <2>1, <3>2
      <4>2. (addr * 4 + RfBase - n) + n = addr * 4 + RfBase
        BY <2>1
      <4>3. a = addr * 4 + RfBase - n
        BY <4>1, <4>2, <2>1, SmallWraps
      <4>4. a - RfBase = addr * 4 - n
        BY <2>1, <4>3
      <4> QED BY <2>1, <4>1, <4>3, <4>4, SmallWraps
    <3> QED BY <2>1, <3>1, <3>2
  <2>4. ByteAddress(addr, type) = a
    BY <1>2, <2>2 DEF ByteAddress
  <2> HIDE DEF a, n
  <2>5. FromBytes(Bytes(a)) = a
    BY <2>2, <2>3, BytesReadBack
  <2>6. (addr * 4) \div 4 = addr
    BY <2>1
  <2>7. Register(Bytes(a), TypeByte(type, event)) = addr
    BY <1>0, <1>2, <2>2, <2>3, <2>5, <2>6 DEF Register
  <2> QED BY <2>2, <2>3, <2>4, <2>7
<1> QED BY <1>1, <1>2

(* Taking a message apart at the lengths of its parts.                     *)
LEMMA MessageParts ==
  ASSUME NEW p \in Seq(Int), NEW a \in Seq(Int), NEW d \in Seq(Int),
         Len(p) = 3, Len(a) = 4, Len(d) = 4
  PROVE  LET m == p \o a \o d
         IN m[2] = p[2] /\ SubSeq(m, 4, 7) = a /\ SubSeq(m, 8, 11) = d
<1> DEFINE pa == p \o a
           m == pa \o d
<1>1. pa \in Seq(Int) /\ Len(pa) = 7
        /\ \A i \in 1 .. 7 : pa[i] = IF i <= 3 THEN p[i] ELSE a[i - 3]
  <2>1. /\ pa \in Seq(Int) /\ Len(pa) = Len(p) + Len(a)
        /\ \A i \in 1 .. Len(p) + Len(a) : pa[i] = IF i <= Len(p) THEN p[i] ELSE a[i - Len(p)]
    BY ConcatProperties, Zenon
  <2> HIDE DEF pa
  <2>2. Len(p) + Len(a) = 7
    OBVIOUS
  <2> QED BY <2>1, <2>2
<1> HIDE DEF pa
<1>2. m \in Seq(Int) /\ Len(m) = 11
        /\ \A i \in 1 .. 11 : m[i] = IF i <= 7 THEN pa[i] ELSE d[i - 7]
  <2>1. /\ m \in Seq(Int) /\ Len(m) = Len(pa) + Len(d)
        /\ \A i \in 1 .. Len(pa) + Len(d) : m[i] = IF i <= Len(pa) THEN pa[i] ELSE d[i - Len(pa)]
    BY <1>1, ConcatProperties, Zenon
  <2> HIDE DEF m
  <2>2. Len(pa) + Len(d) = 11
    BY <1>1
  <2> QED BY <1>1, <2>1, <2>2
<1> HIDE DEF m
<1>3. \A i \in 1 .. 11 : m[i] \in Int
  BY <1>2, LenProperties
<1>4. m[2] = p[2]
  BY <1>1, <1>2
<1>5. SubSeq(m, 4, 7) = a
  <2>1. /\ SubSeq(m, 4, 7) \in Seq(Int) /\ Len(SubSeq(m, 4, 7)) = 4
        /\ \A i \in 1 .. 4 : SubSeq(m, 4, 7)[i] = m[4 + i - 1]
    BY <1>3, SubSeqProperties
  <2>2. \A i \in 1 .. 4 : m[4 + i - 1] = a[i]
    BY SMTT(30), <1>1, <1>2
  <2> QED BY <2>1, <2>2, SeqEqual
<1>6. SubSeq(m, 8, 11) = d
  <2>1. /\ SubSeq(m, 8, 11) \in Seq(Int) /\ Len(SubSeq(m, 8, 11)) = 4
        /\ \A i \in 1 .. 4 : SubSeq(m, 8, 11)[i] = m[8 + i - 1]
    BY <1>3, SubSeqProperties
  <2>2. \A i \in 1 .. 4 : m[8 + i - 1] = d[i]
    BY <1>2
  <2> QED BY <2>1, <2>2, SeqEqual
<1> QED BY <1>4, <1>5, <1>6 DEF m, pa

(* The parser inverts the encoder.                                         *)
LEMMA DecodeInvertsEncode ==
  ASSUME NEW r \in Registers
  PROVE  Decode(Encode(r.addr, r.data, r.type, r.event)) = << r.addr, r.data >>
<1> DEFINE a == Bytes(ByteAddress(r.addr, r.type))
           d == Bytes(r.data)
           t == TypeByte(r.type, r.event)
           m == Encode(r.addr, r.data, r.type, r.event)
<1>1. r.addr \in Word /\ r.data \in Word /\ r.type \in {0, 1} /\ r.event \in BOOLEAN
  BY DEF Registers
<1>2. ByteAddress(r.addr, r.type) \in Word /\ Register(a, t) = r.addr
  BY <1>1, AddressReadsBack DEF Registers
<1>3. FromBytes(d) = r.data
  BY <1>1, BytesReadBack
<1>4. SubSeq(m, 4, 7) = a /\ SubSeq(m, 8, 11) = d /\ m[2] = t
  <2> DEFINE p == << 10, t, 1 >>
  <2>1. /\ a \in Seq(Int) /\ Len(a) = 4 /\ d \in Seq(Int) /\ Len(d) = 4
    BY <1>1, <1>2, BytesAreInts
  <2>2. t \in Int
    BY <1>1 DEF TypeByte
  <2>3. p \in Seq(Int) /\ Len(p) = 3 /\ p[2] = t
    BY <2>2
  <2>4. m = p \o a \o d
    BY DEF Encode
  <2> HIDE DEF m, a, d, p, t
  <2> QED BY <2>1, <2>3, <2>4, MessageParts
<1> QED BY <1>2, <1>3, <1>4 DEF Decode

-----------------------------------------------------------------------------
(* Whole traces.                                                           *)

Items == Registers \cup Others

Sent == {OnLine(t) : t \in Items}

\* A message in the file is a copy of one on the line, or one that was cut.
Copies == Sent \cup {Mixed(m, o, n, b) : m \in Sent, o \in Sent, n \in 2 .. 11, b \in Byte}

\* The line holds what was written, the file what fits of it, and the output
\* what was meant by it; the parser stops only at the end or at what it does
\* not know.
TraceInv ==
  /\ trace \in Seq(Items) /\ line \in Seq(Sent) /\ left \in Seq(Sent)
  /\ file \in Seq(Copies)
  /\ output \in Seq({Printed(m) : m \in Copies})
  /\ Len(line) <= Len(trace)
  /\ \A i \in 1 .. Len(line) : line[i] = OnLine(trace[i])
  /\ stage = "line" => output = << >>
  /\ stage # "line" =>
       \A i \in 1 .. Len(trace) : i <= Buffer =>
          i <= Len(file) /\ file[i] = OnLine(trace[i])
  /\ stage # "line" /\ Len(left) <= Len(trace) => Len(file) <= Len(trace)
  /\ \A i \in 1 .. Len(output) : i <= Len(file) /\ output[i] = Printed(file[i])
  /\ stage = "done" => ~Readable

\* What is printed of a message from the line is what was meant.
LEMMA PrintedIsMeant ==
  ASSUME NEW t \in Items
  PROVE  Printed(OnLine(t)) = Meant(t)
<1>1. CASE t.kind = "register"
  <2>1. t \in Registers
    BY <1>1 DEF Items, Others
  <2> QED BY <1>1, <2>1, DecodeInvertsEncode DEF Printed, OnLine, Meant
<1>2. CASE t.kind # "register"
  BY <1>2 DEF Printed, OnLine, Meant
<1> QED BY <1>1, <1>2

LEMMA KindsKept ==
  ASSUME NEW t
  PROVE  OnLine(t).kind = t.kind
BY DEF OnLine

\* What a file is that was written from the whole line: its first messages
\* are those of the line, and none is added to them.
FileReads(f) ==
  /\ f \in Seq(Copies)
  /\ \A i \in 1 .. Len(line) : i <= Buffer => i <= Len(f) /\ f[i] = line[i]
  /\ Len(left) <= Len(line) => Len(f) <= Len(line)

\* The tail of a sequence from n on.
LEMMA FromProperties ==
  ASSUME NEW S, NEW s \in Seq(S), NEW n \in Nat \ {0}
  PROVE  /\ From(s, n) \in Seq(S)
         /\ Len(From(s, n)) = IF n <= Len(s) THEN Len(s) - n + 1 ELSE 0
<1>1. Len(s) \in Nat /\ \A i \in n .. Len(s) : s[i] \in S
  OBVIOUS
<1> QED BY <1>1, SubSeqProperties DEF From

\* Messages written over the start of a file.
Over(p, o) == p \o From(o, Len(p) + 1)

LEMMA WrittenOver ==
  ASSUME NEW p \in Seq(Copies), NEW o \in Seq(Copies)
  PROVE  /\ Over(p, o) \in Seq(Copies)
         /\ \A i \in 1 .. Len(p) : i <= Len(Over(p, o)) /\ Over(p, o)[i] = p[i]
         /\ Len(Over(p, o)) = IF Len(p) <= Len(o) THEN Len(o) ELSE Len(p)
<1> DEFINE q == From(o, Len(p) + 1)
<1>1. Len(p) + 1 \in Nat \ {0}
  OBVIOUS
<1>2. /\ q \in Seq(Copies)
      /\ Len(q) = IF Len(p) + 1 <= Len(o) THEN Len(o) - (Len(p) + 1) + 1 ELSE 0
  BY <1>1, FromProperties
<1>3. Over(p, o) = p \o q
  BY DEF Over
<1> HIDE DEF q
<1>4. /\ p \o q \in Seq(Copies) /\ Len(p \o q) = Len(p) + Len(q)
      /\ \A i \in 1 .. Len(p) + Len(q) :
           (p \o q)[i] = IF i <= Len(p) THEN p[i] ELSE q[i - Len(p)]
  BY <1>2, ConcatProperties, Zenon
<1>5. Len(p) \in Nat /\ Len(q) \in Nat /\ Len(o) \in Nat
  BY <1>2
<1>6. Len(p \o q) = IF Len(p) <= Len(o) THEN Len(o) ELSE Len(p)
  BY <1>2, <1>4, <1>5
<1>7. \A i \in 1 .. Len(p) : i <= Len(p \o q) /\ (p \o q)[i] = p[i]
  BY <1>4, <1>5
<1> QED BY <1>3, <1>4, <1>6, <1>7, Zenon

LEMMA CutsAreCopies ==
  ASSUME NEW m \in Sent, NEW o \in Sent, NEW c \in Cut(m, o)
  PROVE  c \in Copies
<1>1. [kind |-> "unknown"] \in Items
  BY DEF Items, Others
<1> QED BY <1>1 DEF Cut, Copies, Sent

\* The three ways txt2hex can meet the end of its buffer and of the file.
LEMMA TextReads ==
  ASSUME TraceInv, txt2hex
  PROVE  FileReads(file')
<1>1. /\ line \in Seq(Copies) /\ left \in Seq(Copies) /\ Buffer \in Nat
      /\ Len(line) \in Nat /\ Len(left) \in Nat
  BY BaseAssumption, SeqMonotonic DEF TraceInv, Copies
<1>2. CASE Len(line) <= Buffer
  <2>1. file' = Over(line, left)
    BY <1>2 DEF txt2hex, Over
  <2>2. /\ Over(line, left) \in Seq(Copies)
        /\ \A i \in 1 .. Len(line) :
             i <= Len(Over(line, left)) /\ Over(line, left)[i] = line[i]
        /\ Len(Over(line, left)) = IF Len(line) <= Len(left) THEN Len(left) ELSE Len(line)
    BY <1>1, WrittenOver, Zenon
  <2> QED BY <1>1, <2>1, <2>2 DEF FileReads
<1>3. CASE Len(line) > Buffer
  <2> DEFINE whole == SubSeq(line, 1, Buffer)
             cut == line[Buffer + 1]
  <2>1. /\ whole \in Seq(Copies) /\ Len(whole) = Buffer
        /\ \A i \in 1 .. Buffer : whole[i] = line[i]
    BY <1>1, <1>3, SubSeqProperties
  <2>2. cut \in Sent /\ Buffer + 1 <= Len(line) /\ ~(Len(line) <= Buffer)
    BY <1>1, <1>3 DEF TraceInv
  <2>3. IF Len(left) <= Buffer
        THEN \/ file' = whole
             \/ \E b \in Byte : file' = Append(whole, Mixed(cut, cut, 11, b))
        ELSE \E c \in Cut(cut, left[Buffer + 1]) :
               file' = Append(whole, c) \o From(left, Buffer + 2)
    BY <2>2 DEF txt2hex
  <2> HIDE DEF whole, cut
  <2>4. ASSUME NEW c \in Copies
        PROVE  LET p == Append(whole, c)
               IN /\ p \in Seq(Copies) /\ Len(p) = Buffer + 1
                  /\ \A i \in 1 .. Buffer : p[i] = line[i]
    BY <1>1, <2>1, AppendProperties
  <2>5. CASE file' = whole
    BY <1>1, <2>1, <2>2, <2>5 DEF FileReads
  <2>6. CASE \E b \in Byte : file' = Append(whole, Mixed(cut, cut, 11, b))
    <3>1. PICK b \in Byte : file' = Append(whole, Mixed(cut, cut, 11, b))
      BY <2>6
    <3>2. Mixed(cut, cut, 11, b) \in Copies
      BY <2>2 DEF Copies
    <3> QED BY <1>1, <2>2, <2>4, <3>1, <3>2 DEF FileReads
  <2>7. CASE Len(left) > Buffer
    <3>1. PICK c \in Cut(cut, left[Buffer + 1]) :
            file' = Append(whole, c) \o From(left, Buffer + 2)
      BY SMTT(30), <1>1, <2>3, <2>7
    <3>2. left[Buffer + 1] \in Sent
      BY <1>1, <2>7 DEF TraceInv
    <3>3. c \in Copies
      BY <2>2, <3>2, CutsAreCopies
    <3> DEFINE p == Append(whole, c)
    <3>4. /\ p \in Seq(Copies) /\ Len(p) = Buffer + 1
          /\ \A i \in 1 .. Buffer : p[i] = line[i]
      BY <2>4, <3>3
    <3> HIDE DEF p
    <3>5. file' = Over(p, left)
      <4>1. file' = p \o From(left, Buffer + 2)
        BY <3>1, Zenon DEF p
      <4>2. Len(p) + 1 = Buffer + 2
        BY <1>1, <3>4
      <4> QED BY <4>1, <4>2, Zenon DEF Over
    <3>6. /\ Over(p, left) \in Seq(Copies)
          /\ \A i \in 1 .. Len(p) : i <= Len(Over(p, left)) /\ Over(p, left)[i] = p[i]
          /\ Len(Over(p, left)) = IF Len(p) <= Len(left) THEN Len(left) ELSE Len(p)
      BY <1>1, <3>4, WrittenOver, Zenon
    <3> QED BY <1>1, <2>2, <2>7, <3>4, <3>5, <3>6 DEF FileReads
  <2>8. CASE Len(left) <= Buffer
    BY <2>3, <2>5, <2>6, <2>8
  <2> QED BY <1>1, <2>7, <2>8
<1> QED BY <1>1, <1>2, <1>3

LEMMA TraceInvHolds == Spec => []TraceInv
<1>1. Init => TraceInv
  <2> SUFFICES ASSUME Init PROVE TraceInv
    OBVIOUS
  <2>1. PICK e \in Earlier : left = [i \in DOMAIN e |-> OnLine(e[i])]
    BY DEF Init
  <2>2. e \in Seq(Items) /\ trace \in Seq(Items)
    BY InputsAssumption DEF Init, Items
  <2>3. left \in Seq(Sent)
    <3>1. DOMAIN e = 1 .. Len(e) /\ Len(e) \in Nat /\ \A i \in 1 .. Len(e) : e[i] \in Items
      BY <2>2
    <3>2. \A i \in 1 .. Len(e) : OnLine(e[i]) \in Sent
      BY <3>1 DEF Sent
    <3> QED BY <2>1, <3>1, <3>2, IsASeq
  <2>4. left \in Seq(Copies)
    BY <2>3, SeqMonotonic DEF Copies
  <2> QED BY <2>2, <2>3, <2>4 DEF Init, TraceInv
<1>2. TraceInv /\ [Next]_vars => TraceInv'
  <2> SUFFICES ASSUME TraceInv, [Next]_vars PROVE TraceInv'
    OBVIOUS
  <2>1. CASE rdabt_write_memory
    <3> DEFINE m == OnLine(trace[Len(line) + 1])
    <3>1. trace[Len(line) + 1] \in Items /\ m \in Sent
      BY <2>1 DEF TraceInv, rdabt_write_memory, Sent
    <3>2. /\ line' = Append(line, m) /\ stage = "line"
          /\ UNCHANGED <<trace, stage, left, file, output>> /\ Len(line) < Len(trace)
      BY <2>1 DEF rdabt_write_memory
    <3> HIDE DEF m
    <3>3. /\ line' \in Seq(Sent) /\ Len(line') = Len(line) + 1
          /\ \A i \in 1 .. Len(line) : line'[i] = line[i]
          /\ line'[Len(line) + 1] = m
      BY <3>1, <3>2 DEF TraceInv
    <3>4. \A i \in 1 .. Len(line') : line'[i] = OnLine(trace'[i])
      BY <3>2, <3>3 DEF m, TraceInv
    <3> QED BY <3>2, <3>3, <3>4 DEF TraceInv, Readable
  <2>2. CASE txt2hex
    <3>1. /\ stage = "line" /\ stage' = "hex" /\ Len(line) = Len(trace)
          /\ UNCHANGED <<trace, line, left, output>> /\ output = << >>
      BY <2>2 DEF txt2hex, TraceInv
    <3>2. FileReads(file')
      BY <2>2, TextReads
    <3> QED BY <3>1, <3>2 DEF TraceInv, FileReads
  <2>3. CASE print_rda_cmd
    <3>1. stage = "hex" /\ UNCHANGED <<trace, line, left, file>>
      BY <2>3 DEF print_rda_cmd
    <3>2. CASE Readable
      <4> DEFINE m == Printed(file[Len(output) + 1])
      <4>1. output' = Append(output, m) /\ stage' = stage /\ Len(output) < Len(file)
        BY <2>3, <3>2 DEF print_rda_cmd, Readable
      <4>2. m \in {Printed(c) : c \in Copies}
        BY <4>1 DEF TraceInv
      <4> HIDE DEF m
      <4>3. /\ output' \in Seq({Printed(c) : c \in Copies})
            /\ Len(output') = Len(output) + 1
            /\ \A i \in 1 .. Len(output) : output'[i] = output[i]
            /\ output'[Len(output) + 1] = m
        BY <4>1, <4>2 DEF TraceInv
      <4>4. \A i \in 1 .. Len(output') : i <= Len(file') /\ output'[i] = Printed(file'[i])
        BY <3>1, <4>1, <4>3 DEF m, TraceInv
      <4> QED BY <3>1, <4>1, <4>3, <4>4 DEF TraceInv
    <3>3. CASE ~Readable
      BY <2>3, <3>1, <3>3 DEF print_rda_cmd, TraceInv, Readable
    <3> QED BY <3>2, <3>3
  <2>4. CASE UNCHANGED vars
    BY <2>4 DEF vars, TraceInv, Readable
  <2> QED BY <2>1, <2>2, <2>3, <2>4 DEF Next
<1> QED BY <1>1, <1>2, PTL DEF Spec

(***************************************************************************)
(* A trace of the line reads back as the registers that were written       *)
(* (rdabt_write_memory, txt2hex and print_rda_cmd), in order and without a *)
(* gap, for all registers, traces of any length and bytes of any width.    *)
(***************************************************************************)
THEOREM TraceReadsBackAlways == Spec => []TraceReadsBack
<1>1. TraceInv => TraceReadsBack
  <2>0. ASSUME TraceInv, Len(left) <= Len(trace)
        PROVE  Len(output) <= Len(trace)
    <3>1. CASE stage = "line"
      BY <2>0, <3>1 DEF TraceInv
    <3>2. CASE stage # "line"
      <4>1. Len(output) \in Nat /\ Len(file) \in Nat /\ Len(trace) \in Nat
              /\ Len(file) <= Len(trace)
        BY <2>0, <3>2 DEF TraceInv
      <4>2. Len(output) # 0 => Len(output) <= Len(file)
        BY <2>0, <4>1 DEF TraceInv
      <4> QED BY <4>1, <4>2
    <3> QED BY <3>1, <3>2
  <2> SUFFICES ASSUME TraceInv, NEW i \in DOMAIN trace, i <= Buffer
               PROVE  /\ i \in DOMAIN output => output[i] = Meant(trace[i])
                      /\ stage = "done" /\ (\A j \in 1 .. i : trace[j].kind # "unknown")
                           => i \in DOMAIN output
    BY <2>0 DEF TraceReadsBack
  <2>1. i \in 1 .. Len(trace) /\ trace[i] \in Items /\ DOMAIN output = 1 .. Len(output)
    BY DEF TraceInv
  <2>2. ASSUME i \in DOMAIN output PROVE output[i] = Meant(trace[i])
    <3>1. stage # "line"
      BY <2>1, <2>2 DEF TraceInv
    <3>2. output[i] = Printed(file[i]) /\ file[i] = OnLine(trace[i])
      BY <2>1, <2>2, <3>1 DEF TraceInv
    <3> QED BY <2>1, <3>2, PrintedIsMeant
  <2>3. ASSUME stage = "done", \A j \in 1 .. i : trace[j].kind # "unknown",
               i \notin DOMAIN output
        PROVE  FALSE
    <3> DEFINE j == Len(output) + 1
    <3>1. j \in 1 .. i /\ j \in 1 .. Len(trace)
      BY <2>1, <2>3 DEF TraceInv
    <3>2. j <= Len(file) /\ file[j] = OnLine(trace[j])
      BY <2>3, <3>1, BaseAssumption DEF TraceInv
    <3>3. file[j].kind = "unknown"
      BY <2>3, <3>1, <3>2 DEF TraceInv, Readable
    <3> QED BY <2>3, <3>1, <3>2, <3>3, KindsKept
  <2> QED BY <2>2, <2>3
<1> QED BY <1>1, TraceInvHolds, PTL
=============================================================================
