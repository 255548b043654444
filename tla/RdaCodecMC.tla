----------------------------- MODULE RdaCodecMC -----------------------------
(* The traces TLC reads: each register alone, every address with a few     *)
(* values and back, and all short traces of a few messages.                *)
EXTENDS RdaCodec

Set(a, d, t, e) == [kind |-> "register", addr |-> a, data |-> d, type |-> t, event |-> e]

Words == Base * Base * Base * Base
Some == {0, 1, Base - 1, Base, 2 * Base + 1, Words - 1}

Alone(addrs, datas) ==
  {<< Set(a, d, 0, e) >> : a \in addrs, d \in datas, e \in BOOLEAN}
    \cup {<< Set(a, d, 1, e) >> : a \in {x \in addrs : 4 * x < Words},
                                  d \in datas, e \in BOOLEAN}

Few == {Set(Words - 1, 1, 0, FALSE), Set(Base, Words - 1, 1, TRUE)} \cup Others

MCEarlier == {<< >>, << Set(Base, 0, 0, FALSE) >>,
               << [kind |-> "raw"], Set(1, 2, 1, TRUE), Set(2, 1, 0, FALSE), Set(3, 3, 0, FALSE) >>}

MCInputs == Alone(Word, Some) \cup Alone({0, 1, Base - 1, Base}, Word)
              \cup UNION {[1 .. n -> Few] : n \in 2 .. Buffer + 2}
=============================================================================
