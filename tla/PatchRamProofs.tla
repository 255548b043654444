--------------------------- MODULE PatchRamProofs ---------------------------
(***************************************************************************)
(* What holds of brcm_patchram_plus for every set of options, any number   *)
(* of records, any refusal by the chip and any number of retries.          *)
(***************************************************************************)
EXTENDS PatchRamProperties, SequenceTheorems, TLAPS

-----------------------------------------------------------------------------
(* The calls, and the shape of every program that is made of them.  A call *)
(* is told by its first component.                                         *)

W(c) == <<"write", c>>
R(c) == <<"read_event", c>>
T(s) == <<"tcsetattr", s>>
On   == <<"alarm", TRUE>>
Off  == <<"alarm", FALSE>>
F    == <<"flush">>
Two  == <<"read2">>

Ends == {<<"attach">>, <<"exit">>}

AllCalls == {W(c) : c \in Commands} \cup {R(c) : c \in Commands}
              \cup {T(s) : s \in Speeds} \cup {On, Off, F, Two} \cup Ends

\* What follows a call.
AheadAt(s, i, opts) ==
  /\ s[i][1] = "write" =>
       /\ i < Len(s)
       /\ s[i + 1] = R(s[i][2]) \/ (s[i][2] = "reset" /\ s[i + 1] = On)
       /\ s[i][2] = "download_minidriver" => "patchram" \in opts
  /\ s[i] = On => i < Len(s) /\ s[i + 1] = R("reset")
  /\ s[i][1] = "read_event" =>
       /\ s[i][2] = "reset" => i < Len(s) /\ s[i + 1] = Off
       /\ s[i][2] = "download_minidriver" =>
            "patchram" \in opts /\ ("no2bytes" \notin opts => i < Len(s) /\ s[i + 1] = Two)
       /\ s[i][2] = "update_baud_rate" => i < Len(s) /\ s[i + 1] = T(Fast)
  /\ s[i][1] = "flush" => i < Len(s) /\ s[i + 1] = T(Slow)
  /\ s[i][1] = "read2" => "no2bytes" \notin opts /\ "patchram" \in opts

Ahead(s, opts) == \A i \in 1 .. Len(s) : AheadAt(s, i, opts)

\* What has come before it.
BehindAt(s, i) ==
  /\ s[i][1] # "flush"
  /\ s[i][1] = "read_event" =>
       s[i - 1] = W(s[i][2]) \/ (s[i][2] = "reset" /\ s[i - 1] = On)
  /\ s[i] = On => s[i - 1] = W("reset")
  /\ s[i][1] = "read2" => s[i - 1] = R("download_minidriver")
  /\ s[i] = T(Fast) => s[i - 1] = R("update_baud_rate")
  /\ s[i] = T(Slow) => s[i - 1] \in {F, R("launch_ram")}

Behind(s) == \A i \in 2 .. Len(s) : BehindAt(s, i)

\* The launch of the firmware after which the host keeps its speed comes
\* before any change to the fast one.
Followed(s, i) == i < Len(s) /\ s[i + 1] = T(Slow)

Launches(s) ==
  \A i \in 1 .. Len(s) : s[i] = R("launch_ram") =>
    Followed(s, i) \/ \A j \in 1 .. i : s[j] # T(Fast)

\* The program ends in one of two calls.
Finite(s) == Len(s) > 0 /\ s[Len(s)] \in Ends

Begun(s, opts) == s \in Seq(AllCalls) /\ Ahead(s, opts) /\ Behind(s)

Shaped(s, opts) == Begun(s, opts) /\ Launches(s) /\ Finite(s)

-----------------------------------------------------------------------------
(* The inductive invariant.                                                *)

Items == Events \cup Confirmation

Types ==
  /\ pc \in {"parse", "run", "attached", "exited", "misframed"}
  /\ code \in 0 .. 5 /\ (code # 0 => pc = "exited")
  /\ options \subseteq asked /\ asked \subseteq Options
  /\ armed \in BOOLEAN /\ retries \in 0 .. MaxRetries
  /\ hostSpeed \in Speeds /\ chipSpeed \in Speeds /\ awake \in BOOLEAN
  /\ confirms \in {"none", "together", "apart"}
  /\ output \in Seq(Commands) /\ received \in Seq(Commands)
  /\ input \in Seq(Items) /\ replies \in Seq(Items)
  /\ sent \in Seq(Commands) /\ executed \in Seq(Commands)
  /\ answers \in Seq([got : Events, for : Commands])
  /\ todo \in Seq(AllCalls)

\* Until a first command is sent: the opening calls.
Opening(s) ==
  \/ s[1] = W("reset")
  \/ Len(s) > 1 /\ s[1] = T(Slow) /\ s[2] = W("reset")
  \/ Len(s) > 2 /\ s[1] = F /\ s[2] = T(Slow) /\ s[3] = W("reset")

Parsed ==
  /\ pc = "parse" => /\ code = 0 /\ ~armed /\ retries = 0 /\ Quiet /\ chipSpeed = Slow
                     /\ sent = << >> /\ executed = << >> /\ answers = << >>
                     /\ options = {}
  /\ pc = "run" => Shaped(todo, options) /\ (sent = << >> => Opening(todo))
  /\ pc = "exited" => (code = 0 <=> sent # << >>)
  /\ armed => sent # << >>

\* The confirmation that follows the answer to c.
Confirmed(c) == IF confirms # "none" /\ c = "download_minidriver"
                THEN <<[byte |-> 1], [byte |-> 2]>> ELSE << >>

\* The bytes of a confirmation that come together stay together.
B1 == [byte |-> 1]
B2 == [byte |-> 2]

Coupled(s) ==
  \A i \in 1 .. Len(s) : /\ s[i] = B1 => i < Len(s) /\ s[i + 1] = B2
                         /\ s[i] = B2 => i > 1 /\ s[i - 1] = B1

Together == confirms = "together" => Coupled(replies)

\* A command on its way to the chip, or its answer on the way back, or lost.
Pending(c) ==
  \/ output = <<c>> /\ received = << >> /\ replies = << >> /\ input = << >>
  \/ output = << >> /\ received = <<c>> /\ replies = << >> /\ input = << >>
  \/ Quiet /\ input = << >>
  \/ \E ok \in BOOLEAN :
       /\ output = << >> /\ received = << >>
       /\ \/ replies = <<Event(c, ok)>> \o Confirmed(c) /\ input = << >>
          \/ replies = Confirmed(c) /\ input = <<Event(c, ok)>>
          \/ replies = << >> /\ input = <<Event(c, ok)>> \o Confirmed(c)

Undisturbed == FitsChip /\ retries = 0

Kind == Head(todo)[1]
Waits == Head(todo) = On \/ Kind \in {"read_event", "read2"}

\* The chip hears and is heard only at the host's speed.
Heard == received # << >> \/ replies # << >> => hostSpeed = chipSpeed

\* What is under way, by the next call.
Pipe ==
  pc = "run" =>
    /\ Head(todo) = On => Pending("reset")
    /\ Kind = "read_event" => Pending(Arg)
    /\ Kind = "read2" =>
         /\ output = << >> /\ received = << >> /\ confirms = "together"
         /\ \/ replies = Confirmed("download_minidriver") /\ input = << >>
            \/ replies = << >> /\ input = Confirmed("download_minidriver")
    /\ ~Waits => Quiet /\ (Kind = "flush" \/ input = << >>)
    /\ Heard

Matching == \A i \in DOMAIN answers : answers[i].got.event = answers[i].for

\* The speeds differ only between the answer that changes the chip's and the
\* host's change.
Target(c) == IF c = "update_baud_rate" THEN Fast ELSE Slow

Switched(c) == Head(todo) = R(c) /\ input = <<Event(c, TRUE)>>

Keeps(s) == \E i \in 1 .. Len(s) : s[i] = R("launch_ram") /\ ~Followed(s, i)

Switching == {"update_baud_rate", "launch_ram"}

Rates ==
  pc = "run" =>
    /\ Kind = "flush" => chipSpeed = Slow
    /\ Kind = "tcsetattr" => chipSpeed = Arg
    /\ Kind # "flush" /\ Kind # "tcsetattr" =>
         /\ \A c \in Switching : Switched(c) => chipSpeed = Target(c)
         /\ (\A c \in Switching : ~Switched(c)) => hostSpeed = chipSpeed
         /\ Keeps(todo) => hostSpeed = Slow

IInv ==
  /\ Types /\ Parsed /\ Together
  /\ Undisturbed => /\ Pipe /\ Matching
                    /\ (pc = "attached" => Quiet /\ input = << >>)
                    /\ (Accepted => Rates)
-----------------------------------------------------------------------------
(* Programs are made of parts, none of which leaves an answer unread.      *)

LEMMA Heads ==
  /\ F[1] = "flush" /\ Two[1] = "read2" /\ On[1] = "alarm" /\ Off[1] = "alarm"
  /\ \A x : /\ W(x)[1] = "write" /\ W(x)[2] = x
           /\ R(x)[1] = "read_event" /\ R(x)[2] = x
           /\ T(x)[1] = "tcsetattr" /\ T(x)[2] = x
  /\ \A e \in Ends : e[1] \in {"attach", "exit"}
<1>1. ASSUME NEW x
      PROVE  /\ W(x)[1] = "write" /\ W(x)[2] = x
             /\ R(x)[1] = "read_event" /\ R(x)[2] = x
             /\ T(x)[1] = "tcsetattr" /\ T(x)[2] = x
  BY DEF W, R, T
<1>2. F[1] = "flush" /\ Two[1] = "read2" /\ On[1] = "alarm" /\ Off[1] = "alarm"
  BY DEF F, Two, On, Off
<1>3. \A e \in Ends : e[1] \in {"attach", "exit"}
  BY DEF Ends
<1> QED BY <1>1, <1>2, <1>3

LEMMA OnOff == On # Off
BY DEF On, Off

\* A call of a kind is made by its constructor.
LEMMA Kinds ==
  ASSUME NEW e \in AllCalls
  PROVE  /\ e[1] = "write" => e = W(e[2]) /\ e[2] \in Commands
         /\ e[1] = "read_event" => e = R(e[2]) /\ e[2] \in Commands
         /\ e[1] = "tcsetattr" => e = T(e[2]) /\ e[2] \in Speeds
         /\ e[1] = "alarm" => e \in {On, Off}
         /\ e[1] = "flush" => e = F
         /\ e[1] = "read2" => e = Two
         /\ e[1] \in {"attach", "exit"} => e \in Ends
<1>1. CASE \E c \in Commands : e = W(c) \/ e = R(c)
  BY <1>1, Heads
<1>2. CASE \E s \in Speeds : e = T(s)
  BY <1>2, Heads
<1>3. CASE e \in {On, Off, F, Two} \cup Ends
  BY <1>3, Heads
<1> QED BY <1>1, <1>2, <1>3 DEF AllCalls

LEMMA Members ==
  /\ \A c \in Commands : W(c) \in AllCalls /\ R(c) \in AllCalls
  /\ \A s \in Speeds : T(s) \in AllCalls
  /\ On \in AllCalls /\ Off \in AllCalls /\ F \in AllCalls /\ Two \in AllCalls
  /\ \A e \in Ends : e \in AllCalls
BY DEF AllCalls

\* A part of the program can come after another.
Starts(s) == s # << >> => s[1][1] \in {"write", "attach", "exit"}

Part(s, opts) == Begun(s, opts) /\ Starts(s)

LEMMA Joined ==
  ASSUME NEW s \in Seq(AllCalls), NEW t \in Seq(AllCalls)
  PROVE  /\ s \o t \in Seq(AllCalls) /\ Len(s \o t) = Len(s) + Len(t)
         /\ Len(s) \in Nat /\ Len(t) \in Nat
         /\ \A i \in 1 .. Len(s) : (s \o t)[i] = s[i]
         /\ \A i \in 1 .. Len(t) : (s \o t)[Len(s) + i] = t[i]
<1>1. /\ s \o t \in Seq(AllCalls) /\ Len(s \o t) = Len(s) + Len(t)
      /\ Len(s) \in Nat /\ Len(t) \in Nat
      /\ \A i \in 1 .. Len(s) + Len(t) : (s \o t)[i] = IF i <= Len(s) THEN s[i] ELSE t[i - Len(s)]
  BY ConcatProperties, LenProperties, Zenon
<1> DEFINE st == s \o t
<1> HIDE DEF st
<1>2. \A i \in 1 .. Len(s) + Len(t) : st[i] = IF i <= Len(s) THEN s[i] ELSE t[i - Len(s)]
  BY <1>1 DEF st
<1>3. /\ \A i \in 1 .. Len(s) : st[i] = s[i]
      /\ \A i \in 1 .. Len(t) : st[Len(s) + i] = t[i]
  BY <1>1, <1>2
<1> QED BY <1>1, <1>3 DEF st

\* A rule about a call is one about its neighbours.
LEMMA AheadMoves ==
  ASSUME NEW s, NEW i, NEW t, NEW k, NEW opts, AheadAt(t, k, opts), s[i] = t[k],
         k < Len(t) => i < Len(s) /\ s[i + 1] = t[k + 1]
  PROVE  AheadAt(s, i, opts)
BY DEF AheadAt

LEMMA BehindMoves ==
  ASSUME NEW s, NEW i, NEW t, NEW k, BehindAt(t, k), s[i] = t[k], s[i - 1] = t[k - 1]
  PROVE  BehindAt(s, i)
BY DEF BehindAt

\* The rules for each kind of call.
LEMMA WriteRule ==
  ASSUME NEW s, NEW i, NEW opts, NEW c, s[i] = W(c)
  PROVE  /\ /\ i < Len(s)
            /\ s[i + 1] = R(c) \/ (c = "reset" /\ s[i + 1] = On)
            /\ c = "download_minidriver" => "patchram" \in opts
            => AheadAt(s, i, opts)
         /\ BehindAt(s, i)
<1>1. s[i][1] = "write" /\ s[i][2] = c /\ On[1] = "alarm" /\ T(Fast)[1] = "tcsetattr" /\ T(Slow)[1] = "tcsetattr"
  BY Heads
<1> QED BY <1>1 DEF AheadAt, BehindAt

LEMMA ReadRule ==
  ASSUME NEW s, NEW i, NEW opts, NEW c, s[i] = R(c)
  PROVE  /\ /\ c = "reset" => i < Len(s) /\ s[i + 1] = Off
            /\ c = "download_minidriver" =>
                 "patchram" \in opts /\ ("no2bytes" \notin opts => i < Len(s) /\ s[i + 1] = Two)
            /\ c = "update_baud_rate" => i < Len(s) /\ s[i + 1] = T(Fast)
            => AheadAt(s, i, opts)
         /\ s[i - 1] = W(c) \/ (c = "reset" /\ s[i - 1] = On) => BehindAt(s, i)
<1>1. s[i][1] = "read_event" /\ s[i][2] = c /\ On[1] = "alarm" /\ T(Fast)[1] = "tcsetattr" /\ T(Slow)[1] = "tcsetattr"
  BY Heads
<1> QED BY <1>1 DEF AheadAt, BehindAt

LEMMA SpeedRule ==
  ASSUME NEW s, NEW i, NEW opts, NEW p \in Speeds, s[i] = T(p)
  PROVE  /\ AheadAt(s, i, opts)
         /\ s[i - 1] = (IF p = Fast THEN R("update_baud_rate") ELSE R("launch_ram"))
              \/ (p = Slow /\ s[i - 1] = F) => BehindAt(s, i)
<1>1. s[i][1] = "tcsetattr" /\ On[1] = "alarm" /\ (p = Slow \/ p = Fast)
      /\ T(Fast)[2] = Fast /\ T(Slow)[2] = Slow /\ s[i][2] = p /\ Slow # Fast
  BY Heads DEF Speeds, Slow, Fast
<1> QED BY <1>1 DEF AheadAt, BehindAt

LEMMA OtherRules ==
  ASSUME NEW s, NEW i, NEW opts
  PROVE  /\ s[i] = On /\ i < Len(s) /\ s[i + 1] = R("reset") => AheadAt(s, i, opts)
         /\ s[i] = On /\ s[i - 1] = W("reset") => BehindAt(s, i)
         /\ s[i] = Off => AheadAt(s, i, opts) /\ BehindAt(s, i)
         /\ s[i] = F /\ i < Len(s) /\ s[i + 1] = T(Slow) => AheadAt(s, i, opts)
         /\ s[i] = Two /\ "no2bytes" \notin opts /\ "patchram" \in opts => AheadAt(s, i, opts)
         /\ s[i] = Two /\ s[i - 1] = R("download_minidriver") => BehindAt(s, i)
         /\ s[i] \in Ends => AheadAt(s, i, opts) /\ BehindAt(s, i)
<1>1. On[1] = "alarm" /\ Off[1] = "alarm" /\ F[1] = "flush" /\ Two[1] = "read2"
      /\ T(Fast)[1] = "tcsetattr" /\ T(Slow)[1] = "tcsetattr" /\ On # Off
      /\ (s[i] \in Ends => s[i][1] = "attach" \/ s[i][1] = "exit")
  BY Heads, OnOff
<1>2. CASE s[i] = On
  BY <1>1, <1>2 DEF AheadAt, BehindAt
<1>3. CASE s[i] = Off
  BY <1>1, <1>3 DEF AheadAt, BehindAt
<1>4. CASE s[i] = F
  BY <1>1, <1>4 DEF AheadAt
<1>5. CASE s[i] = Two
  BY <1>1, <1>5 DEF AheadAt, BehindAt
<1>6. CASE s[i] \in Ends
  BY <1>1, <1>6 DEF AheadAt, BehindAt
<1> QED BY <1>1, <1>2, <1>3, <1>4, <1>5, <1>6

LEMMA PartsJoin ==
  ASSUME NEW opts, NEW s, Begun(s, opts), NEW t, Part(t, opts)
  PROVE  Begun(s \o t, opts) /\ (Starts(s) => Part(s \o t, opts))
<1> DEFINE st == s \o t
           m == Len(s)
           n == Len(t)
<1>1. /\ t \in Seq(AllCalls) /\ Ahead(t, opts) /\ Behind(t) /\ Starts(t)
      /\ s \in Seq(AllCalls) /\ Ahead(s, opts) /\ Behind(s)
  BY DEF Part, Begun
<1>2. /\ st \in Seq(AllCalls) /\ Len(st) = m + n /\ m \in Nat /\ n \in Nat
      /\ \A i \in 1 .. m : st[i] = s[i]
      /\ \A i \in 1 .. n : st[m + i] = t[i]
  BY <1>1, Joined, Zenon
<1> HIDE DEF st, m, n
<1>3. Ahead(st, opts)
  <2> SUFFICES ASSUME NEW i \in 1 .. Len(st) PROVE AheadAt(st, i, opts)
    BY DEF Ahead
  <2>1. CASE i \in 1 .. m
    <3>1. st[i] = s[i] /\ (i < m => i < Len(st) /\ st[i + 1] = s[i + 1])
      BY <1>2, <2>1
    <3>2. AheadAt(s, i, opts)
      BY <1>1, <2>1 DEF Ahead, m
    <3> QED BY <3>1, <3>2, AheadMoves DEF m
  <2>2. CASE i \in (m + 1) .. (m + n)
    <3> DEFINE k == i - m
    <3>1. k \in 1 .. n /\ st[i] = t[k] /\ (k < n => i < Len(st) /\ st[i + 1] = t[k + 1])
      <4>1. k \in 1 .. n /\ m + k = i /\ (k < n => k + 1 \in 1 .. n /\ m + (k + 1) = i + 1 /\ i < m + n)
        BY <1>2, <2>2
      <4> HIDE DEF k
      <4> QED BY <1>2, <4>1
    <3> HIDE DEF k
    <3>2. AheadAt(t, k, opts)
      BY <1>1, <3>1 DEF Ahead, n
    <3> QED BY <3>1, <3>2, AheadMoves DEF n
  <2> QED BY <1>2, <2>1, <2>2
<1>4. Behind(st)
  <2> SUFFICES ASSUME NEW i \in 2 .. Len(st) PROVE BehindAt(st, i)
    BY DEF Behind
  <2>1. CASE i \in 2 .. m
    <3>1. st[i] = s[i] /\ st[i - 1] = s[i - 1]
      BY <1>2, <2>1
    <3>2. BehindAt(s, i)
      BY <1>1, <2>1 DEF Behind, m
    <3> QED BY <3>1, <3>2, BehindMoves
  <2>2. CASE i = m + 1
    <3>1. 1 \in 1 .. n /\ st[i] = t[1] /\ t # << >>
      BY <1>2, <2>2 DEF n
    <3>2. st[i][1] \in {"write", "attach", "exit"}
      BY <1>1, <3>1 DEF Starts
    <3>3. On[1] = "alarm" /\ T(Fast)[1] = "tcsetattr" /\ T(Slow)[1] = "tcsetattr"
      BY Heads
    <3> QED BY <3>2, <3>3 DEF BehindAt
  <2>3. CASE i \in (m + 2) .. (m + n)
    <3> DEFINE k == i - m
    <3>1. k \in 2 .. n /\ st[i] = t[k] /\ st[i - 1] = t[k - 1]
      <4>1. k \in 2 .. n /\ k - 1 \in 1 .. n /\ m + k = i /\ m + (k - 1) = i - 1
        BY <1>2, <2>3
      <4> HIDE DEF k
      <4> QED BY <1>2, <4>1
    <3> HIDE DEF k
    <3>2. BehindAt(t, k)
      BY <1>1, <3>1 DEF Behind, n
    <3> QED BY <3>1, <3>2, BehindMoves
  <2> QED BY <1>2, <2>1, <2>2, <2>3
<1>5. ASSUME Starts(s) PROVE Starts(st)
  <2>1. CASE m = 0
    <3>1. st # << >> => st[1] = t[1] /\ t # << >>
      BY <1>2, <2>1 DEF n
    <3> QED BY <1>1, <3>1 DEF Starts
  <2>2. CASE m > 0
    <3>1. st[1] = s[1] /\ s # << >>
      BY <1>2, <2>2 DEF m
    <3> QED BY <1>5, <3>1 DEF Starts
  <2> QED BY <1>2, <2>1, <2>2
<1> QED BY <1>2, <1>3, <1>4, <1>5 DEF Part, Begun, st

\* What is said of the launch of the firmware, and of the changes of speed.
NoLaunch(s)  == \A i \in 1 .. Len(s) : s[i] # R("launch_ram")
NoFast(s)    == \A i \in 1 .. Len(s) : s[i] # T(Fast)
Following(s) == \A i \in 1 .. Len(s) : s[i] = R("launch_ram") => Followed(s, i)

LEMMA LaunchesJoin ==
  ASSUME NEW s \in Seq(AllCalls), NEW t \in Seq(AllCalls)
  PROVE  /\ NoLaunch(s) /\ NoLaunch(t) => NoLaunch(s \o t)
         /\ NoFast(s) /\ NoFast(t) => NoFast(s \o t)
         /\ Following(s) /\ Following(t) => Following(s \o t)
         /\ Launches(s) /\ NoLaunch(t) => Launches(s \o t)
<1> DEFINE st == s \o t
           m == Len(s)
           n == Len(t)
<1>1. /\ Len(st) = m + n /\ m \in Nat /\ n \in Nat
      /\ \A i \in 1 .. m : st[i] = s[i]
      /\ \A i \in 1 .. n : st[m + i] = t[i]
  BY Joined, Zenon
<1> HIDE DEF st, m, n
<1>2. ASSUME NEW i \in 1 .. (m + n)
      PROVE  \/ i \in 1 .. m /\ st[i] = s[i] /\ (i < m => st[i + 1] = s[i + 1])
             \/ /\ i - m \in 1 .. n /\ st[i] = t[i - m]
                /\ (i - m < n => st[i + 1] = t[(i - m) + 1])
  <2>1. CASE i <= m
    BY <1>1, <2>1
  <2>2. CASE i > m
    <3>1. /\ i - m \in 1 .. n /\ m + (i - m) = i
          /\ i - m < n => (i - m) + 1 \in 1 .. n /\ m + ((i - m) + 1) = i + 1
      BY <1>1, <2>2
    <3>2. st[m + (i - m)] = t[i - m] /\ (i - m < n => st[m + ((i - m) + 1)] = t[(i - m) + 1])
      BY <1>1, <3>1
    <3> QED BY <3>1, <3>2
  <2> QED BY <1>1, <2>1, <2>2
<1>3. NoLaunch(s) /\ NoLaunch(t) => NoLaunch(st)
  BY <1>1, <1>2 DEF NoLaunch, m, n
<1>4. NoFast(s) /\ NoFast(t) => NoFast(st)
  BY <1>1, <1>2 DEF NoFast, m, n
<1>5. Following(s) /\ Following(t) => Following(st)
  <2> SUFFICES ASSUME Following(s), Following(t), NEW i \in 1 .. (m + n), st[i] = R("launch_ram")
               PROVE  i < m + n /\ st[i + 1] = T(Slow)
    BY <1>1 DEF Following, Followed
  <2>1. CASE i \in 1 .. m /\ st[i] = s[i] /\ (i < m => st[i + 1] = s[i + 1])
    <3>1. Followed(s, i)
      BY <2>1 DEF Following, m
    <3> QED BY <1>1, <2>1, <3>1 DEF Followed, m
  <2>2. CASE i - m \in 1 .. n /\ st[i] = t[i - m] /\ (i - m < n => st[i + 1] = t[(i - m) + 1])
    <3>1. Followed(t, i - m)
      BY <2>2 DEF Following, n
    <3> QED BY <1>1, <2>2, <3>1 DEF Followed, n
  <2> QED BY <1>2, <2>1, <2>2
<1>6. Launches(s) /\ NoLaunch(t) => Launches(st)
  <2> SUFFICES ASSUME Launches(s), NoLaunch(t), NEW i \in 1 .. Len(st), st[i] = R("launch_ram")
               PROVE  Followed(st, i) \/ \A j \in 1 .. i : st[j] # T(Fast)
    BY DEF Launches
  <2>1. i \in 1 .. m /\ st[i] = s[i] /\ (i < m => st[i + 1] = s[i + 1])
    BY <1>1, <1>2 DEF NoLaunch, n
  <2>2. CASE Followed(s, i)
    BY <1>1, <2>1, <2>2 DEF Followed, m
  <2>3. CASE \A j \in 1 .. i : s[j] # T(Fast)
    BY <1>1, <2>1, <2>3
  <2> QED BY <2>1, <2>2, <2>3 DEF Launches, m
<1> QED BY <1>3, <1>4, <1>5, <1>6 DEF st
-----------------------------------------------------------------------------
(* The parts.                                                              *)

Plain == Commands \ {"reset", "download_minidriver", "update_baud_rate", "launch_ram"}

\* A sequence of two, three or four calls.
LEMMA Tuples ==
  ASSUME NEW a \in AllCalls, NEW b \in AllCalls, NEW c \in AllCalls, NEW d \in AllCalls
  PROVE  /\ <<a>> \in Seq(AllCalls) /\ Len(<<a>>) = 1 /\ <<a>>[1] = a
         /\ <<a, b>> \in Seq(AllCalls) /\ Len(<<a, b>>) = 2
         /\ <<a, b>>[1] = a /\ <<a, b>>[2] = b
         /\ <<a, b, c>> \in Seq(AllCalls) /\ Len(<<a, b, c>>) = 3
         /\ <<a, b, c>>[1] = a /\ <<a, b, c>>[2] = b /\ <<a, b, c>>[3] = c
         /\ <<a, b, c, d>> \in Seq(AllCalls) /\ Len(<<a, b, c, d>>) = 4
         /\ <<a, b, c, d>>[1] = a /\ <<a, b, c, d>>[2] = b
         /\ <<a, b, c, d>>[3] = c /\ <<a, b, c, d>>[4] = d
OBVIOUS

LEMMA Appended ==
  ASSUME NEW a \in AllCalls, NEW b \in AllCalls, NEW c \in AllCalls
  PROVE  <<a, b>> \o <<c>> = <<a, b, c>> /\ <<a, b>> \o << >> = <<a, b>>
<1> DEFINE s == <<a, b>>
           t == <<c>>
           u == <<a, b, c>>
<1>1. /\ s \in Seq(AllCalls) /\ Len(s) = 2 /\ s[1] = a /\ s[2] = b
      /\ t \in Seq(AllCalls) /\ Len(t) = 1 /\ t[1] = c
      /\ u \in Seq(AllCalls) /\ Len(u) = 3 /\ u[1] = a /\ u[2] = b /\ u[3] = c
  BY Tuples
<1> HIDE DEF s, t, u
<1>2. s \o t \in Seq(AllCalls) /\ Len(s \o t) = 3
      /\ (s \o t)[1] = a /\ (s \o t)[2] = b /\ (s \o t)[3] = c
  <2>1. /\ s \o t \in Seq(AllCalls) /\ Len(s \o t) = Len(s) + Len(t)
        /\ \A i \in 1 .. Len(s) : (s \o t)[i] = s[i]
        /\ \A i \in 1 .. Len(t) : (s \o t)[Len(s) + i] = t[i]
    BY <1>1, Joined, Zenon
  <2> DEFINE st == s \o t
  <2> HIDE DEF st
  <2>2. /\ st \in Seq(AllCalls) /\ Len(st) = Len(s) + Len(t)
        /\ \A i \in 1 .. Len(s) : st[i] = s[i]
        /\ \A i \in 1 .. Len(t) : st[Len(s) + i] = t[i]
    BY <2>1 DEF st
  <2>3. st \in Seq(AllCalls) /\ Len(st) = 3 /\ st[1] = a /\ st[2] = b /\ st[3] = c
    BY <1>1, <2>2
  <2> QED BY <2>3 DEF st
<1>3. s \o t = u
  <2> DEFINE st == s \o t
  <2> HIDE DEF st
  <2>1. st \in Seq(AllCalls) /\ Len(st) = 3 /\ st[1] = a /\ st[2] = b /\ st[3] = c
    BY <1>2 DEF st
  <2>2. Len(st) = Len(u) /\ \A i \in 1 .. Len(st) : st[i] = u[i]
    BY <1>1, <2>1
  <2>3. st = u
    BY <1>1, <2>1, <2>2, SeqEqual, Zenon
  <2> QED BY <2>3 DEF st
<1>4. s \o << >> = s
  BY <1>1, ConcatEmptySeq, Zenon
<1> QED BY <1>3, <1>4 DEF s, t, u

LEMMA Paired ==
  ASSUME NEW a \in AllCalls, NEW b \in AllCalls
  PROVE  <<a>> \o <<b>> = <<a, b>>
<1> DEFINE s == <<a>>
           t == <<b>>
           u == <<a, b>>
           st == s \o t
<1>1. /\ s \in Seq(AllCalls) /\ Len(s) = 1 /\ s[1] = a
      /\ t \in Seq(AllCalls) /\ Len(t) = 1 /\ t[1] = b
      /\ u \in Seq(AllCalls) /\ Len(u) = 2 /\ u[1] = a /\ u[2] = b
  BY Tuples
<1> HIDE DEF s, t, u
<1>2. /\ st \in Seq(AllCalls) /\ Len(st) = Len(s) + Len(t)
      /\ \A i \in 1 .. Len(s) : st[i] = s[i]
      /\ \A i \in 1 .. Len(t) : st[Len(s) + i] = t[i]
  BY <1>1, Joined, Zenon
<1> HIDE DEF st
<1>3. st \in Seq(AllCalls) /\ Len(st) = Len(u) /\ \A i \in 1 .. Len(st) : st[i] = u[i]
  BY <1>1, <1>2
<1>4. st = u
  BY <1>1, <1>3, SeqEqual, Zenon
<1> QED BY <1>4 DEF s, t, u, st

LEMMA Regrouped ==
  ASSUME NEW s \in Seq(AllCalls), NEW t \in Seq(AllCalls), NEW u \in Seq(AllCalls)
  PROVE  (s \o t) \o u = s \o (t \o u)
BY ConcatAssociative

LEMMA EmptyPart ==
  ASSUME NEW opts
  PROVE  Part(<< >>, opts) /\ NoLaunch(<< >>) /\ NoFast(<< >>) /\ Following(<< >>)
BY DEF Part, Begun, Ahead, Behind, Starts, NoLaunch, NoFast, Following

LEMMA AskPart ==
  ASSUME NEW opts, NEW c \in Plain
  PROVE  Part(Ask(c), opts) /\ NoLaunch(Ask(c)) /\ NoFast(Ask(c))
<1> DEFINE s == Ask(c)
<1>1. c \in Commands /\ c \notin {"reset", "download_minidriver", "update_baud_rate", "launch_ram"}
  BY DEF Plain
<1>2. s = <<W(c), R(c)>>
  BY DEF Ask, W, R
<1>3. s \in Seq(AllCalls) /\ Len(s) = 2 /\ s[1] = W(c) /\ s[2] = R(c)
  BY <1>1, <1>2, Members, Tuples
<1> HIDE DEF s
<1>4. AheadAt(s, 1, opts)
  BY <1>1, <1>3, WriteRule
<1>5. AheadAt(s, 2, opts) /\ BehindAt(s, 2)
  BY <1>1, <1>3, ReadRule
<1>6. Starts(s)
  BY <1>3, Heads DEF Starts
<1>7. Part(s, opts)
  BY <1>3, <1>4, <1>5, <1>6 DEF Part, Begun, Ahead, Behind
<1>8. NoLaunch(s) /\ NoFast(s)
  BY <1>1, <1>3, Heads DEF NoLaunch, NoFast
<1> QED BY <1>7, <1>8 DEF s

LEMMA ResetPart ==
  ASSUME NEW opts
  PROVE  /\ Part(proc_reset, opts) /\ NoLaunch(proc_reset) /\ NoFast(proc_reset)
         /\ Len(proc_reset) = 4 /\ proc_reset[1] = W("reset")
<1> DEFINE s == proc_reset
<1>1. s = <<W("reset"), On, R("reset"), Off>> /\ "reset" \in Commands
  BY DEF proc_reset, W, R, On, Off, Commands
<1>2. /\ s \in Seq(AllCalls) /\ Len(s) = 4
      /\ s[1] = W("reset") /\ s[2] = On /\ s[3] = R("reset") /\ s[4] = Off
  BY <1>1, Members, Tuples
<1> HIDE DEF s
<1>3. AheadAt(s, 1, opts)
  BY <1>2, WriteRule, SMTT(30)
<1>4. AheadAt(s, 2, opts) /\ BehindAt(s, 2)
  BY <1>2, OtherRules
<1>5. AheadAt(s, 3, opts) /\ BehindAt(s, 3)
  BY <1>2, ReadRule
<1>6. AheadAt(s, 4, opts) /\ BehindAt(s, 4)
  BY <1>2, OtherRules
<1>7. Starts(s)
  BY <1>2, Heads DEF Starts
<1>8. Part(s, opts)
  BY <1>2, <1>3, <1>4, <1>5, <1>6, <1>7 DEF Part, Begun, Ahead, Behind
<1>9. NoLaunch(s) /\ NoFast(s)
  BY <1>2, Heads DEF NoLaunch, NoFast
<1> QED BY <1>2, <1>8, <1>9 DEF s

LEMMA BaudratePart ==
  ASSUME NEW opts
  PROVE  Part(proc_baudrate, opts) /\ NoLaunch(proc_baudrate)
<1> DEFINE s == proc_baudrate
<1>1. /\ s = <<W("update_baud_rate"), R("update_baud_rate"), T(Fast)>>
      /\ "update_baud_rate" \in Commands /\ Fast \in Speeds
  <2>1. Ask("update_baud_rate") = <<W("update_baud_rate"), R("update_baud_rate")>>
        /\ Speed(Fast) = <<T(Fast)>>
    BY DEF Ask, Speed, W, R, T
  <2>2. "update_baud_rate" \in Commands /\ Fast \in Speeds
    BY DEF Commands, Speeds
  <2>3. W("update_baud_rate") \in AllCalls /\ R("update_baud_rate") \in AllCalls /\ T(Fast) \in AllCalls
    BY <2>2, Members
  <2> QED BY <2>1, <2>2, <2>3, Appended, Zenon DEF proc_baudrate
<1>2. /\ s \in Seq(AllCalls) /\ Len(s) = 3 /\ s[1] = W("update_baud_rate")
      /\ s[2] = R("update_baud_rate") /\ s[3] = T(Fast)
  BY <1>1, Members, Tuples
<1> HIDE DEF s
<1>3. AheadAt(s, 1, opts)
  BY <1>2, WriteRule
<1>4. AheadAt(s, 2, opts) /\ BehindAt(s, 2)
  BY <1>2, ReadRule
<1>5. AheadAt(s, 3, opts) /\ BehindAt(s, 3)
  BY <1>1, <1>2, SpeedRule
<1>6. Starts(s)
  BY <1>2, Heads DEF Starts
<1>7. Part(s, opts)
  BY <1>2, <1>3, <1>4, <1>5, <1>6 DEF Part, Begun, Ahead, Behind
<1>8. NoLaunch(s)
  BY <1>2, Heads DEF NoLaunch
<1> QED BY <1>7, <1>8 DEF s

\* The records of the patch.
LEMMA DownloadPart ==
  ASSUME NEW opts
  PROVE  /\ Part(Download, opts) /\ NoLaunch(Download) /\ NoFast(Download)
         /\ Len(Download) = 2 * Records
         /\ \A i \in 1 .. 2 * Records :
              Download[i] = IF i % 2 = 1 THEN W("write_ram") ELSE R("write_ram")
<1> DEFINE s == Download
           n == 2 * Records
<1>1. n \in Nat
  BY PatchRamAssumption
<1>2. Ask("write_ram")[1] = W("write_ram") /\ Ask("write_ram")[2] = R("write_ram")
  BY DEF Ask, W, R
<1>3. \A i \in 1 .. n : (i % 2 = 1 /\ 2 - (i % 2) = 1) \/ (i % 2 = 0 /\ 2 - (i % 2) = 2)
  BY <1>1
<1>4. \A i \in 1 .. n : s[i] = IF i % 2 = 1 THEN W("write_ram") ELSE R("write_ram")
  BY <1>2, <1>3 DEF Download
<1>5. W("write_ram") \in AllCalls /\ R("write_ram") \in AllCalls /\ "write_ram" \in Commands
  BY Members DEF Commands
<1>6. s \in [1 .. n -> AllCalls]
  BY <1>4, <1>5 DEF Download
<1>7. s \in Seq(AllCalls) /\ Len(s) = n
  BY <1>1, <1>6, IsASeq, LenProperties
<1> HIDE DEF s, n
<1>8. ASSUME NEW i \in 1 .. n, s[i] = W("write_ram") PROVE i < n /\ s[i + 1] = R("write_ram")
  <2>1. R("write_ram") # W("write_ram")
    BY Heads
  <2>2. i % 2 = 1
    BY <1>4, <1>8, <2>1
  <2>3. i < n /\ i + 1 \in 1 .. n /\ (i + 1) % 2 = 0
    BY <1>1, <2>2, PatchRamAssumption DEF n
  <2> QED BY <1>4, <2>3
<1>9. ASSUME NEW i \in 2 .. n, s[i] = R("write_ram") PROVE s[i - 1] = W("write_ram")
  <2>1. R("write_ram") # W("write_ram")
    BY Heads
  <2>2. i \in 1 .. n /\ i % 2 # 1
    BY <1>4, <1>9, <2>1, <1>1
  <2>3. i - 1 \in 1 .. n /\ (i - 1) % 2 = 1
    BY <1>1, <2>2, <1>9
  <2> QED BY <1>4, <2>3
<1>10. \A i \in 1 .. n : s[i] = W("write_ram") \/ s[i] = R("write_ram")
  BY <1>4
<1>11. ASSUME NEW i \in 1 .. n PROVE AheadAt(s, i, opts)
  <2>1. CASE s[i] = W("write_ram")
    BY <1>7, <1>8, <2>1, WriteRule
  <2>2. CASE s[i] = R("write_ram")
    BY <2>2, ReadRule
  <2> QED BY <1>10, <2>1, <2>2
<1>12. ASSUME NEW i \in 2 .. n PROVE BehindAt(s, i)
  <2>1. CASE s[i] = W("write_ram")
    BY <2>1, WriteRule
  <2>2. CASE s[i] = R("write_ram")
    BY <1>9, <2>2, ReadRule
  <2> QED BY <1>1, <1>10, <2>1, <2>2
<1>13. Starts(s)
  <2>1. ASSUME s # << >> PROVE s[1][1] = "write"
    <3>1. n > 0 /\ 1 \in 1 .. n /\ 1 % 2 = 1
      BY <1>1, <1>7, <2>1
    <3> QED BY <1>4, <3>1, Heads
  <2> QED BY <2>1 DEF Starts
<1>14. Part(s, opts)
  BY <1>7, <1>11, <1>12, <1>13 DEF Part, Begun, Ahead, Behind
<1>15. NoLaunch(s) /\ NoFast(s)
  BY <1>7, <1>10, Heads DEF NoLaunch, NoFast
<1> QED BY <1>4, <1>7, <1>14, <1>15 DEF s, n

\* The minidriver and its confirmation.
Minidriver(opts) ==
  Ask("download_minidriver") \o (IF "no2bytes" \in opts THEN << >> ELSE << <<"read2">> >>)

LEMMA MinidriverPart ==
  ASSUME NEW opts, "patchram" \in opts
  PROVE  /\ Part(Minidriver(opts), opts)
         /\ NoLaunch(Minidriver(opts)) /\ NoFast(Minidriver(opts))
<1> DEFINE s == Minidriver(opts)
           c == "download_minidriver"
<1>1. c \in Commands /\ c # "reset" /\ c # "update_baud_rate" /\ c # "launch_ram"
  BY DEF Commands
<1>2. Ask(c) = <<W(c), R(c)>> /\ << <<"read2">> >> = <<Two>>
  BY DEF Ask, W, R, Two
<1>0. W(c) \in AllCalls /\ R(c) \in AllCalls /\ Two \in AllCalls
  BY <1>1, Members
<1>3. CASE "no2bytes" \in opts
  <2>1. s = <<W(c), R(c)>>
    BY <1>0, <1>2, <1>3, Appended, Zenon DEF Minidriver
  <2>2. s \in Seq(AllCalls) /\ Len(s) = 2 /\ s[1] = W(c) /\ s[2] = R(c)
    BY <1>1, <2>1, Members, Tuples
  <2> HIDE DEF s, c
  <2>3. AheadAt(s, 1, opts)
    BY <1>1, <2>2, WriteRule DEF c
  <2>4. AheadAt(s, 2, opts)
    BY <1>1, <1>3, <2>2, ReadRule DEF c
  <2>c. BehindAt(s, 2)
    BY <2>2, <2>4, ReadRule DEF c
  <2>5. Starts(s)
    BY <2>2, Heads DEF Starts
  <2>6. Part(s, opts)
    BY <2>2, <2>3, <2>4, <2>c, <2>5 DEF Part, Begun, Ahead, Behind
  <2>7. NoLaunch(s) /\ NoFast(s)
    BY <1>1, <2>2, Heads DEF NoLaunch, NoFast
  <2> QED BY <2>6, <2>7 DEF s
<1>4. CASE "no2bytes" \notin opts
  <2>1. s = <<W(c), R(c), Two>>
    BY <1>0, <1>2, <1>4, Appended, Zenon DEF Minidriver
  <2>2. s \in Seq(AllCalls) /\ Len(s) = 3 /\ s[1] = W(c) /\ s[2] = R(c) /\ s[3] = Two
    BY <1>1, <2>1, Members, Tuples
  <2> HIDE DEF s, c
  <2>3. AheadAt(s, 1, opts)
    BY <1>1, <2>2, WriteRule DEF c
  <2>4. AheadAt(s, 2, opts)
    BY <1>1, <1>4, <2>2, ReadRule DEF c
  <2>c. BehindAt(s, 2)
    BY <2>2, <2>4, ReadRule DEF c
  <2>5. AheadAt(s, 3, opts) /\ BehindAt(s, 3)
    BY <1>4, <2>2, OtherRules DEF c
  <2>6. Starts(s)
    BY <2>2, Heads DEF Starts
  <2>7. Part(s, opts)
    BY <2>2, <2>3, <2>4, <2>c, <2>5, <2>6 DEF Part, Begun, Ahead, Behind
  <2>8. NoLaunch(s) /\ NoFast(s)
    BY <1>1, <2>2, Heads DEF NoLaunch, NoFast
  <2> QED BY <2>7, <2>8 DEF s
<1> QED BY <1>3, <1>4

\* The launch, and the change of the host's speed that goes with it.
Launch(opts) == Ask("launch_ram") \o When("use_baudrate_for_download", opts, Speed(Slow))

LEMMA LaunchPart ==
  ASSUME NEW opts
  PROVE  /\ Part(Launch(opts), opts) /\ NoFast(Launch(opts))
         /\ "use_baudrate_for_download" \in opts => Following(Launch(opts))
<1> DEFINE s == Launch(opts)
           c == "launch_ram"
<1>1. c \in Commands /\ c # "reset" /\ c # "update_baud_rate" /\ c # "download_minidriver"
      /\ Slow \in Speeds /\ Slow # Fast
  BY DEF Commands, Speeds, Slow, Fast
<1>2. Ask(c) = <<W(c), R(c)>> /\ Speed(Slow) = <<T(Slow)>>
  BY DEF Ask, Speed, W, R, T
<1>0. W(c) \in AllCalls /\ R(c) \in AllCalls /\ T(Slow) \in AllCalls
  BY <1>1, Members
<1>3. CASE "use_baudrate_for_download" \notin opts
  <2>1. s = <<W(c), R(c)>>
    BY <1>0, <1>2, <1>3, Appended, Zenon DEF Launch, When
  <2>2. s \in Seq(AllCalls) /\ Len(s) = 2 /\ s[1] = W(c) /\ s[2] = R(c)
    BY <1>1, <2>1, Members, Tuples
  <2> HIDE DEF s, c
  <2>3. AheadAt(s, 1, opts)
    BY <1>1, <2>2, WriteRule DEF c
  <2>4. AheadAt(s, 2, opts) /\ BehindAt(s, 2)
    BY <1>1, <2>2, ReadRule DEF c
  <2>5. Starts(s)
    BY <2>2, Heads DEF Starts
  <2>6. Part(s, opts)
    BY <2>2, <2>3, <2>4, <2>5 DEF Part, Begun, Ahead, Behind
  <2>7. NoFast(s)
    BY <1>1, <2>2, Heads DEF NoFast
  <2> QED BY <1>3, <2>6, <2>7 DEF s
<1>4. CASE "use_baudrate_for_download" \in opts
  <2>1. s = <<W(c), R(c), T(Slow)>>
    BY <1>0, <1>2, <1>4, Appended, Zenon DEF Launch, When
  <2>2. s \in Seq(AllCalls) /\ Len(s) = 3 /\ s[1] = W(c) /\ s[2] = R(c) /\ s[3] = T(Slow)
    BY <1>1, <2>1, Members, Tuples
  <2> HIDE DEF s, c
  <2>3. AheadAt(s, 1, opts)
    BY <1>1, <2>2, WriteRule DEF c
  <2>4. AheadAt(s, 2, opts) /\ BehindAt(s, 2)
    BY <1>1, <1>4, <2>2, ReadRule DEF c
  <2>5. AheadAt(s, 3, opts) /\ BehindAt(s, 3)
    BY <1>1, <1>4, <2>2, SpeedRule DEF c
  <2>6. Starts(s)
    BY <2>2, Heads DEF Starts
  <2>7. Part(s, opts)
    BY <2>2, <2>3, <2>4, <2>5, <2>6 DEF Part, Begun, Ahead, Behind
  <2>8. NoFast(s)
    <3>1. T(Slow) # T(Fast)
      BY <1>1, Heads
    <3> QED BY <1>1, <2>2, <3>1, Heads DEF NoFast
  <2>9. Following(s)
    BY <1>1, <2>2, Heads DEF Following, Followed
  <2> QED BY <2>7, <2>8, <2>9 DEF s
<1> QED BY <1>3, <1>4

LEMMA Unlaunched ==
  ASSUME NEW s, NoLaunch(s)
  PROVE  Following(s)
BY DEF NoLaunch, Following

\* Part by part.
LEMMA Append2 ==
  ASSUME NEW opts, NEW s, Part(s, opts), NEW t, Part(t, opts)
  PROVE  /\ Part(s \o t, opts)
         /\ NoFast(s) /\ NoFast(t) => NoFast(s \o t)
         /\ NoLaunch(s) /\ NoLaunch(t) => NoLaunch(s \o t)
         /\ Following(s) /\ Following(t) => Following(s \o t)
<1>1. s \in Seq(AllCalls) /\ t \in Seq(AllCalls) /\ Begun(s, opts) /\ Starts(s)
  BY DEF Part, Begun
<1>2. Part(s \o t, opts)
  BY <1>1, PartsJoin
<1> QED BY <1>1, <1>2, LaunchesJoin, Zenon

LEMMA PatchramPart ==
  ASSUME NEW opts, "patchram" \in opts
  PROVE  /\ Part(proc_patchram(opts), opts) /\ NoFast(proc_patchram(opts))
         /\ "use_baudrate_for_download" \in opts => Following(proc_patchram(opts))
<1> DEFINE m == Minidriver(opts)
           d == m \o Download
           l == d \o Launch(opts)
<1>1. Part(m, opts) /\ NoFast(m) /\ Following(m)
  BY MinidriverPart, Unlaunched, Zenon
<1>2. Part(Download, opts) /\ NoFast(Download) /\ Following(Download)
  BY DownloadPart, Unlaunched, Zenon
<1>3. /\ Part(Launch(opts), opts) /\ NoFast(Launch(opts))
      /\ "use_baudrate_for_download" \in opts => Following(Launch(opts))
  BY LaunchPart, Zenon
<1>4. Part(proc_reset, opts) /\ NoFast(proc_reset) /\ Following(proc_reset)
  BY ResetPart, Unlaunched, Zenon
<1> HIDE DEF m
<1>5. Part(d, opts) /\ NoFast(d) /\ Following(d)
  BY <1>1, <1>2, Append2, Zenon
<1> HIDE DEF d
<1>6. /\ Part(l, opts) /\ NoFast(l)
      /\ "use_baudrate_for_download" \in opts => Following(l)
  BY <1>3, <1>5, Append2, Zenon
<1>7. /\ Part(l \o proc_reset, opts) /\ NoFast(l \o proc_reset)
      /\ "use_baudrate_for_download" \in opts => Following(l \o proc_reset)
  <2> HIDE DEF l
  <2> QED BY <1>4, <1>6, Append2, Zenon
<1>8. proc_patchram(opts) = l \o proc_reset
  <2>1. d \in Seq(AllCalls)
    BY <1>5 DEF Part, Begun
  <2>2. /\ Ask("launch_ram") \in Seq(AllCalls)
        /\ When("use_baudrate_for_download", opts, Speed(Slow)) \in Seq(AllCalls)
    <3>1. Ask("launch_ram") = <<W("launch_ram"), R("launch_ram")>> /\ Speed(Slow) = <<T(Slow)>>
      BY DEF Ask, Speed, W, R, T
    <3>2. W("launch_ram") \in AllCalls /\ R("launch_ram") \in AllCalls /\ T(Slow) \in AllCalls
      BY Members DEF Commands, Speeds
    <3>3. << >> \in Seq(AllCalls)
      OBVIOUS
    <3>4. Ask("launch_ram") \in Seq(AllCalls) /\ Speed(Slow) \in Seq(AllCalls)
      <4>1. <<W("launch_ram"), R("launch_ram")>> \in Seq(AllCalls) /\ <<T(Slow)>> \in Seq(AllCalls)
        BY <3>2, Tuples
      <4> QED BY <3>1, <4>1, Zenon
    <3> QED BY <3>3, <3>4, Zenon DEF When
  <2>3. l = (d \o Ask("launch_ram")) \o When("use_baudrate_for_download", opts, Speed(Slow))
    <3> DEFINE a == Ask("launch_ram")
               w == When("use_baudrate_for_download", opts, Speed(Slow))
    <3>1. a \in Seq(AllCalls) /\ w \in Seq(AllCalls) /\ l = d \o (a \o w)
      BY <2>2, Zenon DEF Launch
    <3> HIDE DEF a, w, l
    <3>2. (d \o a) \o w = d \o (a \o w)
      BY <2>1, <3>1, Regrouped, Zenon
    <3>3. l = (d \o a) \o w
      BY <3>1, <3>2, Zenon
    <3> QED BY <3>3 DEF a, w
  <2> QED BY <2>3 DEF proc_patchram, d, m, Minidriver
<1> QED BY <1>7, <1>8

\* An optional part.
LEMMA WhenPart ==
  ASSUME NEW opts, NEW o, NEW s, o \in opts => Part(s, opts)
  PROVE  /\ Part(When(o, opts, s), opts)
         /\ (o \in opts => NoLaunch(s)) => NoLaunch(When(o, opts, s))
         /\ (o \in opts => NoFast(s)) => NoFast(When(o, opts, s))
         /\ (o \in opts => Following(s)) => Following(When(o, opts, s))
<1>1. CASE o \in opts
  BY <1>1 DEF When
<1>2. CASE o \notin opts
  BY <1>2, EmptyPart DEF When
<1> QED BY <1>1, <1>2

\* A program that has begun stays one when a part is added.
First(s) == Len(s) > 2 /\ s[1] = F /\ s[2] = T(Slow) /\ s[3] = W("reset")

Good(s, opts) == Begun(s, opts) /\ Launches(s) /\ First(s)

LEMMA FirstJoins ==
  ASSUME NEW s \in Seq(AllCalls), NEW t \in Seq(AllCalls), First(s)
  PROVE  First(s \o t)
<1> DEFINE st == s \o t
<1>1. /\ Len(st) = Len(s) + Len(t) /\ Len(s) \in Nat /\ Len(t) \in Nat
      /\ \A i \in 1 .. Len(s) : st[i] = s[i]
  BY Joined, Zenon
<1> HIDE DEF st
<1>2. First(st)
  BY <1>1 DEF First
<1> QED BY <1>2 DEF st

LEMMA GoodGrows ==
  ASSUME NEW opts, NEW s, Good(s, opts), NEW t, Part(t, opts), NoLaunch(t)
  PROVE  Good(s \o t, opts)
<1>1. s \in Seq(AllCalls) /\ t \in Seq(AllCalls)
  BY DEF Good, Part, Begun
<1>2. Begun(s \o t, opts)
  BY PartsJoin DEF Good
<1>3. Launches(s \o t)
  BY <1>1, LaunchesJoin, Zenon DEF Good
<1>4. First(s \o t)
  BY <1>1, FirstJoins DEF Good
<1> QED BY <1>2, <1>3, <1>4 DEF Good

LEMMA PlainCommands ==
  {"write_bd_addr", "write_sleep_mode", "write_sco_pcm_int", "write_pcm_data_format",
   "write_i2spcm_interface_param", "write_ram"} \subseteq Plain
BY DEF Plain, Commands

\* The opening, up to the patch.
LEMMA OpeningCalls ==
  ASSUME NEW opts
  PROVE  LET s == init_uart \o proc_reset
         IN  Begun(s, opts) /\ First(s) /\ NoLaunch(s) /\ NoFast(s)
<1> DEFINE u == init_uart
           s == u \o proc_reset
<1>1. Slow \in Speeds /\ Slow # Fast
  BY DEF Speeds, Slow, Fast
<1>2. u = <<F, T(Slow)>>
  <2>1. << <<"flush">> >> = <<F>> /\ Speed(Slow) = <<T(Slow)>>
    BY DEF Speed, F, T
  <2>2. F \in AllCalls /\ T(Slow) \in AllCalls
    BY <1>1, Members
  <2> QED BY <2>1, <2>2, Paired, Zenon DEF init_uart
<1>3. u \in Seq(AllCalls) /\ Len(u) = 2 /\ u[1] = F /\ u[2] = T(Slow)
  BY <1>1, <1>2, Members, Tuples
<1> HIDE DEF u
<1>4. AheadAt(u, 1, opts)
  BY <1>3, OtherRules
<1>5. AheadAt(u, 2, opts) /\ BehindAt(u, 2)
  BY <1>1, <1>3, SpeedRule
<1>6. Begun(u, opts)
  BY <1>3, <1>4, <1>5 DEF Begun, Ahead, Behind
<1>7. NoLaunch(u) /\ NoFast(u)
  <2>1. T(Slow) # T(Fast)
    BY <1>1, Heads
  <2> QED BY <1>3, <2>1, Heads DEF NoLaunch, NoFast
<1>8. /\ Part(proc_reset, opts) /\ NoLaunch(proc_reset) /\ NoFast(proc_reset)
      /\ Len(proc_reset) = 4 /\ proc_reset[1] = W("reset") /\ proc_reset \in Seq(AllCalls)
  BY ResetPart DEF Part, Begun
<1>9. Begun(s, opts)
  BY <1>6, <1>8, PartsJoin, Zenon
<1>10. NoLaunch(s) /\ NoFast(s)
  BY <1>3, <1>7, <1>8, LaunchesJoin, Zenon
<1>11. First(s)
  <2>1. /\ Len(s) = Len(u) + Len(proc_reset)
        /\ \A i \in 1 .. Len(u) : s[i] = u[i]
        /\ \A i \in 1 .. Len(proc_reset) : s[Len(u) + i] = proc_reset[i]
    BY <1>3, <1>8, Joined, Zenon
  <2> HIDE DEF s
  <2>2. Len(s) = 6 /\ s[1] = F /\ s[2] = T(Slow) /\ s[2 + 1] = W("reset")
    BY <1>3, <1>8, <2>1
  <2> QED BY <2>2 DEF First
<1> QED BY <1>9, <1>10, <1>11 DEF u

\* With the patch, which decides what is said of the launch.
LEMMA PatchedCalls ==
  ASSUME NEW opts
  PROVE  LET s == init_uart \o proc_reset
                    \o When("use_baudrate_for_download", opts,
                            When("baudrate", opts, proc_baudrate))
                    \o When("patchram", opts, proc_patchram(opts))
         IN  Good(s, opts)
<1> DEFINE a == init_uart \o proc_reset
           b == When("use_baudrate_for_download", opts, When("baudrate", opts, proc_baudrate))
           c == When("patchram", opts, proc_patchram(opts))
<1>1. Begun(a, opts) /\ First(a) /\ NoLaunch(a) /\ NoFast(a) /\ Following(a)
  BY OpeningCalls, Unlaunched, Zenon
<1>2. /\ Part(b, opts) /\ NoLaunch(b) /\ Following(b)
      /\ "use_baudrate_for_download" \notin opts => NoFast(b)
  <2>1. Part(When("baudrate", opts, proc_baudrate), opts)
        /\ NoLaunch(When("baudrate", opts, proc_baudrate))
    BY BaudratePart, WhenPart, Zenon
  <2> DEFINE w == When("baudrate", opts, proc_baudrate)
  <2> HIDE DEF w
  <2>2. Part(b, opts) /\ NoLaunch(b)
    BY <2>1, WhenPart, Zenon DEF w
  <2>3. "use_baudrate_for_download" \notin opts => NoFast(b)
    BY EmptyPart, Zenon DEF When
  <2> QED BY <2>2, <2>3, Unlaunched, Zenon
<1>3. /\ Part(c, opts)
      /\ NoFast(c)
      /\ "use_baudrate_for_download" \in opts => Following(c)
  BY PatchramPart, WhenPart, Zenon
<1> HIDE DEF a, b, c
<1>4. a \in Seq(AllCalls) /\ b \in Seq(AllCalls) /\ c \in Seq(AllCalls)
  BY <1>1, <1>2, <1>3 DEF Part, Begun
<1> DEFINE ab == a \o b
<1>5. /\ Begun(ab, opts) /\ First(ab) /\ Following(ab) /\ ab \in Seq(AllCalls)
      /\ "use_baudrate_for_download" \notin opts => NoFast(ab)
  <2>1. Begun(ab, opts)
    BY <1>1, <1>2, PartsJoin, Zenon
  <2>2. First(ab)
    BY <1>1, <1>4, FirstJoins, Zenon
  <2>3. Following(ab) /\ ("use_baudrate_for_download" \notin opts => NoFast(ab))
    BY <1>1, <1>2, <1>4, LaunchesJoin, Zenon
  <2> QED BY <2>1, <2>2, <2>3, Zenon DEF Begun
<1> HIDE DEF ab
<1>6. Begun(ab \o c, opts)
  BY <1>3, <1>5, PartsJoin, Zenon
<1>7. First(ab \o c)
  BY <1>4, <1>5, FirstJoins, Zenon
<1>8. Following(ab \o c) \/ NoFast(ab \o c)
  BY <1>3, <1>4, <1>5, LaunchesJoin, Zenon
<1> DEFINE s == ab \o c
<1> HIDE DEF s
<1>9. Launches(s)
  <2>1. CASE Following(s)
    BY <2>1 DEF Following, Launches
  <2>2. CASE NoFast(s)
    BY <2>2 DEF NoFast, Launches
  <2> QED BY <1>8, <2>1, <2>2 DEF s
<1>10. Good(s, opts)
  BY <1>6, <1>7, <1>9 DEF Good, s
<1> QED BY <1>10, Zenon DEF s, ab, a, b, c

LEMMA Programs ==
  ASSUME NEW opts
  PROVE  LET s == Program(opts) IN Shaped(s, opts) /\ First(s)
<1> DEFINE p  == init_uart \o proc_reset
                   \o When("use_baudrate_for_download", opts,
                           When("baudrate", opts, proc_baudrate))
                   \o When("patchram", opts, proc_patchram(opts))
           t1 == When("baudrate", opts, proc_baudrate)
           t2 == When("bd_addr", opts, Ask("write_bd_addr"))
           t3 == When("enable_lpm", opts, Ask("write_sleep_mode"))
           t4 == When("scopcm", opts, proc_scopcm)
           t5 == When("i2s", opts, Ask("write_i2spcm_interface_param"))
           e  == IF "enable_hci" \in opts THEN << <<"attach">> >> ELSE << <<"exit">> >>
<1>1. Good(p, opts)
  BY PatchedCalls, Zenon
<1>2. Part(t1, opts) /\ NoLaunch(t1)
  BY BaudratePart, WhenPart, Zenon
<1>3. /\ Part(t2, opts) /\ NoLaunch(t2)
      /\ Part(t3, opts) /\ NoLaunch(t3)
      /\ Part(t5, opts) /\ NoLaunch(t5)
  <2>1. \A c \in Plain : Part(Ask(c), opts) /\ NoLaunch(Ask(c))
    BY AskPart, Zenon
  <2>2. "write_bd_addr" \in Plain /\ "write_sleep_mode" \in Plain /\ "write_i2spcm_interface_param" \in Plain
    BY PlainCommands
  <2> QED BY <2>1, <2>2, WhenPart, Zenon
<1>4. Part(t4, opts) /\ NoLaunch(t4)
  <2> DEFINE a == Ask("write_sco_pcm_int")
             b == Ask("write_pcm_data_format")
  <2>1. Part(a, opts) /\ NoLaunch(a) /\ Part(b, opts) /\ NoLaunch(b)
    <3>1. "write_sco_pcm_int" \in Plain /\ "write_pcm_data_format" \in Plain
      BY PlainCommands
    <3> QED BY <3>1, AskPart, Zenon
  <2> HIDE DEF a, b
  <2>2. Part(a \o b, opts) /\ NoLaunch(a \o b)
    BY <2>1, Append2, Zenon
  <2>3. proc_scopcm = a \o b
    BY Zenon DEF proc_scopcm, a, b
  <2> QED BY <2>2, <2>3, WhenPart, Zenon
<1>5. Part(e, opts) /\ NoLaunch(e) /\ Len(e) = 1 /\ e[1] \in Ends /\ e \in Seq(AllCalls)
  <2>1. PICK a \in Ends : e = <<a>>
    BY DEF Ends
  <2>2. e \in Seq(AllCalls) /\ Len(e) = 1 /\ e[1] = a
    BY <2>1, Members, Tuples
  <2> HIDE DEF e
  <2>3. AheadAt(e, 1, opts)
    BY <2>1, <2>2, OtherRules
  <2>4. e[1][1] \in {"attach", "exit"} /\ R("launch_ram")[1] = "read_event"
    BY <2>2, Heads
  <2> QED BY <2>2, <2>3, <2>4 DEF Part, Begun, Ahead, Behind, Starts, NoLaunch
<1> HIDE DEF p, t1, t2, t3, t4, t5, e
<1> DEFINE s1 == p \o t1
<1>6. Good(s1, opts)
  BY <1>1, <1>2, GoodGrows, Zenon
<1> HIDE DEF s1
<1> DEFINE s2 == s1 \o t2
<1>7. Good(s2, opts)
  BY <1>3, <1>6, GoodGrows, Zenon
<1> HIDE DEF s2
<1> DEFINE s3 == s2 \o t3
<1>8. Good(s3, opts)
  BY <1>3, <1>7, GoodGrows, Zenon
<1> HIDE DEF s3
<1> DEFINE s4 == s3 \o t4
<1>9. Good(s4, opts)
  BY <1>4, <1>8, GoodGrows, Zenon
<1> HIDE DEF s4
<1> DEFINE s5 == s4 \o t5
<1>10. Good(s5, opts)
  BY <1>3, <1>9, GoodGrows, Zenon
<1> HIDE DEF s5
<1> DEFINE s == s5 \o e
<1>11. Good(s, opts)
  BY <1>5, <1>10, GoodGrows, Zenon
<1>12. Finite(s)
  <2>1. s5 \in Seq(AllCalls)
    BY <1>10 DEF Good, Begun
  <2>2. /\ Len(s) = Len(s5) + Len(e) /\ Len(s5) \in Nat
        /\ \A i \in 1 .. Len(e) : s[Len(s5) + i] = e[i]
    BY <1>5, <2>1, Joined, Zenon
  <2> HIDE DEF s
  <2>3. Len(s) = Len(s5) + 1 /\ s[Len(s5) + 1] = e[1]
    BY <1>5, <2>2
  <2> QED BY <1>5, <2>2, <2>3 DEF Finite
<1>13. Program(opts) = s
  BY Zenon DEF Program, s, s5, s4, s3, s2, s1, p, t1, t2, t3, t4, t5, e
<1> QED BY <1>11, <1>12, <1>13, Zenon DEF Good, Shaped
-----------------------------------------------------------------------------
(* What is left of a program when a call returns.                          *)

LEMMA Tails ==
  ASSUME NEW opts, NEW s, Shaped(s, opts), s[1] \notin Ends
  PROVE  /\ s \in Seq(AllCalls) /\ s # << >> /\ Head(s) = s[1] /\ Len(s) > 1
         /\ Tail(s) \in Seq(AllCalls) /\ Head(Tail(s)) = s[2]
         /\ Shaped(Tail(s), opts)
         /\ AheadAt(s, 1, opts) /\ BehindAt(s, 2)
         /\ Keeps(Tail(s)) => Keeps(s)
         /\ Opening(s) /\ s[1] # W("reset") => Opening(Tail(s))
<1> DEFINE t == Tail(s)
           n == Len(s)
<1>1. s \in Seq(AllCalls) /\ Ahead(s, opts) /\ Behind(s) /\ Launches(s) /\ Finite(s) /\ n \in Nat
  BY LenProperties DEF Shaped, Begun
<1>2. n > 1 /\ s # << >>
  BY <1>1 DEF Finite
<1>3. /\ t \in Seq(AllCalls) /\ Len(t) = n - 1
      /\ \A i \in 1 .. (n - 1) : t[i] = s[i + 1]
  BY <1>1, <1>2, HeadTailProperties, Zenon
<1>4. Head(s) = s[1]
  BY <1>1, <1>2
<1>5. Head(t) = t[1]
  BY <1>2, <1>3
<1> HIDE DEF t, n
<1>6. Head(t) = s[2]
  BY <1>2, <1>3, <1>5, <1>1
<1>7. Ahead(t, opts)
  <2> SUFFICES ASSUME NEW i \in 1 .. (n - 1) PROVE AheadAt(t, i, opts)
    BY <1>3 DEF Ahead
  <2>1. AheadAt(s, i + 1, opts)
    BY <1>1 DEF Ahead, n
  <2>2. t[i] = s[i + 1] /\ (i + 1 < n => i < Len(t) /\ t[i + 1] = s[(i + 1) + 1])
    BY <1>1, <1>3
  <2> QED BY <2>1, <2>2, AheadMoves DEF n
<1>8. Behind(t)
  <2> SUFFICES ASSUME NEW i \in 2 .. (n - 1) PROVE BehindAt(t, i)
    BY <1>3 DEF Behind
  <2>1. BehindAt(s, i + 1)
    BY <1>1 DEF Behind, n
  <2>2. t[i] = s[i + 1] /\ t[i - 1] = s[(i + 1) - 1]
    BY <1>1, <1>3
  <2> QED BY <2>1, <2>2, BehindMoves
<1>9. ASSUME NEW i \in 1 .. (n - 1) PROVE t[i] = s[i + 1] /\ (Followed(s, i + 1) <=> Followed(t, i))
  BY <1>1, <1>3 DEF Followed, n
<1>10. Launches(t)
  <2> SUFFICES ASSUME NEW i \in 1 .. (n - 1), t[i] = R("launch_ram"), ~Followed(t, i)
               PROVE  \A j \in 1 .. i : t[j] # T(Fast)
    BY <1>3 DEF Launches
  <2>1. i + 1 \in 1 .. n /\ s[i + 1] = R("launch_ram") /\ ~Followed(s, i + 1)
    BY <1>1, <1>9
  <2>2. \A j \in 1 .. (i + 1) : s[j] # T(Fast)
    BY <1>1, <2>1 DEF Launches, n
  <2> QED BY <1>1, <1>3, <2>2
<1>11. Finite(t)
  <2>1. Len(t) > 0 /\ t[Len(t)] = s[n]
    BY <1>1, <1>2, <1>3
  <2> QED BY <1>1, <2>1 DEF Finite, n
<1>12. Keeps(t) => Keeps(s)
  <2> SUFFICES ASSUME NEW i \in 1 .. (n - 1), t[i] = R("launch_ram"), ~Followed(t, i)
               PROVE  Keeps(s)
    BY <1>3 DEF Keeps
  <2>1. i + 1 \in 1 .. n /\ s[i + 1] = R("launch_ram") /\ ~Followed(s, i + 1)
    BY <1>1, <1>9
  <2> QED BY <2>1 DEF Keeps, n
<1>13. AheadAt(s, 1, opts) /\ BehindAt(s, 2)
  BY <1>1, <1>2 DEF Ahead, Behind, n
<1>14. Opening(s) /\ s[1] # W("reset") => Opening(t)
  BY <1>1, <1>3 DEF Opening, n
<1> QED BY <1>1, <1>2, <1>3, <1>4, <1>6, <1>7, <1>8, <1>10, <1>11, <1>12, <1>13, <1>14
        DEF Shaped, Begun, t, n

\* After the change to the fast speed every launch is followed by one to the
\* slow speed.
LEMMA FastFollows ==
  ASSUME NEW opts, NEW s, Shaped(s, opts), s[1] = T(Fast)
  PROVE  ~Keeps(s)
BY DEF Shaped, Launches, Keeps

-----------------------------------------------------------------------------
(* The type of the variables.                                              *)

USE DEF Calls, Arg, Return, Kind

LEMMA NowHeads ==
  ASSUME Types, Parsed, pc = "run"
  PROVE  /\ todo \in Seq(AllCalls) /\ todo # << >> /\ Head(todo) \in AllCalls
         /\ Head(todo) = todo[1] /\ Shaped(todo, options)
<1>1. todo \in Seq(AllCalls) /\ Shaped(todo, options)
  BY DEF Types, Parsed
<1>2. todo # << >>
  BY <1>1 DEF Shaped, Finite
<1> QED BY <1>1, <1>2

LEMMA TailTyped ==
  ASSUME NEW S, NEW s \in Seq(S), s # << >>
  PROVE  Head(s) \in S /\ Tail(s) \in Seq(S)
BY HeadTailProperties

LEMMA Appends ==
  ASSUME NEW S, NEW s \in Seq(S), NEW e \in S
  PROVE  Append(s, e) \in Seq(S) /\ Append(s, e) # << >>
         /\ Len(Append(s, e)) = Len(s) + 1
         /\ \A i \in 1 .. Len(s) : Append(s, e)[i] = s[i]
         /\ Append(s, e)[Len(s) + 1] = e
BY AppendProperties

LEMMA ParseTyped ==
  ASSUME Types, Parsed, ParseCmdLine
  PROVE  Types' /\ Parsed'
<1>1. PICK given \in SUBSET Options :
        /\ asked' = given
        /\ \/ \E o \in given \cap DOMAIN Refusal : /\ pc' = "exited"
                                                   /\ code' \in Refusal[o]
                                                   /\ UNCHANGED <<options, todo>>
           \/ /\ pc' = "exited" /\ code' = 2
              /\ UNCHANGED <<options, todo>>
           \/ \E ignored \in SUBSET (given \cap {"baudrate"}) :
                /\ options' = given \ ignored
                /\ todo' = Program(options')
                /\ pc' = "run" /\ UNCHANGED code
  BY DEF ParseCmdLine
<1>2. /\ UNCHANGED <<armed, retries, sent, answers, hostSpeed, output, input>>
      /\ UNCHANGED <<confirms, awake, chipSpeed, received, replies, executed>>
      /\ pc = "parse" /\ code = 0 /\ options = {} /\ sent = << >> /\ ~armed
  BY DEF ParseCmdLine, Parsed, uart, chip
<1>3. CASE pc' = "exited" /\ code' \in 1 .. 5 /\ UNCHANGED <<options, todo>>
  <2>1. Types'
    BY <1>1, <1>2, <1>3 DEF Types
  <2>2. Parsed'
    BY <1>2, <1>3 DEF Parsed
  <2> QED BY <2>1, <2>2
<1>4. CASE options' \subseteq given /\ todo' = Program(options') /\ pc' = "run" /\ UNCHANGED code
  <2>1. Shaped(todo', options') /\ First(todo')
    BY <1>4, Programs, Zenon
  <2>2. todo' \in Seq(AllCalls) /\ Opening(todo')
    BY <2>1 DEF Shaped, Begun, First, Opening
  <2>3. Types'
    BY <1>1, <1>2, <1>4, <2>2 DEF Types
  <2>4. Parsed'
    BY <1>2, <1>4, <2>1, <2>2 DEF Parsed
  <2> QED BY <2>3, <2>4
<1>5. \A o \in DOMAIN Refusal : Refusal[o] \subseteq 1 .. 5
  BY DEF Refusal
<1> QED BY <1>1, <1>3, <1>4, <1>5

\* A call that returns leaves the program shaped.
LEMMA Returns ==
  ASSUME Types, Parsed, pc = "run", Return, Kind \notin {"attach", "exit"}
  PROVE  /\ todo' \in Seq(AllCalls) /\ Shaped(todo', options')
         /\ Opening(todo) /\ Kind # "write" => Opening(todo')
         /\ Head(todo') = todo[2] /\ Head(todo) = todo[1]
         /\ AheadAt(todo, 1, options) /\ BehindAt(todo, 2)
         /\ Keeps(todo') => Keeps(todo)
         /\ AheadAt(todo', 1, options) /\ Head(todo') = todo'[1] /\ Head(todo') \in AllCalls
<1>1. /\ todo # << >> /\ Head(todo) \in AllCalls /\ Head(todo) = todo[1]
      /\ Shaped(todo, options)
  BY NowHeads
<1>2. todo[1] \notin Ends
  BY <1>1, Heads
<1>3. Kind # "write" => todo[1] # W("reset")
  BY <1>1, Heads
<1>4. /\ todo' \in Seq(AllCalls) /\ Shaped(todo', options') /\ Head(todo') = todo[2]
      /\ AheadAt(todo, 1, options) /\ BehindAt(todo, 2)
      /\ Keeps(todo') => Keeps(todo)
      /\ Opening(todo) /\ Kind # "write" => Opening(todo')
  BY <1>1, <1>2, <1>3, Tails
<1>5. options' = options
  OBVIOUS
<1>6. todo' # << >> /\ Ahead(todo', options) /\ Len(todo') > 0
  BY <1>4, <1>5 DEF Shaped, Finite, Begun
<1>7. AheadAt(todo', 1, options)
  BY <1>4, <1>6 DEF Ahead
<1>8. Head(todo') = todo'[1] /\ Head(todo') \in AllCalls
  BY <1>4, <1>6
<1> QED BY <1>1, <1>4, <1>7, <1>8

LEMMA WriteTyped ==
  ASSUME Types, Parsed, Write
  PROVE  Types' /\ Parsed'
<1>1. pc = "run" /\ Kind = "write" /\ Return /\ hci_send_cmd(Arg)
      /\ UNCHANGED <<pc, code, armed, retries, answers, hostSpeed, input>>
      /\ UNCHANGED <<confirms, awake, chipSpeed, received, replies, executed>>
  BY DEF Write, chip
<1>2. todo' \in Seq(AllCalls) /\ Shaped(todo', options')
  BY <1>1, Returns
<1>3. Arg \in Commands
  BY <1>1, NowHeads, Kinds
<1>4. output' \in Seq(Commands) /\ sent' \in Seq(Commands) /\ sent' # << >>
  <2>1. output' = Append(output, Arg) /\ sent' = Append(sent, Arg)
    BY <1>1, Zenon DEF hci_send_cmd
  <2>2. output \in Seq(Commands) /\ sent \in Seq(Commands)
    BY DEF Types
  <2> QED BY <1>3, <2>1, <2>2, Appends
<1>5. Types'
  BY <1>1, <1>2, <1>4 DEF Types
<1>6. Parsed'
  BY <1>1, <1>2, <1>4 DEF Parsed
<1> QED BY <1>5, <1>6

\* An item that is no event is a byte of the confirmation.
LEMMA ReadTyped ==
  ASSUME Types, Parsed, ReadEvent
  PROVE  Types' /\ Parsed'
<1>1. /\ pc = "run" /\ Kind = "read_event" /\ input # << >> /\ input' = Tail(input)
      /\ UNCHANGED <<code, armed, retries, sent, hostSpeed, output>>
      /\ UNCHANGED <<confirms, awake, chipSpeed, received, replies, executed>>
  BY DEF ReadEvent, chip
<1>2. input' \in Seq(Items)
  BY <1>1, TailTyped DEF Types
<1>3. CASE Head(input) \in Events
  <2>1. answers' = Append(answers, [got |-> Head(input), for |-> Arg]) /\ Return /\ UNCHANGED pc
    BY <1>3 DEF ReadEvent
  <2>2. /\ todo' \in Seq(AllCalls) /\ Shaped(todo', options')
        /\ Opening(todo) => Opening(todo')
    BY <1>1, <2>1, Returns
  <2>3. Arg \in Commands
    BY <1>1, NowHeads, Kinds
  <2>4. answers' \in Seq([got : Events, for : Commands])
    BY <1>3, <2>1, <2>3 DEF Types
  <2>5. Types'
    BY <1>1, <1>2, <2>1, <2>2, <2>4 DEF Types
  <2>6. Parsed'
    BY <1>1, <2>1, <2>2 DEF Parsed
  <2> QED BY <2>5, <2>6
<1>4. CASE Head(input) \notin Events
  <2>1. pc' = "misframed" /\ UNCHANGED <<asked, options, todo, answers>>
    BY <1>4 DEF ReadEvent
  <2>2. Types'
    BY <1>1, <1>2, <2>1 DEF Types
  <2>3. Parsed'
    BY <1>1, <2>1 DEF Parsed
  <2> QED BY <2>2, <2>3
<1> QED BY <1>3, <1>4

LEMMA ReadTwoTyped ==
  ASSUME Types, Parsed, ReadTwoBytes
  PROVE  Types' /\ Parsed'
<1>1. /\ pc = "run" /\ Kind = "read2" /\ input # << >>
      /\ UNCHANGED <<code, armed, retries, sent, answers, hostSpeed, output>>
      /\ UNCHANGED <<confirms, awake, chipSpeed, received, replies, executed>>
  BY DEF ReadTwoBytes, chip
<1>2. CASE Head(input) \in Events
  <2>1. input' = Tail(input) /\ pc' = "misframed" /\ UNCHANGED <<asked, options, todo>>
    BY <1>2 DEF ReadTwoBytes
  <2>2. input' \in Seq(Items)
    BY <1>1, <2>1, TailTyped DEF Types
  <2>3. Types'
    BY <1>1, <2>1, <2>2 DEF Types
  <2>4. Parsed'
    BY <1>1, <2>1 DEF Parsed
  <2> QED BY <2>3, <2>4
<1>3. CASE Head(input) \notin Events
  <2>1. input' = SubSeq(input, IF Len(input) > 1 THEN 3 ELSE 2, Len(input)) /\ Return /\ UNCHANGED pc
    BY <1>3 DEF ReadTwoBytes
  <2>2. input' \in Seq(Items)
    BY <2>1 DEF Types
  <2>3. /\ todo' \in Seq(AllCalls) /\ Shaped(todo', options')
        /\ Opening(todo) => Opening(todo')
    BY <1>1, <2>1, Returns
  <2>4. Types'
    BY <1>1, <2>1, <2>2, <2>3 DEF Types
  <2>5. Parsed'
    BY <1>1, <2>1, <2>3 DEF Parsed
  <2> QED BY <2>4, <2>5
<1> QED BY <1>2, <1>3

LEMMA AlarmTyped ==
  ASSUME Types, Parsed, Alarm
  PROVE  Types' /\ Parsed'
<1>1. /\ pc = "run" /\ Kind = "alarm" /\ armed' = Arg /\ Return
      /\ UNCHANGED <<pc, code, retries, sent, answers, hostSpeed, output, input>>
      /\ UNCHANGED <<confirms, awake, chipSpeed, received, replies, executed>>
  BY DEF Alarm, uart, chip
<1>2. /\ todo' \in Seq(AllCalls) /\ Shaped(todo', options')
      /\ Opening(todo) => Opening(todo')
  BY <1>1, Returns
<1>3. Head(todo) \in {On, Off}
  BY <1>1, NowHeads, Kinds
<1>4. (Head(todo) = On => armed' = TRUE) /\ (Head(todo) = Off => armed' = FALSE)
  <2>1. On[2] = TRUE /\ Off[2] = FALSE
    BY DEF On, Off
  <2>2. armed' = Head(todo)[2]
    BY <1>1
  <2> QED BY <2>1, <2>2, Zenon
<1>5. ASSUME armed' PROVE sent # << >>
  <2>1. Head(todo) = On
    BY <1>3, <1>4, <1>5, Zenon
  <2>2. ~Opening(todo)
    <3>1. todo[1] = On
      BY <1>1, <2>1, NowHeads
    <3> QED BY <3>1, Heads DEF Opening
  <2> QED BY <1>1, <2>2 DEF Parsed
<1>8. armed' \in BOOLEAN
  BY <1>3, <1>4, Zenon
<1>6. Types'
  BY <1>1, <1>2, <1>8 DEF Types
<1>7. Parsed'
  BY <1>1, <1>2, <1>5 DEF Parsed
<1> QED BY <1>6, <1>7

LEMMA SpeedTyped ==
  ASSUME Types, Parsed, SetSpeed
  PROVE  Types' /\ Parsed'
<1>1. /\ pc = "run" /\ Kind = "tcsetattr" /\ hostSpeed' = Arg /\ Return
      /\ UNCHANGED <<pc, code, armed, retries, sent, answers, output, input>>
      /\ UNCHANGED <<confirms, awake, chipSpeed, received, replies, executed>>
  BY DEF SetSpeed, chip
<1>2. /\ todo' \in Seq(AllCalls) /\ Shaped(todo', options')
      /\ Opening(todo) => Opening(todo')
  BY <1>1, Returns
<1>3. hostSpeed' \in Speeds
  BY <1>1, NowHeads, Kinds
<1>4. Types'
  BY <1>1, <1>2, <1>3 DEF Types
<1>5. Parsed'
  BY <1>1, <1>2 DEF Parsed
<1> QED BY <1>4, <1>5

LEMMA FlushTyped ==
  ASSUME Types, Parsed, Flush
  PROVE  Types' /\ Parsed'
<1>1. /\ pc = "run" /\ Kind = "flush" /\ output' = << >> /\ input' = << >> /\ Return
      /\ UNCHANGED <<pc, code, armed, retries, sent, answers, hostSpeed>>
      /\ UNCHANGED <<confirms, awake, chipSpeed, received, replies, executed>>
  BY DEF Flush, chip
<1>2. /\ todo' \in Seq(AllCalls) /\ Shaped(todo', options')
      /\ Opening(todo) => Opening(todo')
  BY <1>1, Returns
<1>3. Types'
  BY <1>1, <1>2 DEF Types
<1>4. Parsed'
  BY <1>1, <1>2 DEF Parsed
<1> QED BY <1>3, <1>4

LEMMA EndTyped ==
  ASSUME Types, Parsed, Attach \/ Exit
  PROVE  Types' /\ Parsed'
<1>1. /\ pc = "run" /\ Kind \in {"attach", "exit"} /\ Return /\ code' = 0
      /\ (pc' = "attached" \/ pc' = "exited")
      /\ UNCHANGED <<armed, retries, sent, answers, hostSpeed, output, input>>
      /\ UNCHANGED <<confirms, awake, chipSpeed, received, replies, executed>>
  BY DEF Attach, Exit, uart, chip, Types
<1>2. todo' \in Seq(AllCalls)
  BY <1>1, NowHeads, TailTyped
<1>3. sent # << >>
  <2>1. ~Opening(todo)
    BY <1>1, NowHeads, Heads DEF Opening
  <2> QED BY <1>1, <2>1 DEF Parsed
<1>4. Types'
  BY <1>1, <1>2 DEF Types
<1>5. Parsed'
  BY <1>1, <1>3 DEF Parsed
<1> QED BY <1>4, <1>5

LEMMA ExpiredTyped ==
  ASSUME Types, Parsed, expired
  PROVE  Types' /\ Parsed'
<1>1. /\ armed /\ retries < MaxRetries /\ retries' = retries + 1 /\ armed' = TRUE
      /\ hci_send_cmd("reset")
      /\ UNCHANGED <<pc, code, asked, options, todo, answers, hostSpeed, input>>
      /\ UNCHANGED <<confirms, awake, chipSpeed, received, replies, executed>>
  BY DEF expired, chip
<1>2. output' \in Seq(Commands) /\ sent' \in Seq(Commands) /\ sent' # << >>
  <2>1. "reset" \in Commands
    BY DEF Commands
  <2>2. output \in Seq(Commands) /\ sent \in Seq(Commands)
    BY DEF Types
  <2>3. output' = Append(output, "reset") /\ sent' = Append(sent, "reset")
    BY <1>1 DEF hci_send_cmd
  <2> QED BY <2>1, <2>2, <2>3, Appends
<1>3. retries' \in 0 .. MaxRetries
  BY <1>1, PatchRamAssumption DEF Types
<1>4. Types'
  BY <1>1, <1>2, <1>3 DEF Types
<1>5. Parsed'
  BY <1>1, <1>2 DEF Parsed
<1> QED BY <1>4, <1>5

LEMMA BootTyped ==
  ASSUME Types, Parsed, ChipBoots
  PROVE  Types' /\ Parsed'
<1>1. /\ awake' = TRUE
      /\ UNCHANGED <<pc, code, asked, options, todo, armed, retries, sent, answers>>
      /\ UNCHANGED <<hostSpeed, output, input>>
      /\ UNCHANGED <<confirms, chipSpeed, received, replies, executed>>
  BY DEF ChipBoots, host, uart
<1>2. Types'
  BY <1>1 DEF Types
<1>3. Parsed'
  BY <1>1 DEF Parsed, Quiet
<1> QED BY <1>2, <1>3

LEMMA TransmitTyped ==
  ASSUME Types, Parsed, Transmit
  PROVE  Types' /\ Parsed'
<1>1. /\ output # << >> /\ output' = Tail(output)
      /\ received' = IF awake /\ hostSpeed = chipSpeed
                     THEN Append(received, Head(output)) ELSE received
      /\ UNCHANGED <<pc, code, asked, options, todo, armed, retries, sent, answers>>
      /\ UNCHANGED <<hostSpeed, input, confirms, awake, chipSpeed, replies, executed>>
  BY DEF Transmit, host
<1>2. output' \in Seq(Commands) /\ Head(output) \in Commands
  BY <1>1, TailTyped DEF Types
<1>3. received' \in Seq(Commands)
  <2>1. Append(received, Head(output)) \in Seq(Commands) /\ received \in Seq(Commands)
    BY <1>2, Appends, Zenon DEF Types
  <2> QED BY <1>1, <2>1
<1>4. Types'
  BY <1>1, <1>2, <1>3 DEF Types
<1>5. Parsed'
  BY <1>1 DEF Parsed, Quiet
<1> QED BY <1>4, <1>5

LEMMA ItemsTyped ==
  /\ \A c \in Commands, ok \in BOOLEAN : Event(c, ok) \in Events /\ Event(c, ok) \in Items
  /\ \A c \in Commands : Confirmed(c) \in Seq(Items)
<1>1. \A c \in Commands, ok \in BOOLEAN : Event(c, ok) \in Events /\ Event(c, ok) \in Items
  BY DEF Event, Events, Items
<1>2. [byte |-> 1] \in Items /\ [byte |-> 2] \in Items
  BY DEF Items, Confirmation
<1>3. << >> \in Seq(Items) /\ <<[byte |-> 1], [byte |-> 2]>> \in Seq(Items)
  BY <1>2
<1> QED BY <1>1, <1>3 DEF Confirmed

\* What the chip answers to a command.
LEMMA Executes ==
  ASSUME Types, ChipExecutes
  PROVE  /\ received # << >> /\ Head(received) \in Commands
         /\ received' = Tail(received) /\ received' \in Seq(Commands)
         /\ executed' = Append(executed, Head(received)) /\ executed' \in Seq(Commands)
         /\ \E ok \in BOOLEAN :
              replies' = Append(replies, Event(Head(received), ok)) \o Confirmed(Head(received))
         /\ replies' \in Seq(Items)
         /\ UNCHANGED <<pc, code, asked, options, todo, armed, retries, sent, answers>>
         /\ UNCHANGED <<hostSpeed, output, input, confirms, awake, chipSpeed>>
<1>1. received # << >> /\ received' = Tail(received) /\ executed' = Append(executed, Head(received))
      /\ UNCHANGED <<pc, code, asked, options, todo, armed, retries, sent, answers>>
      /\ UNCHANGED <<hostSpeed, output, input, confirms, awake, chipSpeed>>
  BY DEF ChipExecutes, host, uart
<1>2. Head(received) \in Commands /\ received' \in Seq(Commands)
  BY <1>1, TailTyped DEF Types
<1>3. executed' \in Seq(Commands)
  BY <1>1, <1>2, Appends, Zenon DEF Types
<1>4. PICK ok \in {TRUE, Head(received) \notin Refused} :
        replies' = Append(replies, Event(Head(received), ok)) \o Confirmed(Head(received))
  BY DEF ChipExecutes, Confirmed
<1>5. ok \in BOOLEAN
  OBVIOUS
<1>6. replies' \in Seq(Items)
  <2>1. Event(Head(received), ok) \in Items /\ Confirmed(Head(received)) \in Seq(Items)
    BY <1>2, <1>5, ItemsTyped
  <2>2. Append(replies, Event(Head(received), ok)) \in Seq(Items)
    BY <2>1, Appends, Zenon DEF Types
  <2> QED BY <1>4, <2>1, <2>2, ConcatProperties, Zenon
<1> QED BY <1>1, <1>2, <1>3, <1>4, <1>5, <1>6

LEMMA ExecutesTyped ==
  ASSUME Types, Parsed, ChipExecutes
  PROVE  Types' /\ Parsed'
<1>1. Types'
  BY Executes DEF Types
<1>2. Parsed'
  BY Executes DEF Parsed, Quiet
<1> QED BY <1>1, <1>2

LEMMA Bytes ==
  /\ \A e \in Confirmation : (e = B1 \/ e = B2) /\ e \notin Events
  /\ \A e \in Events : e \notin Confirmation /\ e # B1 /\ e # B2
  /\ B1 # B2 /\ B1 \in Confirmation /\ B2 \in Confirmation
  /\ B1 \in Items /\ B2 \in Items
<1>1. B1 \in Confirmation /\ B2 \in Confirmation
  BY DEF B1, B2, Confirmation
<1>2. B1 # B2
  <2>1. B1.byte = 1 /\ B2.byte = 2
    BY DEF B1, B2
  <2> QED BY <2>1
<1>3. ASSUME NEW e \in Confirmation PROVE e = B1 \/ e = B2
  BY DEF Confirmation, B1, B2
<1>4. ASSUME NEW e \in Confirmation, NEW d \in Events PROVE e # d
  <2>1. DOMAIN e = {"byte"} /\ "byte" \notin DOMAIN d
    BY DEF Confirmation, Events
  <2> QED BY <2>1
<1> QED BY <1>1, <1>2, <1>3, <1>4 DEF Items

LEMMA Two2 ==
  ASSUME NEW S, NEW a \in S, NEW b \in S
  PROVE  /\ <<a>> \in Seq(S) /\ Len(<<a>>) = 1 /\ <<a>>[1] = a
         /\ <<a, b>> \in Seq(S) /\ Len(<<a, b>>) = 2 /\ <<a, b>>[1] = a /\ <<a, b>>[2] = b
OBVIOUS

LEMMA Concats ==
  ASSUME NEW S, NEW s \in Seq(S), NEW t \in Seq(S)
  PROVE  /\ s \o t \in Seq(S) /\ Len(s \o t) = Len(s) + Len(t)
         /\ Len(s) \in Nat /\ Len(t) \in Nat
         /\ \A i \in 1 .. Len(s) : (s \o t)[i] = s[i]
         /\ \A i \in 1 .. Len(t) : (s \o t)[Len(s) + i] = t[i]
<1>1. /\ s \o t \in Seq(S) /\ Len(s \o t) = Len(s) + Len(t)
      /\ Len(s) \in Nat /\ Len(t) \in Nat
      /\ \A i \in 1 .. Len(s) + Len(t) : (s \o t)[i] = IF i <= Len(s) THEN s[i] ELSE t[i - Len(s)]
  BY ConcatProperties, LenProperties, Zenon
<1> DEFINE st == s \o t
<1> HIDE DEF st
<1>2. \A i \in 1 .. Len(s) + Len(t) : st[i] = IF i <= Len(s) THEN s[i] ELSE t[i - Len(s)]
  BY <1>1 DEF st
<1>3. /\ \A i \in 1 .. Len(s) : st[i] = s[i]
      /\ \A i \in 1 .. Len(t) : st[Len(s) + i] = t[i]
  BY <1>1, <1>2
<1> QED BY <1>1, <1>3 DEF st

LEMMA ItemsJoin ==
  ASSUME NEW s \in Seq(Items), NEW t \in Seq(Items)
  PROVE  /\ s \o t \in Seq(Items) /\ Len(s \o t) = Len(s) + Len(t)
         /\ \A i \in 1 .. Len(s) : (s \o t)[i] = s[i]
         /\ \A i \in 1 .. Len(t) : (s \o t)[Len(s) + i] = t[i]
BY Concats

\* What is left of a sequence.
LEMMA Drops ==
  ASSUME NEW S, NEW s \in Seq(S), NEW k \in 2 .. 3, k <= Len(s) + 1
  PROVE  /\ SubSeq(s, k, Len(s)) \in Seq(S)
         /\ Len(SubSeq(s, k, Len(s))) = Len(s) + 1 - k
         /\ \A i \in 1 .. (Len(s) + 1 - k) : SubSeq(s, k, Len(s))[i] = s[i + k - 1]
<1>1. Len(s) \in Nat /\ \A i \in k .. Len(s) : s[i] \in S
  OBVIOUS
<1> DEFINE n == Len(s)
           t == SubSeq(s, k, n)
<1> HIDE DEF n
<1>2. /\ t \in Seq(S) /\ Len(t) = (IF k <= n THEN n - k + 1 ELSE 0)
      /\ \A i \in 1 .. (n - k + 1) : t[i] = s[k + i - 1]
  <2>1. n \in Int /\ k \in Int /\ \A i \in k .. n : s[i] \in S
    BY <1>1 DEF n
  <2> QED BY <2>1, SubSeqProperties
<1> HIDE DEF t
<1>3. /\ t \in Seq(S) /\ Len(t) = n + 1 - k
      /\ \A i \in 1 .. (n + 1 - k) : t[i] = s[i + k - 1]
  BY <1>1, <1>2 DEF n
<1> QED BY <1>3 DEF n, t

LEMMA Beyond ==
  ASSUME NEW i \in Nat, NEW n \in Nat, NEW l, NEW m, m = 0 \/ m = 2,
         l = (n + 1) + m, i <= l, i > n + 1
  PROVE  m = 2 /\ (i = n + 2 \/ i = n + 3)
OBVIOUS

LEMMA CoupledGrows ==
  ASSUME NEW s \in Seq(Items), Coupled(s), NEW e \in Events, NEW t,
         t = << >> \/ t = <<B1, B2>>
  PROVE  Coupled(Append(s, e) \o t)
<1> DEFINE u == Append(s, e)
           n == Len(s)
           w == u \o t
<1>1. /\ u \in Seq(Items) /\ Len(u) = n + 1 /\ n \in Nat /\ u[n + 1] = e
      /\ \A i \in 1 .. n : u[i] = s[i]
  BY Appends, LenProperties DEF Items
<1>2. t \in Seq(Items) /\ (Len(t) = 0 \/ (Len(t) = 2 /\ t[1] = B1 /\ t[2] = B2))
  <2>1. CASE t = << >>
    BY <2>1
  <2>2. CASE t = <<B1, B2>>
    BY <2>2, Bytes, Two2, Zenon
  <2> QED BY <2>1, <2>2
<1> HIDE DEF u, n
<1>3. /\ Len(w) = (n + 1) + Len(t)
      /\ \A i \in 1 .. (n + 1) : w[i] = u[i]
      /\ \A i \in 1 .. Len(t) : w[(n + 1) + i] = t[i]
  <2>1. /\ Len(w) = Len(u) + Len(t)
        /\ \A i \in 1 .. Len(u) : w[i] = u[i]
        /\ \A i \in 1 .. Len(t) : w[Len(u) + i] = t[i]
    BY <1>1, <1>2, ItemsJoin, Zenon
  <2> QED BY <1>1, <2>1, Zenon
<1> HIDE DEF w
<1>4. /\ \A i \in 1 .. n : w[i] = s[i]
      /\ w[n + 1] = e
      /\ Len(t) = 2 => w[n + 2] = B1 /\ w[n + 3] = B2
  <2>1. \A i \in 1 .. (n + 1) : w[i] = u[i]
    BY <1>3
  <2>2. (\A i \in 1 .. n : w[i] = s[i]) /\ w[n + 1] = e
    BY <1>1, <2>1
  <2>3. ASSUME Len(t) = 2 PROVE w[(n + 1) + 1] = B1 /\ w[(n + 1) + 2] = B2
    BY <1>2, <1>3, <2>3
  <2>4. (n + 1) + 1 = n + 2 /\ (n + 1) + 2 = n + 3
    BY <1>1
  <2> QED BY <2>2, <2>3, <2>4
<1>5. e # B1 /\ e # B2 /\ B1 # B2
  BY Bytes
<1>6. ASSUME NEW i \in 1 .. Len(w)
      PROVE  /\ w[i] = B1 => i < Len(w) /\ w[i + 1] = B2
             /\ w[i] = B2 => i > 1 /\ w[i - 1] = B1
  <2>1. CASE i \in 1 .. n
    <3>1. w[i] = s[i] /\ (i < n => w[i + 1] = s[i + 1]) /\ (i > 1 => w[i - 1] = s[i - 1])
      BY <1>1, <1>4, <2>1
    <3> QED BY <1>1, <1>2, <1>3, <2>1, <3>1 DEF Coupled, n
  <2>2. CASE i = n + 1
    BY <1>4, <1>5, <2>2
  <2>3. CASE i > n + 1
    <3>0. Len(w) = (n + 1) + Len(t) /\ (Len(t) = 0 \/ Len(t) = 2) /\ n \in Nat
      BY <1>1, <1>2, <1>3
    <3>a. i \in Nat /\ i <= Len(w)
      BY <3>0
    <3>1. Len(t) = 2 /\ (i = n + 2 \/ i = n + 3)
      BY <2>3, <3>0, <3>a, Beyond, Zenon
    <3>2. CASE i = n + 2
      BY <1>1, <1>3, <1>4, <1>5, <3>1, <3>2
    <3>3. CASE i = n + 3
      <4>1. i - 1 = n + 2
        BY <1>1, <3>3
      <4> QED BY <1>1, <1>3, <1>4, <1>5, <3>1, <3>3, <4>1
    <3> QED BY <3>1, <3>2, <3>3
  <2> QED BY <1>1, <2>1, <2>2, <2>3
<1>7. Coupled(w)
  BY <1>6 DEF Coupled
<1> QED BY <1>7 DEF w, u

\* Taking the first item, or the two bytes, off.
LEMMA CoupledShrinks ==
  ASSUME NEW s \in Seq(Items), s # << >>, Coupled(s)
  PROVE  /\ Head(s) \in Confirmation => Len(s) > 1 /\ Coupled(SubSeq(s, 3, Len(s)))
         /\ Head(s) \notin Confirmation => Coupled(SubSeq(s, 2, Len(s)))
<1> DEFINE n == Len(s)
           t == SubSeq(s, 2, n)
           u == SubSeq(s, 3, n)
<1>1. n \in Nat /\ n > 0 /\ Head(s) = s[1]
  OBVIOUS
<1>d. \A k \in 2 .. 3 : k <= n + 1 =>
        LET v == SubSeq(s, k, n)
        IN  Len(v) = n + 1 - k /\ \A i \in 1 .. (n + 1 - k) : v[i] = s[i + k - 1]
  BY Drops, Zenon
<1> HIDE DEF n, t, u
<1>2. /\ Len(t) = n - 1
      /\ \A i \in 1 .. (n - 1) : t[i] = s[i + 1]
      /\ n > 1 => Len(u) = n - 2
      /\ n > 1 => \A i \in 1 .. (n - 2) : u[i] = s[i + 2]
  <2>1. Len(t) = n + 1 - 2 /\ \A i \in 1 .. (n + 1 - 2) : t[i] = s[i + 2 - 1]
    BY <1>1, <1>d DEF t
  <2>2. n > 1 => Len(u) = n + 1 - 3 /\ \A i \in 1 .. (n + 1 - 3) : u[i] = s[i + 3 - 1]
    BY <1>1, <1>d DEF u
  <2> QED BY <1>1, <2>1, <2>2
<1>3. s[1] # B2 /\ B1 # B2
  BY <1>1, Bytes DEF Coupled, n
<1>4. ASSUME Head(s) \in Confirmation PROVE n > 1 /\ Coupled(u)
  <2>1. s[1] = B1
    BY <1>1, <1>3, <1>4, Bytes
  <2>2. n > 1 /\ s[2] = B2
    BY <1>1, <2>1 DEF Coupled, n
  <2>3. ASSUME NEW i \in 1 .. (n - 2)
        PROVE  /\ u[i] = B1 => i < n - 2 /\ u[i + 1] = B2
               /\ u[i] = B2 => i > 1 /\ u[i - 1] = B1
    <3>1. /\ s[i + 2] = B1 => i + 2 < n /\ s[(i + 2) + 1] = B2
          /\ s[i + 2] = B2 => s[(i + 2) - 1] = B1
      BY <1>1, <2>3 DEF Coupled, n
    <3>2. u[i] = s[i + 2] /\ (i < n - 2 => u[i + 1] = s[(i + 2) + 1])
          /\ (i > 1 => u[i - 1] = s[(i + 2) - 1])
      BY <1>1, <1>2, <2>2, <2>3
    <3>3. i = 1 => s[(i + 2) - 1] = B2
      BY <2>2
    <3> QED BY <1>1, <1>3, <3>1, <3>2, <3>3
  <2> QED BY <1>2, <2>2, <2>3 DEF Coupled
<1>5. ASSUME Head(s) \notin Confirmation PROVE Coupled(t)
  <2>1. s[1] # B1
    BY <1>1, <1>5, Bytes
  <2>2. ASSUME NEW i \in 1 .. (n - 1)
        PROVE  /\ t[i] = B1 => i < n - 1 /\ t[i + 1] = B2
               /\ t[i] = B2 => i > 1 /\ t[i - 1] = B1
    <3>1. /\ s[i + 1] = B1 => i + 1 < n /\ s[(i + 1) + 1] = B2
          /\ s[i + 1] = B2 => s[(i + 1) - 1] = B1
      BY <1>1, <2>2 DEF Coupled, n
    <3>2. t[i] = s[i + 1] /\ (i < n - 1 => t[i + 1] = s[(i + 1) + 1])
          /\ (i > 1 => t[i - 1] = s[(i + 1) - 1])
      BY <1>1, <1>2, <2>2
    <3>3. i = 1 => (i + 1) - 1 = 1
      OBVIOUS
    <3> QED BY <1>1, <2>1, <3>1, <3>2, <3>3
  <2> QED BY <1>2, <2>2 DEF Coupled
<1> QED BY <1>4, <1>5 DEF n, t, u

LEMMA TransmitsTyped ==
  ASSUME Types, Parsed, Together, ChipTransmits
  PROVE  Types' /\ Parsed' /\ Together'
<1> DEFINE whole == IF Head(replies) \in Confirmation /\ confirms = "together" THEN 2 ELSE 1
           what  == SubSeq(replies, 1, whole)
<1>1. /\ replies # << >>
      /\ replies' = SubSeq(replies, whole + 1, Len(replies))
      /\ input' = IF hostSpeed = chipSpeed THEN input \o what ELSE input
      /\ chipSpeed' \in {Fast, Slow, chipSpeed}
      /\ UNCHANGED <<pc, code, asked, options, todo, armed, retries, sent, answers>>
      /\ UNCHANGED <<hostSpeed, output, confirms, awake, received, executed>>
  BY DEF ChipTransmits, host
<1>2. replies \in Seq(Items) /\ input \in Seq(Items)
  BY DEF Types
<1>3. whole \in {1, 2} /\ whole <= Len(replies)
  BY <1>1, <1>2, CoupledShrinks DEF Together
<1>4. replies' \in Seq(Items) /\ what \in Seq(Items)
  <2> HIDE DEF whole
  <2> QED BY <1>1, <1>2, <1>3
<1>5. input' \in Seq(Items)
  <2>1. input \o what \in Seq(Items)
    BY <1>2, <1>4, ConcatProperties, Zenon
  <2> QED BY <1>1, <1>2, <2>1, Zenon
<1>6. chipSpeed' \in Speeds
  BY <1>1 DEF Types, Speeds
<1>7. Types'
  BY <1>1, <1>4, <1>5, <1>6 DEF Types
<1>8. pc # "parse"
  BY <1>1 DEF Parsed, Quiet
<1>9. Parsed'
  BY <1>1, <1>8 DEF Parsed
<1>10. Together'
  <2> SUFFICES ASSUME confirms = "together" PROVE Coupled(replies')
    BY <1>1 DEF Together
  <2>1. CASE Head(replies) \in Confirmation
    BY <1>1, <1>2, <2>1, CoupledShrinks DEF Together
  <2>2. CASE Head(replies) \notin Confirmation
    BY <1>1, <1>2, <2>2, CoupledShrinks DEF Together
  <2> QED BY <2>1, <2>2
<1> QED BY <1>7, <1>9, <1>10

LEMMA ExecutesCoupled ==
  ASSUME Types, Together, ChipExecutes
  PROVE  Together'
<1> SUFFICES ASSUME confirms = "together" PROVE Coupled(replies')
  BY Executes DEF Together
<1>1. PICK ok \in BOOLEAN :
        replies' = Append(replies, Event(Head(received), ok)) \o Confirmed(Head(received))
  BY Executes
<1>2. Event(Head(received), ok) \in Events
  BY Executes, ItemsTyped
<1>3. Confirmed(Head(received)) = << >> \/ Confirmed(Head(received)) = <<B1, B2>>
  BY DEF Confirmed, B1, B2
<1>4. replies \in Seq(Items) /\ Coupled(replies)
  BY DEF Types, Together
<1> QED BY <1>1, <1>2, <1>3, <1>4, CoupledGrows

-----------------------------------------------------------------------------
(* What is under way.                                                      *)

LEMMA Cons ==
  ASSUME NEW e \in Items, NEW t \in Seq(Items)
  PROVE  /\ <<e>> \o t \in Seq(Items) /\ <<e>> \o t # << >>
         /\ Head(<<e>> \o t) = e /\ Tail(<<e>> \o t) = t
         /\ SubSeq(<<e>> \o t, 1, 1) = <<e>>
         /\ SubSeq(<<e>> \o t, 2, Len(<<e>> \o t)) = t
<1> DEFINE u == <<e>>
           s == u \o t
<1>1. u \in Seq(Items) /\ Len(u) = 1 /\ u[1] = e
  BY Two2
<1> HIDE DEF u
<1>2. /\ s \in Seq(Items) /\ Len(s) = Len(u) + Len(t) /\ Len(t) \in Nat
      /\ \A i \in 1 .. Len(u) : s[i] = u[i]
      /\ \A i \in 1 .. Len(t) : s[Len(u) + i] = t[i]
  BY <1>1, ItemsJoin, LenProperties, Zenon
<1> HIDE DEF s
<1>3. Len(s) = 1 + Len(t) /\ s[1] = e /\ \A i \in 1 .. Len(t) : s[1 + i] = t[i]
  BY <1>1, <1>2
<1>4. s # << >> /\ Head(s) = e
  BY <1>2, <1>3
<1>5. /\ Tail(s) \in Seq(Items) /\ Len(Tail(s)) = Len(s) - 1
      /\ \A i \in 1 .. Len(Tail(s)) : Tail(s)[i] = s[i + 1]
  BY <1>2, <1>4, HeadTailProperties, Zenon
<1>6. Tail(s) = t
  <2> DEFINE v == Tail(s)
  <2> HIDE DEF v
  <2>1. v \in Seq(Items) /\ Len(v) = Len(t) /\ \A i \in 1 .. Len(v) : v[i] = t[i]
    <3>1. v \in Seq(Items) /\ Len(v) = Len(s) - 1 /\ \A i \in 1 .. Len(v) : v[i] = s[i + 1]
      BY <1>5, Zenon DEF v
    <3>2. Len(v) = Len(t)
      BY <1>2, <1>3, <3>1
    <3>3. ASSUME NEW i \in 1 .. Len(v) PROVE v[i] = t[i]
      BY <1>2, <1>3, <3>1, <3>2
    <3> QED BY <3>1, <3>2, <3>3
  <2>2. v = t
    BY <2>1, SeqEqual, Zenon
  <2> QED BY <2>2 DEF v
<1>7. SubSeq(s, 2, Len(s)) = t
  BY <1>2, <1>4, <1>6, TailIsSubSeq, Zenon
<1>8. SubSeq(s, 1, 1) = u
  <2> DEFINE v == SubSeq(s, 1, 1)
  <2>1. v \in Seq(Items) /\ Len(v) = 1 /\ v[1] = s[1]
    BY <1>2, <1>3
  <2> HIDE DEF v
  <2>2. Len(v) = Len(u) /\ \A i \in 1 .. Len(v) : v[i] = u[i]
    BY <1>1, <1>3, <2>1
  <2>3. v = u
    BY <1>1, <2>1, <2>2, SeqEqual, Zenon
  <2> QED BY <2>3 DEF v
<1> QED BY <1>2, <1>4, <1>6, <1>7, <1>8 DEF s, u

\* The answer to a command.
Answer(c, ok) == <<Event(c, ok)>> \o Confirmed(c)

LEMMA Answers ==
  ASSUME NEW c \in Commands, NEW ok \in BOOLEAN
  PROVE  /\ Answer(c, ok) # << >> /\ Head(Answer(c, ok)) = Event(c, ok)
         /\ Tail(Answer(c, ok)) = Confirmed(c)
         /\ SubSeq(Answer(c, ok), 1, 1) = <<Event(c, ok)>>
         /\ SubSeq(Answer(c, ok), 2, Len(Answer(c, ok))) = Confirmed(c)
         /\ Confirmed(c) = << >> => Answer(c, ok) = <<Event(c, ok)>>
<1>1. Event(c, ok) \in Items /\ Confirmed(c) \in Seq(Items)
  BY ItemsTyped
<1>2. <<Event(c, ok)>> \in Seq(Items)
  BY <1>1, Two2
<1>3. <<Event(c, ok)>> \o << >> = <<Event(c, ok)>>
  BY <1>2, ConcatEmptySeq, Zenon
<1> QED BY <1>1, <1>3, Cons DEF Answer

\* The items of the queues, and what a command's confirmation is.
LEMMA Confirmations ==
  ASSUME NEW c
  PROVE  /\ Confirmed(c) = << >> \/ (/\ Confirmed(c) = <<B1, B2>> /\ confirms # "none"
                                     /\ c = "download_minidriver")
         /\ <<B1, B2>> # << >> /\ Head(<<B1, B2>>) = B1 /\ Len(<<B1, B2>>) = 2
         /\ SubSeq(<<B1, B2>>, 1, 2) = <<B1, B2>> /\ SubSeq(<<B1, B2>>, 3, 2) = << >>
<1>1. Confirmed(c) = << >> \/ (/\ Confirmed(c) = <<B1, B2>> /\ confirms # "none"
                               /\ c = "download_minidriver")
  BY DEF Confirmed, B1, B2
<1> DEFINE s == <<B1, B2>>
<1>2. s \in Seq(Items) /\ Len(s) = 2 /\ s[1] = B1 /\ s[2] = B2
  BY Bytes, Two2
<1> HIDE DEF s
<1>3. s # << >> /\ Head(s) = B1
  BY <1>2
<1>4. SubSeq(s, 1, 2) = s
  BY <1>2, SubSeqFull
<1>5. SubSeq(s, 3, 2) = << >>
  BY SubSeqEmpty
<1> QED BY <1>1, <1>2, <1>3, <1>4, <1>5 DEF s

\* No call waits for an answer unless the one before it leads there.
LEMMA NextCall ==
  ASSUME Types, Parsed, pc = "run", Return, Kind \notin {"attach", "exit"}
  PROVE  /\ Kind' # "flush"
         /\ Head(todo') = On => Head(todo) = W("reset")
         /\ Kind' = "read_event" =>
              \/ Head(todo) = W(Arg')
              \/ Arg' = "reset" /\ Head(todo) = On
         /\ Kind' = "read2" => Head(todo) = R("download_minidriver")
         /\ Kind' = "read2" => "no2bytes" \notin options /\ "patchram" \in options
         /\ Kind' = "tcsetattr" =>
              \/ Arg' = Fast /\ Head(todo) = R("update_baud_rate")
              \/ Arg' = Slow /\ Head(todo) \in {F, R("launch_ram")}
<1>1. /\ Head(todo') = todo[2] /\ Head(todo) = todo[1] /\ BehindAt(todo, 2)
      /\ AheadAt(todo', 1, options) /\ Head(todo') = todo'[1] /\ Head(todo') \in AllCalls
  BY Returns
<1>2. Kind' = todo[2][1] /\ Arg' = todo[2][2]
  BY <1>1
<1>3. todo[2 - 1] = todo[1]
  OBVIOUS
<1>4. Kind' = "read2" => "no2bytes" \notin options /\ "patchram" \in options
  BY <1>1 DEF AheadAt
<1>5. Kind' = "tcsetattr" => Head(todo') = T(Arg') /\ Arg' \in {Slow, Fast}
  BY <1>1, Kinds DEF Speeds
<1> QED BY <1>1, <1>2, <1>3, <1>4, <1>5 DEF BehindAt

\* A call that waits for nothing finds nothing under way, and leaves nothing.
LEMMA StillQuiet ==
  ASSUME Types, Parsed, pc = "run", Return, Kind \notin {"attach", "exit"},
         UNCHANGED <<pc, confirms>>, ~Waits',
         output' = << >>, input' = << >>, received' = << >>, replies' = << >>
  PROVE  Pipe'
BY DEF Pipe, Waits, Quiet, Heard

LEMMA WritePipe ==
  ASSUME Types, Parsed, Pipe, Write
  PROVE  Pipe'
<1>1. /\ pc = "run" /\ Kind = "write" /\ Return /\ output' = Append(output, Arg)
      /\ UNCHANGED <<pc, input, confirms, received, replies>>
  BY DEF Write, chip, hci_send_cmd
<1>2. output = << >> /\ input = << >> /\ received = << >> /\ replies = << >>
  BY <1>1, Heads DEF Pipe, Waits, Quiet
<1>3. output' = <<Arg>>
  BY <1>1, <1>2
<1>4. /\ Head(todo') = R(Arg) \/ (Head(todo') = On /\ Arg = "reset")
  <2>1. /\ Head(todo') = todo[2] /\ Head(todo) = todo[1] /\ AheadAt(todo, 1, options)
    BY <1>1, Returns
  <2>2. 1 + 1 = 2
    OBVIOUS
  <2> QED BY <1>1, <2>1, <2>2 DEF AheadAt
<1>5. CASE Head(todo') = R(Arg)
  <2>1. Kind' = "read_event" /\ Arg' = Arg
    BY <1>5, Heads
  <2>2. Pending(Arg)'
    BY <1>1, <1>2, <1>3, <2>1 DEF Pending
  <2>3. Head(todo') # On
    BY <2>1, Heads
  <2> QED BY <1>1, <1>2, <2>1, <2>2, <2>3 DEF Pipe, Waits, Heard
<1>6. CASE Head(todo') = On /\ Arg = "reset"
  <2>1. Kind' = "alarm"
    BY <1>6, Heads
  <2>2. Pending("reset")'
    BY <1>1, <1>2, <1>3, <1>6 DEF Pending
  <2> QED BY <1>1, <1>2, <1>6, <2>1, <2>2 DEF Pipe, Waits, Heard
<1> QED BY <1>4, <1>5, <1>6

LEMMA ReadPipe ==
  ASSUME Types, Parsed, FitsChip, Pipe, ReadEvent
  PROVE  /\ Pipe' /\ pc' = "run" /\ Return
         /\ Head(input) \in Events /\ Head(input).event = Arg
         /\ answers' = Append(answers, [got |-> Head(input), for |-> Arg])
<1> DEFINE c == Arg
<1>1. /\ pc = "run" /\ Kind = "read_event" /\ input # << >> /\ input' = Tail(input)
      /\ UNCHANGED <<output, hostSpeed, confirms, received, replies, chipSpeed>>
  BY DEF ReadEvent, chip
<1>2. Head(todo) = R(c) /\ c \in Commands
  BY <1>1, NowHeads, Kinds
<1>3. PICK ok \in BOOLEAN :
        /\ output = << >> /\ received = << >>
        /\ \/ replies = Confirmed(c) /\ input = <<Event(c, ok)>>
           \/ replies = << >> /\ input = Answer(c, ok)
  BY <1>1 DEF Pipe, Pending, Answer
<1>4. Head(input) = Event(c, ok) /\ (input = <<Event(c, ok)>> => input' = << >>)
      /\ (input = Answer(c, ok) => input' = Confirmed(c))
  BY <1>1, <1>2, <1>3, Answers
<1>5. Head(input) \in Events /\ Head(input).event = c
  <2>1. Event(c, ok).event = c
    BY DEF Event
  <2>2. Event(c, ok) \in Events
    BY <1>2, ItemsTyped
  <2> QED BY <1>4, <2>1, <2>2
<1>6. /\ answers' = Append(answers, [got |-> Head(input), for |-> c])
      /\ Return /\ UNCHANGED pc
  BY <1>5 DEF ReadEvent
<1>7. /\ Kind' = "read2" => c = "download_minidriver"
      /\ Head(todo') # On /\ Kind' # "read_event"
      /\ Kind' = "read2" => "no2bytes" \notin options /\ "patchram" \in options
  BY <1>1, <1>2, <1>6, NextCall, Heads
<1>8. Pipe'
  <2>1. CASE Confirmed(c) = << >>
    <3>1. output' = << >> /\ input' = << >> /\ received' = << >> /\ replies' = << >>
      BY <1>1, <1>2, <1>3, <1>4, <2>1, Answers
    <3>2. Kind' # "read2"
      BY <1>7, <2>1 DEF FitsChip, Confirmed
    <3> QED BY <1>1, <1>6, <1>7, <3>1, <3>2, StillQuiet DEF Waits
  <2>2. CASE Confirmed(c) = <<B1, B2>> /\ confirms # "none" /\ c = "download_minidriver"
    <3>1. AheadAt(todo, 1, options) /\ Head(todo) = todo[1] /\ Head(todo') = todo[2]
      BY <1>1, <1>6, Returns
    <3>e. 1 + 1 = 2
      OBVIOUS
    <3>2. "patchram" \in options /\ ("no2bytes" \notin options => Head(todo') = Two)
      BY <1>1, <2>2, <3>1, <3>e DEF AheadAt
    <3>3. confirms = "together" /\ Head(todo') = Two
      BY <2>2, <3>2 DEF FitsChip
    <3>4. Kind' = "read2" /\ Head(todo') # On
      BY <3>3, Heads
    <3>5. Confirmed("download_minidriver")' = Confirmed(c)
      BY <1>1, <2>2 DEF Confirmed
    <3>6. \/ replies' = Confirmed("download_minidriver")' /\ input' = << >>
          \/ replies' = << >> /\ input' = Confirmed("download_minidriver")'
      BY <1>1, <1>3, <1>4, <3>5
    <3>7. Heard'
      BY <1>1, <1>6 DEF Heard, Pipe
    <3> QED BY <1>1, <1>3, <3>3, <3>4, <3>6, <3>7 DEF Pipe, Waits
  <2> QED BY <2>1, <2>2, Confirmations
<1> QED BY <1>1, <1>5, <1>6, <1>8

LEMMA ReadTwoPipe ==
  ASSUME Types, Parsed, Pipe, ReadTwoBytes
  PROVE  Pipe' /\ pc' = "run" /\ Return
<1>1. /\ pc = "run" /\ Kind = "read2" /\ input # << >>
      /\ UNCHANGED <<output, hostSpeed, confirms, received, replies>>
  BY DEF ReadTwoBytes, chip
<1>2. output = << >> /\ received = << >> /\ replies = << >> /\ input = <<B1, B2>>
  <2>1. /\ output = << >> /\ received = << >>
        /\ \/ replies = Confirmed("download_minidriver") /\ input = << >>
           \/ replies = << >> /\ input = Confirmed("download_minidriver")
    BY <1>1 DEF Pipe
  <2> QED BY <1>1, <2>1, Confirmations
<1>3. Head(input) \notin Events
  BY <1>2, Confirmations, Bytes
<1>4. input' = << >> /\ Return /\ UNCHANGED pc
  <2>1. input' = SubSeq(input, IF Len(input) > 1 THEN 3 ELSE 2, Len(input)) /\ Return /\ UNCHANGED pc
    BY <1>3 DEF ReadTwoBytes
  <2>2. Len(input) = 2 /\ SubSeq(input, 3, 2) = << >>
    BY <1>2, Confirmations
  <2> QED BY <2>1, <2>2
<1>5. ~Waits'
  <2>1. Head(todo) = Two
    BY <1>1, NowHeads, Kinds
  <2> QED BY <1>1, <1>4, <2>1, NextCall, Heads DEF Waits
<1> QED BY <1>1, <1>2, <1>4, <1>5, StillQuiet

LEMMA OtherPipe ==
  ASSUME Types, Parsed, Pipe, Alarm \/ SetSpeed \/ Flush
  PROVE  Pipe'
<1>1. CASE Alarm /\ Head(todo) = On
  <2>1. /\ pc = "run" /\ Kind = "alarm" /\ Return
        /\ UNCHANGED <<pc, hostSpeed, output, input, confirms, received, replies, chipSpeed>>
    BY <1>1 DEF Alarm, chip, uart
  <2>2. Pending("reset") /\ Heard
    BY <1>1, <2>1 DEF Pipe
  <2>3. Head(todo') = R("reset")
    <3>1. AheadAt(todo, 1, options) /\ Head(todo) = todo[1] /\ Head(todo') = todo[2]
      BY <2>1, Returns
    <3>e. 1 + 1 = 2
      OBVIOUS
    <3> QED BY <1>1, <3>1, <3>e DEF AheadAt
  <2>4. Kind' = "read_event" /\ Arg' = "reset" /\ Head(todo') # On
    BY <2>3, Heads
  <2>5. Pending("reset")' /\ Heard'
    BY <2>1, <2>2 DEF Pending, Heard, Quiet, Confirmed
  <2> QED BY <2>1, <2>4, <2>5 DEF Pipe, Waits
<1>2. CASE Alarm /\ Head(todo) # On
  <2>1. /\ pc = "run" /\ Kind = "alarm" /\ Return
        /\ UNCHANGED <<pc, output, input, confirms, received, replies>>
    BY <1>2 DEF Alarm, chip, uart
  <2>2. Quiet /\ input = << >>
    BY <1>2, <2>1 DEF Pipe, Waits
  <2>3. ~Waits'
    BY <1>2, <2>1, NextCall, Heads DEF Waits
  <2> QED BY <2>1, <2>2, <2>3, StillQuiet DEF Quiet
<1>3. CASE SetSpeed
  <2>1. /\ pc = "run" /\ Kind = "tcsetattr" /\ Return
        /\ UNCHANGED <<pc, output, input, confirms, received, replies>>
    BY <1>3 DEF SetSpeed, chip
  <2>2. Quiet /\ input = << >>
    BY <2>1, Heads DEF Pipe, Waits
  <2>3. ~Waits'
    BY <2>1, NextCall, Heads DEF Waits
  <2> QED BY <2>1, <2>2, <2>3, StillQuiet DEF Quiet
<1>4. CASE Flush
  <2>1. /\ pc = "run" /\ Kind = "flush" /\ Return /\ output' = << >> /\ input' = << >>
        /\ UNCHANGED <<pc, confirms, received, replies>>
    BY <1>4 DEF Flush, chip
  <2>2. Quiet
    BY <2>1, Heads DEF Pipe, Waits
  <2>3. ~Waits'
    BY <2>1, NextCall, Heads DEF Waits
  <2> QED BY <2>1, <2>2, <2>3, StillQuiet DEF Quiet
<1> QED BY <1>1, <1>2, <1>3, <1>4

\* Only the event that is transmitted alone can change the chip's speed.
LEMMA Transmits ==
  ASSUME Types, ChipTransmits
  PROVE  /\ replies # << >>
         /\ UNCHANGED <<pc, code, asked, options, todo, armed, retries, sent, answers>>
         /\ UNCHANGED <<hostSpeed, output, confirms, awake, received, executed>>
         /\ \A c \in Commands, ok \in BOOLEAN : replies = Answer(c, ok) =>
                   /\ replies' = Confirmed(c)
                   /\ hostSpeed = chipSpeed => input' = input \o <<Event(c, ok)>>
                   /\ chipSpeed' = IF ok /\ c \in Switching THEN Target(c) ELSE chipSpeed
         /\ replies = <<B1, B2>> /\ confirms = "together" =>
              /\ replies' = << >> /\ chipSpeed' = chipSpeed
              /\ hostSpeed = chipSpeed => input' = input \o <<B1, B2>>
<1> DEFINE whole == IF Head(replies) \in Confirmation /\ confirms = "together" THEN 2 ELSE 1
           what  == SubSeq(replies, 1, whole)
<1>1. /\ replies # << >>
      /\ replies' = SubSeq(replies, whole + 1, Len(replies))
      /\ input' = IF hostSpeed = chipSpeed THEN input \o what ELSE input
      /\ chipSpeed' = CASE Head(what) = Event("update_baud_rate", TRUE) -> Fast
                        [] Head(what) = Event("launch_ram", TRUE)       -> Slow
                        [] OTHER                                        -> chipSpeed
      /\ UNCHANGED <<pc, code, asked, options, todo, armed, retries, sent, answers>>
      /\ UNCHANGED <<hostSpeed, output, confirms, awake, received, executed>>
  BY DEF ChipTransmits, host
<1>2. ASSUME NEW c \in Commands, NEW ok \in BOOLEAN, replies = Answer(c, ok)
      PROVE  /\ replies' = Confirmed(c)
             /\ hostSpeed = chipSpeed => input' = input \o <<Event(c, ok)>>
             /\ chipSpeed' = IF ok /\ c \in Switching THEN Target(c) ELSE chipSpeed
  <2>1. Head(replies) = Event(c, ok) /\ Event(c, ok) \notin Confirmation
    BY <1>2, Answers, ItemsTyped, Bytes
  <2>2. whole = 1
    BY <2>1
  <2>3. SubSeq(replies, 1, 1) = <<Event(c, ok)>> /\ SubSeq(replies, 2, Len(replies)) = Confirmed(c)
    BY <1>2, Answers
  <2>4. what = <<Event(c, ok)>> /\ replies' = Confirmed(c)
    BY <1>1, <2>2, <2>3
  <2>5. Head(<<Event(c, ok)>>) = Event(c, ok)
    BY <1>2, ItemsTyped, Two2
  <2>6. \A d : Event(c, ok) = Event(d, TRUE) <=> c = d /\ ok
    BY <1>2 DEF Event
  <2> HIDE DEF what, whole
  <2>7. Head(what) = Event(c, ok)
    BY <2>4, <2>5
  <2>8. chipSpeed' = IF c = "update_baud_rate" /\ ok THEN Fast
                     ELSE IF c = "launch_ram" /\ ok THEN Slow ELSE chipSpeed
    <3>1. /\ Head(what) = Event("update_baud_rate", TRUE) <=> c = "update_baud_rate" /\ ok
          /\ Head(what) = Event("launch_ram", TRUE) <=> c = "launch_ram" /\ ok
      BY <2>6, <2>7
    <3>2. CASE c = "update_baud_rate" /\ ok
      BY <1>1, <3>1, <3>2
    <3>3. CASE c = "launch_ram" /\ ok
      BY <1>1, <3>1, <3>3
    <3>4. CASE ~(c = "update_baud_rate" /\ ok) /\ ~(c = "launch_ram" /\ ok)
      <4>1. chipSpeed' = chipSpeed
        BY <1>1, <3>1, <3>4
      <4> QED BY <3>4, <4>1
    <3> QED BY <3>2, <3>3, <3>4
  <2>9. chipSpeed' = IF ok /\ c \in Switching THEN Target(c) ELSE chipSpeed
    BY <2>8 DEF Switching, Target
  <2> QED BY <1>1, <2>4, <2>9
<1>3. ASSUME replies = <<B1, B2>>, confirms = "together"
      PROVE  /\ replies' = << >> /\ chipSpeed' = chipSpeed
             /\ hostSpeed = chipSpeed => input' = input \o <<B1, B2>>
  <2>1. Head(replies) = B1 /\ Len(replies) = 2
        /\ SubSeq(replies, 1, 2) = <<B1, B2>> /\ SubSeq(replies, 3, 2) = << >>
    BY <1>3, Confirmations
  <2>2. whole = 2
    BY <1>3, <2>1, Bytes
  <2>3. what = replies /\ replies' = << >>
    BY <1>1, <1>3, <2>1, <2>2
  <2>4. \A d : d \in Commands => B1 # Event(d, TRUE)
    BY ItemsTyped, Bytes
  <2>5. "update_baud_rate" \in Commands /\ "launch_ram" \in Commands
    BY DEF Commands
  <2> HIDE DEF what, whole
  <2>6. chipSpeed' = chipSpeed
    BY <1>1, <2>1, <2>3, <2>4, <2>5
  <2> QED BY <1>1, <1>3, <2>3, <2>6
<1> QED BY <1>1, <1>2, <1>3

\* A command under way stays under way.
LEMMA PendingTransmit ==
  ASSUME Types, Transmit, NEW c \in Commands, Pending(c), Heard
  PROVE  Pending(c)' /\ Heard'
<1>1. /\ output # << >> /\ output' = Tail(output)
      /\ received' = IF awake /\ hostSpeed = chipSpeed
                     THEN Append(received, Head(output)) ELSE received
      /\ UNCHANGED <<hostSpeed, input, confirms, chipSpeed, replies>>
  BY DEF Transmit
<1>2. output = <<c>> /\ received = << >> /\ replies = << >> /\ input = << >>
  BY <1>1 DEF Pending, Quiet
<1>3. output' = << >> /\ Append(received, Head(output)) = <<c>>
  BY <1>1, <1>2
<1>4. received' = << >> \/ (received' = <<c>> /\ hostSpeed = chipSpeed)
  BY <1>1, <1>2, <1>3
<1> QED BY <1>1, <1>2, <1>3, <1>4 DEF Pending, Heard, Quiet

LEMMA PendingExecutes ==
  ASSUME Types, ChipExecutes, NEW c \in Commands, Pending(c), Heard
  PROVE  Pending(c)' /\ Heard'
<1>1. /\ received # << >> /\ received' = Tail(received)
      /\ UNCHANGED <<hostSpeed, output, input, confirms, chipSpeed>>
  BY Executes
<1>2. output = << >> /\ received = <<c>> /\ replies = << >> /\ input = << >>
  BY <1>1 DEF Pending, Quiet
<1>3. Head(received) = c /\ received' = << >>
  BY <1>1, <1>2
<1>4. PICK ok \in BOOLEAN : replies' = Append(replies, Event(c, ok)) \o Confirmed(c)
  BY <1>3, Executes
<1>5. replies' = Answer(c, ok)
  <2>1. Append(<< >>, Event(c, ok)) = <<Event(c, ok)>>
    OBVIOUS
  <2> QED BY <1>2, <1>4, <2>1 DEF Answer
<1>6. Answer(c, ok) = <<Event(c, ok)>> \o Confirmed(c)' 
  BY <1>1 DEF Answer, Confirmed
<1> QED BY <1>1, <1>2, <1>3, <1>5, <1>6 DEF Pending, Heard

LEMMA PendingTransmits ==
  ASSUME Types, ChipTransmits, NEW c \in Commands, Pending(c), Heard,
         c = "download_minidriver" => confirms # "apart"
  PROVE  /\ Pending(c)' /\ Heard'
         /\ \/ chipSpeed' = chipSpeed /\ (input' # <<Event(c, TRUE)>> \/ c \notin Switching)
            \/ c \in Switching /\ chipSpeed' = Target(c) /\ input' = <<Event(c, TRUE)>>
<1>1. /\ replies # << >>
      /\ UNCHANGED <<hostSpeed, output, confirms, received>>
  BY Transmits
<1>2. hostSpeed = chipSpeed
  BY <1>1 DEF Heard
<1>3. PICK ok \in BOOLEAN :
        /\ output = << >> /\ received = << >>
        /\ \/ replies = Answer(c, ok) /\ input = << >>
           \/ replies = Confirmed(c) /\ input = <<Event(c, ok)>>
  BY <1>1 DEF Pending, Quiet, Answer
<1>4. Confirmed(c)' = Confirmed(c)
  BY <1>1 DEF Confirmed
<1>5. Event(c, ok) \in Items /\ Event(c, TRUE) \in Items /\ (~ok => <<Event(c, ok)>> # <<Event(c, TRUE)>>)
  <2>1. ~ok => Event(c, ok) # Event(c, TRUE)
    BY DEF Event
  <2>2. <<Event(c, ok)>>[1] = Event(c, ok) /\ <<Event(c, TRUE)>>[1] = Event(c, TRUE)
    OBVIOUS
  <2>3. Event(c, ok) \in Items /\ Event(c, TRUE) \in Items
    BY ItemsTyped
  <2> QED BY <2>1, <2>2, <2>3
<1>6. CASE replies = Answer(c, ok) /\ input = << >>
  <2>1. /\ replies' = Confirmed(c) /\ input' = << >> \o <<Event(c, ok)>>
        /\ chipSpeed' = IF ok /\ c \in Switching THEN Target(c) ELSE chipSpeed
    BY <1>2, <1>6, Transmits
  <2>2. input' = <<Event(c, ok)>>
    <3>1. <<Event(c, ok)>> \in Seq(Items)
      BY <1>5, Two2
    <3> QED BY <2>1, <3>1, ConcatEmptySeq, Zenon
  <2>3. Pending(c)'
    BY <1>1, <1>3, <1>4, <2>1, <2>2 DEF Pending
  <2>4. Confirmed(c) # << >> => c \notin Switching
    BY Confirmations DEF Switching
  <2>5. Heard'
    BY <1>1, <1>2, <1>3, <2>1, <2>4 DEF Heard
  <2>6. ok \/ ~ok
    OBVIOUS
  <2> QED BY <1>5, <2>1, <2>2, <2>3, <2>5, <2>6
<1>7. CASE replies = Confirmed(c) /\ input = <<Event(c, ok)>>
  <2>1. replies = <<B1, B2>> /\ confirms = "together" /\ c = "download_minidriver"
        /\ c \notin Switching
    BY <1>1, <1>7, Confirmations DEF Switching, Types
  <2>2. replies' = << >> /\ chipSpeed' = chipSpeed /\ input' = <<Event(c, ok)>> \o Confirmed(c)
    BY <1>2, <1>7, <2>1, Transmits
  <2>3. Pending(c)'
    BY <1>1, <1>3, <1>4, <2>2 DEF Pending
  <2> QED BY <1>1, <1>3, <2>1, <2>2, <2>3 DEF Heard
<1> QED BY <1>3, <1>6, <1>7

\* What each chip step does to what is under way.
ChipMoves == Transmit \/ ChipExecutes \/ ChipTransmits

LEMMA Unmoved ==
  ASSUME ChipMoves
  PROVE  /\ UNCHANGED <<pc, code, asked, options, todo, armed, retries, sent, answers>>
         /\ UNCHANGED <<hostSpeed, confirms, awake>>
         /\ output # << >> \/ received # << >> \/ replies # << >>
BY DEF ChipMoves, Transmit, ChipExecutes, ChipTransmits, host, uart

LEMMA PendingMoves ==
  ASSUME Types, ChipMoves, NEW c \in Commands, Pending(c), Heard,
         c = "download_minidriver" => confirms # "apart"
  PROVE  /\ Pending(c)' /\ Heard'
         /\ \/ chipSpeed' = chipSpeed /\ (input' # <<Event(c, TRUE)>> \/ c \notin Switching \/ input' = input)
            \/ c \in Switching /\ chipSpeed' = Target(c) /\ input' = <<Event(c, TRUE)>>
<1>1. CASE Transmit
  BY <1>1, PendingTransmit DEF Transmit
<1>2. CASE ChipExecutes
  BY <1>2, PendingExecutes, Executes
<1>3. CASE ChipTransmits
  BY <1>3, PendingTransmits
<1> QED BY <1>1, <1>2, <1>3 DEF ChipMoves

\* The two bytes of the confirmation under way.
LEMMA ConfirmationMoves ==
  ASSUME Types, ChipMoves, Heard, output = << >>, received = << >>, confirms = "together",
         \/ replies = Confirmed("download_minidriver") /\ input = << >>
         \/ replies = << >> /\ input = Confirmed("download_minidriver")
  PROVE  /\ Heard' /\ output' = << >> /\ received' = << >> /\ chipSpeed' = chipSpeed
         /\ \/ replies' = Confirmed("download_minidriver")' /\ input' = << >>
            \/ replies' = << >> /\ input' = Confirmed("download_minidriver")'
<1>1. ChipTransmits /\ replies # << >>
  BY Unmoved DEF ChipMoves, Transmit, ChipExecutes
<1>2. replies = <<B1, B2>> /\ input = << >> /\ Confirmed("download_minidriver") = <<B1, B2>>
  BY <1>1, Confirmations
<1>3. hostSpeed = chipSpeed
  BY <1>1 DEF Heard
<1>4. /\ replies' = << >> /\ chipSpeed' = chipSpeed /\ input' = << >> \o <<B1, B2>>
      /\ UNCHANGED <<hostSpeed, output, confirms, received>>
  BY <1>1, <1>2, <1>3, Transmits
<1>5. input' = <<B1, B2>>
  <2>1. <<B1, B2>> \in Seq(Items)
    BY Bytes, Two2
  <2> QED BY <1>4, <2>1, ConcatEmptySeq, Zenon
<1>6. Confirmed("download_minidriver")' = Confirmed("download_minidriver")
  BY <1>4 DEF Confirmed
<1> QED BY <1>2, <1>3, <1>4, <1>5, <1>6 DEF Heard

LEMMA ChipPipe ==
  ASSUME Types, Parsed, FitsChip, Pipe, ChipMoves, pc = "run"
  PROVE  Pipe'
<1>1. UNCHANGED <<pc, todo, options, hostSpeed, confirms>>
  BY Unmoved
<1>2. Head(todo)' = Head(todo) /\ Kind' = Kind /\ Arg' = Arg
  BY <1>1
<1>3. CASE Head(todo) = On
  <2>1. Pending("reset") /\ Heard /\ "reset" \in Commands
    BY <1>3 DEF Pipe, Commands
  <2>2. Pending("reset")' /\ Heard'
    BY <2>1, PendingMoves
  <2>3. Kind = "alarm"
    BY <1>3, Heads
  <2> QED BY <1>2, <1>3, <2>2, <2>3 DEF Pipe, Waits
<1>4. CASE Kind = "read_event"
  <2>1. PICK c \in Commands : c = Arg
    BY <1>4, NowHeads, Kinds
  <2>2. Pending(c) /\ Heard
    BY <1>4, <2>1 DEF Pipe
  <2>3. c = "download_minidriver" => confirms # "apart"
    <3>1. AheadAt(todo, 1, options) /\ Head(todo) = todo[1]
      <4>1. Shaped(todo, options) /\ todo \in Seq(AllCalls) /\ Head(todo) = todo[1]
        BY NowHeads
      <4> QED BY <4>1 DEF Shaped, Begun, Ahead, Finite
    <3>2. c = "download_minidriver" => "patchram" \in options
      BY <1>4, <2>1, <3>1 DEF AheadAt
    <3> QED BY <3>2 DEF FitsChip
  <2>4. Pending(c)' /\ Heard'
    BY <2>2, <2>3, PendingMoves
  <2>5. Pending(Arg)'
    BY <1>2, <2>1, <2>4 DEF Pending, Confirmed
  <2>6. Head(todo) # On
    BY <1>4, Heads
  <2> QED BY <1>2, <1>4, <2>4, <2>5, <2>6 DEF Pipe, Waits
<1>5. CASE Kind = "read2"
  <2>1. /\ Heard /\ output = << >> /\ received = << >> /\ confirms = "together"
        /\ \/ replies = Confirmed("download_minidriver") /\ input = << >>
           \/ replies = << >> /\ input = Confirmed("download_minidriver")
    BY <1>5 DEF Pipe
  <2>2. /\ Heard' /\ output' = << >> /\ received' = << >>
        /\ \/ replies' = Confirmed("download_minidriver")' /\ input' = << >>
           \/ replies' = << >> /\ input' = Confirmed("download_minidriver")'
    BY <2>1, ConfirmationMoves
  <2>3. Head(todo) # On
    BY <1>5, Heads
  <2> QED BY <1>1, <1>2, <1>5, <2>1, <2>2, <2>3 DEF Pipe, Waits
<1>6. CASE ~Waits
  BY <1>6, Unmoved DEF Pipe, Quiet
<1> QED BY <1>3, <1>4, <1>5, <1>6 DEF Waits

-----------------------------------------------------------------------------
(* The speeds.                                                             *)

LEMMA SwitchingCommands ==
  Switching \subseteq Commands /\ "reset" \notin Switching /\ "download_minidriver" \notin Switching
BY DEF Switching, Commands

\* At a call that neither flushes nor changes the speed, with no answer in the
\* queue that has changed the chip's.
LEMMA Agreed ==
  ASSUME Rates, pc = "run", Kind # "flush", Kind # "tcsetattr",
         Kind # "read_event" \/ Arg \notin Switching
  PROVE  hostSpeed = chipSpeed /\ (Keeps(todo) => hostSpeed = Slow)
<1>1. ASSUME NEW c \in Switching, Head(todo) = R(c) PROVE FALSE
  <2>1. R(c)[1] = "read_event" /\ R(c)[2] = c
    BY Heads
  <2>2. Kind = "read_event" /\ Arg = c
    BY <1>1, <2>1
  <2> QED BY <2>2
<1> QED BY <1>1 DEF Rates, Switched

LEMMA StillAgreed ==
  ASSUME pc' = "run", Kind' # "flush", Kind' # "tcsetattr",
         Kind' # "read_event" \/ Arg' \notin Switching \/ input' = << >>,
         hostSpeed' = chipSpeed', Keeps(todo') => hostSpeed' = Slow
  PROVE  Rates'
<1>1. ASSUME NEW c \in Switching PROVE ~Switched(c)'
  <2>1. <<Event(c, TRUE)>> # << >>
    OBVIOUS
  <2>2. R(c)[1] = "read_event" /\ R(c)[2] = c
    BY Heads
  <2>3. Head(todo') = R(c) => Kind' = "read_event" /\ Arg' = c
    BY <2>2
  <2> QED BY <2>1, <2>3 DEF Switched
<1> QED BY <1>1 DEF Rates

LEMMA PlainRates ==
  ASSUME Types, Parsed, Pipe, Rates, Write \/ ReadTwoBytes \/ Alarm
  PROVE  Rates'
<1>1. /\ pc = "run" /\ Kind \in {"write", "read2", "alarm"}
      /\ UNCHANGED <<hostSpeed, chipSpeed>>
  BY DEF Write, ReadTwoBytes, Alarm, uart, chip
<1>2. Return /\ pc' = "run"
  BY <1>1, ReadTwoPipe DEF Write, Alarm
<1>3. hostSpeed = chipSpeed /\ (Keeps(todo) => hostSpeed = Slow)
  BY <1>1, Agreed
<1>4. Keeps(todo') => Keeps(todo)
  BY <1>1, <1>2, Returns
<1>5. Kind' # "flush" /\ Kind' # "tcsetattr"
  BY <1>1, <1>2, NextCall, Heads
<1>6. Kind' # "read_event" \/ Arg' \notin Switching \/ input' = << >>
  <2>1. CASE Kind = "write"
    <3>1. Write
      BY <2>1 DEF ReadTwoBytes, Alarm
    <3>2. input = << >>
      BY <2>1, <1>1, Heads DEF Pipe, Waits
    <3> QED BY <3>1, <3>2 DEF Write
  <2>2. CASE Kind # "write"
    <3>1. Kind' = "read_event" => Arg' = "reset"
      BY <1>1, <1>2, <2>2, NextCall, Heads
    <3> QED BY <3>1, SwitchingCommands
  <2> QED BY <2>1, <2>2
<1> QED BY <1>1, <1>2, <1>3, <1>4, <1>5, <1>6, StillAgreed

LEMMA SpeedRates ==
  ASSUME Types, Parsed, Rates, SetSpeed
  PROVE  Rates'
<1>1. /\ pc = "run" /\ Kind = "tcsetattr" /\ hostSpeed' = Arg /\ Return /\ UNCHANGED <<pc, chipSpeed>>
  BY DEF SetSpeed, chip
<1>2. hostSpeed' = chipSpeed'
  BY <1>1 DEF Rates
<1>3. /\ Head(todo) = T(Arg) /\ Arg \in {Slow, Fast} /\ Head(todo) = todo[1] /\ Shaped(todo, options)
  BY <1>1, NowHeads, Kinds DEF Speeds
<1>4. Keeps(todo') => hostSpeed' = Slow
  <2>1. Keeps(todo') => Keeps(todo)
    BY <1>1, Returns
  <2> QED BY <1>1, <1>3, <2>1, FastFollows
<1>5. Kind' # "flush" /\ Kind' # "tcsetattr" /\ Kind' # "read_event"
  BY <1>1, <1>3, NextCall, Heads
<1> QED BY <1>1, <1>2, <1>4, <1>5, StillAgreed

LEMMA FlushRates ==
  ASSUME Types, Parsed, Rates, Flush
  PROVE  Rates'
<1>1. pc = "run" /\ Kind = "flush" /\ Return /\ UNCHANGED <<pc, chipSpeed>>
  BY DEF Flush, chip
<1>2. Head(todo') = T(Slow)
  <2>1. AheadAt(todo, 1, options) /\ Head(todo) = todo[1] /\ Head(todo') = todo[2]
    BY <1>1, Returns
  <2>2. 1 + 1 = 2
    OBVIOUS
  <2> QED BY <1>1, <2>1, <2>2 DEF AheadAt
<1>3. Kind' = "tcsetattr" /\ Arg' = Slow
  BY <1>2, Heads
<1>4. chipSpeed' = Slow
  BY <1>1 DEF Rates
<1> QED BY <1>3, <1>4 DEF Rates

LEMMA ReadRates ==
  ASSUME Types, Parsed, FitsChip, Pipe, Rates, ReadEvent, Head(input).ok
  PROVE  Rates'
<1> DEFINE c == Arg
<1>1. /\ pc = "run" /\ Kind = "read_event" /\ input # << >>
      /\ UNCHANGED <<hostSpeed, chipSpeed>>
  BY DEF ReadEvent, chip
<1>2. Return /\ pc' = "run"
  BY ReadPipe
<1>3. Head(todo) = R(c) /\ c \in Commands /\ Head(todo) = todo[1] /\ todo \in Seq(AllCalls)
  BY <1>1, NowHeads, Kinds
<1>4. Keeps(todo') => Keeps(todo)
  BY <1>1, <1>2, Returns
<1>5. Kind' # "flush" /\ Kind' # "read_event"
  BY <1>1, <1>2, <1>3, NextCall, Heads
<1>6. CASE c \notin Switching
  <2>1. hostSpeed = chipSpeed /\ (Keeps(todo) => hostSpeed = Slow)
    BY <1>1, <1>6, Agreed
  <2>2. Kind' # "tcsetattr"
    <3>1. c # "update_baud_rate" /\ c # "launch_ram"
      BY <1>6 DEF Switching
    <3>2. /\ R("update_baud_rate")[2] = "update_baud_rate" /\ R("launch_ram")[2] = "launch_ram"
          /\ R(c)[2] = c /\ F[1] = "flush" /\ R(c)[1] = "read_event"
      BY Heads
    <3>3. Kind' = "tcsetattr" => Head(todo) = R("update_baud_rate") \/ Head(todo) \in {F, R("launch_ram")}
      BY <1>1, <1>2, NextCall
    <3> QED BY <1>3, <3>1, <3>2, <3>3
  <2> QED BY <1>1, <1>2, <1>4, <1>5, <2>1, <2>2, StillAgreed
<1>7. CASE c \in Switching
  <2>1. Switched(c)
    <3>1. PICK ok \in BOOLEAN : input = <<Event(c, ok)>> \/ input = Answer(c, ok)
      BY <1>1 DEF Pipe, Pending, Quiet, Answer
    <3>2. Confirmed(c) = << >>
      BY <1>7, SwitchingCommands, Confirmations
    <3>3. input = <<Event(c, ok)>> /\ Head(input) = Event(c, ok)
      BY <1>3, <3>1, <3>2, Answers
    <3>4. Event(c, ok).ok = ok
      BY DEF Event
    <3>5. ok = TRUE
      BY <3>3, <3>4, Zenon
    <3> QED BY <1>3, <3>3, <3>5, Zenon DEF Switched
  <2>2. chipSpeed' = Target(c) /\ (Keeps(todo) => hostSpeed = Slow)
    BY <1>1, <1>7, <2>1 DEF Rates
  <2>3. CASE c = "update_baud_rate"
    <3>1. Head(todo') = T(Fast)
      <4>1. AheadAt(todo, 1, options) /\ Head(todo') = todo[2]
        BY <1>1, <1>2, Returns
      <4>2. 1 + 1 = 2
        OBVIOUS
      <4> QED BY <1>1, <1>3, <2>3, <4>1, <4>2 DEF AheadAt
    <3>2. Kind' = "tcsetattr" /\ Arg' = Fast
      BY <3>1, Heads
    <3>3. chipSpeed' = Fast
      BY <2>2, <2>3 DEF Target
    <3> QED BY <3>2, <3>3 DEF Rates
  <2>4. CASE c = "launch_ram"
    <3>1. chipSpeed' = Slow
      BY <2>2, <2>4 DEF Target
    <3>2. CASE Kind' = "tcsetattr"
      <4>1. Arg' = Slow
        <5>1. R("update_baud_rate")[2] = "update_baud_rate" /\ R(c)[2] = c
          BY Heads
        <5>2. Arg' = Slow \/ Head(todo) = R("update_baud_rate")
          BY <1>1, <1>2, <3>2, NextCall
        <5> QED BY <1>3, <2>4, <5>1, <5>2
      <4> QED BY <3>1, <3>2, <4>1 DEF Rates
    <3>3. CASE Kind' # "tcsetattr"
      <4>1. ~Followed(todo, 1)
        <5>1. Head(todo') = todo[2]
          BY <1>1, <1>2, Returns
        <5>2. 1 + 1 = 2
          OBVIOUS
        <5> QED BY <3>3, <5>1, <5>2, Heads DEF Followed
      <4>2. Keeps(todo)
        <5>1. 1 \in 1 .. Len(todo)
          BY <1>3, NowHeads, <1>1
        <5> QED BY <1>3, <2>4, <4>1, <5>1 DEF Keeps
      <4> QED BY <1>1, <1>2, <1>5, <2>2, <3>1, <3>3, <4>2, StillAgreed
    <3> QED BY <3>2, <3>3
  <2> QED BY <1>7, <2>3, <2>4 DEF Switching
<1> QED BY <1>6, <1>7

LEMMA ChipRates ==
  ASSUME Types, Parsed, FitsChip, Pipe, Rates, ChipMoves, pc = "run"
  PROVE  Rates'
<1>1. UNCHANGED <<pc, todo, options, hostSpeed, confirms>>
  BY Unmoved
<1>2. Head(todo)' = Head(todo) /\ Kind' = Kind /\ Arg' = Arg /\ (Keeps(todo') <=> Keeps(todo))
  BY <1>1
<1>3. Waits
  BY Unmoved DEF Pipe, Quiet
<1>4. CASE Head(todo) = On
  <2>1. Kind = "alarm" /\ Pending("reset") /\ Heard /\ "reset" \in Commands
    BY <1>4, Heads DEF Pipe, Commands
  <2>2. chipSpeed' = chipSpeed
    BY <2>1, PendingMoves, SwitchingCommands
  <2>3. hostSpeed = chipSpeed /\ (Keeps(todo) => hostSpeed = Slow)
    BY <2>1, Agreed
  <2> QED BY <1>1, <1>2, <2>1, <2>2, <2>3, StillAgreed
<1>5. CASE Kind = "read2"
  <2>1. chipSpeed' = chipSpeed
    BY <1>5, ConfirmationMoves DEF Pipe
  <2>2. hostSpeed = chipSpeed /\ (Keeps(todo) => hostSpeed = Slow)
    BY <1>5, Agreed
  <2> QED BY <1>1, <1>2, <1>5, <2>1, <2>2, StillAgreed
<1>6. CASE Kind = "read_event"
  <2>1. PICK c \in Commands : c = Arg /\ Head(todo) = R(c)
    BY <1>6, NowHeads, Kinds
  <2>2. Pending(c) /\ Heard
    BY <1>6, <2>1 DEF Pipe
  <2>3. c = "download_minidriver" => confirms # "apart"
    <3>1. AheadAt(todo, 1, options) /\ Head(todo) = todo[1]
      <4>1. Shaped(todo, options) /\ todo \in Seq(AllCalls) /\ Head(todo) = todo[1]
        BY NowHeads
      <4> QED BY <4>1 DEF Shaped, Begun, Ahead, Finite
    <3>2. c = "download_minidriver" => "patchram" \in options
      BY <1>6, <2>1, <3>1 DEF AheadAt
    <3> QED BY <3>2 DEF FitsChip
  <2>4. \/ chipSpeed' = chipSpeed /\ (input' # <<Event(c, TRUE)>> \/ c \notin Switching \/ input' = input)
        \/ c \in Switching /\ chipSpeed' = Target(c) /\ input' = <<Event(c, TRUE)>>
    BY <2>2, <2>3, PendingMoves
  <2>5. ASSUME NEW d, Head(todo) = R(d) PROVE d = c
    BY <2>1, <2>5, Heads
  <2>6. CASE c \notin Switching
    <3>1. hostSpeed = chipSpeed /\ (Keeps(todo) => hostSpeed = Slow)
      BY <1>6, <2>1, <2>6, Agreed
    <3> QED BY <1>1, <1>2, <1>6, <2>1, <2>4, <2>6, <3>1, StillAgreed
  <2>7. CASE c \in Switching
    <3>1. ~Switched(c)
      <4>1. ASSUME input = <<Event(c, TRUE)>> PROVE FALSE
        <5>1. input # << >> /\ Confirmed(c) = << >>
          BY <2>7, <4>1, SwitchingCommands, Confirmations
        <5>2. output = << >> /\ received = << >> /\ replies = << >>
          BY <2>2, <5>1 DEF Pending, Quiet
        <5> QED BY <5>2, Unmoved
      <4> QED BY <4>1 DEF Switched
    <3>2. hostSpeed = chipSpeed /\ (Keeps(todo) => hostSpeed = Slow)
      <4>1. ASSUME NEW d \in Switching PROVE ~Switched(d)
        BY <2>5, <3>1 DEF Switched
      <4> QED BY <1>6, <4>1 DEF Rates
    <3>3. ASSUME NEW d \in Switching, Switched(d)'
          PROVE  d = c /\ input' = <<Event(c, TRUE)>>
      BY <1>1, <2>5, <3>3 DEF Switched
    <3>4. CASE chipSpeed' = chipSpeed /\ input' # <<Event(c, TRUE)>>
      <4>1. \A d \in Switching : ~Switched(d)'
        BY <3>3, <3>4
      <4> QED BY <1>1, <1>2, <1>6, <3>2, <3>4, <4>1 DEF Rates
    <3>5. CASE chipSpeed' = Target(c) /\ input' = <<Event(c, TRUE)>>
      <4>1. Switched(c)'
        BY <1>1, <2>1, <3>5 DEF Switched
      <4>2. \A d \in Switching : Switched(d)' => chipSpeed' = Target(d)
        BY <3>3, <3>5
      <4>3. Target(c)' = Target(c) /\ \A d \in Switching : Target(d)' = Target(d)
        BY DEF Target
      <4> QED BY <1>1, <1>2, <1>6, <2>7, <3>2, <3>5, <4>1, <4>2, <4>3 DEF Rates
    <3>6. input' # input \/ input' # <<Event(c, TRUE)>>
      BY <2>1, <3>1 DEF Switched
    <3> QED BY <2>4, <2>7, <3>4, <3>5, <3>6
  <2> QED BY <2>6, <2>7
<1> QED BY <1>3, <1>4, <1>5, <1>6 DEF Waits

-----------------------------------------------------------------------------
(* The invariant.                                                          *)

Under ==
  /\ Pipe /\ Matching
  /\ pc = "attached" => Quiet /\ input = << >>
  /\ Accepted => Rates

LEMMA InitInvariant == Init => IInv
<1> SUFFICES ASSUME Init PROVE IInv
  OBVIOUS
<1>1. input \in Seq(Items)
  <2>1. Event("write_ram", TRUE) \in Items
    BY ItemsTyped DEF Commands
  <2>2. <<Event("write_ram", TRUE)>> \in Seq(Items)
    BY <2>1, Two2, Zenon
  <2>3. << >> \in Seq(Items)
    OBVIOUS
  <2> QED BY <2>2, <2>3 DEF Init
<1>e. \A S : << >> \in Seq(S)
  OBVIOUS
<1>2. Types
  <2>1. /\ output \in Seq(Commands) /\ received \in Seq(Commands) /\ replies \in Seq(Items)
        /\ sent \in Seq(Commands) /\ executed \in Seq(Commands)
        /\ answers \in Seq([got : Events, for : Commands]) /\ todo \in Seq(AllCalls)
    BY <1>e, Zenon DEF Init
  <2>2. retries \in 0 .. MaxRetries /\ code \in 0 .. 5 /\ code = 0
    BY PatchRamAssumption DEF Init
  <2>3. /\ pc = "parse" /\ asked = {} /\ options = {} /\ armed = FALSE /\ awake = FALSE
        /\ hostSpeed \in Speeds /\ chipSpeed \in Speeds
        /\ confirms \in {"none", "together", "apart"}
    BY DEF Init, Speeds
  <2> QED BY <1>1, <2>1, <2>2, <2>3 DEF Types
<1>3. Parsed /\ Together
  BY DEF Init, Parsed, Together, Coupled, Quiet
<1>4. Pipe /\ Matching /\ Rates
  BY DEF Init, Pipe, Matching, Rates
<1> QED BY <1>2, <1>3, <1>4 DEF IInv, Init

\* No step calms what has been disturbed.
LEMMA Disturbed ==
  ASSUME IInv, Next \/ UNCHANGED vars, ~ParseCmdLine, Undisturbed'
  PROVE  Undisturbed /\ Under /\ ~expired
<1>1. ASSUME UNCHANGED <<options, confirms>>, retries' = retries PROVE Undisturbed
  BY <1>1 DEF Undisturbed, FitsChip
<1>2. ASSUME HostStep PROVE Undisturbed
  BY <1>1, <1>2 DEF HostStep, Write, ReadEvent, ReadTwoBytes, Alarm, SetSpeed, Flush, Attach, Exit, chip
<1>3. ASSUME ChipStep PROVE Undisturbed
  BY <1>1, <1>3 DEF ChipStep, ChipBoots, Transmit, ChipExecutes, ChipTransmits, host
<1>4. ASSUME UNCHANGED vars PROVE Undisturbed
  BY <1>1, <1>4 DEF vars, host, chip
<1>5. ~expired
  BY DEF expired, Undisturbed, IInv, Types
<1>6. Undisturbed
  BY <1>2, <1>3, <1>4, <1>5 DEF Next
<1> QED BY <1>5, <1>6 DEF IInv, Under

\* The answers, as read.
LEMMA MatchingGrows ==
  ASSUME Types, Matching, NEW e \in Events, NEW c \in Commands, e.event = c,
         answers' = Append(answers, [got |-> e, for |-> c])
  PROVE  Matching' /\ (Accepted' => Accepted /\ e.ok)
<1> DEFINE a == [got |-> e, for |-> c]
           n == Len(answers)
           S == [got : Events, for : Commands]
<1>1. a \in S /\ answers \in Seq(S) /\ a.got = e /\ a.for = c
  BY DEF Types
<1> HIDE DEF a, S
<1>2. /\ Len(answers') = n + 1 /\ answers'[n + 1] = a /\ n \in Nat
      /\ \A i \in 1 .. n : answers'[i] = answers[i]
      /\ DOMAIN answers = 1 .. n /\ answers' \in Seq(S)
  <2>1. answers' = Append(answers, a)
    BY DEF a
  <2>2. DOMAIN answers = 1 .. n /\ n \in Nat
    BY <1>1, LenProperties
  <2> QED BY <1>1, <2>1, <2>2, Appends
<1>3. DOMAIN answers' = 1 .. (n + 1)
  BY <1>2, LenProperties
<1> HIDE DEF n
<1>4. Matching'
  BY <1>1, <1>2, <1>3 DEF Matching
<1>5. Accepted' => Accepted /\ e.ok
  BY <1>1, <1>2, <1>3 DEF Accepted
<1> QED BY <1>4, <1>5

LEMMA ParseUnder ==
  ASSUME Types, Parsed, ParseCmdLine
  PROVE  Under'
<1>1. /\ UNCHANGED <<answers, hostSpeed, output, input, confirms, chipSpeed, received, replies>>
      /\ Quiet /\ chipSpeed = Slow /\ answers = << >>
  BY DEF ParseCmdLine, Parsed, uart, chip
<1>2. pc' = "exited" \/ (pc' = "run" /\ todo' = Program(options'))
  BY DEF ParseCmdLine
<1>3. Matching' /\ pc' # "attached"
  BY <1>1, <1>2 DEF Matching
<1>4. CASE pc' = "exited"
  BY <1>3, <1>4 DEF Under, Pipe, Rates
<1>5. CASE pc' = "run" /\ todo' = Program(options')
  <2>1. Shaped(todo', options') /\ First(todo')
    BY <1>5, Programs, Zenon
  <2>2. Head(todo') = F
    BY <2>1 DEF First, Shaped, Begun
  <2>3. Kind' = "flush" /\ Head(todo') # On
    BY <2>2, Heads
  <2>4. Pipe'
    BY <1>1, <2>3 DEF Pipe, Waits, Quiet, Heard
  <2>5. Rates'
    BY <1>1, <2>3 DEF Rates
  <2> QED BY <1>3, <2>4, <2>5 DEF Under
<1> QED BY <1>2, <1>4, <1>5

LEMMA NextTyped ==
  ASSUME IInv, Next \/ UNCHANGED vars
  PROVE  Types' /\ Parsed' /\ Together'
<1> USE DEF IInv
<1>1. CASE ParseCmdLine
  BY <1>1, ParseTyped DEF ParseCmdLine, Together, chip
<1>2. CASE Write
  BY <1>2, WriteTyped DEF Write, Together, chip
<1>3. CASE ReadEvent
  BY <1>3, ReadTyped DEF ReadEvent, Together, chip
<1>4. CASE ReadTwoBytes
  BY <1>4, ReadTwoTyped DEF ReadTwoBytes, Together, chip
<1>5. CASE Alarm
  BY <1>5, AlarmTyped DEF Alarm, Together, chip
<1>6. CASE SetSpeed
  BY <1>6, SpeedTyped DEF SetSpeed, Together, chip
<1>7. CASE Flush
  BY <1>7, FlushTyped DEF Flush, Together, chip
<1>8. CASE Attach \/ Exit
  BY <1>8, EndTyped DEF Attach, Exit, Together, chip
<1>9. CASE expired
  BY <1>9, ExpiredTyped DEF expired, Together, chip
<1>10. CASE ChipBoots
  BY <1>10, BootTyped DEF ChipBoots, Together
<1>11. CASE Transmit
  BY <1>11, TransmitTyped DEF Transmit, Together
<1>12. CASE ChipExecutes
  BY <1>12, ExecutesTyped, ExecutesCoupled
<1>13. CASE ChipTransmits
  BY <1>13, TransmitsTyped
<1>14. CASE UNCHANGED vars
  BY <1>14 DEF vars, host, uart, chip, Types, Parsed, Together, Quiet
<1> QED BY <1>1, <1>2, <1>3, <1>4, <1>5, <1>6, <1>7, <1>8, <1>9, <1>10, <1>11, <1>12, <1>13, <1>14
        DEF Next, HostStep, ChipStep

\* What is under way stays so in a step that touches none of it.
LEMMA Stands ==
  ASSUME Under, UNCHANGED <<pc, answers, todo, hostSpeed, chipSpeed, confirms>>,
         UNCHANGED <<output, input, received, replies>>
  PROVE  Under'
<1>1. /\ pc' = pc /\ answers' = answers /\ todo' = todo /\ hostSpeed' = hostSpeed
      /\ chipSpeed' = chipSpeed /\ confirms' = confirms /\ output' = output
      /\ input' = input /\ received' = received /\ replies' = replies
  OBVIOUS
<1>2. /\ Head(todo)' = Head(todo) /\ Kind' = Kind /\ Arg' = Arg /\ (Keeps(todo') <=> Keeps(todo))
      /\ (Waits' <=> Waits)
  BY <1>1 DEF Waits
<1>3. (Quiet' <=> Quiet) /\ (Heard' <=> Heard)
  BY <1>1 DEF Quiet, Heard
<1>4. ASSUME NEW c PROVE Confirmed(c)' = Confirmed(c)
  BY <1>1 DEF Confirmed
<1>5. ASSUME NEW c, Pending(c) PROVE Pending(c)'
  BY <1>1, <1>3, <1>4, <1>5 DEF Pending, Event
<1>6. Pipe'
  BY <1>1, <1>2, <1>3, <1>4, <1>5 DEF Under, Pipe
<1>7. Matching' /\ (Accepted' => Accepted)
  BY <1>1 DEF Under, Matching, Accepted
<1>8. Rates => Rates'
  <2>1. ASSUME NEW c PROVE (Switched(c)' <=> Switched(c)) /\ Target(c)' = Target(c)
    BY <1>1 DEF Switched, Target, Event
  <2> QED BY <1>1, <1>2, <2>1 DEF Rates
<1> QED BY <1>1, <1>3, <1>6, <1>7, <1>8 DEF Under

LEMMA NextUnder ==
  ASSUME IInv, Next \/ UNCHANGED vars, Undisturbed'
  PROVE  Under'
<1>1. Types /\ Parsed
  BY DEF IInv
<1>2. CASE ParseCmdLine
  BY <1>1, <1>2, ParseUnder
<1>3. ASSUME ~ParseCmdLine PROVE Undisturbed /\ Under /\ ~expired
  BY <1>3, Disturbed
<1>4. ~ParseCmdLine => FitsChip /\ Pipe /\ Matching /\ (Accepted => Rates)
  BY <1>3 DEF Undisturbed, Under
<1>5. CASE Write \/ ReadTwoBytes \/ Alarm
  <2>1. ~ParseCmdLine /\ UNCHANGED answers
    BY <1>5 DEF Write, ReadTwoBytes, Alarm, ParseCmdLine
  <2>2. Pipe' /\ pc' = "run"
    BY <1>1, <1>4, <1>5, <2>1, WritePipe, ReadTwoPipe, OtherPipe DEF Write, Alarm
  <2>3. Matching' /\ (Accepted' => Accepted)
    BY <1>4, <2>1 DEF Matching, Accepted
  <2>4. Accepted' => Rates'
    BY <1>1, <1>4, <1>5, <2>1, <2>3, PlainRates
  <2> QED BY <2>2, <2>3, <2>4 DEF Under
<1>6. CASE SetSpeed \/ Flush
  <2>1. ~ParseCmdLine /\ UNCHANGED <<pc, answers>> /\ pc = "run"
    BY <1>6 DEF SetSpeed, Flush, ParseCmdLine
  <2>2. Pipe'
    BY <1>1, <1>4, <1>6, <2>1, OtherPipe
  <2>3. Matching' /\ (Accepted' => Accepted)
    BY <1>4, <2>1 DEF Matching, Accepted
  <2>4. Accepted' => Rates'
    BY <1>1, <1>4, <1>6, <2>1, <2>3, SpeedRates, FlushRates
  <2> QED BY <2>1, <2>2, <2>3, <2>4 DEF Under
<1>7. CASE ReadEvent
  <2>1. ~ParseCmdLine /\ pc = "run" /\ Kind = "read_event"
    BY <1>7 DEF ReadEvent, ParseCmdLine
  <2>2. /\ Pipe' /\ pc' = "run"
        /\ Head(input) \in Events /\ Head(input).event = Arg
        /\ answers' = Append(answers, [got |-> Head(input), for |-> Arg])
    BY <1>1, <1>4, <1>7, <2>1, ReadPipe
  <2>3. Arg \in Commands
    BY <1>1, <2>1, NowHeads, Kinds
  <2>4. Matching' /\ (Accepted' => Accepted /\ Head(input).ok)
    BY <1>1, <1>4, <2>1, <2>2, <2>3, MatchingGrows
  <2>5. Accepted' => Rates'
    BY <1>1, <1>4, <1>7, <2>1, <2>4, ReadRates
  <2> QED BY <2>2, <2>4, <2>5 DEF Under
<1>8. CASE Attach \/ Exit
  <2>1. /\ ~ParseCmdLine /\ pc = "run" /\ Kind \in {"attach", "exit"} /\ pc' \in {"attached", "exited"}
        /\ UNCHANGED <<answers, output, input, received, replies>>
    BY <1>8 DEF Attach, Exit, ParseCmdLine, uart, chip
  <2>2. Quiet /\ input = << >>
    BY <1>4, <2>1, Heads DEF Pipe, Waits
  <2>3. Matching'
    BY <1>4, <2>1 DEF Matching
  <2> QED BY <2>1, <2>2, <2>3 DEF Under, Pipe, Rates, Quiet
<1>9. CASE expired
  BY <1>3, <1>9 DEF expired, Undisturbed, IInv, Types
<1>10. CASE ChipBoots
  <2>1. ~ParseCmdLine /\ UNCHANGED <<pc, answers, todo, hostSpeed, chipSpeed, confirms>>
        /\ UNCHANGED <<output, input, received, replies>>
    BY <1>10 DEF ChipBoots, ParseCmdLine, host, uart, chip
  <2> QED BY <1>3, <2>1, Stands
<1>11. CASE ChipMoves
  <2>1. ~ParseCmdLine /\ UNCHANGED <<pc, answers>>
    BY <1>11, Unmoved DEF ParseCmdLine, Parsed, Quiet, IInv
  <2>2. pc # "attached"
    BY <1>3, <1>11, <2>1, Unmoved DEF Under, Quiet
  <2>3. Matching' /\ (Accepted' => Accepted)
    BY <1>4, <2>1 DEF Matching, Accepted
  <2>4. CASE pc = "run"
    BY <1>1, <1>4, <1>11, <2>1, <2>2, <2>3, <2>4, ChipPipe, ChipRates DEF Under
  <2>5. CASE pc # "run"
    BY <2>1, <2>2, <2>3, <2>5 DEF Under, Pipe, Rates
  <2> QED BY <2>4, <2>5
<1>12. CASE UNCHANGED vars
  <2>1. UNCHANGED <<pc, answers, todo, hostSpeed, chipSpeed, confirms>>
        /\ UNCHANGED <<output, input, received, replies>>
    BY <1>12 DEF vars, host, uart, chip
  <2>2. CASE ~ParseCmdLine
    BY <1>3, <2>1, <2>2, Stands
  <2> QED BY <1>2, <2>2
<1> QED BY <1>2, <1>5, <1>6, <1>7, <1>8, <1>9, <1>10, <1>11, <1>12
        DEF Next, HostStep, ChipStep, ChipMoves

(***************************************************************************)
(* What the invariant says holds in every state of every run, with or      *)
(* without fairness.                                                       *)
(***************************************************************************)
THEOREM Invariant == Spec => []IInv
<1>1. Init => IInv
  BY InitInvariant
<1>2. IInv /\ [Next]_vars => IInv'
  <2> SUFFICES ASSUME IInv, Next \/ UNCHANGED vars PROVE IInv'
    OBVIOUS
  <2>1. Types' /\ Parsed' /\ Together'
    BY NextTyped
  <2>2. Undisturbed' => Under'
    BY NextUnder
  <2> QED BY <2>1, <2>2 DEF IInv, Under
<1> QED BY <1>1, <1>2, PTL DEF Spec

(***************************************************************************)
(* Every variable keeps its type, and brcm_patchram_plus ends with 0 only  *)
(* after it has sent a command.                                            *)
(***************************************************************************)
THEOREM PatchRamTyped == Spec => []TypeOK
<1>1. IInv => TypeOK
  BY DEF IInv, Types, Parsed, TypeOK, Items
<1> QED BY <1>1, Invariant, PTL

(***************************************************************************)
(* As long as the alarm has not gone off, read_event returns the answer to *)
(* the command it was called for, whatever the options and however many    *)
(* records the patch has.                                                  *)
(***************************************************************************)
THEOREM AnswersAreMatched == Spec => []AnswersMatch
<1>1. IInv => AnswersMatch
  BY DEF IInv, Undisturbed, Matching, AnswersMatch
<1> QED BY <1>1, Invariant, PTL

(***************************************************************************)
(* If the alarm repeated no reset and the command line fits the chip,      *)
(* proc_enable_hci hands over a UART on which nothing is under way.        *)
(***************************************************************************)
THEOREM HandoverIsQuiet == Spec => []HandoverQuiet
<1>1. IInv => HandoverQuiet
  BY DEF IInv, Undisturbed, HandoverQuiet
<1> QED BY <1>1, Invariant, PTL
(***************************************************************************)
(* Nothing travels between UARTs at different speeds, as long as the alarm *)
(* has not gone off and the chip has refused nothing: a change of the      *)
(* chip's speed is waited for, and the host's follows before anything else *)
(* is sent.                                                                *)
(***************************************************************************)
THEOREM SpeedsAreAgreed == Spec => []SpeedsAgree
<1>1. IInv => SpeedsAgree
  <2> SUFFICES ASSUME IInv, FitsChip, Accepted, retries = 0, pc = "run",
                      output # << >> \/ replies # << >>
               PROVE  hostSpeed = chipSpeed
    BY DEF SpeedsAgree
  <2>1. Types /\ Parsed /\ Pipe /\ Rates
    BY DEF IInv, Undisturbed
  <2>2. CASE replies # << >>
    BY <2>1, <2>2 DEF Pipe, Heard
  <2>3. CASE output # << >>
    <3>1. Waits
      BY <2>1, <2>3 DEF Pipe, Quiet
    <3>2. CASE Head(todo) = On
      BY <2>1, <3>2, Heads, Agreed
    <3>3. CASE Kind = "read2"
      BY <2>1, <3>3, Agreed
    <3>4. CASE Kind = "read_event"
      <4>1. Pending(Arg)
        BY <2>1, <3>4 DEF Pipe
      <4>2. input = << >>
        BY <2>3, <4>1 DEF Pending, Quiet
      <4>3. ASSUME NEW c \in Switching PROVE ~Switched(c)
        BY <4>2 DEF Switched
      <4> QED BY <2>1, <3>4, <4>3 DEF Rates
    <3> QED BY <3>1, <3>2, <3>3, <3>4 DEF Waits
  <2> QED BY <2>2, <2>3
<1> QED BY <1>1, Invariant, PTL
=============================================================================
