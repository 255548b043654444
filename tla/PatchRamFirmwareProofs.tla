----------------------- MODULE PatchRamFirmwareProofs -----------------------
(***************************************************************************)
(* That the firmware arrives complete takes more than PatchRamProofs: in   *)
(* what order commands are sent, and which of them the UART can lose.      *)
(*                                                                         *)
(* What is still to come, in the program, fits what is already on the line *)
(* to the chip: a launch has the minidriver and all the records before it. *)
(* At one speed, what is lost was a reset to a chip that sleeps, or it was *)
(* lost because the host changed its speed too early, after the launch; at *)
(* two speeds, without an alarm, one command at most is under way, and the *)
(* program waits for ever for the answer to one that is lost.              *)
(***************************************************************************)
EXTENDS PatchRamProofs

-----------------------------------------------------------------------------
(* The line and the program.                                               *)

OneSpeed(opts) == "use_baudrate_for_download" \notin opts

Has(s, c) == \E i \in 1 .. Len(s) : s[i] = c
Without(s, c) == \A i \in 1 .. Len(s) : s[i] # c

\* Every launch has the minidriver and all the records right before it.
Backed(s, i) ==
  /\ i > Records + 1
  /\ s[i - Records - 1] = "download_minidriver"
  /\ \A j \in (i - Records) .. (i - 1) : s[j] = "write_ram"

Clean(s) == \A i \in 1 .. Len(s) : s[i] = "launch_ram" => Backed(s, i)

\* No launch comes after the speed has been changed.
Ordered(s) ==
  \A i, j \in 1 .. Len(s) : i < j /\ s[i] = "update_baud_rate" => s[j] # "launch_ram"

\* The commands that have left the program and are not lost, in order.
arrived == executed \o received
line == arrived \o output

\* Of the calls s: k records have been written, the next one is at p, and
\* the launch follows the last.
Remain(s, k, p) ==
  /\ p + 2 * (Records - k) <= Len(s)
  /\ \A i \in 0 .. (Records - k - 1) :
       s[p + 2 * i] = W("write_ram") /\ s[p + 2 * i + 1][1] # "write"
  /\ s[p + 2 * (Records - k)] = W("launch_ram")
  /\ \A i \in (p + 2 * (Records - k) + 1) .. Len(s) : s[i] # W("launch_ram")

\* The download is still to come, at j,
Upcoming(s, j, p, opts) ==
  /\ s[j] = W("download_minidriver")
  /\ \A i \in 1 .. (j - 1) :
       s[i] # W("launch_ram") /\ (OneSpeed(opts) => s[i] # W("update_baud_rate"))
  /\ \A i \in 1 .. (p - 1) : s[j + i][1] # "write"
  /\ Remain(s, 0, j + p)

Before(s, opts) == \E j \in 1 .. Len(s), p \in {2, 3} : Upcoming(s, j, p, opts)

\* or is being made, k records after the minidriver in the line l,
Reached(l, k) ==
  /\ Len(l) > k /\ l[Len(l) - k] = "download_minidriver"
  /\ \A i \in (Len(l) - k + 1) .. Len(l) : l[i] = "write_ram"

Underway(s, l, k, p) ==
  /\ \A i \in 1 .. (p - 1) : s[i][1] # "write"
  /\ Remain(s, k, p) /\ Reached(l, k)

During(s, l) == \E k \in 0 .. Records, p \in 1 .. Len(s) : Underway(s, l, k, p)

\* or is over.
After(s) == Without(s, W("launch_ram"))

Staged(s, l, opts) ==
  \/ After(s)
  \/ /\ Before(s, opts) \/ During(s, l)
     /\ OneSpeed(opts) => ~Has(l, "update_baud_rate")

\* Nothing is lost that matters.
Whole == /\ Clean(line) /\ (OneSpeed(options) => Ordered(line))
         /\ pc = "run" => Staged(todo, line, options)

\* Nothing is sent before the opening.
Opened == /\ sent = << >> => /\ executed = << >> /\ received = << >>
                             /\ output = << >> /\ replies = << >>
          /\ pc = "run" /\ Kind = "flush" => sent = << >>

-----------------------------------------------------------------------------
(* A download that changes no speed, however often the alarm goes off.     *)

\* The alarm is pending from the first reset to its answer.
Alarmed == pc = "run" => /\ armed => Head(todo) \in {R("reset"), Off}
                         /\ armed \/ Head(todo) = On => ~During(todo, line)

\* A chip that sleeps can miss nothing but resets.
Asleep ==
  ~awake => /\ executed = << >> /\ received = << >> /\ replies = << >>
            /\ \A i \in 1 .. Len(output) : output[i] = "reset"
            /\ pc = "run" => /\ sent # << >> => Head(todo) \in {On, R("reset")}
                             /\ Kind # "flush" => input = << >>

\* The chip changes its speed only when told to.
ChipSlow ==
  /\ chipSpeed = Fast => Has(executed, "update_baud_rate")
  /\ \A i \in 1 .. Len(replies), ok \in BOOLEAN :
       replies[i] = Event("update_baud_rate", ok) => Has(executed, "update_baud_rate")

Unslowed(s) == \A i \in 1 .. Len(s) : s[i] = R("launch_ram") => ~Followed(s, i)

\* So does the host: it slows down only at first, and nothing is fast
HostSlow ==
  /\ pc = "run" => /\ Unslowed(todo)
                   /\ sent = << >> /\ Kind = "write" => hostSpeed = Slow
                   /\ sent # << >> => Head(todo) # T(Slow)

\* before the command that makes it so is on the line.
HostFollows ==
  sent # << >> /\ ~Has(line, "update_baud_rate") =>
    /\ hostSpeed = Slow
    /\ pc = "run" => Head(todo) \notin {T(Fast), R("update_baud_rate")}

\* Once the speeds differ everything is lost, or the launch has arrived.
Deaf == /\ sent # << >> /\ hostSpeed = Fast /\ chipSpeed = Slow
        /\ ~Has(arrived, "update_baud_rate")

Past == /\ Clean(arrived) /\ (pc = "run" => After(todo))
        /\ Deaf \/ ~Has(output, "launch_ram")

Steady == /\ Alarmed /\ Asleep /\ ChipSlow /\ HostSlow
          /\ (Whole /\ HostFollows) \/ Past

-----------------------------------------------------------------------------
(* A download at two speeds, as long as the alarm has not gone off.        *)

Silent(s) == \A i \in 1 .. Len(s) : s[i] \notin Events
Once(s) == \A i, j \in 1 .. Len(s) : s[i] \in Events /\ s[j] \in Events => i = j

\* No command and no event is under way, or one is.
Idle == output = << >> /\ received = << >> /\ Silent(replies) /\ Silent(input)

Single ==
  \/ Len(output) = 1 /\ received = << >> /\ Silent(replies) /\ Silent(input)
  \/ output = << >> /\ Len(received) = 1 /\ Silent(replies) /\ Silent(input)
  \/ output = << >> /\ received = << >> /\ Once(replies) /\ Silent(input)
  \/ output = << >> /\ received = << >> /\ Silent(replies) /\ Once(input)

Awaits == Head(todo) = On \/ Kind = "read_event"

\* What is lost is waited for.
Stuck == Idle /\ Clean(executed) /\ (pc = "run" => Awaits)

Lone == /\ Single
        /\ pc = "run" => Awaits \/ Kind = "flush" \/ Idle
        /\ Whole \/ Stuck

-----------------------------------------------------------------------------
(* The inductive invariant, which is kept by the steps that keep IInv.     *)

FInv == /\ Opened
        /\ OneSpeed(options) => Steady
        /\ retries = 0 => Lone

-----------------------------------------------------------------------------
(* The program: the download is still to come, or never.                   *)

LEMMA WithoutJoin ==
  ASSUME NEW s \in Seq(AllCalls), NEW t \in Seq(AllCalls), NEW c
  PROVE  Without(s, c) /\ Without(t, c) => Without(s \o t, c)
<1> DEFINE st == s \o t
<1>1. /\ Len(st) = Len(s) + Len(t) /\ Len(s) \in Nat /\ Len(t) \in Nat
      /\ \A i \in 1 .. Len(s) : st[i] = s[i]
      /\ \A i \in 1 .. Len(t) : st[Len(s) + i] = t[i]
  BY Joined, Zenon
<1> HIDE DEF st
<1>2. ASSUME Without(s, c), Without(t, c), NEW i \in 1 .. Len(st) PROVE st[i] # c
  <2>1. CASE i <= Len(s)
    BY <1>1, <1>2, <2>1 DEF Without
  <2>2. CASE i > Len(s)
    <3>1. i - Len(s) \in 1 .. Len(t) /\ Len(s) + (i - Len(s)) = i
      BY <1>1, <2>2
    <3>2. st[i] = t[i - Len(s)]
      BY <1>1, <3>1
    <3> QED BY <1>2, <3>1, <3>2 DEF Without
  <2> QED BY <1>1, <2>1, <2>2
<1> QED BY <1>2 DEF Without, st

\* The same calls elsewhere.
LEMMA RemainMoves ==
  ASSUME NEW s, NEW t, NEW k \in 0 .. Records, NEW p \in Nat, NEW q \in Nat,
         Len(s) \in Nat, Len(t) \in Nat,
         Len(s) - p = Len(t) - q, \A i \in 0 .. (Len(t) - q) : s[p + i] = t[q + i],
         Remain(t, k, q)
  PROVE  Remain(s, k, p)
<1> DEFINE e == 2 * (Records - k)
<1>1. Records \in Nat /\ e \in Nat /\ q + e <= Len(t) /\ p + e <= Len(s)
  BY PatchRamAssumption DEF Remain
<1>2. ASSUME NEW i \in 0 .. (Records - k - 1)
      PROVE  s[p + 2 * i] = W("write_ram") /\ s[p + 2 * i + 1][1] # "write"
  <2> DEFINE a == 2 * i
             b == 2 * i + 1
  <2>1. /\ a \in 0 .. (Len(t) - q) /\ b \in 0 .. (Len(t) - q)
        /\ p + 2 * i + 1 = p + b /\ q + 2 * i + 1 = q + b /\ p + 2 * i = p + a /\ q + 2 * i = q + a
    BY <1>1
  <2> HIDE DEF a, b
  <2>2. s[p + a] = t[q + a] /\ s[p + b] = t[q + b]
    BY <2>1
  <2>3. s[p + 2 * i] = t[q + 2 * i] /\ s[p + 2 * i + 1] = t[q + 2 * i + 1]
    BY <2>1, <2>2
  <2> QED BY <2>3 DEF Remain
<1>0. t[q + e] = W("launch_ram")
  BY DEF Remain
<1> HIDE DEF e
<1>3. s[p + e] = W("launch_ram")
  <2>1. e \in 0 .. (Len(t) - q)
    BY <1>1
  <2> QED BY <1>0, <2>1
<1>4. ASSUME NEW i \in (p + e + 1) .. Len(s) PROVE s[i] # W("launch_ram")
  <2>1. i - p \in 0 .. (Len(t) - q) /\ p + (i - p) = i /\ q + (i - p) \in (q + e + 1) .. Len(t)
    BY <1>1
  <2>2. s[i] = t[q + (i - p)]
    BY <2>1
  <2>3. \A j \in (q + e + 1) .. Len(t) : t[j] # W("launch_ram")
    BY DEF Remain, e
  <2> QED BY <2>1, <2>2, <2>3
<1> QED BY <1>1, <1>2, <1>3, <1>4 DEF Remain, e

\* What comes before the download, and after it.
LEMMA UpcomingBehind ==
  ASSUME NEW opts, NEW s \in Seq(AllCalls), NEW t \in Seq(AllCalls), NEW p \in {2, 3},
         Without(s, W("launch_ram")),
         OneSpeed(opts) => Without(s, W("update_baud_rate")),
         Upcoming(t, 1, p, opts)
  PROVE  Before(s \o t, opts)
<1> DEFINE st == s \o t
           m == Len(s)
           n == Len(t)
<1>1. /\ Len(st) = m + n /\ m \in Nat /\ n \in Nat
      /\ \A i \in 1 .. m : st[i] = s[i]
      /\ \A i \in 1 .. n : st[m + i] = t[i]
  BY Joined, Zenon
<1>2. Records \in Nat /\ 1 + p + 2 * Records <= n
  BY PatchRamAssumption DEF Upcoming, Remain
<1> HIDE DEF st, m, n
<1>0. PICK j \in Nat : j = m + 1
  BY <1>1
<1>3. st[j] = W("download_minidriver")
  BY <1>0, <1>1, <1>2, SMTT(30) DEF Upcoming
<1>4. ASSUME NEW i \in 1 .. (j - 1)
      PROVE  st[i] # W("launch_ram") /\ (OneSpeed(opts) => st[i] # W("update_baud_rate"))
  BY <1>0, <1>1 DEF Without, m
<1>5. ASSUME NEW i \in 1 .. (p - 1) PROVE st[j + i][1] # "write"
  <2>1. 1 + i \in 1 .. n /\ m + (1 + i) = j + i
    BY <1>0, <1>1, <1>2
  <2>2. st[j + i] = t[1 + i]
    BY <1>1, <2>1
  <2> QED BY <2>2 DEF Upcoming
<1>6. Remain(st, 0, j + p)
  <2>1. ASSUME NEW i \in 0 .. (n - (1 + p)) PROVE st[j + p + i] = t[1 + p + i]
    <3>1. 1 + p + i \in 1 .. n /\ m + (1 + p + i) = j + p + i
      BY <1>0, <1>1, <1>2
    <3> QED BY <1>1, <3>1
  <2>2. Len(st) \in Nat /\ Len(st) - (j + p) = n - (1 + p) /\ j + p \in Nat /\ 1 + p \in Nat /\ 0 \in 0 .. Records
    BY <1>0, <1>1, <1>2
  <2>3. Remain(t, 0, 1 + p)
    BY DEF Upcoming
  <2> QED BY <1>1, <2>1, <2>2, <2>3, RemainMoves DEF n
<1>7. Upcoming(st, j, p, opts)
  BY <1>3, <1>4, <1>5, <1>6 DEF Upcoming
<1>8. j \in 1 .. Len(st)
  BY <1>0, <1>1, <1>2
<1> QED BY <1>7, <1>8 DEF Before, st

LEMMA UpcomingAhead ==
  ASSUME NEW opts, NEW s \in Seq(AllCalls), NEW t \in Seq(AllCalls),
         NEW j \in 1 .. Len(s), NEW p \in {2, 3},
         Upcoming(s, j, p, opts), Without(t, W("launch_ram"))
  PROVE  Upcoming(s \o t, j, p, opts) /\ j \in 1 .. Len(s \o t)
<1> DEFINE st == s \o t
           m == Len(s)
           n == Len(t)
           e == j + p + 2 * Records
<1>1. /\ Len(st) = m + n /\ m \in Nat /\ n \in Nat
      /\ \A i \in 1 .. m : st[i] = s[i]
      /\ \A i \in 1 .. n : st[m + i] = t[i]
  BY Joined, Zenon
<1>2. Records \in Nat /\ e <= m /\ e \in Nat /\ Records - 0 = Records /\ Records - 0 - 1 = Records - 1
  BY PatchRamAssumption DEF Upcoming, Remain
<1> HIDE DEF st, m, n
<1>3. /\ s[j] = W("download_minidriver")
      /\ \A i \in 1 .. (j - 1) :
           s[i] # W("launch_ram") /\ (OneSpeed(opts) => s[i] # W("update_baud_rate"))
      /\ \A i \in 1 .. (p - 1) : s[j + i][1] # "write"
      /\ \A i \in 0 .. (Records - 1) :
           s[j + p + 2 * i] = W("write_ram") /\ s[j + p + 2 * i + 1][1] # "write"
      /\ s[e] = W("launch_ram") /\ \A i \in (e + 1) .. m : s[i] # W("launch_ram")
  BY <1>2 DEF Upcoming, Remain, m
<1>4. /\ st[j] = W("download_minidriver")
      /\ \A i \in 1 .. (j - 1) :
           st[i] # W("launch_ram") /\ (OneSpeed(opts) => st[i] # W("update_baud_rate"))
      /\ \A i \in 1 .. (p - 1) : st[j + i][1] # "write"
  <2>1. ASSUME NEW i \in 1 .. (p - 1) PROVE j + i \in 1 .. m
    BY <1>1, <1>2
  <2>2. j \in 1 .. m /\ 1 .. (j - 1) \subseteq 1 .. m
    BY <1>1, <1>2
  <2> QED BY <1>1, <1>3, <2>1, <2>2
<1>5. ASSUME NEW i \in 0 .. (Records - 1)
      PROVE  st[j + p + 2 * i] = W("write_ram") /\ st[j + p + 2 * i + 1][1] # "write"
  <2>1. j + p + 2 * i \in 1 .. m /\ j + p + 2 * i + 1 \in 1 .. m
    BY <1>1, <1>2
  <2> QED BY <1>1, <1>3, <2>1
<1>6. st[e] = W("launch_ram")
  BY <1>1, <1>2, <1>3, SMTT(30)
<1>7. ASSUME NEW i \in (e + 1) .. (m + n) PROVE st[i] # W("launch_ram")
  <2> HIDE DEF e
  <2>1. CASE i <= m
    BY <1>1, <1>2, <1>3, <2>1
  <2>2. CASE i > m
    <3>1. i - m \in 1 .. n /\ m + (i - m) = i
      BY <1>1, <1>2, <2>2
    <3>2. st[i] = t[i - m]
      BY <1>1, <3>1
    <3> QED BY <3>1, <3>2 DEF Without, n
  <2> QED BY <1>1, <1>2, <2>1, <2>2
<1>8. Remain(st, 0, j + p)
  BY <1>1, <1>2, <1>5, <1>6, <1>7 DEF Remain
<1>9. Upcoming(st, j, p, opts) /\ j \in 1 .. Len(st)
  BY <1>1, <1>4, <1>8 DEF Upcoming, m
<1> QED BY <1>9 DEF st

\* A part neither launches the firmware nor slows the host down.
Bare(s) == s \in Seq(AllCalls) /\ Without(s, W("launch_ram")) /\ Without(s, T(Slow))

LEMMA BareParts ==
  /\ Bare(<< >>) /\ Bare(proc_reset) /\ Bare(proc_baudrate) /\ Bare(Download)
  /\ \A c \in Plain : Bare(Ask(c))
  /\ \A e \in Ends : Bare(<<e>>)
  /\ Without(proc_reset, W("update_baud_rate"))
  /\ init_uart \in Seq(AllCalls) /\ Len(init_uart) = 2 /\ init_uart[1] = F /\ init_uart[2] = T(Slow)
<1>1. /\ "reset" \in Commands /\ "update_baud_rate" \in Commands /\ "launch_ram" \in Commands
      /\ "write_ram" \in Commands /\ Slow \in Speeds /\ Fast \in Speeds /\ Slow # Fast
  BY DEF Commands, Speeds, Slow, Fast
<1>2. Bare(<< >>)
  BY DEF Bare, Without
<1>3. Bare(proc_reset) /\ Without(proc_reset, W("update_baud_rate"))
  <2> DEFINE s == proc_reset
  <2>1. s = <<W("reset"), On, R("reset"), Off>>
    BY DEF proc_reset, W, R, On, Off
  <2>2. /\ s \in Seq(AllCalls) /\ Len(s) = 4
        /\ s[1] = W("reset") /\ s[2] = On /\ s[3] = R("reset") /\ s[4] = Off
    BY <1>1, <2>1, Members, Tuples
  <2> HIDE DEF s
  <2>3. \A i \in 1 .. 4 : s[i] \in {W("reset"), On, R("reset"), Off}
    BY <2>2
  <2>4. \A x \in {W("reset"), On, R("reset"), Off} :
          x # W("launch_ram") /\ x # T(Slow) /\ x # W("update_baud_rate")
    BY Heads
  <2> QED BY <2>2, <2>3, <2>4 DEF Bare, Without, s
<1>4. Bare(proc_baudrate)
  <2> DEFINE s == proc_baudrate
  <2>1. s = <<W("update_baud_rate"), R("update_baud_rate"), T(Fast)>>
    <3>1. Ask("update_baud_rate") = <<W("update_baud_rate"), R("update_baud_rate")>>
          /\ Speed(Fast) = <<T(Fast)>>
      BY DEF Ask, Speed, W, R, T
    <3>2. W("update_baud_rate") \in AllCalls /\ R("update_baud_rate") \in AllCalls /\ T(Fast) \in AllCalls
      BY <1>1, Members
    <3> QED BY <3>1, <3>2, Appended, Zenon DEF proc_baudrate
  <2>2. /\ s \in Seq(AllCalls) /\ Len(s) = 3 /\ s[1] = W("update_baud_rate")
        /\ s[2] = R("update_baud_rate") /\ s[3] = T(Fast)
    BY <1>1, <2>1, Members, Tuples
  <2> HIDE DEF s
  <2>3. \A i \in 1 .. 3 : s[i] \in {W("update_baud_rate"), R("update_baud_rate"), T(Fast)}
    BY <2>2
  <2>4. \A x \in {W("update_baud_rate"), R("update_baud_rate"), T(Fast)} :
          x # W("launch_ram") /\ x # T(Slow)
    BY <1>1, Heads
  <2> QED BY <2>2, <2>3, <2>4 DEF Bare, Without, s
<1>5. Bare(Download)
  <2>1. /\ Download \in Seq(AllCalls) /\ Len(Download) = 2 * Records
        /\ \A i \in 1 .. 2 * Records : Download[i] \in {W("write_ram"), R("write_ram")}
    BY DownloadPart DEF Part, Begun
  <2>2. \A x \in {W("write_ram"), R("write_ram")} : x # W("launch_ram") /\ x # T(Slow)
    BY Heads
  <2> QED BY <2>1, <2>2 DEF Bare, Without
<1>6. ASSUME NEW c \in Plain PROVE Bare(Ask(c))
  <2>1. c \in Commands /\ c # "launch_ram"
    BY DEF Plain
  <2> DEFINE s == Ask(c)
  <2>2. s = <<W(c), R(c)>>
    BY DEF Ask, W, R
  <2>3. s \in Seq(AllCalls) /\ Len(s) = 2 /\ s[1] = W(c) /\ s[2] = R(c)
    BY <2>1, <2>2, Members, Tuples
  <2> HIDE DEF s
  <2>4. W(c) # W("launch_ram") /\ W(c) # T(Slow) /\ R(c) # W("launch_ram") /\ R(c) # T(Slow)
    BY <2>1, Heads
  <2> QED BY <2>3, <2>4 DEF Bare, Without, s
<1>7. ASSUME NEW e \in Ends PROVE Bare(<<e>>)
  <2> DEFINE s == <<e>>
  <2>1. s \in Seq(AllCalls) /\ Len(s) = 1 /\ s[1] = e
    BY Members, Tuples
  <2>2. e # W("launch_ram") /\ e # T(Slow)
    BY Heads
  <2> HIDE DEF s
  <2> QED BY <2>1, <2>2 DEF Bare, Without, s
<1>8. init_uart \in Seq(AllCalls) /\ Len(init_uart) = 2 /\ init_uart[1] = F /\ init_uart[2] = T(Slow)
  <2>1. << <<"flush">> >> = <<F>> /\ Speed(Slow) = <<T(Slow)>>
    BY DEF Speed, F, T
  <2>2. F \in AllCalls /\ T(Slow) \in AllCalls
    BY <1>1, Members
  <2>3. init_uart = <<F, T(Slow)>>
    BY <2>1, <2>2, Paired, Zenon DEF init_uart
  <2> QED BY <2>2, <2>3, Tuples
<1> QED BY <1>2, <1>3, <1>4, <1>5, <1>6, <1>7, <1>8

\* The minidriver, the records and the launch.
Firmware(opts) == Minidriver(opts) \o Download \o Ask("launch_ram")

LEMMA FirmwareUpcoming ==
  ASSUME NEW opts, "patchram" \in opts
  PROVE  /\ Firmware(opts) \in Seq(AllCalls) /\ Without(Firmware(opts), T(Slow))
         /\ \E p \in {2, 3} : Upcoming(Firmware(opts), 1, p, opts)
<1> DEFINE m == Minidriver(opts)
           a == Ask("launch_ram")
           md == m \o Download
           s == md \o a
           c == "download_minidriver"
<1>1. c \in Commands /\ "launch_ram" \in Commands /\ "write_ram" \in Commands /\ Records \in Nat
  BY PatchRamAssumption DEF Commands
<1>2. W(c) \in AllCalls /\ R(c) \in AllCalls /\ Two \in AllCalls
  BY <1>1, Members
<1>3. PICK p \in {2, 3} : /\ m \in Seq(AllCalls) /\ Len(m) = p /\ m[1] = W(c)
                          /\ \A i \in 2 .. p : m[i] = R(c) \/ m[i] = Two
  <2>1. Ask(c) = <<W(c), R(c)>> /\ << <<"read2">> >> = <<Two>>
    BY DEF Ask, W, R, Two
  <2>2. m = <<W(c), R(c)>> \/ m = <<W(c), R(c), Two>>
    BY <1>2, <2>1, Appended, ZenonT(30) DEF Minidriver
  <2> HIDE DEF m, c
  <2>3. CASE m = <<W(c), R(c)>>
    <3>1. m \in Seq(AllCalls) /\ Len(m) = 2 /\ m[1] = W(c) /\ m[2] = R(c)
      BY <1>2, <2>3, Tuples
    <3> QED BY <3>1
  <2>4. CASE m = <<W(c), R(c), Two>>
    <3>1. m \in Seq(AllCalls) /\ Len(m) = 3 /\ m[1] = W(c) /\ m[2] = R(c) /\ m[3] = Two
      BY <1>2, <2>4, Tuples
    <3> QED BY <3>1
  <2> QED BY <2>2, <2>3, <2>4
<1>4. /\ Download \in Seq(AllCalls) /\ Len(Download) = 2 * Records
      /\ \A i \in 1 .. 2 * Records :
           Download[i] = IF i % 2 = 1 THEN W("write_ram") ELSE R("write_ram")
  BY DownloadPart DEF Part, Begun
<1>5. a \in Seq(AllCalls) /\ Len(a) = 2 /\ a[1] = W("launch_ram") /\ a[2] = R("launch_ram")
  <2>1. a = <<W("launch_ram"), R("launch_ram")>>
    BY DEF Ask, W, R
  <2>2. W("launch_ram") \in AllCalls /\ R("launch_ram") \in AllCalls
    BY <1>1, Members
  <2> HIDE DEF a
  <2> QED BY <2>1, <2>2, Tuples
<1> HIDE DEF m, a
<1>6. /\ md \in Seq(AllCalls) /\ Len(md) = Len(m) + Len(Download)
      /\ \A i \in 1 .. Len(m) : md[i] = m[i]
      /\ \A i \in 1 .. Len(Download) : md[Len(m) + i] = Download[i]
  BY <1>3, <1>4, Joined, Zenon
<1> HIDE DEF md
<1>7. /\ s \in Seq(AllCalls) /\ Len(s) = Len(md) + Len(a)
      /\ \A i \in 1 .. Len(md) : s[i] = md[i]
      /\ \A i \in 1 .. Len(a) : s[Len(md) + i] = a[i]
  BY <1>5, <1>6, Joined, Zenon
<1> HIDE DEF s
<1> DEFINE e == p + 2 * Records
<1>8. e \in Nat /\ Len(md) = e /\ Len(s) = e + 2 /\ p <= e
  BY <1>1, <1>3, <1>4, <1>5, <1>6, <1>7
<1>9. \A i \in 1 .. p : s[i] = m[i]
  BY <1>3, <1>6, <1>7, <1>8
<1>10. \A i \in 1 .. 2 * Records : s[p + i] = Download[i]
  <2>1. ASSUME NEW i \in 1 .. 2 * Records PROVE p + i \in 1 .. e
    BY <1>1
  <2> QED BY <1>3, <1>4, <1>6, <1>7, <1>8, <2>1
<1>11. s[1 + e] = W("launch_ram") /\ s[2 + e] = R("launch_ram")
  BY <1>5, <1>7, <1>8
<1>12. ASSUME NEW i \in 0 .. (Records - 0 - 1)
       PROVE  s[1 + p + 2 * i] = W("write_ram") /\ s[1 + p + 2 * i + 1] = R("write_ram")
  <2> DEFINE x == 2 * i + 1
             y == 2 * i + 2
  <2>1. /\ x \in 1 .. 2 * Records /\ y \in 1 .. 2 * Records /\ x % 2 = 1 /\ y % 2 # 1
        /\ 1 + p + 2 * i = p + x /\ 1 + p + 2 * i + 1 = p + y
    BY <1>1
  <2> HIDE DEF x, y
  <2>2. s[p + x] = W("write_ram") /\ s[p + y] = R("write_ram")
    BY <1>4, <1>10, <2>1
  <2> QED BY <2>1, <2>2
<1>13. Remain(s, 0, 1 + p)
  <2>1. 2 * (Records - 0) = 2 * Records /\ 1 + p + 2 * Records = 1 + e
    BY <1>1
  <2>2. \A i \in (1 + e + 1) .. Len(s) : s[i] # W("launch_ram")
    <3> HIDE DEF e
    <3> QED BY <1>8, <1>11, Heads
  <2>3. 1 + e <= Len(s)
    BY <1>8
  <2> HIDE DEF e
  <2> QED BY <1>11, <1>12, <2>1, <2>2, <2>3, Heads DEF Remain
<1>14. Upcoming(s, 1, p, opts)
  <2>1. ASSUME NEW i \in 1 .. (p - 1) PROVE s[1 + i][1] # "write"
    <3>1. 1 + i \in 2 .. p
      OBVIOUS
    <3>2. s[1 + i] = R(c) \/ s[1 + i] = Two
      BY <1>3, <1>9, <3>1
    <3> QED BY <3>2, Heads
  <2> QED BY <1>3, <1>9, <1>13, <2>1 DEF Upcoming
<1>15. Without(s, T(Slow))
  <2>1. ASSUME NEW i \in 1 .. Len(s)
        PROVE  s[i] \in {W(c), R(c), Two, W("write_ram"), R("write_ram"), W("launch_ram"), R("launch_ram")}
    <3>1. CASE i <= p
      BY <1>3, <1>9, <3>1
    <3>2. CASE i > p /\ i <= e
      <4>1. i - p \in 1 .. 2 * Records /\ p + (i - p) = i
        BY <1>1, <3>2
      <4> QED BY <1>4, <1>10, <4>1
    <3>3. CASE i > e
      <4>1. i = 1 + e \/ i = 2 + e
        BY <1>8, <3>3
      <4> QED BY <1>11, <4>1
    <3>4. i \in Nat /\ e \in Nat
      BY <1>8
    <3> HIDE DEF e
    <3> QED BY <3>1, <3>2, <3>3, <3>4
  <2>2. \A x \in {W(c), R(c), Two, W("write_ram"), R("write_ram"), W("launch_ram"), R("launch_ram")} : x # T(Slow)
    BY Heads
  <2> QED BY <2>1, <2>2 DEF Without
<1> QED BY <1>7, <1>14, <1>15 DEF Firmware, s, md, m, a

\* With the download still to come, or without any.
Ready(s, opts) == s \in Seq(AllCalls) /\ (Before(s, opts) \/ After(s))

\* The host is slowed down only by the second call.
Slowed(s) == Len(s) > 1 /\ s[1] = F /\ \A i \in 3 .. Len(s) : s[i] # T(Slow)

LEMMA SlowedJoins ==
  ASSUME NEW s \in Seq(AllCalls), Slowed(s), NEW t \in Seq(AllCalls), Without(t, T(Slow))
  PROVE  Slowed(s \o t)
<1> DEFINE st == s \o t
           m == Len(s)
           n == Len(t)
<1>1. /\ Len(st) = m + n /\ m \in Nat /\ n \in Nat
      /\ \A i \in 1 .. m : st[i] = s[i]
      /\ \A i \in 1 .. n : st[m + i] = t[i]
  BY Joined, Zenon
<1> HIDE DEF st, m, n
<1>2. ASSUME NEW i \in 3 .. (m + n) PROVE st[i] # T(Slow)
  <2>1. CASE i <= m
    BY <1>1, <2>1 DEF Slowed, m
  <2>2. CASE i > m
    <3>1. i - m \in 1 .. n /\ m + (i - m) = i
      BY <1>1, <2>2
    <3>2. st[i] = t[i - m]
      BY <1>1, <3>1
    <3> QED BY <3>1, <3>2 DEF Without, n
  <2> QED BY <1>1, <2>1, <2>2
<1>3. Slowed(st)
  BY <1>1, <1>2 DEF Slowed, m
<1> QED BY <1>3 DEF st

LEMMA ReadyGrows ==
  ASSUME NEW opts, NEW s, Ready(s, opts), NEW t, Bare(t)
  PROVE  Ready(s \o t, opts) /\ (Slowed(s) => Slowed(s \o t))
<1>1. s \in Seq(AllCalls) /\ t \in Seq(AllCalls) /\ Without(t, W("launch_ram")) /\ Without(t, T(Slow))
  BY DEF Ready, Bare
<1>2. s \o t \in Seq(AllCalls)
  BY <1>1, Joined, Zenon
<1>3. ASSUME After(s) PROVE Ready(s \o t, opts)
  BY <1>1, <1>2, <1>3, WithoutJoin, Zenon DEF After, Ready
<1>4. ASSUME Before(s, opts) PROVE Ready(s \o t, opts)
  <2>1. PICK j \in 1 .. Len(s), p \in {2, 3} : Upcoming(s, j, p, opts)
    BY <1>4 DEF Before
  <2>2. Upcoming(s \o t, j, p, opts) /\ j \in 1 .. Len(s \o t)
    BY <1>1, <2>1, UpcomingAhead, Zenon
  <2> QED BY <1>2, <2>2, Zenon DEF Before, Ready
<1>5. Slowed(s) => Slowed(s \o t)
  BY <1>1, SlowedJoins, Zenon
<1>6. Ready(s \o t, opts)
  BY <1>3, <1>4 DEF Ready
<1> QED BY <1>5, <1>6

LEMMA BareWhen ==
  ASSUME NEW opts, NEW o, NEW t, Bare(t)
  PROVE  Bare(When(o, opts, t))
BY BareParts DEF When

\* The download, and what follows it.
LEMMA PatchUpcoming ==
  ASSUME NEW opts, "patchram" \in opts
  PROVE  LET c == proc_patchram(opts)
         IN  /\ c \in Seq(AllCalls) /\ \E p \in {2, 3} : Upcoming(c, 1, p, opts)
             /\ OneSpeed(opts) => Without(c, T(Slow))
<1> DEFINE f == Firmware(opts)
           w == When("use_baudrate_for_download", opts, Speed(Slow))
           fw == f \o w
           c == fw \o proc_reset
<1>1. PICK p \in {2, 3} : f \in Seq(AllCalls) /\ Without(f, T(Slow)) /\ Upcoming(f, 1, p, opts)
  BY FirmwareUpcoming, Zenon
<1>2. w \in Seq(AllCalls) /\ Without(w, W("launch_ram")) /\ (OneSpeed(opts) => Without(w, T(Slow)))
  <2>1. << >> \in Seq(AllCalls) /\ Without(<< >>, W("launch_ram")) /\ Without(<< >>, T(Slow))
    BY BareParts DEF Bare
  <2>2. Speed(Slow) \in Seq(AllCalls) /\ Without(Speed(Slow), W("launch_ram"))
    <3> DEFINE s == <<T(Slow)>>
    <3>1. T(Slow) \in AllCalls
      BY Members DEF Speeds
    <3>2. s \in Seq(AllCalls) /\ Len(s) = 1 /\ s[1] = T(Slow)
      BY <3>1, Tuples
    <3>3. Speed(Slow) = s
      BY DEF Speed, T
    <3>4. T(Slow) # W("launch_ram")
      BY Heads
    <3> HIDE DEF s
    <3> QED BY <3>2, <3>3, <3>4 DEF Without
  <2> QED BY <2>1, <2>2 DEF When, OneSpeed
<1>3. Bare(proc_reset)
  BY BareParts
<1> HIDE DEF f, w
<1>4. 1 \in 1 .. Len(f)
  <2>1. 1 + p + 2 * (Records - 0) <= Len(f) /\ Records \in Nat /\ Len(f) \in Nat
    BY <1>1, PatchRamAssumption, LenProperties DEF Upcoming, Remain
  <2> QED BY <2>1
<1>5. /\ fw \in Seq(AllCalls) /\ Upcoming(fw, 1, p, opts) /\ 1 \in 1 .. Len(fw)
      /\ OneSpeed(opts) => Without(fw, T(Slow))
  <2>1. fw \in Seq(AllCalls)
    BY <1>1, <1>2, Joined, Zenon
  <2>2. Upcoming(fw, 1, p, opts) /\ 1 \in 1 .. Len(fw)
    BY <1>1, <1>2, <1>4, UpcomingAhead, Zenon
  <2>3. OneSpeed(opts) => Without(fw, T(Slow))
    BY <1>1, <1>2, WithoutJoin, Zenon
  <2> QED BY <2>1, <2>2, <2>3
<1> HIDE DEF fw
<1>6. /\ c \in Seq(AllCalls) /\ Upcoming(c, 1, p, opts)
      /\ OneSpeed(opts) => Without(c, T(Slow))
  <2>1. proc_reset \in Seq(AllCalls) /\ Without(proc_reset, W("launch_ram")) /\ Without(proc_reset, T(Slow))
    BY <1>3 DEF Bare
  <2>2. c \in Seq(AllCalls)
    BY <1>5, <2>1, Joined, Zenon
  <2>3. Upcoming(c, 1, p, opts)
    BY <1>5, <2>1, UpcomingAhead, Zenon
  <2>4. OneSpeed(opts) => Without(c, T(Slow))
    BY <1>5, <2>1, WithoutJoin, Zenon
  <2> QED BY <2>2, <2>3, <2>4
<1>7. proc_patchram(opts) = c
  BY Zenon DEF proc_patchram, c, fw, f, w, Firmware, Minidriver
<1> QED BY <1>6, <1>7, Zenon

LEMMA ProgramReady ==
  ASSUME NEW opts
  PROVE  LET s == Program(opts)
         IN  Ready(s, opts) /\ (OneSpeed(opts) => Unslowed(s))
<1> DEFINE a  == init_uart \o proc_reset
           b  == When("use_baudrate_for_download", opts, When("baudrate", opts, proc_baudrate))
           ab == a \o b
           c  == When("patchram", opts, proc_patchram(opts))
           t1 == When("baudrate", opts, proc_baudrate)
           t2 == When("bd_addr", opts, Ask("write_bd_addr"))
           t3 == When("enable_lpm", opts, Ask("write_sleep_mode"))
           t4 == When("scopcm", opts, proc_scopcm)
           t5 == When("i2s", opts, Ask("write_i2spcm_interface_param"))
           e  == IF "enable_hci" \in opts THEN << <<"attach">> >> ELSE << <<"exit">> >>
<1>1. /\ a \in Seq(AllCalls) /\ Without(a, W("launch_ram")) /\ Without(a, W("update_baud_rate"))
      /\ Slowed(a)
  <2> DEFINE u == init_uart
             r == proc_reset
  <2>1. /\ u \in Seq(AllCalls) /\ Len(u) = 2 /\ u[1] = F /\ u[2] = T(Slow)
        /\ r \in Seq(AllCalls) /\ Without(r, W("launch_ram"))
        /\ Without(r, W("update_baud_rate")) /\ Without(r, T(Slow))
    BY BareParts DEF Bare
  <2> HIDE DEF u, r
  <2>2. Without(u, W("launch_ram")) /\ Without(u, W("update_baud_rate")) /\ Slowed(u)
    BY <2>1, Heads DEF Without, Slowed
  <2> QED BY <2>1, <2>2, WithoutJoin, SlowedJoins, Joined, Zenon DEF u, r
<1>2. /\ b \in Seq(AllCalls) /\ Without(b, W("launch_ram")) /\ Without(b, T(Slow))
      /\ OneSpeed(opts) => Without(b, W("update_baud_rate"))
  <2>1. Bare(b)
    BY BareParts, BareWhen, Zenon
  <2>2. OneSpeed(opts) => b = << >>
    BY DEF When, OneSpeed
  <2>3. Without(<< >>, W("update_baud_rate"))
    BY DEF Without
  <2> QED BY <2>1, <2>2, <2>3 DEF Bare
<1> HIDE DEF a, b
<1>3. /\ ab \in Seq(AllCalls) /\ Without(ab, W("launch_ram")) /\ Slowed(ab)
      /\ OneSpeed(opts) => Without(ab, W("update_baud_rate"))
  BY <1>1, <1>2, WithoutJoin, SlowedJoins, Joined, Zenon
<1> HIDE DEF ab
<1>4. Ready(ab \o c, opts) /\ (OneSpeed(opts) => Slowed(ab \o c))
  <2>1. CASE "patchram" \in opts
    <3> DEFINE d == proc_patchram(opts)
    <3>1. c = d
      BY <2>1 DEF When
    <3>2. PICK p \in {2, 3} : /\ d \in Seq(AllCalls) /\ Upcoming(d, 1, p, opts)
                              /\ OneSpeed(opts) => Without(d, T(Slow))
      BY <2>1, PatchUpcoming, Zenon
    <3> HIDE DEF d, c
    <3>3. Before(ab \o d, opts)
      BY <1>3, <3>2, UpcomingBehind, Zenon
    <3>4. ab \o d \in Seq(AllCalls) /\ (OneSpeed(opts) => Slowed(ab \o d))
      BY <1>3, <3>2, SlowedJoins, Joined, Zenon
    <3> QED BY <3>1, <3>3, <3>4 DEF Ready
  <2>2. CASE "patchram" \notin opts
    <3>1. c = << >>
      BY <2>2 DEF When
    <3>2. Ready(ab, opts) /\ Bare(<< >>)
      BY <1>3, BareParts DEF Ready, After
    <3> QED BY <1>3, <3>1, <3>2, ReadyGrows, Zenon
  <2> QED BY <2>1, <2>2
<1>5. Bare(t1) /\ Bare(t2) /\ Bare(t3) /\ Bare(t5)
  <2>1. "write_bd_addr" \in Plain /\ "write_sleep_mode" \in Plain /\ "write_i2spcm_interface_param" \in Plain
    BY PlainCommands
  <2> QED BY <2>1, BareParts, BareWhen, Zenon
<1>6. Bare(t4)
  <2> DEFINE x == Ask("write_sco_pcm_int")
             y == Ask("write_pcm_data_format")
  <2>1. Bare(x) /\ Bare(y)
    BY PlainCommands, BareParts
  <2> HIDE DEF x, y
  <2>2. Bare(x \o y)
    BY <2>1, WithoutJoin, Joined, Zenon DEF Bare
  <2>3. proc_scopcm = x \o y
    BY Zenon DEF proc_scopcm, x, y
  <2> QED BY <2>2, <2>3, BareWhen, Zenon
<1>7. Bare(e)
  <2>1. PICK x \in Ends : e = <<x>>
    BY DEF Ends
  <2> HIDE DEF e
  <2> QED BY <2>1, BareParts
<1> HIDE DEF c, t1, t2, t3, t4, t5, e
<1> DEFINE s0 == ab \o c
<1>8. Ready(s0, opts) /\ (OneSpeed(opts) => Slowed(s0))
  BY <1>4
<1> HIDE DEF s0
<1> DEFINE s1 == s0 \o t1
<1>9. Ready(s1, opts) /\ (OneSpeed(opts) => Slowed(s1))
  BY <1>5, <1>8, ReadyGrows, Zenon
<1> HIDE DEF s1
<1> DEFINE s2 == s1 \o t2
<1>10. Ready(s2, opts) /\ (OneSpeed(opts) => Slowed(s2))
  BY <1>5, <1>9, ReadyGrows, Zenon
<1> HIDE DEF s2
<1> DEFINE s3 == s2 \o t3
<1>11. Ready(s3, opts) /\ (OneSpeed(opts) => Slowed(s3))
  BY <1>5, <1>10, ReadyGrows, Zenon
<1> HIDE DEF s3
<1> DEFINE s4 == s3 \o t4
<1>12. Ready(s4, opts) /\ (OneSpeed(opts) => Slowed(s4))
  BY <1>6, <1>11, ReadyGrows, Zenon
<1> HIDE DEF s4
<1> DEFINE s5 == s4 \o t5
<1>13. Ready(s5, opts) /\ (OneSpeed(opts) => Slowed(s5))
  BY <1>5, <1>12, ReadyGrows, Zenon
<1> HIDE DEF s5
<1> DEFINE s == s5 \o e
<1>14. Ready(s, opts) /\ (OneSpeed(opts) => Slowed(s))
  BY <1>7, <1>13, ReadyGrows, Zenon
<1> HIDE DEF s
<1>15. Slowed(s) => Unslowed(s)
  <2> SUFFICES ASSUME Slowed(s), NEW i \in 1 .. Len(s), s[i] = R("launch_ram")
               PROVE  ~Followed(s, i)
    BY DEF Unslowed
  <2>1. i # 1 /\ Len(s) \in Nat
    BY <1>14, Heads, LenProperties DEF Slowed, Ready
  <2> QED BY <2>1 DEF Slowed, Followed
<1>16. Program(opts) = s
  BY Zenon DEF Program, s, s5, s4, s3, s2, s1, s0, ab, a, b, c, t1, t2, t3, t4, t5, e
<1> QED BY <1>14, <1>15, <1>16, Zenon
-----------------------------------------------------------------------------
(* The stages, as the program goes on.                                     *)

LEMMA LineGrows ==
  ASSUME NEW l \in Seq(Commands), NEW c \in Commands
  PROVE  LET m == Append(l, c)
         IN  /\ m \in Seq(Commands) /\ Len(m) = Len(l) + 1 /\ m[Len(l) + 1] = c
             /\ Len(l) \in Nat /\ \A i \in 1 .. Len(l) : m[i] = l[i]
             /\ \A d : Has(m, d) <=> Has(l, d) \/ c = d
             /\ Clean(l) /\ (c = "launch_ram" => Backed(m, Len(l) + 1)) => Clean(m)
             /\ Ordered(l) /\ (c = "launch_ram" => ~Has(l, "update_baud_rate")) => Ordered(m)
<1> DEFINE m == Append(l, c)
           n == Len(l)
<1>1. /\ m \in Seq(Commands) /\ Len(m) = n + 1 /\ m[n + 1] = c /\ n \in Nat
      /\ \A i \in 1 .. n : m[i] = l[i]
  BY Appends, LenProperties
<1> HIDE DEF m, n
<1>2. Records \in Nat
  BY PatchRamAssumption
<1>3. \A d : Has(m, d) <=> Has(l, d) \/ c = d
  <2>1. ASSUME NEW d, Has(m, d), c # d PROVE Has(l, d)
    <3>1. PICK i \in 1 .. (n + 1) : m[i] = d
      BY <1>1, <2>1 DEF Has
    <3>2. i \in 1 .. n
      BY <1>1, <2>1, <3>1
    <3> QED BY <1>1, <3>1, <3>2 DEF Has, n
  <2>2. ASSUME NEW d, Has(l, d) PROVE Has(m, d)
    <3>1. PICK i \in 1 .. n : l[i] = d
      BY <2>2 DEF Has, n
    <3> QED BY <1>1, <3>1 DEF Has
  <2>3. Has(m, c)
    BY <1>1 DEF Has
  <2> QED BY <2>1, <2>2, <2>3
<1>4. ASSUME Clean(l), c = "launch_ram" => Backed(m, n + 1) PROVE Clean(m)
  <2> SUFFICES ASSUME NEW i \in 1 .. (n + 1), m[i] = "launch_ram" PROVE Backed(m, i)
    BY <1>1 DEF Clean
  <2>1. CASE i = n + 1
    BY <1>1, <1>4, <2>1
  <2>2. CASE i \in 1 .. n
    <3>1. Backed(l, i)
      BY <1>1, <1>4, <2>2 DEF Clean, n
    <3>2. i - Records - 1 \in 1 .. n /\ \A j \in (i - Records) .. (i - 1) : j \in 1 .. n
      BY <1>1, <1>2, <2>2, <3>1 DEF Backed
    <3> QED BY <1>1, <3>1, <3>2 DEF Backed
  <2> QED BY <1>1, <2>1, <2>2
<1>5. ASSUME Ordered(l), c = "launch_ram" => ~Has(l, "update_baud_rate") PROVE Ordered(m)
  <2> SUFFICES ASSUME NEW i \in 1 .. (n + 1), NEW j \in 1 .. (n + 1), i < j, m[i] = "update_baud_rate"
               PROVE  m[j] # "launch_ram"
    BY <1>1 DEF Ordered
  <2>1. i \in 1 .. n /\ l[i] = "update_baud_rate"
    BY <1>1
  <2>2. CASE j = n + 1
    BY <1>1, <1>5, <2>1, <2>2 DEF Has, n
  <2>3. CASE j \in 1 .. n
    BY <1>1, <1>5, <2>1, <2>3 DEF Ordered, n
  <2> QED BY <1>1, <2>2, <2>3
<1> QED BY <1>1, <1>3, <1>4, <1>5 DEF m, n

\* Nothing is under way behind a command that is no part of a download.
LEMMA Unreached ==
  ASSUME NEW s, NEW l, Len(l) \in Nat,
         Len(l) > 0 => l[Len(l)] \notin {"download_minidriver", "write_ram"}
  PROVE  ~During(s, l)
<1> SUFFICES ASSUME NEW k \in 0 .. Records, Reached(l, k) PROVE FALSE
  BY DEF During, Underway
<1>1. Len(l) > k /\ k >= 0
  BY PatchRamAssumption DEF Reached
<1>2. CASE k = 0
  BY <1>1, <1>2 DEF Reached
<1>3. CASE k > 0
  <2>1. Len(l) \in (Len(l) - k + 1) .. Len(l)
    BY <1>3, PatchRamAssumption
  <2> QED BY <1>1, <2>1 DEF Reached
<1> QED BY <1>1, <1>2, <1>3, PatchRamAssumption

LEMMA CallsLeft ==
  ASSUME NEW s \in Seq(AllCalls), s # << >>
  PROVE  /\ Tail(s) \in Seq(AllCalls) /\ Len(s) \in Nat /\ Len(Tail(s)) = Len(s) - 1
         /\ \A i \in 1 .. (Len(s) - 1) : Tail(s)[i] = s[i + 1]
         /\ After(s) => After(Tail(s))
         /\ \A k \in 0 .. Records, p \in 1 .. Len(s) : Remain(s, k, p + 1) <=> Remain(Tail(s), k, p)
<1> DEFINE t == Tail(s)
           n == Len(s)
<1>1. t \in Seq(AllCalls) /\ n \in Nat /\ Len(t) = n - 1 /\ \A i \in 1 .. (n - 1) : t[i] = s[i + 1]
  BY HeadTailProperties, LenProperties, Zenon
<1> HIDE DEF t, n
<1>2. ASSUME After(s) PROVE After(t)
  BY <1>1, <1>2 DEF After, Without, n
<1>3. ASSUME NEW k \in 0 .. Records, NEW p \in 1 .. n
      PROVE  Remain(s, k, p + 1) <=> Remain(t, k, p)
  <2>1. ASSUME NEW i \in 0 .. (n - (p + 1)) PROVE s[p + 1 + i] = t[p + i]
    <3>1. p + i \in 1 .. (n - 1) /\ p + i + 1 = p + 1 + i
      BY <1>1
    <3> QED BY <1>1, <3>1
  <2>2. n - (p + 1) = Len(t) - p /\ Len(t) \in Nat /\ p \in Nat /\ p + 1 \in Nat
    BY <1>1
  <2>3. Remain(s, k, p + 1) => Remain(t, k, p)
    BY <1>1, <2>1, <2>2, RemainMoves DEF n
  <2>4. Remain(t, k, p) => Remain(s, k, p + 1)
    BY <1>1, <2>1, <2>2, RemainMoves DEF n
  <2> QED BY <2>3, <2>4
<1> QED BY <1>1, <1>2, <1>3 DEF t, n

\* The download comes nearer.
LEMMA UpcomingLeft ==
  ASSUME NEW opts, NEW s \in Seq(AllCalls), s # << >>, NEW j \in 2 .. Len(s), NEW p \in {2, 3},
         Upcoming(s, j, p, opts)
  PROVE  Upcoming(Tail(s), j - 1, p, opts) /\ j - 1 \in 1 .. Len(Tail(s))
<1> DEFINE t == Tail(s)
           n == Len(s)
<1>1. /\ t \in Seq(AllCalls) /\ n \in Nat /\ Len(t) = n - 1
      /\ \A i \in 1 .. (n - 1) : t[i] = s[i + 1]
      /\ \A k \in 0 .. Records, q \in 1 .. n : Remain(s, k, q + 1) <=> Remain(t, k, q)
  BY CallsLeft, Zenon
<1>2. Records \in Nat /\ 0 \in 0 .. Records
  BY PatchRamAssumption
<1>3. j + p + 2 * (Records - 0) <= n
  BY DEF Upcoming, Remain
<1> HIDE DEF t, n
<1>4. j + p <= n /\ j \in 2 .. n
  BY <1>1, <1>2, <1>3 DEF n
<1>5. t[j - 1] = W("download_minidriver")
  BY <1>1, <1>4 DEF Upcoming
<1>6. ASSUME NEW i \in 1 .. (j - 1 - 1)
      PROVE  t[i] # W("launch_ram") /\ (OneSpeed(opts) => t[i] # W("update_baud_rate"))
  <2>1. i + 1 \in 1 .. (j - 1) /\ i \in 1 .. (n - 1)
    BY <1>1, <1>4
  <2> QED BY <1>1, <2>1 DEF Upcoming
<1>7. ASSUME NEW i \in 1 .. (p - 1) PROVE t[j - 1 + i][1] # "write"
  <2>1. j - 1 + i \in 1 .. (n - 1) /\ (j - 1 + i) + 1 = j + i
    BY <1>1, <1>4
  <2> QED BY <1>1, <2>1 DEF Upcoming
<1>8. Remain(t, 0, j - 1 + p)
  <2>1. j - 1 + p \in 1 .. n /\ (j - 1 + p) + 1 = j + p
    BY <1>1, <1>4
  <2> QED BY <1>1, <1>2, <2>1 DEF Upcoming
<1>9. Upcoming(t, j - 1, p, opts)
  BY <1>5, <1>6, <1>7, <1>8 DEF Upcoming
<1> QED BY <1>1, <1>4, <1>9 DEF t

\* A call that sends nothing leaves the stage.
LEMMA StagedReturns ==
  ASSUME NEW opts, NEW s \in Seq(AllCalls), s # << >>, s[1][1] # "write", NEW l
  PROVE  /\ Staged(s, l, opts) => Staged(Tail(s), l, opts)
         /\ During(Tail(s), l) => During(s, l)
<1> DEFINE t == Tail(s)
           n == Len(s)
<1>1. /\ t \in Seq(AllCalls) /\ n \in Nat /\ Len(t) = n - 1
      /\ \A i \in 1 .. (n - 1) : t[i] = s[i + 1]
      /\ After(s) => After(t)
      /\ \A k \in 0 .. Records, p \in 1 .. n : Remain(s, k, p + 1) <=> Remain(t, k, p)
  BY CallsLeft, Zenon
<1>2. Records \in Nat /\ 0 \in 0 .. Records
  BY PatchRamAssumption
<1> HIDE DEF t, n
<1>3. ASSUME During(t, l) PROVE During(s, l)
  <2>1. PICK k \in 0 .. Records, p \in 1 .. (n - 1) :
               /\ \A i \in 1 .. (p - 1) : t[i][1] # "write"
               /\ Remain(t, k, p) /\ Reached(l, k)
    BY <1>1, <1>3 DEF During, Underway
  <2>2. ASSUME NEW i \in 1 .. (p + 1 - 1) PROVE s[i][1] # "write"
    <3>1. CASE i = 1
      BY <3>1
    <3>2. CASE i > 1
      <4>1. i - 1 \in 1 .. (p - 1) /\ i - 1 \in 1 .. (n - 1) /\ (i - 1) + 1 = i
        BY <1>1, <2>1, <3>2
      <4> QED BY <1>1, <2>1, <4>1
    <3> QED BY <2>1, <3>1, <3>2
  <2>3. p \in 1 .. n /\ p + 1 \in 1 .. n
    BY <1>1, <2>1
  <2>4. Underway(s, l, k, p + 1)
    BY <1>1, <2>1, <2>2, <2>3 DEF Underway
  <2> QED BY <2>1, <2>3, <2>4 DEF During, n
<1>4. ASSUME During(s, l) PROVE During(t, l)
  <2>1. PICK k \in 0 .. Records, p \in 1 .. n : Underway(s, l, k, p)
    BY <1>4 DEF During, n
  <2>2. p # 1
    <3> SUFFICES ASSUME p = 1 PROVE FALSE
      OBVIOUS
    <3>1. CASE k = Records
      <4>1. s[1] = W("launch_ram")
        BY <1>2, <2>1, <3>1 DEF Underway, Remain
      <4> QED BY <4>1, Heads
    <3>2. CASE k # Records
      <4>1. 0 \in 0 .. (Records - k - 1) /\ 1 + 2 * 0 = 1
        BY <1>2, <3>2
      <4>2. s[1 + 2 * 0] = W("write_ram")
        BY <2>1, <4>1 DEF Underway, Remain
      <4> QED BY <4>1, <4>2, Heads
    <3> QED BY <3>1, <3>2
  <2>3. p - 1 \in 1 .. n /\ p - 1 \in 1 .. (n - 1) /\ (p - 1) + 1 = p
    BY <1>1, <2>1, <2>2
  <2>4. Remain(t, k, p - 1)
    BY <1>1, <2>1, <2>3 DEF Underway
  <2>5. ASSUME NEW i \in 1 .. (p - 1 - 1) PROVE t[i][1] # "write"
    <3>1. i + 1 \in 1 .. (p - 1) /\ i \in 1 .. (n - 1)
      BY <1>1, <2>1
    <3> QED BY <1>1, <2>1, <3>1 DEF Underway
  <2>6. Underway(t, l, k, p - 1)
    BY <2>1, <2>4, <2>5 DEF Underway
  <2> QED BY <1>1, <2>1, <2>3, <2>6 DEF During
<1>5. ASSUME Before(s, opts) PROVE Before(t, opts)
  <2>1. PICK j \in 1 .. n, p \in {2, 3} : Upcoming(s, j, p, opts)
    BY <1>5 DEF Before, n
  <2>2. j # 1
    <3>1. s[j] = W("download_minidriver")
      BY <2>1 DEF Upcoming
    <3> QED BY <3>1, Heads
  <2>3. Upcoming(t, j - 1, p, opts)
    BY <1>1, <1>2, <2>1, <2>2, UpcomingLeft DEF t, n
  <2> QED BY <1>1, <2>1, <2>2, <2>3 DEF Before
<1>6. Staged(s, l, opts) => Staged(t, l, opts)
  BY <1>1, <1>4, <1>5 DEF Staged
<1> QED BY <1>3, <1>6 DEF t

\* A command that is written belongs to the stage, or leads to the next.
LEMMA StagedWrites ==
  ASSUME NEW opts, NEW s \in Seq(AllCalls), s # << >>, NEW c \in Commands, s[1] = W(c),
         NEW l \in Seq(Commands), Clean(l), OneSpeed(opts) => Ordered(l), Staged(s, l, opts)
  PROVE  LET m == Append(l, c)
         IN  Clean(m) /\ (OneSpeed(opts) => Ordered(m)) /\ Staged(Tail(s), m, opts)
<1> DEFINE m == Append(l, c)
           t == Tail(s)
           n == Len(s)
           e == Len(l)
<1>1. /\ t \in Seq(AllCalls) /\ n \in Nat /\ Len(t) = n - 1
      /\ \A i \in 1 .. (n - 1) : t[i] = s[i + 1]
      /\ After(s) => After(t)
      /\ \A k \in 0 .. Records, p \in 1 .. n : Remain(s, k, p + 1) <=> Remain(t, k, p)
  BY CallsLeft, Zenon
<1>2. Records \in Nat /\ 0 \in 0 .. Records
  BY PatchRamAssumption
<1>3. /\ m \in Seq(Commands) /\ Len(m) = e + 1 /\ m[e + 1] = c
      /\ e \in Nat /\ \A i \in 1 .. e : m[i] = l[i]
      /\ \A d : Has(m, d) <=> Has(l, d) \/ c = d
      /\ Clean(l) /\ (c = "launch_ram" => Backed(m, e + 1)) => Clean(m)
      /\ Ordered(l) /\ (c = "launch_ram" => ~Has(l, "update_baud_rate")) => Ordered(m)
  BY LineGrows, Zenon
<1>4. n > 0 /\ s[1][1] = "write"
  <2>1. n > 0
    BY <1>1
  <2> QED BY <2>1, Heads
<1> HIDE DEF m, t, n, e
<1>5. ASSUME NEW d, s[1] = W(d) PROVE d = c
  <2>1. W(d)[2] = d /\ W(c)[2] = c
    BY Heads
  <2> QED BY <1>5, <2>1
<1> DEFINE goal == Clean(m) /\ (OneSpeed(opts) => Ordered(m)) /\ Staged(t, m, opts)
<1>6. ASSUME After(s) PROVE goal
  <2>1. c # "launch_ram"
    BY <1>4, <1>6, <1>1 DEF After, Without, n
  <2> QED BY <1>1, <1>3, <1>6, <2>1 DEF Staged
<1>7. ASSUME Before(s, opts), OneSpeed(opts) => ~Has(l, "update_baud_rate") PROVE goal
  <2>1. PICK j \in 1 .. n, p \in {2, 3} : Upcoming(s, j, p, opts)
    BY <1>7 DEF Before, n
  <2>2. CASE j = 1
    <3>1. c = "download_minidriver"
      BY <1>5, <2>1, <2>2 DEF Upcoming
    <3>2. Reached(m, 0)
      BY <1>3, <3>1 DEF Reached
    <3>3. 1 + p + 2 * (Records - 0) <= n /\ p \in 1 .. n /\ p \in 1 .. (n - 1) /\ p + 1 = 1 + p
      <4>1. 1 + p + 2 * (Records - 0) <= n
        BY <2>1, <2>2 DEF Upcoming, Remain, n
      <4> QED BY <1>1, <1>2, <4>1
    <3>4. Remain(t, 0, p)
      BY <1>1, <1>2, <2>1, <2>2, <3>3 DEF Upcoming
    <3>5. ASSUME NEW i \in 1 .. (p - 1) PROVE t[i][1] # "write"
      <4>1. i \in 1 .. (n - 1) /\ i + 1 = 1 + i
        BY <1>1, <3>3
      <4> QED BY <1>1, <2>1, <2>2, <4>1 DEF Upcoming
    <3>6. During(t, m)
      <4>1. Underway(t, m, 0, p)
        BY <3>2, <3>4, <3>5 DEF Underway
      <4> QED BY <1>1, <1>2, <3>3, <4>1 DEF During
    <3> QED BY <1>3, <1>7, <3>1, <3>6 DEF Staged
  <2>3. CASE j # 1
    <3>1. j \in 2 .. n /\ 1 \in 1 .. (j - 1)
      BY <1>1, <2>3
    <3>2. Upcoming(t, j - 1, p, opts) /\ j - 1 \in 1 .. Len(t)
      BY <2>1, <3>1, UpcomingLeft DEF t, n
    <3>3. c # "launch_ram" /\ (OneSpeed(opts) => c # "update_baud_rate")
      BY <2>1, <3>1 DEF Upcoming
    <3>4. Before(t, opts)
      BY <3>2 DEF Before
    <3> QED BY <1>3, <1>7, <3>3, <3>4 DEF Staged
  <2> QED BY <2>2, <2>3
<1>8. ASSUME During(s, l), OneSpeed(opts) => ~Has(l, "update_baud_rate") PROVE goal
  <2>1. PICK k \in 0 .. Records, p \in 1 .. n : Underway(s, l, k, p)
    BY <1>8 DEF During, n
  <2>2. p = 1
    <3> SUFFICES ASSUME p # 1 PROVE FALSE
      OBVIOUS
    <3>1. 1 \in 1 .. (p - 1)
      OBVIOUS
    <3> QED BY <1>4, <2>1, <3>1 DEF Underway
  <2>3. Remain(s, k, 1) /\ Reached(l, k)
    BY <2>1, <2>2 DEF Underway
  <2>4. CASE k = Records
    <3>1. c = "launch_ram"
      <4>1. 1 + 2 * (Records - k) = 1
        BY <1>2, <2>4
      <4>2. s[1] = W("launch_ram")
        BY <2>3, <4>1 DEF Remain
      <4> QED BY <1>5, <4>2
    <3>2. After(t)
      <4>1. 1 + 2 * (Records - k) + 1 = 2
        BY <1>2, <2>4
      <4>2. \A i \in 2 .. n : s[i] # W("launch_ram")
        BY <2>3, <4>1 DEF Remain, n
      <4>3. ASSUME NEW i \in 1 .. (n - 1) PROVE i + 1 \in 2 .. n
        BY <1>1
      <4> QED BY <1>1, <4>2, <4>3 DEF After, Without
    <3>3. Backed(m, e + 1)
      <4>1. e > Records /\ l[e - Records] = "download_minidriver"
            /\ \A i \in (e - Records + 1) .. e : l[i] = "write_ram"
        BY <2>3, <2>4 DEF Reached, e
      <4>2. PICK b \in Nat : b = e + 1
        BY <1>3
      <4>3. /\ b > Records + 1 /\ b - Records - 1 = e - Records /\ e - Records \in 1 .. e
            /\ b - Records = e - Records + 1 /\ b - 1 = e
        BY <1>2, <1>3, <4>1, <4>2
      <4>4. m[b - Records - 1] = "download_minidriver"
        BY <1>3, <4>1, <4>3
      <4>5. ASSUME NEW i \in (b - Records) .. (b - 1) PROVE m[i] = "write_ram"
        <5>1. i \in (e - Records + 1) .. e /\ i \in 1 .. e
          BY <1>2, <1>3, <4>3
        <5> QED BY <1>3, <4>1, <5>1
      <4>6. Backed(m, b)
        BY <4>3, <4>4, <4>5 DEF Backed
      <4> QED BY <4>2, <4>6
    <3>4. ~OneSpeed(opts) \/ ~Has(l, "update_baud_rate")
      BY <1>8
    <3> QED BY <1>3, <3>1, <3>2, <3>3, <3>4 DEF Staged
  <2>5. CASE k # Records
    <3>1. 0 \in 0 .. (Records - k - 1) /\ 1 + 2 * 0 = 1 /\ k + 1 \in 0 .. Records
      BY <1>2, <2>5
    <3>2. s[1 + 2 * 0] = W("write_ram") /\ s[1 + 2 * 0 + 1][1] # "write"
      BY <2>3, <3>1 DEF Remain
    <3>3. c = "write_ram" /\ s[2][1] # "write"
      <4>1. s[1] = W("write_ram") /\ s[2][1] # "write"
        BY <3>1, <3>2
      <4> QED BY <1>5, <4>1
    <3>4. 1 + 2 * (Records - k) <= n /\ 2 \in 1 .. (n - 1)
      <4>1. 1 + 2 * (Records - k) <= n
        BY <2>3 DEF Remain, n
      <4> QED BY <1>1, <1>2, <2>5, <4>1
    <3>5. Remain(s, k + 1, 2 + 1)
      <4> DEFINE q == Records - (k + 1)
      <4>1. q \in Nat /\ Records - k = q + 1 /\ 2 + 1 + 2 * q = 1 + 2 * (q + 1) /\ Records - k - 1 = q
        BY <1>2, <2>5
      <4>2. /\ 1 + 2 * (q + 1) <= n
            /\ \A i \in 0 .. q : s[1 + 2 * i] = W("write_ram") /\ s[1 + 2 * i + 1][1] # "write"
            /\ s[1 + 2 * (q + 1)] = W("launch_ram")
            /\ \A i \in (1 + 2 * (q + 1) + 1) .. n : s[i] # W("launch_ram")
        <5>1. /\ 1 + 2 * (Records - k) <= n
              /\ \A i \in 0 .. (Records - k - 1) : s[1 + 2 * i] = W("write_ram") /\ s[1 + 2 * i + 1][1] # "write"
              /\ s[1 + 2 * (Records - k)] = W("launch_ram")
              /\ \A i \in (1 + 2 * (Records - k) + 1) .. n : s[i] # W("launch_ram")
          BY <2>3, Zenon DEF Remain, n
        <5> HIDE DEF q
        <5> QED BY <4>1, <5>1
      <4>3. ASSUME NEW i \in 0 .. (q - 1)
            PROVE  s[2 + 1 + 2 * i] = W("write_ram") /\ s[2 + 1 + 2 * i + 1][1] # "write"
        <5>1. i + 1 \in 0 .. q /\ 2 + 1 + 2 * i = 1 + 2 * (i + 1)
          BY <4>1
        <5> HIDE DEF q
        <5> QED BY <4>2, <5>1
      <4> HIDE DEF q
      <4>4. /\ 2 + 1 + 2 * q <= n /\ s[2 + 1 + 2 * q] = W("launch_ram")
            /\ \A i \in (2 + 1 + 2 * q + 1) .. n : s[i] # W("launch_ram")
        BY <4>1, <4>2
      <4> QED BY <4>3, <4>4 DEF Remain, q, n
    <3>6. Remain(t, k + 1, 2)
      BY <1>1, <3>1, <3>4, <3>5
    <3>7. ASSUME NEW i \in 1 .. (2 - 1) PROVE t[i][1] # "write"
      <4>1. i = 1 /\ 1 \in 1 .. (n - 1) /\ t[1] = s[1 + 1] /\ 1 + 1 = 2
        BY <1>1, <3>4
      <4> QED BY <3>3, <4>1
    <3>8. Reached(m, k + 1)
      <4>1. e > k /\ l[e - k] = "download_minidriver" /\ \A i \in (e - k + 1) .. e : l[i] = "write_ram"
        BY <2>3 DEF Reached, e
      <4>2. e + 1 > k + 1 /\ e + 1 - (k + 1) = e - k /\ e - k \in 1 .. e
        BY <1>2, <1>3, <4>1
      <4>3. m[e + 1 - (k + 1)] = "download_minidriver"
        BY <1>3, <4>1, <4>2
      <4>4. ASSUME NEW i \in (e + 1 - (k + 1) + 1) .. (e + 1) PROVE m[i] = "write_ram"
        <5>1. CASE i = e + 1
          BY <1>3, <3>3, <5>1
        <5>2. CASE i # e + 1
          <6>1. i \in (e - k + 1) .. e /\ i \in 1 .. e
            BY <1>2, <1>3, <4>2, <5>2
          <6> QED BY <1>3, <4>1, <6>1
        <5> QED BY <5>1, <5>2
      <4> QED BY <1>3, <4>2, <4>3, <4>4 DEF Reached
    <3>9. Underway(t, m, k + 1, 2)
      BY <3>6, <3>7, <3>8 DEF Underway
    <3>10. During(t, m)
      BY <1>1, <3>1, <3>4, <3>9 DEF During
    <3> QED BY <1>3, <1>8, <3>3, <3>10 DEF Staged
  <2> QED BY <2>4, <2>5
<1>9. goal
  BY <1>6, <1>7, <1>8, Zenon DEF Staged
<1> QED BY <1>9 DEF m, t
-----------------------------------------------------------------------------
(* The line, as commands move along it.                                    *)

LEMMA CommandsJoin ==
  ASSUME NEW s \in Seq(Commands), NEW t \in Seq(Commands)
  PROVE  /\ s \o t \in Seq(Commands) /\ Len(s \o t) = Len(s) + Len(t)
         /\ Len(s) \in Nat /\ Len(t) \in Nat
         /\ \A i \in 1 .. Len(s) : (s \o t)[i] = s[i]
         /\ \A i \in 1 .. Len(t) : (s \o t)[Len(s) + i] = t[i]
         /\ \A u \in Seq(Commands) : (s \o t) \o u = s \o (t \o u)
<1>1. \A u \in Seq(Commands) : (s \o t) \o u = s \o (t \o u)
  BY ConcatAssociative
<1> QED BY <1>1, Concats

LEMMA Shifts ==
  ASSUME NEW s \in Seq(Commands), NEW t \in Seq(Commands)
  PROVE  /\ \A c \in Commands : s \o Append(t, c) = Append(s \o t, c)
         /\ t # << >> => Append(s, Head(t)) \o Tail(t) = s \o t
<1>1. ASSUME NEW c \in Commands PROVE s \o Append(t, c) = Append(s \o t, c)
  <2>1. <<c>> \in Seq(Commands) /\ s \o t \in Seq(Commands)
    BY Concats, Two2
  <2>2. Append(t, c) = t \o <<c>> /\ Append(s \o t, c) = (s \o t) \o <<c>>
    BY <2>1, AppendIsConcat, Zenon
  <2>3. (s \o t) \o <<c>> = s \o (t \o <<c>>)
    BY <2>1, CommandsJoin, ZenonT(30)
  <2> QED BY <2>2, <2>3
<1>2. ASSUME t # << >> PROVE Append(s, Head(t)) \o Tail(t) = s \o t
  <2> DEFINE h == <<Head(t)>>
             u == Tail(t)
  <2>1. Head(t) \in Commands /\ u \in Seq(Commands)
    BY <1>2, TailTyped
  <2>2. h \in Seq(Commands) /\ Len(h) = 1 /\ h[1] = Head(t)
    BY <2>1, Two2
  <2>3. Append(s, Head(t)) = s \o h
    BY <2>1, AppendIsConcat, Zenon
  <2>6. u = Tail(t)
    OBVIOUS
  <2> HIDE DEF h, u
  <2>4. (s \o h) \o u = s \o (h \o u)
    <3>1. \A r \in Seq(Commands) : (s \o h) \o r = s \o (h \o r)
      BY <2>2, CommandsJoin, Zenon
    <3> QED BY <2>1, <3>1, Zenon
  <2>5. h \o u = t
    <3>1. /\ h \o u \in Seq(Commands) /\ Len(h \o u) = Len(h) + Len(u)
          /\ \A i \in 1 .. Len(h) : (h \o u)[i] = h[i]
          /\ \A i \in 1 .. Len(u) : (h \o u)[Len(h) + i] = u[i]
      BY <2>1, <2>2, CommandsJoin, Zenon
    <3>2. Len(u) = Len(t) - 1 /\ \A i \in 1 .. Len(u) : u[i] = t[i + 1]
      BY <1>2, <2>6, HeadTailProperties, Zenon
    <3>3. Head(t) = t[1] /\ Len(t) \in Nat /\ Len(t) > 0
      BY <1>2
    <3> DEFINE v == h \o u
    <3> HIDE DEF v
    <3>4. v \in Seq(Commands) /\ Len(v) = Len(t) /\ v[1] = t[1]
          /\ \A i \in 1 .. Len(u) : v[1 + i] = t[i + 1]
      BY <2>2, <3>1, <3>2, <3>3 DEF v
    <3>5. ASSUME NEW i \in 1 .. Len(v) PROVE v[i] = t[i]
      <4>1. CASE i = 1
        BY <3>4, <4>1
      <4>2. CASE i > 1
        <5>1. i - 1 \in 1 .. Len(u) /\ 1 + (i - 1) = i /\ (i - 1) + 1 = i
          BY <3>2, <3>3, <3>4, <4>2
        <5> QED BY <3>4, <5>1
      <4> QED BY <4>1, <4>2
    <3>6. v = t
      BY <3>4, <3>5, SeqEqual, Zenon
    <3> QED BY <3>6 DEF v
  <2> QED BY <2>3, <2>4, <2>5, <2>6
<1> QED BY <1>1, <1>2

LEMMA Parts ==
  ASSUME NEW s \in Seq(Commands), NEW t \in Seq(Commands)
  PROVE  /\ Clean(s \o t) => Clean(s)
         /\ \A c : Has(s \o t, c) <=> Has(s, c) \/ Has(t, c)
         /\ Ordered(s \o t) /\ Has(s, "update_baud_rate") => ~Has(t, "launch_ram")
<1> DEFINE st == s \o t
           m == Len(s)
           n == Len(t)
<1>1. /\ Len(st) = m + n /\ m \in Nat /\ n \in Nat
      /\ \A i \in 1 .. m : st[i] = s[i]
      /\ \A i \in 1 .. n : st[m + i] = t[i]
  BY CommandsJoin, Zenon
<1>2. Records \in Nat
  BY PatchRamAssumption
<1> HIDE DEF st, m, n
<1>3. ASSUME Clean(st) PROVE Clean(s)
  <2> SUFFICES ASSUME NEW i \in 1 .. m, s[i] = "launch_ram" PROVE Backed(s, i)
    BY DEF Clean, m
  <2>1. Backed(st, i)
    BY <1>1, <1>3 DEF Clean
  <2>2. i - Records - 1 \in 1 .. m /\ \A j \in (i - Records) .. (i - 1) : j \in 1 .. m
    BY <1>1, <1>2, <2>1 DEF Backed
  <2> QED BY <1>1, <2>1, <2>2 DEF Backed
<1>4. ASSUME NEW c, NEW i \in 1 .. (m + n), st[i] = c PROVE Has(s, c) \/ Has(t, c)
  <2>1. CASE i <= m
    BY <1>1, <1>4, <2>1 DEF Has, m
  <2>2. CASE i > m
    <3>1. i - m \in 1 .. n /\ m + (i - m) = i
      BY <1>1, <2>2
    <3>2. t[i - m] = c
      BY <1>1, <1>4, <3>1
    <3> QED BY <3>1, <3>2 DEF Has, n
  <2> QED BY <1>1, <2>1, <2>2
<1>5. ASSUME NEW c, Has(s, c) PROVE Has(st, c)
  <2>1. PICK i \in 1 .. m : s[i] = c
    BY <1>5 DEF Has, m
  <2> QED BY <1>1, <2>1 DEF Has
<1>6. ASSUME NEW c, Has(t, c) PROVE Has(st, c)
  <2>1. PICK i \in 1 .. n : t[i] = c
    BY <1>6 DEF Has, n
  <2>2. m + i \in 1 .. (m + n) /\ st[m + i] = c
    BY <1>1, <2>1
  <2> QED BY <1>1, <2>2 DEF Has
<1>7. ASSUME Ordered(st), Has(s, "update_baud_rate"), Has(t, "launch_ram") PROVE FALSE
  <2>1. PICK i \in 1 .. m : s[i] = "update_baud_rate"
    BY <1>7 DEF Has, m
  <2>2. PICK j \in 1 .. n : t[j] = "launch_ram"
    BY <1>7 DEF Has, n
  <2>3. i \in 1 .. (m + n) /\ m + j \in 1 .. (m + n) /\ i < m + j
        /\ st[i] = "update_baud_rate" /\ st[m + j] = "launch_ram"
    BY <1>1, <2>1, <2>2
  <2> QED BY <1>1, <1>7, <2>3 DEF Ordered
<1>8. \A c : Has(st, c) <=> Has(s, c) \/ Has(t, c)
  <2>1. ASSUME NEW c, Has(st, c) PROVE Has(s, c) \/ Has(t, c)
    BY <1>1, <1>4, <2>1 DEF Has
  <2> QED BY <1>5, <1>6, <2>1
<1> QED BY <1>3, <1>7, <1>8 DEF st

LEMMA Lines ==
  ASSUME Types
  PROVE  arrived \in Seq(Commands) /\ line \in Seq(Commands)
BY Concats, Zenon DEF Types, arrived, line

\* A command is queued.
LEMMA LineQueued ==
  ASSUME Types, NEW c \in Commands, output' = Append(output, c), UNCHANGED <<executed, received>>
  PROVE  line' = Append(line, c) /\ arrived' = arrived
<1>1. arrived' = arrived
  BY DEF arrived
<1>2. arrived \o Append(output, c) = Append(arrived \o output, c)
  BY Lines, Shifts DEF Types
<1> QED BY <1>1, <1>2 DEF line

\* The chip takes one from the line,
LEMMA LineExecutes ==
  ASSUME Types, ChipExecutes
  PROVE  line' = line /\ arrived' = arrived
<1>1. Append(executed, Head(received)) \o Tail(received) = executed \o received
  BY Executes, Shifts DEF Types
<1>2. arrived' = arrived
  BY <1>1, Executes DEF arrived
<1> QED BY <1>2, Executes DEF line

\* receives one, or loses one.
Heeds == awake /\ hostSpeed = chipSpeed

LEMMA LineTransmits ==
  ASSUME Types, Transmit
  PROVE  /\ Head(output) \in Commands /\ output # << >> /\ output' = Tail(output)
         /\ UNCHANGED <<host, hostSpeed, input, confirms, awake, chipSpeed, replies, executed>>
         /\ Heeds => line' = line /\ arrived' = Append(arrived, Head(output))
         /\ ~Heeds => line' = arrived \o Tail(output) /\ arrived' = arrived /\ received' = received
<1>1. /\ output # << >> /\ output' = Tail(output)
      /\ received' = IF Heeds THEN Append(received, Head(output)) ELSE received
      /\ UNCHANGED <<host, hostSpeed, input, confirms, awake, chipSpeed, replies, executed>>
  BY DEF Transmit, Heeds
<1>2. Head(output) \in Commands
  BY <1>1, TailTyped DEF Types
<1>3. ASSUME Heeds PROVE line' = line /\ arrived' = Append(arrived, Head(output))
  <2>1. arrived' = executed \o Append(received, Head(output))
    BY <1>1, <1>3 DEF arrived
  <2>2. executed \o Append(received, Head(output)) = Append(arrived, Head(output))
    BY <1>2, Shifts DEF Types, arrived
  <2>3. Append(arrived, Head(output)) \o Tail(output) = arrived \o output
    BY <1>1, Lines, Shifts DEF Types
  <2> QED BY <1>1, <2>1, <2>2, <2>3 DEF line
<1>4. ASSUME ~Heeds PROVE line' = arrived \o Tail(output) /\ arrived' = arrived /\ received' = received
  BY <1>1, <1>4 DEF line, arrived
<1> QED BY <1>1, <1>2, <1>3, <1>4
-----------------------------------------------------------------------------
(* The steps, by what they do to the line.                                 *)

USE DEF Calls, Arg, Return, Kind

\* The steps of the program that send nothing.
Listens == ReadEvent \/ ReadTwoBytes \/ Alarm \/ SetSpeed \/ Flush \/ Attach \/ Exit

LEMMA Listening ==
  ASSUME Types, Parsed, Opened, Listens
  PROVE  /\ pc = "run" /\ Kind # "write" /\ todo \in Seq(AllCalls) /\ todo # << >>
         /\ Head(todo) = todo[1] /\ Head(todo) \in AllCalls
         /\ UNCHANGED <<options, retries, sent, confirms, awake, chipSpeed, received, replies, executed>>
         /\ UNCHANGED <<output, line, arrived>>
         /\ armed' = armed \/ Head(todo) = On \/ Head(todo) = Off
         /\ Head(todo) = Off => ~armed'
         /\ hostSpeed' = hostSpeed \/ \E s \in Speeds : Head(todo) = T(s) /\ hostSpeed' = s
         /\ \A s \in Speeds : Head(todo) = T(s) => hostSpeed' = s
         /\ input = << >> /\ Kind # "flush" => input' = << >> /\ Kind \notin {"read_event", "read2"}
         /\ Kind = "flush" => input' = << >>
         /\ pc' = "run" => /\ Return /\ Kind \notin {"attach", "exit"} /\ todo' = Tail(todo)
                           /\ Head(todo') = todo[2] /\ Head(todo') \in AllCalls
                           /\ AheadAt(todo, 1, options) /\ Kind' # "flush"
<1>1. /\ pc = "run" /\ Kind # "write"
      /\ UNCHANGED <<options, retries, sent, confirms, awake, chipSpeed, received, replies, executed>>
      /\ output' = output \/ (Kind = "flush" /\ output' = << >>)
      /\ pc' = "run" => Return /\ Kind \in {"read_event", "read2", "alarm", "tcsetattr", "flush"}
  BY DEF Listens, ReadEvent, ReadTwoBytes, Alarm, SetSpeed, Flush, Attach, Exit, uart, chip
<1>2. output' = output
  BY <1>1 DEF Opened
<1>3. line' = line /\ arrived' = arrived
  BY <1>1, <1>2 DEF line, arrived
<1>4. /\ todo \in Seq(AllCalls) /\ todo # << >> /\ Head(todo) = todo[1] /\ Head(todo) \in AllCalls
  BY <1>1, NowHeads
<1>5. pc' = "run" => /\ Head(todo') = todo[2] /\ Head(todo') \in AllCalls
                     /\ AheadAt(todo, 1, options) /\ Kind' # "flush"
                     /\ todo' = Tail(todo)
  BY <1>1, Returns, NextCall
<1>6. /\ Kind # "alarm" => armed' = armed
      /\ Kind = "alarm" => armed' = Arg
      /\ Kind # "tcsetattr" => hostSpeed' = hostSpeed
      /\ Kind = "tcsetattr" => hostSpeed' = Arg
      /\ Kind = "flush" => input' = << >>
      /\ input = << >> /\ Kind # "flush" => input' = << >> /\ Kind \notin {"read_event", "read2"}
  BY DEF Listens, ReadEvent, ReadTwoBytes, Alarm, SetSpeed, Flush, Attach, Exit, uart
<1>7. /\ armed' = armed \/ Head(todo) = On \/ Head(todo) = Off
      /\ Head(todo) = Off => ~armed'
  <2>1. Off[1] = "alarm" /\ Off[2] = FALSE
    BY DEF Off
  <2> QED BY <1>4, <1>6, <2>1, Kinds
<1>8. hostSpeed' = hostSpeed \/ \E s \in Speeds : Head(todo) = T(s) /\ hostSpeed' = s
  BY <1>4, <1>6, Kinds
<1>9. ASSUME NEW s \in Speeds, Head(todo) = T(s) PROVE hostSpeed' = s
  BY <1>6, <1>9, Heads
<1> QED BY <1>1, <1>2, <1>3, <1>4, <1>5, <1>6, <1>7, <1>8, <1>9

LEMMA Writing ==
  ASSUME Types, Parsed, Opened, Write
  PROVE  /\ pc = "run" /\ Return /\ Kind = "write" /\ todo \in Seq(AllCalls) /\ todo # << >>
         /\ Arg \in Commands /\ Head(todo) = W(Arg) /\ Head(todo) = todo[1]
         /\ todo' = Tail(todo) /\ Head(todo') = todo[2]
         /\ Head(todo') = R(Arg) \/ (Arg = "reset" /\ Head(todo') = On)
         /\ UNCHANGED <<pc, options, armed, retries, hostSpeed, input, confirms, awake>>
         /\ UNCHANGED <<chipSpeed, received, replies, executed, arrived>>
         /\ output' = Append(output, Arg) /\ sent' # << >> /\ line' = Append(line, Arg)
         /\ sent = << >> => Arg = "reset"
<1>1. /\ pc = "run" /\ Kind = "write" /\ Return /\ hci_send_cmd(Arg)
      /\ UNCHANGED <<pc, options, armed, retries, hostSpeed, input, confirms, awake>>
      /\ UNCHANGED <<chipSpeed, received, replies, executed>>
  BY DEF Write, chip
<1>2. /\ todo \in Seq(AllCalls) /\ todo # << >> /\ Head(todo) \in AllCalls /\ Head(todo) = todo[1]
  BY <1>1, NowHeads
<1>3. Arg \in Commands /\ Head(todo) = W(Arg)
  BY <1>1, <1>2, Kinds
<1>4. AheadAt(todo, 1, options) /\ Head(todo') = todo[2]
  BY <1>1, Returns
<1>5. Head(todo') = R(Arg) \/ (Arg = "reset" /\ Head(todo') = On)
  <2>1. todo[1][1] = "write" /\ todo[1][2] = Arg /\ 1 + 1 = 2
    BY <1>1, <1>2
  <2> QED BY <1>4, <2>1 DEF AheadAt
<1>6. output' = Append(output, Arg) /\ sent' = Append(sent, Arg)
  BY <1>1, Zenon DEF hci_send_cmd
<1>7. sent' # << >>
  <2>1. sent \in Seq(Commands)
    BY DEF Types
  <2>2. Append(sent, Arg) # << >>
    BY <1>3, <2>1, Appends
  <2> QED BY <1>6, <2>2
<1>8. line' = Append(line, Arg) /\ arrived' = arrived
  BY <1>1, <1>3, <1>6, LineQueued
<1>9. sent = << >> => Arg = "reset"
  BY <1>1, <1>2, Heads DEF Parsed, Opening
<1> QED BY <1>1, <1>2, <1>3, <1>4, <1>5, <1>6, <1>7, <1>8, <1>9

LEMMA Expiring ==
  ASSUME Types, Parsed, expired
  PROVE  /\ armed /\ armed' /\ sent # << >> /\ sent' # << >> /\ retries' # 0
         /\ output' = Append(output, "reset") /\ line' = Append(line, "reset")
         /\ UNCHANGED <<pc, options, todo, hostSpeed, input, confirms, awake, chipSpeed>>
         /\ UNCHANGED <<received, replies, executed, arrived>>
<1>1. /\ armed /\ armed' = TRUE /\ retries' = retries + 1 /\ hci_send_cmd("reset")
      /\ UNCHANGED <<pc, options, todo, hostSpeed, input, confirms, awake, chipSpeed>>
      /\ UNCHANGED <<received, replies, executed>>
  BY DEF expired, chip
<1>2. "reset" \in Commands
  BY DEF Commands
<1>3. output' = Append(output, "reset") /\ sent' = Append(sent, "reset")
  BY <1>1 DEF hci_send_cmd
<1>4. sent' # << >>
  <2>1. sent \in Seq(Commands)
    BY DEF Types
  <2>2. Append(sent, "reset") # << >>
    BY <1>2, <2>1, Appends
  <2> QED BY <1>3, <2>2
<1>5. line' = Append(line, "reset") /\ arrived' = arrived
  BY <1>1, <1>2, <1>3, LineQueued
<1>6. sent # << >> /\ retries' # 0
  BY <1>1, PatchRamAssumption DEF Parsed, Types
<1> QED BY <1>1, <1>3, <1>4, <1>5, <1>6

LEMMA Parsing ==
  ASSUME Types, Parsed, ParseCmdLine
  PROVE  /\ executed' = << >> /\ received' = << >> /\ output' = << >> /\ replies' = << >>
         /\ sent' = << >> /\ ~armed' /\ retries' = 0 /\ chipSpeed' = Slow /\ line' = << >>
         /\ pc' # "run" \/ (/\ todo' = Program(options') /\ todo' \in Seq(AllCalls)
                            /\ Kind' = "flush")
         /\ input' = input
<1>1. /\ UNCHANGED <<output, input, received, replies, executed, sent, armed, retries, chipSpeed>>
      /\ pc = "parse" /\ (pc' # "run" \/ todo' = Program(options'))
  BY DEF ParseCmdLine, uart, chip
<1>2. output = << >> /\ received = << >> /\ replies = << >> /\ executed = << >> /\ sent = << >>
      /\ ~armed /\ retries = 0 /\ chipSpeed = Slow
  BY <1>1 DEF Parsed, Quiet
<1>3. ASSUME todo' = Program(options') PROVE todo' \in Seq(AllCalls) /\ Kind' = "flush"
  <2>1. Shaped(todo', options') /\ First(todo')
    BY <1>3, Programs, Zenon
  <2>2. todo' \in Seq(AllCalls) /\ Head(todo') = F
    BY <2>1 DEF First, Shaped, Begun
  <2> QED BY <2>2, Heads
<1>4. line' = << >>
  <2>1. << >> \in Seq(Commands)
    OBVIOUS
  <2>2. << >> \o << >> = << >>
    BY <2>1, ConcatEmptySeq, Zenon
  <2> QED BY <1>1, <1>2, <2>2 DEF line, arrived
<1> QED BY <1>1, <1>2, <1>3, <1>4

LEMMA OpenedNext ==
  ASSUME Types, Parsed, Opened, Next \/ UNCHANGED vars
  PROVE  Opened'
<1>1. CASE ParseCmdLine
  BY <1>1, Parsing DEF Opened, Parsed, ParseCmdLine
<1>2. CASE Write
  <2>1. sent' # << >> /\ Kind' # "flush"
    BY <1>2, Writing, NextCall
  <2> QED BY <2>1 DEF Opened
<1>3. CASE Listens
  BY <1>3, Listening DEF Opened
<1>4. CASE expired
  BY <1>4, Expiring DEF Opened
<1>5. CASE ChipMoves
  <2>1. /\ UNCHANGED <<pc, todo, sent>>
        /\ output # << >> \/ received # << >> \/ replies # << >>
    BY <1>5, Unmoved
  <2> QED BY <2>1 DEF Opened
<1>6. CASE ChipBoots \/ UNCHANGED vars
  BY <1>6 DEF Opened, ChipBoots, vars, host, uart, chip
<1> QED BY <1>1, <1>2, <1>3, <1>4, <1>5, <1>6 DEF Next, HostStep, ChipStep, Listens, ChipMoves
-----------------------------------------------------------------------------
(* One speed: each part of the invariant is kept.                          *)

\* The chip sends what it has, and changes its speed after its answer.
LEMMA Transmitting ==
  ASSUME Types, Together, ChipTransmits
  PROVE  /\ UNCHANGED <<pc, options, todo, armed, retries, sent>>
         /\ UNCHANGED <<hostSpeed, output, confirms, awake, received, executed, line, arrived>>
         /\ replies # << >> /\ Len(replies) \in Nat /\ Len(replies') \in Nat
         /\ \A i \in 1 .. Len(replies') : \E j \in 2 .. Len(replies) : replies'[i] = replies[j]
         /\ chipSpeed' = Fast => chipSpeed = Fast \/ replies[1] = Event("update_baud_rate", TRUE)
<1> DEFINE whole == IF Head(replies) \in Confirmation /\ confirms = "together" THEN 2 ELSE 1
           what  == SubSeq(replies, 1, whole)
<1>1. /\ replies # << >>
      /\ replies' = SubSeq(replies, whole + 1, Len(replies))
      /\ chipSpeed' = CASE Head(what) = Event("update_baud_rate", TRUE) -> Fast
                       [] Head(what) = Event("launch_ram", TRUE)       -> Slow
                       [] OTHER                                        -> chipSpeed
      /\ UNCHANGED <<pc, options, todo, armed, retries, sent>>
      /\ UNCHANGED <<hostSpeed, output, confirms, awake, received, executed>>
  BY DEF ChipTransmits, host
<1>2. replies \in Seq(Items) /\ Len(replies) \in Nat /\ Len(replies) > 0
  BY <1>1 DEF Types
<1>3. whole \in {1, 2} /\ whole <= Len(replies)
  BY <1>1, <1>2, CoupledShrinks DEF Together
<1> HIDE DEF whole
<1>4. Head(what) = replies[1]
  BY <1>2, <1>3
<1> HIDE DEF what
<1>5. chipSpeed' = Fast => chipSpeed = Fast \/ replies[1] = Event("update_baud_rate", TRUE)
  BY <1>1, <1>4 DEF Fast, Slow
<1>6. /\ Len(replies') = Len(replies) - whole
      /\ \A i \in 1 .. (Len(replies) - whole) : replies'[i] = replies[i + whole]
  <2>1. whole + 1 \in 2 .. 3 /\ whole + 1 <= Len(replies) + 1
    BY <1>2, <1>3
  <2>2. /\ Len(replies') = Len(replies) + 1 - (whole + 1)
        /\ \A i \in 1 .. (Len(replies) + 1 - (whole + 1)) : replies'[i] = replies[i + (whole + 1) - 1]
    BY <1>1, <1>2, <2>1, Drops
  <2> QED BY <1>2, <1>3, <2>2
<1>7. ASSUME NEW i \in 1 .. Len(replies') PROVE \E j \in 2 .. Len(replies) : replies'[i] = replies[j]
  <2>1. i + whole \in 2 .. Len(replies) /\ i \in 1 .. (Len(replies) - whole)
    BY <1>2, <1>3, <1>6
  <2> QED BY <1>6, <2>1
<1>8. Len(replies') \in Nat
  BY <1>2, <1>3, <1>6
<1>9. UNCHANGED <<line, arrived>>
  BY <1>1 DEF line, arrived
<1> QED BY <1>1, <1>2, <1>5, <1>7, <1>8, <1>9

LEMMA Still ==
  ASSUME ChipBoots \/ UNCHANGED vars
  PROVE  /\ UNCHANGED <<pc, options, todo, armed, retries, sent, hostSpeed, output, input>>
         /\ UNCHANGED <<confirms, chipSpeed, received, replies, executed, line, arrived>>
         /\ awake' \/ awake' = awake
BY DEF ChipBoots, vars, host, uart, chip, line, arrived

\* What is lost while the chip is up has been overtaken by a change of speed.
LEMMA Overtaken ==
  ASSUME Types, Opened, Transmit, ~Heeds, awake, ChipSlow, Whole, HostFollows
  PROVE  Has(line, "update_baud_rate")
<1>1. hostSpeed # chipSpeed /\ sent # << >>
  BY LineTransmits DEF Heeds, Opened
<1> SUFFICES ASSUME ~Has(line, "update_baud_rate") PROVE FALSE
  OBVIOUS
<1>2. hostSpeed = Slow /\ chipSpeed = Fast
  BY <1>1 DEF HostFollows, Types, Speeds
<1>3. Has(executed, "update_baud_rate")
  BY <1>2 DEF ChipSlow
<1>4. Has(arrived, "update_baud_rate")
  BY <1>3, Parts DEF arrived, Types
<1>5. Has(line, "update_baud_rate")
  BY <1>4, Lines, Parts DEF line, Types
<1> QED BY <1>5

\* What is lost while it sleeps are resets.
LEMMA Slept ==
  ASSUME Types, Transmit, ~awake, Asleep
  PROVE  /\ line = output /\ line' = output' /\ Len(line) \in Nat /\ Len(line') \in Nat /\ Len(line) > 0
         /\ \A i \in 1 .. Len(line) : line[i] = "reset"
         /\ \A i \in 1 .. Len(line') : line'[i] = "reset"
<1>1. output # << >> /\ output' = Tail(output) /\ executed' = executed /\ received' = received
  BY LineTransmits DEF Heeds
<1>2. line = output /\ line' = output'
  <2>1. \A s \in Seq(Commands) : << >> \o s = s
    BY ConcatEmptySeq, Zenon
  <2>2. output \in Seq(Commands) /\ output' \in Seq(Commands) /\ << >> \in Seq(Commands)
    BY <1>1, TailTyped DEF Types
  <2>3. executed = << >> /\ received = << >>
    BY DEF Asleep
  <2>4. arrived = << >> /\ arrived' = << >>
    BY <1>1, <2>1, <2>2, <2>3, Zenon DEF arrived
  <2> QED BY <2>1, <2>2, <2>4, Zenon DEF line
<1>3. /\ Len(output) \in Nat /\ Len(output) > 0 /\ Len(output') = Len(output) - 1
      /\ \A i \in 1 .. (Len(output) - 1) : output'[i] = output[i + 1]
  <2>1. output \in Seq(Commands)
    BY DEF Types
  <2> QED BY <1>1, <2>1, HeadTailProperties
<1>4. \A i \in 1 .. Len(output) : output[i] = "reset"
  BY DEF Asleep
<1> QED BY <1>2, <1>3, <1>4

\* After the launch no download is under way.
LEMMA Launched ==
  ASSUME NEW s \in Seq(AllCalls), After(s), NEW l
  PROVE  ~During(s, l)
<1> SUFFICES ASSUME NEW k \in 0 .. Records, NEW p \in 1 .. Len(s), Remain(s, k, p) PROVE FALSE
  BY DEF During, Underway
<1> DEFINE e == p + 2 * (Records - k)
<1>1. e \in 1 .. Len(s)
  BY PatchRamAssumption DEF Remain
<1>2. s[e] = W("launch_ram")
  BY DEF Remain
<1> QED BY <1>1, <1>2 DEF After, Without

LEMMA AlarmedNext ==
  ASSUME Types, Parsed, Together, Opened, Asleep, ChipSlow, Alarmed, (Whole /\ HostFollows) \/ Past,
         OneSpeed(options), Next \/ UNCHANGED vars
  PROVE  Alarmed'
<1>1. CASE ParseCmdLine
  <2>1. ~armed' /\ (pc' # "run" \/ Kind' = "flush")
    BY <1>1, Parsing
  <2> QED BY <2>1, Heads DEF Alarmed
<1>2. CASE Write
  <2>1. /\ pc = "run" /\ Kind = "write" /\ armed' = armed
        /\ Head(todo') = R(Arg) \/ (Arg = "reset" /\ Head(todo') = On)
        /\ line' = Append(line, Arg) /\ Arg \in Commands
    BY <1>2, Writing
  <2>2. ~armed'
    BY <2>1, Heads DEF Alarmed
  <2>3. ASSUME Head(todo') = On PROVE ~During(todo', line')
    <3>1. Arg = "reset"
      BY <2>1, <2>3, Heads
    <3>2. Len(line') \in Nat /\ line'[Len(line')] = "reset"
      BY <2>1, <3>1, Lines, LineGrows
    <3> QED BY <3>2, Unreached
  <2> QED BY <2>2, <2>3 DEF Alarmed
<1>3. CASE Listens
  <2> SUFFICES ASSUME pc' = "run"
               PROVE  /\ armed' => Head(todo') \in {R("reset"), Off}
                      /\ armed' \/ Head(todo') = On => ~During(todo', line')
    BY DEF Alarmed
  <2>1. /\ pc = "run" /\ Kind # "write" /\ todo \in Seq(AllCalls) /\ todo # << >>
        /\ Head(todo) = todo[1] /\ line' = line /\ todo' = Tail(todo)
        /\ Return /\ Kind \notin {"attach", "exit"}
        /\ Head(todo') = todo[2] /\ AheadAt(todo, 1, options)
        /\ armed' = armed \/ Head(todo) = On \/ Head(todo) = Off
        /\ Head(todo) = Off => ~armed'
    BY <1>3, Listening
  <2>2. ASSUME armed' PROVE Head(todo') \in {R("reset"), Off}
    <3>1. Head(todo) = On \/ Head(todo) = R("reset")
      BY <2>1, <2>2 DEF Alarmed
    <3>2. 1 + 1 = 2
      OBVIOUS
    <3> QED BY <2>1, <3>1, <3>2, Heads DEF AheadAt
  <2>3. ASSUME armed' \/ Head(todo') = On PROVE ~During(todo', line')
    <3>1. Head(todo') # On
      <4>1. Head(todo') = On => Head(todo) = W("reset")
        BY <2>1, NextCall
      <4>2. W("reset")[1] = "write"
        BY Heads
      <4> QED BY <2>1, <4>1, <4>2
    <3>2. armed \/ Head(todo) = On
      <4>1. CASE armed' = armed
        BY <2>3, <3>1, <4>1
      <4>2. CASE Head(todo) = Off
        BY <2>1, <2>3, <3>1, <4>2
      <4> QED BY <2>1, <4>1, <4>2
    <3>3. ~During(todo, line)
      BY <2>1, <3>2 DEF Alarmed
    <3> QED BY <2>1, <3>3, StagedReturns
  <2> QED BY <2>2, <2>3
<1>4. CASE expired
  <2>1. armed /\ line' = Append(line, "reset") /\ UNCHANGED <<pc, todo>>
    BY <1>4, Expiring
  <2>2. Len(line') \in Nat /\ line'[Len(line')] = "reset"
    <3>1. "reset" \in Commands
      BY DEF Commands
    <3> QED BY <2>1, <3>1, Lines, LineGrows
  <2>3. ~During(todo', line')
    BY <2>2, Unreached
  <2> QED BY <2>1, <2>3 DEF Alarmed
<1>5. CASE Transmit
  <2>1. UNCHANGED <<pc, todo, armed>>
    BY <1>5, LineTransmits DEF host
  <2>2. CASE Heeds
    BY <1>5, <2>1, <2>2, LineTransmits DEF Alarmed
  <2>3. CASE ~awake
    <3>1. Len(line') \in Nat /\ (Len(line') > 0 => line'[Len(line')] = "reset")
      BY <1>5, <2>3, Slept
    <3>2. ~During(todo', line')
      BY <3>1, Unreached
    <3> QED BY <2>1, <3>2 DEF Alarmed
  <2>4. CASE awake /\ ~Heeds
    <3> SUFFICES ASSUME pc = "run" PROVE ~During(todo, line')
      BY <2>1 DEF Alarmed
    <3>1. After(todo)
      BY <1>5, <2>4, Overtaken DEF Past, Whole, Staged
    <3>2. todo \in Seq(AllCalls)
      BY DEF Types
    <3> QED BY <3>1, <3>2, Launched
  <2> QED BY <2>2, <2>3, <2>4
<1>6. CASE ChipExecutes \/ ChipTransmits \/ ChipBoots \/ UNCHANGED vars
  <2>1. UNCHANGED <<pc, todo, armed, line>>
    BY <1>6, Executes, LineExecutes, Transmitting, Still
  <2> QED BY <2>1 DEF Alarmed
<1> QED BY <1>1, <1>2, <1>3, <1>4, <1>5, <1>6 DEF Next, HostStep, ChipStep, Listens

LEMMA Resets ==
  ASSUME NEW s \in Seq(Commands), \A i \in 1 .. Len(s) : s[i] = "reset"
  PROVE  \A i \in 1 .. Len(Append(s, "reset")) : Append(s, "reset")[i] = "reset"
<1> DEFINE t == Append(s, "reset")
<1>1. "reset" \in Commands
  BY DEF Commands
<1>2. Len(t) = Len(s) + 1 /\ Len(s) \in Nat /\ t[Len(s) + 1] = "reset" /\ \A i \in 1 .. Len(s) : t[i] = s[i]
  BY <1>1, LineGrows
<1> HIDE DEF t
<1>3. \A i \in 1 .. Len(t) : t[i] = "reset"
  BY <1>2
<1> QED BY <1>3 DEF t

\* What is added to the replies.
LEMMA Replied ==
  ASSUME NEW s \in Seq(Items), NEW c \in Commands, NEW k \in BOOLEAN,
         NEW i \in 1 .. Len(Append(s, Event(c, k)) \o Confirmed(c))
  PROVE  LET t == Append(s, Event(c, k)) \o Confirmed(c)
         IN  \/ \E j \in 1 .. Len(s) : t[i] = s[j]
             \/ t[i] = Event(c, k) \/ t[i] \in {B1, B2}
<1> DEFINE a == Append(s, Event(c, k))
           b == Confirmed(c)
           t == a \o b
<1>1. Event(c, k) \in Items /\ b \in Seq(Items)
  BY ItemsTyped
<1>2. /\ a \in Seq(Items) /\ Len(a) = Len(s) + 1 /\ Len(s) \in Nat /\ a[Len(s) + 1] = Event(c, k)
      /\ \A j \in 1 .. Len(s) : a[j] = s[j]
  BY <1>1, Appends, LenProperties
<1>3. \A j \in 1 .. Len(b) : b[j] \in {B1, B2}
  <2>1. b = << >> \/ b = <<B1, B2>>
    BY DEF Confirmed, B1, B2
  <2>2. /\ <<B1, B2>> \in Seq(Items) /\ Len(<<B1, B2>>) = 2
        /\ <<B1, B2>>[1] = B1 /\ <<B1, B2>>[2] = B2
    BY Bytes, Two2
  <2>3. ASSUME b = <<B1, B2>> PROVE \A j \in 1 .. Len(b) : b[j] \in {B1, B2}
    <3>1. Len(b) = 2 /\ b[1] = B1 /\ b[2] = B2
      BY <2>2, <2>3
    <3> HIDE DEF b
    <3> QED BY <3>1
  <2>4. CASE b = << >>
    BY <2>4
  <2> QED BY <2>1, <2>3, <2>4
<1> HIDE DEF a, b
<1>4. /\ Len(t) = Len(a) + Len(b) /\ Len(b) \in Nat
      /\ \A j \in 1 .. Len(a) : t[j] = a[j]
      /\ \A j \in 1 .. Len(b) : t[Len(a) + j] = b[j]
  BY <1>1, <1>2, ItemsJoin, LenProperties
<1>5. i \in 1 .. Len(t)
  BY DEF a, b
<1> HIDE DEF t
<1>6. CASE i <= Len(s)
  BY <1>2, <1>4, <1>5, <1>6 DEF t, a, b
<1>7. CASE i = Len(s) + 1
  <2>1. t[i] = Event(c, k)
    BY <1>2, <1>4, <1>7
  <2> QED BY <2>1 DEF t, a, b
<1>8. CASE i > Len(s) + 1
  <2>1. i - Len(a) \in 1 .. Len(b) /\ Len(a) + (i - Len(a)) = i
    BY <1>2, <1>4, <1>5, <1>8
  <2>2. t[i] \in {B1, B2}
    BY <1>3, <1>4, <2>1
  <2> QED BY <2>2 DEF t, a, b
<1> QED BY <1>2, <1>5, <1>6, <1>7, <1>8

LEMMA AsleepNext ==
  ASSUME Types, Parsed, Together, Opened, Asleep, Next \/ UNCHANGED vars
  PROVE  Asleep'
<1>1. CASE ParseCmdLine
  BY <1>1, Parsing DEF Asleep
<1>2. CASE Write
  <2> SUFFICES ASSUME ~awake PROVE Asleep'
    BY <1>2, Writing DEF Asleep
  <2>1. /\ pc = "run" /\ Kind = "write" /\ Head(todo) = W(Arg)
        /\ Head(todo') = R(Arg) \/ (Arg = "reset" /\ Head(todo') = On)
        /\ UNCHANGED <<pc, input, received, replies, executed>>
        /\ output' = Append(output, Arg) /\ (sent = << >> => Arg = "reset") /\ Arg \in Commands
    BY <1>2, Writing
  <2>2. sent = << >>
    BY <2>1, Heads DEF Asleep
  <2>3. Head(todo') \in {On, R("reset")} /\ Kind' # "flush" /\ input' = << >>
    BY <2>1, <2>2, Heads DEF Asleep
  <2>4. \A i \in 1 .. Len(output') : output'[i] = "reset"
    <3>1. output \in Seq(Commands) /\ \A i \in 1 .. Len(output) : output[i] = "reset"
      BY DEF Types, Asleep
    <3> QED BY <2>1, <2>2, <3>1, Resets
  <2> QED BY <2>1, <2>3, <2>4 DEF Asleep
<1>3. CASE Listens
  <2> SUFFICES ASSUME ~awake PROVE Asleep'
    BY <1>3, Listening DEF Asleep
  <2>1. /\ pc = "run" /\ UNCHANGED <<sent, received, replies, executed, output>>
        /\ input = << >> /\ Kind # "flush" => input' = << >> /\ Kind \notin {"read_event", "read2"}
        /\ Kind = "flush" => input' = << >>
        /\ pc' = "run" => AheadAt(todo, 1, options) /\ Head(todo) = todo[1] /\ Head(todo') = todo[2]
    BY <1>3, Listening
  <2>2. input' = << >>
    BY <2>1 DEF Asleep
  <2>3. ASSUME pc' = "run", sent' # << >> PROVE Head(todo') = R("reset")
    <3>1. Head(todo) = On
      BY <2>1, <2>3, Heads DEF Asleep
    <3>2. 1 + 1 = 2
      OBVIOUS
    <3> QED BY <2>1, <2>3, <3>1, <3>2 DEF AheadAt
  <2> QED BY <2>1, <2>2, <2>3 DEF Asleep
<1>4. CASE expired
  <2>1. /\ UNCHANGED <<pc, todo, input, awake, received, replies, executed>>
        /\ sent # << >> /\ output' = Append(output, "reset")
    BY <1>4, Expiring
  <2>2. (\A i \in 1 .. Len(output) : output[i] = "reset") => \A i \in 1 .. Len(output') : output'[i] = "reset"
    BY <2>1, Resets
  <2> QED BY <2>1, <2>2 DEF Asleep
<1>5. CASE Transmit
  <2>1. UNCHANGED <<pc, todo, sent, input, awake, replies, executed>>
    BY <1>5, LineTransmits DEF host
  <2> SUFFICES ASSUME ~awake PROVE Asleep'
    BY <2>1 DEF Asleep
  <2>2. received' = received
    BY <1>5, LineTransmits DEF Heeds
  <2>3. \A i \in 1 .. Len(output') : output'[i] = "reset"
    BY <1>5, Slept
  <2> QED BY <2>1, <2>2, <2>3 DEF Asleep
<1>6. CASE ChipExecutes
  <2>1. received # << >> /\ awake' = awake
    BY <1>6, Executes
  <2> QED BY <2>1 DEF Asleep
<1>7. CASE ChipTransmits
  <2>1. replies # << >> /\ awake' = awake
    BY <1>7, Transmitting
  <2> QED BY <2>1 DEF Asleep
<1>8. CASE ChipBoots \/ UNCHANGED vars
  BY <1>8, Still DEF Asleep
<1> QED BY <1>1, <1>2, <1>3, <1>4, <1>5, <1>6, <1>7, <1>8 DEF Next, HostStep, ChipStep, Listens

LEMMA ChipSlowNext ==
  ASSUME Types, Parsed, Together, Opened, ChipSlow, Next \/ UNCHANGED vars
  PROVE  ChipSlow'
<1> DEFINE u == "update_baud_rate"
<1>1. CASE ParseCmdLine
  <2>1. chipSpeed' # Fast /\ replies' = << >>
    BY <1>1, Parsing DEF Fast, Slow
  <2> QED BY <2>1 DEF ChipSlow
<1>2. CASE Write \/ Listens \/ expired \/ Transmit \/ ChipBoots \/ UNCHANGED vars
  <2>1. UNCHANGED <<chipSpeed, executed, replies>>
    BY <1>2, Writing, Listening, Expiring, LineTransmits, Still
  <2> QED BY <2>1 DEF ChipSlow
<1>3. CASE ChipExecutes
  <2> DEFINE c == Head(received)
  <2>1. PICK k \in BOOLEAN : replies' = Append(replies, Event(c, k)) \o Confirmed(c)
    BY <1>3, Executes
  <2>2. /\ c \in Commands /\ executed' = Append(executed, c) /\ chipSpeed' = chipSpeed
        /\ executed \in Seq(Commands) /\ replies \in Seq(Items)
    BY <1>3, Executes DEF Types
  <2> HIDE DEF c
  <2>3. Has(executed', u) <=> Has(executed, u) \/ c = u
    BY <2>2, LineGrows
  <2>4. ASSUME NEW i \in 1 .. Len(replies'), NEW ok \in BOOLEAN, replies'[i] = Event(u, ok)
        PROVE  Has(executed', u)
    <3>1. \/ \E j \in 1 .. Len(replies) : replies'[i] = replies[j]
          \/ replies'[i] = Event(c, k) \/ replies'[i] \in {B1, B2}
      BY <2>1, <2>2, Replied
    <3>2. replies'[i] \notin {B1, B2}
      <4>1. u \in Commands
        BY DEF Commands
      <4>2. Event(u, ok) \in Events
        BY <4>1, ItemsTyped
      <4> QED BY <2>4, <4>2, Bytes
    <3>3. CASE replies'[i] = Event(c, k)
      <4>1. c = u
        BY <2>4, <3>3 DEF Event
      <4> QED BY <2>3, <4>1
    <3>4. CASE \E j \in 1 .. Len(replies) : replies'[i] = replies[j]
      BY <2>3, <2>4, <3>4 DEF ChipSlow
    <3> QED BY <3>1, <3>2, <3>3, <3>4
  <2> QED BY <2>2, <2>3, <2>4 DEF ChipSlow
<1>4. CASE ChipTransmits
  <2>1. /\ executed' = executed /\ replies # << >> /\ Len(replies) \in Nat /\ replies \in Seq(Items)
        /\ \A i \in 1 .. Len(replies') : \E j \in 2 .. Len(replies) : replies'[i] = replies[j]
        /\ chipSpeed' = Fast => chipSpeed = Fast \/ replies[1] = Event(u, TRUE)
    BY <1>4, Transmitting DEF Types
  <2>2. Len(replies) > 0
    BY <2>1
  <2>3. chipSpeed' = Fast => Has(executed', u)
    <3>1. 1 \in 1 .. Len(replies) /\ TRUE \in BOOLEAN
      BY <2>1, <2>2
    <3>2. replies[1] = Event(u, TRUE) => Has(executed, u)
      BY <3>1 DEF ChipSlow
    <3>3. chipSpeed = Fast => Has(executed, u)
      BY DEF ChipSlow
    <3> QED BY <2>1, <3>2, <3>3
  <2>4. ASSUME NEW i \in 1 .. Len(replies'), NEW ok \in BOOLEAN, replies'[i] = Event(u, ok)
        PROVE  Has(executed', u)
    <3>1. PICK j \in 2 .. Len(replies) : replies'[i] = replies[j]
      BY <2>1
    <3>2. j \in 1 .. Len(replies) /\ replies[j] = Event(u, ok)
      BY <2>1, <2>4, <3>1
    <3> QED BY <2>1, <3>2 DEF ChipSlow
  <2> QED BY <2>3, <2>4 DEF ChipSlow
<1> QED BY <1>1, <1>2, <1>3, <1>4 DEF Next, HostStep, ChipStep, Listens

LEMMA UnslowedLeft ==
  ASSUME NEW s \in Seq(AllCalls), s # << >>, Unslowed(s)
  PROVE  Unslowed(Tail(s))
<1> DEFINE t == Tail(s)
           n == Len(s)
<1>1. n \in Nat /\ Len(t) = n - 1 /\ \A i \in 1 .. (n - 1) : t[i] = s[i + 1]
  BY CallsLeft, Zenon
<1> HIDE DEF t, n
<1>2. ASSUME NEW i \in 1 .. (n - 1), t[i] = R("launch_ram"), Followed(t, i) PROVE FALSE
  <2>1. i < n - 1 /\ t[i + 1] = T(Slow)
    BY <1>1, <1>2 DEF Followed
  <2>2. i + 1 \in 1 .. n /\ i + 1 \in 1 .. (n - 1) /\ i + 1 < n
    BY <1>1, <2>1
  <2>3. s[i + 1] = R("launch_ram") /\ s[(i + 1) + 1] = T(Slow)
    BY <1>1, <1>2, <2>1, <2>2
  <2>4. Followed(s, i + 1)
    BY <2>2, <2>3 DEF Followed, n
  <2> QED BY <2>2, <2>3, <2>4 DEF Unslowed, n
<1> QED BY <1>1, <1>2 DEF Unslowed, t

\* A call that is not the last is followed by another.
LEMMA NowTails ==
  ASSUME Types, Parsed, pc = "run", Kind \notin {"attach", "exit"}
  PROVE  Len(todo) > 1
<1>1. Shaped(todo, options) /\ Head(todo) = todo[1]
  BY NowHeads
<1>2. todo[1] \notin Ends
  BY <1>1, Heads
<1> QED BY <1>1, <1>2, Tails

LEMMA HostSlowNext ==
  ASSUME Types, Parsed, Together, Opened, HostSlow, Alarmed, OneSpeed(options'), Next \/ UNCHANGED vars
  PROVE  HostSlow'
<1>0. Slow \in Speeds /\ T(Slow)[1] = "tcsetattr" /\ T(Slow)[2] = Slow
  BY Heads DEF Speeds
<1>1. CASE ParseCmdLine
  <2> SUFFICES ASSUME pc' = "run" PROVE HostSlow'
    BY DEF HostSlow
  <2>1. sent' = << >> /\ todo' = Program(options') /\ Kind' = "flush"
    BY <1>1, Parsing
  <2>2. Unslowed(todo')
    BY <2>1, ProgramReady
  <2> QED BY <2>1, <2>2 DEF HostSlow
<1>2. CASE Write
  <2>1. /\ pc = "run" /\ todo \in Seq(AllCalls) /\ todo # << >> /\ todo' = Tail(todo)
        /\ Head(todo') = R(Arg) \/ (Arg = "reset" /\ Head(todo') = On)
        /\ sent' # << >>
    BY <1>2, Writing
  <2>2. Head(todo') # T(Slow)
    <3>1. R(Arg)[1] = "read_event" /\ On[1] = "alarm"
      BY Heads
    <3> QED BY <1>0, <2>1, <3>1
  <2>3. Unslowed(todo')
    BY <2>1, UnslowedLeft DEF HostSlow
  <2> QED BY <1>2, <2>2, <2>3, Writing DEF HostSlow
<1>3. CASE Listens
  <2> SUFFICES ASSUME pc' = "run" PROVE HostSlow'
    BY DEF HostSlow
  <2>1. /\ pc = "run" /\ Kind # "write" /\ todo \in Seq(AllCalls) /\ todo # << >>
        /\ Head(todo) = todo[1] /\ todo' = Tail(todo) /\ sent' = sent
        /\ Return /\ Kind \notin {"attach", "exit"} /\ Head(todo') = todo[2]
        /\ Head(todo) = T(Slow) => hostSpeed' = Slow
    BY <1>0, <1>3, Listening
  <2>2. Unslowed(todo')
    BY <2>1, UnslowedLeft DEF HostSlow
  <2>3. ASSUME sent = << >>, Kind' = "write" PROVE hostSpeed' = Slow
    <3>1. Opening(todo)
      BY <2>1, <2>3 DEF Parsed
    <3>2. Head(todo) = T(Slow) \/ (todo[1] = F /\ todo[2] = T(Slow))
      BY <2>1, <3>1, Heads DEF Opening
    <3>3. Head(todo) = T(Slow)
      BY <1>0, <2>1, <2>3, <3>2
    <3> QED BY <2>1, <3>3
  <2>4. ASSUME sent # << >>, Head(todo') = T(Slow) PROVE FALSE
    <3>1. Head(todo) \in {F, R("launch_ram")}
      <4>1. Kind' = "tcsetattr" /\ Arg' = Slow /\ Slow # Fast
        BY <1>0, <2>4 DEF Slow, Fast
      <4> QED BY <2>1, <4>1, NextCall
    <3>2. Head(todo) # F
      BY <2>1, <2>4, Heads DEF Opened
    <3>3. Len(todo) > 1
      BY <2>1, <3>1, <3>2, NowTails
    <3>4. Followed(todo, 1) /\ 1 \in 1 .. Len(todo)
      <4>1. 1 + 1 = 2
        OBVIOUS
      <4> QED BY <2>1, <2>4, <3>3, <4>1 DEF Followed
    <3> QED BY <2>1, <3>1, <3>2, <3>4 DEF HostSlow, Unslowed
  <2> QED BY <2>1, <2>2, <2>3, <2>4 DEF HostSlow
<1>4. CASE expired
  <2>1. UNCHANGED <<pc, todo, hostSpeed>> /\ sent # << >> /\ sent' # << >>
    BY <1>4, Expiring
  <2> QED BY <2>1 DEF HostSlow
<1>5. CASE ChipMoves \/ ChipBoots \/ UNCHANGED vars
  <2>1. UNCHANGED <<pc, todo, hostSpeed, sent>>
    BY <1>5, Unmoved, Still
  <2> QED BY <2>1 DEF HostSlow
<1> QED BY <1>1, <1>2, <1>3, <1>4, <1>5 DEF Next, HostStep, ChipStep, Listens, ChipMoves

\* What is not lost is in order.
LEMMA WholeKept ==
  ASSUME Types, Parsed, Together, Opened,
         ParseCmdLine \/ (Whole /\ (Write \/ Listens \/ ChipExecutes \/ ChipTransmits
                                    \/ ChipBoots \/ UNCHANGED vars \/ (Transmit /\ Heeds)))
  PROVE  Whole'
<1>1. CASE ParseCmdLine
  <2>1. line' = << >> /\ (pc' = "run" => todo' = Program(options'))
    BY <1>1, Parsing
  <2>2. Clean(line') /\ Ordered(line') /\ ~Has(line', "update_baud_rate")
    BY <2>1 DEF Clean, Ordered, Has
  <2>3. pc' = "run" => After(todo') \/ Before(todo', options')
    BY <2>1, ProgramReady DEF Ready
  <2> QED BY <2>2, <2>3 DEF Whole, Staged
<1>2. CASE Whole /\ Write
  <2>1. /\ pc = "run" /\ todo \in Seq(AllCalls) /\ todo # << >> /\ todo[1] = W(Arg)
        /\ Arg \in Commands /\ todo' = Tail(todo) /\ line' = Append(line, Arg)
        /\ UNCHANGED <<pc, options>>
    BY <1>2, Writing
  <2>2. /\ Clean(line) /\ (OneSpeed(options) => Ordered(line)) /\ Staged(todo, line, options)
        /\ line \in Seq(Commands)
    BY <1>2, <2>1, Lines DEF Whole
  <2>3. /\ Clean(Append(line, Arg)) /\ (OneSpeed(options) => Ordered(Append(line, Arg)))
        /\ Staged(Tail(todo), Append(line, Arg), options)
    BY <2>1, <2>2, StagedWrites
  <2> QED BY <2>1, <2>3 DEF Whole
<1>3. CASE Whole /\ Listens
  <2>1. /\ pc = "run" /\ Kind # "write" /\ todo \in Seq(AllCalls) /\ todo # << >>
        /\ Head(todo) = todo[1] /\ UNCHANGED <<options, line>> /\ (pc' = "run" => todo' = Tail(todo))
    BY <1>3, Listening
  <2>2. Staged(todo, line, options)
    BY <1>3, <2>1 DEF Whole
  <2>3. Staged(Tail(todo), line, options)
    BY <2>1, <2>2, StagedReturns
  <2> QED BY <1>3, <2>1, <2>3 DEF Whole
<1>4. CASE Whole /\ (ChipExecutes \/ ChipTransmits \/ ChipBoots \/ UNCHANGED vars \/ (Transmit /\ Heeds))
  <2>1. UNCHANGED <<pc, todo, options, line>>
    BY <1>4, Executes, LineExecutes, Transmitting, Still, LineTransmits DEF host
  <2> QED BY <1>4, <2>1 DEF Whole
<1> QED BY <1>1, <1>2, <1>3, <1>4

LEMMA HostFollowsKept ==
  ASSUME Types, Parsed, Together, Opened, HostFollows, HostSlow,
         Write \/ Listens \/ ChipExecutes \/ ChipTransmits
           \/ ChipBoots \/ UNCHANGED vars \/ (Transmit /\ Heeds)
  PROVE  HostFollows'
<1> DEFINE u == "update_baud_rate"
<1>0. /\ T(Fast)[1] = "tcsetattr" /\ T(Fast)[2] = Fast /\ Fast # Slow
      /\ u \in Commands /\ Slow \in Speeds /\ Fast \in Speeds
      /\ R(u)[1] = "read_event" /\ R(u)[2] = u
  BY Heads DEF Slow, Fast, Speeds, Commands
<1>1. CASE Write
  <2>1. /\ pc = "run" /\ Kind = "write"
        /\ Head(todo') = R(Arg) \/ (Arg = "reset" /\ Head(todo') = On)
        /\ Arg \in Commands /\ line' = Append(line, Arg) /\ hostSpeed' = hostSpeed
    BY <1>1, Writing
  <2>2. Has(line', u) <=> Has(line, u) \/ Arg = u
    BY <2>1, Lines, LineGrows
  <2> SUFFICES ASSUME ~Has(line', u) PROVE hostSpeed = Slow /\ Head(todo') \notin {T(Fast), R(u)}
    BY <2>1 DEF HostFollows
  <2>3. hostSpeed = Slow
    <3>1. CASE sent = << >>
      <4>1. pc = "run" /\ Kind = "write"
        BY <2>1
      <4> QED BY <3>1, <4>1, Zenon DEF HostSlow
    <3>2. CASE sent # << >>
      <4>1. ~Has(line, u)
        BY <2>2
      <4> QED BY <3>2, <4>1 DEF HostFollows
    <3> QED BY <3>1, <3>2
  <2>4. R(Arg)[1] = "read_event" /\ R(Arg)[2] = Arg /\ On[1] = "alarm"
    BY Heads
  <2> QED BY <1>0, <2>1, <2>2, <2>3, <2>4
<1>2. CASE Listens
  <2>1. /\ pc = "run" /\ Kind # "write" /\ UNCHANGED <<sent, line>>
        /\ hostSpeed' = hostSpeed \/ \E s \in Speeds : Head(todo) = T(s) /\ hostSpeed' = s
        /\ pc' = "run" => Return /\ Kind \notin {"attach", "exit"}
    BY <1>2, Listening
  <2> SUFFICES ASSUME sent # << >>, ~Has(line, u)
               PROVE  hostSpeed' = Slow /\ (pc' = "run" => Head(todo') \notin {T(Fast), R(u)})
    BY <2>1 DEF HostFollows
  <2>2. hostSpeed = Slow /\ Head(todo) \notin {T(Fast), R(u), T(Slow)}
    BY <2>1 DEF HostFollows, HostSlow
  <2>3. hostSpeed' = Slow
    BY <2>1, <2>2 DEF Speeds
  <2>4. ASSUME pc' = "run", Head(todo') = T(Fast) PROVE FALSE
    <3>1. Kind' = "tcsetattr" /\ Arg' = Fast
      BY <1>0, <2>4
    <3> QED BY <1>0, <2>1, <2>2, <2>4, <3>1, NextCall
  <2>5. ASSUME pc' = "run", Head(todo') = R(u) PROVE FALSE
    <3>1. Kind' = "read_event" /\ Arg' = u /\ u # "reset"
      BY <1>0, <2>5
    <3>2. Head(todo) = W(u)
      BY <2>1, <2>5, <3>1, NextCall
    <3> QED BY <2>1, <3>2, Heads
  <2> QED BY <2>3, <2>4, <2>5
<1>3. CASE ChipExecutes \/ ChipTransmits \/ ChipBoots \/ UNCHANGED vars \/ (Transmit /\ Heeds)
  <2>1. UNCHANGED <<pc, todo, sent, hostSpeed, line>>
    BY <1>3, Executes, LineExecutes, Transmitting, Still, LineTransmits DEF host
  <2> QED BY <2>1 DEF HostFollows
<1> QED BY <1>1, <1>2, <1>3

LEMMA LeftOut ==
  ASSUME NEW s \in Seq(Commands), s # << >>, NEW c, ~Has(s, c)
  PROVE  ~Has(Tail(s), c) /\ Head(s) # c
<1> DEFINE t == Tail(s)
<1>1. /\ Len(s) \in Nat /\ Len(s) > 0 /\ Len(t) = Len(s) - 1 /\ Head(s) = s[1]
      /\ \A i \in 1 .. (Len(s) - 1) : t[i] = s[i + 1]
  BY HeadTailProperties
<1> HIDE DEF t
<1>2. ASSUME NEW i \in 1 .. Len(t) PROVE t[i] # c
  <2>1. i \in 1 .. (Len(s) - 1) /\ i + 1 \in 1 .. Len(s)
    BY <1>1
  <2> QED BY <1>1, <2>1 DEF Has
<1>3. s[1] # c
  BY <1>1 DEF Has
<1> QED BY <1>1, <1>2, <1>3 DEF Has, t

\* What is lost is a reset, or the last of the line.
LEMMA Loses ==
  ASSUME Types, Parsed, Opened, Alarmed, Asleep, ChipSlow, Whole, HostFollows, OneSpeed(options),
         Transmit, ~Heeds
  PROVE  (Whole /\ HostFollows)' \/ Past'
<1> DEFINE u == "update_baud_rate"
<1>1. UNCHANGED <<pc, todo, options, sent, hostSpeed, chipSpeed, arrived>>
  BY LineTransmits DEF host
<1>2. CASE ~awake
  <2>1. /\ Len(line) \in Nat /\ Len(line') \in Nat /\ Len(line) > 0
        /\ \A i \in 1 .. Len(line) : line[i] = "reset"
        /\ \A i \in 1 .. Len(line') : line'[i] = "reset"
    BY <1>2, Slept
  <2>2. ~Has(line, u) /\ ~Has(line', u) /\ Clean(line') /\ Ordered(line')
    BY <2>1 DEF Has, Clean, Ordered
  <2>3. ~During(todo, line)
    BY <2>1, Unreached
  <2>4. Whole'
    BY <1>1, <2>2, <2>3 DEF Whole, Staged
  <2>5. HostFollows'
    BY <1>1, <2>2 DEF HostFollows
  <2> QED BY <2>4, <2>5
<1>3. CASE awake
  <2>1. Has(line, u)
    BY <1>3, Overtaken
  <2>2. pc = "run" => After(todo)
    BY <2>1 DEF Whole, Staged
  <2>3. /\ arrived \in Seq(Commands) /\ output \in Seq(Commands) /\ output # << >>
        /\ output' = Tail(output) /\ sent # << >> /\ hostSpeed # chipSpeed
    BY <1>3, Lines, LineTransmits DEF Types, Opened, Heeds
  <2>4. Clean(arrived) /\ (Has(arrived, u) => ~Has(output, "launch_ram"))
    BY <2>3, Parts DEF Whole, line
  <2>5. CASE Has(arrived, u)
    BY <1>1, <2>2, <2>3, <2>4, <2>5, LeftOut DEF Past
  <2>6. CASE ~Has(arrived, u)
    <3>1. ~Has(executed, u)
      BY <2>6, Parts DEF arrived, Types
    <3>2. chipSpeed # Fast
      BY <3>1 DEF ChipSlow
    <3>3. hostSpeed = Fast /\ chipSpeed = Slow
      BY <2>3, <3>2 DEF Types, Speeds
    <3> QED BY <1>1, <2>2, <2>3, <2>4, <2>6, <3>3 DEF Past, Deaf
  <2> QED BY <2>5, <2>6
<1> QED BY <1>2, <1>3

LEMMA PastNext ==
  ASSUME Types, Parsed, Together, Opened, ChipSlow, HostSlow, Past,
         Write \/ Listens \/ expired \/ ChipStep \/ UNCHANGED vars
  PROVE  Past'
<1> DEFINE u == "update_baud_rate"
           o == "launch_ram"
<1>0. output \in Seq(Commands) /\ Slow # Fast
  BY DEF Types, Slow, Fast
<1>1. CASE Write
  <2>1. /\ pc = "run" /\ todo \in Seq(AllCalls) /\ todo # << >> /\ todo' = Tail(todo)
        /\ todo[1] = W(Arg) /\ Arg \in Commands /\ output' = Append(output, Arg)
        /\ UNCHANGED <<arrived, hostSpeed, chipSpeed>> /\ sent' # << >>
    BY <1>1, Writing
  <2>2. After(todo) /\ After(todo')
    BY <2>1, CallsLeft DEF Past
  <2>3. Arg # o
    <3>1. 1 \in 1 .. Len(todo)
      BY <2>1
    <3> QED BY <2>1, <2>2, <3>1 DEF After, Without
  <2>4. Has(output', o) <=> Has(output, o)
    BY <1>0, <2>1, <2>3, LineGrows
  <2> QED BY <2>1, <2>2, <2>4 DEF Past, Deaf
<1>2. CASE Listens
  <2>1. /\ pc = "run" /\ todo \in Seq(AllCalls) /\ todo # << >> /\ (pc' = "run" => todo' = Tail(todo))
        /\ UNCHANGED <<arrived, output, sent, chipSpeed>>
        /\ hostSpeed' = hostSpeed \/ \E s \in Speeds : Head(todo) = T(s) /\ hostSpeed' = s
    BY <1>2, Listening
  <2>2. pc' = "run" => After(todo')
    BY <2>1, CallsLeft DEF Past
  <2>3. Deaf => hostSpeed' = Fast
    BY <2>1 DEF Deaf, HostSlow, Speeds
  <2>4. Deaf => Deaf'
    BY <2>1, <2>3 DEF Deaf
  <2> QED BY <2>1, <2>2, <2>4 DEF Past
<1>3. CASE expired
  <2>1. /\ output' = Append(output, "reset") /\ sent' # << >>
        /\ UNCHANGED <<pc, todo, hostSpeed, chipSpeed, arrived>>
    BY <1>3, Expiring
  <2>2. Has(output', o) <=> Has(output, o)
    <3>1. "reset" \in Commands
      BY DEF Commands
    <3> QED BY <1>0, <2>1, <3>1, LineGrows
  <2> QED BY <2>1, <2>2 DEF Past, Deaf
<1>4. CASE Transmit
  <2>1. /\ UNCHANGED <<pc, todo, sent, hostSpeed, chipSpeed>> /\ output # << >> /\ output' = Tail(output)
        /\ Head(output) \in Commands
        /\ Heeds => arrived' = Append(arrived, Head(output))
        /\ ~Heeds => arrived' = arrived
    BY <1>4, LineTransmits DEF host
  <2>2. ~Has(output, o) => ~Has(output', o) /\ Head(output) # o
    BY <1>0, <2>1, LeftOut
  <2>3. CASE ~Heeds
    BY <2>1, <2>2, <2>3 DEF Past, Deaf
  <2>4. CASE Heeds
    <3>1. ~Deaf /\ ~Has(output, o)
      BY <1>0, <2>4 DEF Past, Deaf, Heeds
    <3>2. Clean(Append(arrived, Head(output)))
      BY <2>1, <2>2, <3>1, Lines, LineGrows DEF Past
    <3> QED BY <2>1, <2>2, <2>4, <3>1, <3>2 DEF Past
  <2> QED BY <2>3, <2>4
<1>5. CASE ChipExecutes
  <2>1. UNCHANGED <<pc, todo, sent, output, hostSpeed, chipSpeed, arrived>>
    BY <1>5, Executes, LineExecutes
  <2> QED BY <2>1 DEF Past, Deaf
<1>6. CASE ChipTransmits
  <2>1. /\ UNCHANGED <<pc, todo, sent, output, hostSpeed, arrived>>
        /\ replies # << >> /\ Len(replies) \in Nat
        /\ chipSpeed' = Fast => chipSpeed = Fast \/ replies[1] = Event(u, TRUE)
    BY <1>6, Transmitting
  <2>2. ASSUME Deaf PROVE chipSpeed' = Slow
    <3>1. ~Has(executed, u)
      BY <2>2, Parts DEF Deaf, arrived, Types
    <3>2. 1 \in 1 .. Len(replies) /\ TRUE \in BOOLEAN
      <4>1. replies \in Seq(Items)
        BY DEF Types
      <4> QED BY <2>1, <4>1
    <3>3. replies[1] # Event(u, TRUE)
      BY <3>1, <3>2 DEF ChipSlow
    <3>4. chipSpeed' # Fast
      BY <1>0, <2>1, <2>2, <3>3 DEF Deaf
    <3> QED BY <1>6, <3>4, TransmitsTyped DEF Types, Speeds
  <2>3. Deaf => Deaf'
    BY <2>1, <2>2 DEF Deaf
  <2> QED BY <2>1, <2>3 DEF Past
<1>7. CASE ChipBoots \/ UNCHANGED vars
  BY <1>7, Still DEF Past, Deaf
<1> QED BY <1>1, <1>2, <1>3, <1>4, <1>5, <1>6, <1>7 DEF ChipStep

LEMMA SteadyNext ==
  ASSUME Types, Parsed, Together, Opened, Steady, OneSpeed(options), OneSpeed(options'),
         Next \/ UNCHANGED vars
  PROVE  Steady'
<1>1. Alarmed' /\ Asleep' /\ ChipSlow' /\ HostSlow'
  BY AlarmedNext, AsleepNext, ChipSlowNext, HostSlowNext DEF Steady
<1>2. ASSUME Past, ~ParseCmdLine PROVE Past'
  BY <1>2, PastNext DEF Steady, Next, HostStep, Listens
<1>3. CASE ParseCmdLine
  <2>1. Whole' /\ sent' = << >>
    BY <1>3, WholeKept, Parsing
  <2> QED BY <1>1, <2>1 DEF Steady, HostFollows
<1>4. CASE Whole /\ HostFollows /\ ~ParseCmdLine
  <2>1. CASE expired
    <3>1. /\ armed /\ line' = Append(line, "reset") /\ sent # << >>
          /\ UNCHANGED <<pc, options, todo, hostSpeed>>
      BY <2>1, Expiring
    <3>2. "reset" \in Commands
      BY DEF Commands
    <3>3. /\ Has(line', "update_baud_rate") <=> Has(line, "update_baud_rate")
          /\ Clean(line) => Clean(line')
          /\ Ordered(line) => Ordered(line')
      BY <3>1, <3>2, Lines, LineGrows
    <3>4. pc = "run" => ~During(todo, line)
      BY <3>1 DEF Steady, Alarmed
    <3>5. Whole'
      BY <1>4, <3>1, <3>3, <3>4 DEF Whole, Staged
    <3>6. HostFollows'
      BY <1>4, <3>1, <3>3 DEF HostFollows
    <3> QED BY <1>1, <3>5, <3>6 DEF Steady
  <2>2. CASE Transmit /\ ~Heeds
    BY <1>1, <1>4, <2>2, Loses DEF Steady
  <2>3. CASE Write \/ Listens \/ ChipExecutes \/ ChipTransmits
               \/ ChipBoots \/ UNCHANGED vars \/ (Transmit /\ Heeds)
    <3>1. Whole' /\ HostFollows'
      BY <1>4, <2>3, WholeKept, HostFollowsKept DEF Steady
    <3> QED BY <1>1, <3>1 DEF Steady
  <2> QED BY <1>4, <2>1, <2>2, <2>3 DEF Next, HostStep, ChipStep, Listens
<1> QED BY <1>1, <1>2, <1>3, <1>4 DEF Steady

-----------------------------------------------------------------------------
(* Two speeds: at most one command or event is under way.                  *)

LEMMA Singles ==
  /\ Silent(<< >>) /\ Silent(<<B1, B2>>)
  /\ \A e \in Items : Once(<<e>>) /\ (e \notin Events => Silent(<<e>>))
  /\ \A s \in Seq(Items) : Silent(s) => Once(s)
<1>1. Silent(<< >>)
  BY DEF Silent
<1>2. Silent(<<B1, B2>>)
  <2> DEFINE t == <<B1, B2>>
  <2>1. Len(t) = 2 /\ t[1] = B1 /\ t[2] = B2 /\ B1 \notin Events /\ B2 \notin Events
    BY Bytes, Two2
  <2> HIDE DEF t
  <2>2. Silent(t)
    BY <2>1 DEF Silent
  <2> QED BY <2>2 DEF t
<1>3. ASSUME NEW e \in Items PROVE Once(<<e>>) /\ (e \notin Events => Silent(<<e>>))
  <2> DEFINE t == <<e>>
  <2>1. Len(t) = 1 /\ t[1] = e
    BY Two2
  <2> HIDE DEF t
  <2>2. Once(t) /\ (e \notin Events => Silent(t))
    BY <2>1 DEF Once, Silent
  <2> QED BY <2>2 DEF t
<1>4. \A s \in Seq(Items) : Silent(s) => Once(s)
  BY DEF Silent, Once
<1> QED BY <1>1, <1>2, <1>3, <1>4

LEMMA SilentJoin ==
  ASSUME NEW s \in Seq(Items), NEW t \in Seq(Items)
  PROVE  /\ Silent(s) /\ Silent(t) => Silent(s \o t)
         /\ Once(s) /\ Silent(t) => Once(s \o t)
         /\ Silent(s) /\ Once(t) => Once(s \o t)
<1> DEFINE st == s \o t
           m == Len(s)
           n == Len(t)
<1>1. /\ Len(st) = m + n /\ m \in Nat /\ n \in Nat
      /\ \A i \in 1 .. m : st[i] = s[i]
      /\ \A i \in 1 .. n : st[m + i] = t[i]
  BY ItemsJoin, LenProperties
<1> HIDE DEF st, m, n
<1>2. ASSUME Silent(s), NEW i \in 1 .. (m + n), st[i] \in Events
      PROVE  i - m \in 1 .. n /\ t[i - m] = st[i]
  <2>1. i > m
    BY <1>1, <1>2 DEF Silent, m
  <2>2. i - m \in 1 .. n /\ m + (i - m) = i
    BY <1>1, <2>1
  <2> QED BY <1>1, <2>2
<1>3. ASSUME Silent(t), NEW i \in 1 .. (m + n), st[i] \in Events
      PROVE  i \in 1 .. m /\ s[i] = st[i]
  <2>1. i <= m
    <3> SUFFICES ASSUME i > m PROVE FALSE
      BY <1>1
    <3>1. i - m \in 1 .. n /\ m + (i - m) = i
      BY <1>1
    <3> QED BY <1>1, <1>3, <3>1 DEF Silent, n
  <2> QED BY <1>1, <2>1
<1>4. ASSUME Silent(s), Silent(t) PROVE Silent(st)
  BY <1>1, <1>2, <1>4 DEF Silent, n
<1>5. ASSUME Once(s), Silent(t) PROVE Once(st)
  BY <1>1, <1>3, <1>5 DEF Once, m
<1>6. ASSUME Silent(s), Once(t) PROVE Once(st)
  <2> SUFFICES ASSUME NEW i \in 1 .. (m + n), NEW j \in 1 .. (m + n), st[i] \in Events, st[j] \in Events
               PROVE  i = j
    BY <1>1 DEF Once
  <2>1. /\ i - m \in 1 .. n /\ t[i - m] \in Events
        /\ j - m \in 1 .. n /\ t[j - m] \in Events
    BY <1>2, <1>6
  <2>2. i - m = j - m
    BY <1>6, <2>1 DEF Once, n
  <2> QED BY <1>1, <2>2
<1> QED BY <1>4, <1>5, <1>6 DEF st

LEMMA SilentDrops ==
  ASSUME NEW s \in Seq(Items), NEW k \in 2 .. 3, k <= Len(s) + 1
  PROVE  LET t == SubSeq(s, k, Len(s))
         IN  /\ Silent(s) => Silent(t)
             /\ Once(s) => Once(t)
             /\ Once(s) /\ s[1] \in Events => Silent(t)
<1> DEFINE t == SubSeq(s, k, Len(s))
<1>1. /\ Len(t) = Len(s) + 1 - k /\ Len(s) \in Nat
      /\ \A i \in 1 .. (Len(s) + 1 - k) : t[i] = s[i + k - 1]
  BY Drops, LenProperties
<1> HIDE DEF t
<1>2. ASSUME NEW i \in 1 .. Len(t) PROVE i + k - 1 \in 2 .. Len(s) /\ t[i] = s[i + k - 1]
  BY <1>1
<1>3. ASSUME Silent(s) PROVE Silent(t)
  <2>1. ASSUME NEW i \in 1 .. Len(t) PROVE t[i] \notin Events
    <3>1. i + k - 1 \in 1 .. Len(s) /\ t[i] = s[i + k - 1]
      BY <1>1, <1>2
    <3> QED BY <1>3, <3>1 DEF Silent
  <2> QED BY <2>1 DEF Silent
<1>4. ASSUME Once(s), NEW i \in 1 .. Len(t), NEW j \in 1 .. Len(t), t[i] \in Events, t[j] \in Events
      PROVE  i = j
  <2>1. /\ i + k - 1 \in 1 .. Len(s) /\ s[i + k - 1] \in Events
        /\ j + k - 1 \in 1 .. Len(s) /\ s[j + k - 1] \in Events
    BY <1>1, <1>2, <1>4
  <2>2. i + k - 1 = j + k - 1
    BY <1>4, <2>1 DEF Once
  <2> QED BY <1>1, <2>2
<1>5. ASSUME Once(s), s[1] \in Events, NEW i \in 1 .. Len(t), t[i] \in Events PROVE FALSE
  <2>1. /\ i + k - 1 \in 2 .. Len(s) /\ i + k - 1 \in 1 .. Len(s) /\ 1 \in 1 .. Len(s)
        /\ s[i + k - 1] \in Events
    BY <1>1, <1>2, <1>5
  <2>2. i + k - 1 = 1
    BY <1>5, <2>1 DEF Once
  <2> QED BY <2>1, <2>2
<1>6. Once(s) => Once(t)
  BY <1>4 DEF Once
<1>7. Once(s) /\ s[1] \in Events => Silent(t)
  BY <1>5 DEF Silent
<1> QED BY <1>3, <1>6, <1>7 DEF t

\* A read takes the event it waits for, or some bytes.
LEMMA Reading ==
  ASSUME Types, Listens
  PROVE  /\ Silent(input) => Silent(input')
         /\ Once(input) => Once(input')
         /\ Kind = "read_event" /\ pc' = "run" => ~Silent(input) /\ (Once(input) => Silent(input'))
         /\ Kind = "flush" => input' = << >>
<1>0. input \in Seq(Items)
  BY DEF Types
<1>1. \/ /\ Kind # "read_event" /\ input' = input /\ Kind # "flush"
      \/ Kind = "flush" /\ input' = << >>
      \/ /\ input # << >> /\ Kind \in {"read_event", "read2"}
         /\ \E k \in 2 .. 3 : k <= Len(input) + 1 /\ input' = SubSeq(input, k, Len(input))
         /\ Kind = "read_event" /\ pc' = "run" => input[1] \in Events
  <2>1. CASE ReadEvent
    <3>1. /\ input # << >> /\ input' = Tail(input) /\ Kind = "read_event"
          /\ Head(input) \in Events \/ pc' = "misframed"
      BY <2>1 DEF ReadEvent
    <3>2. Tail(input) = SubSeq(input, 2, Len(input)) /\ Head(input) = input[1] /\ 2 <= Len(input) + 1
      BY <1>0, <3>1
    <3> QED BY <3>1, <3>2
  <2>2. CASE ReadTwoBytes
    <3>1. /\ input # << >> /\ Kind = "read2"
          /\ \/ input' = Tail(input)
             \/ input' = SubSeq(input, IF Len(input) > 1 THEN 3 ELSE 2, Len(input))
      BY <2>2 DEF ReadTwoBytes
    <3>2. Tail(input) = SubSeq(input, 2, Len(input)) /\ Len(input) \in Nat /\ Len(input) > 0
      BY <1>0, <3>1
    <3>3. \E k \in 2 .. 3 : k <= Len(input) + 1 /\ input' = SubSeq(input, k, Len(input))
      <4>1. CASE input' = SubSeq(input, 2, Len(input))
        BY <3>2, <4>1
      <4>2. CASE Len(input) > 1 /\ input' = SubSeq(input, 3, Len(input))
        BY <3>2, <4>2
      <4> QED BY <3>1, <3>2, <4>1, <4>2
    <3> QED BY <3>1, <3>3
  <2>3. CASE Flush
    BY <2>3 DEF Flush
  <2>4. CASE Alarm \/ SetSpeed \/ Attach \/ Exit
    BY <2>4 DEF Alarm, SetSpeed, Attach, Exit, uart
  <2> QED BY <2>1, <2>2, <2>3, <2>4 DEF Listens
<1>2. CASE Kind = "flush" /\ input' = << >>
  <2>1. << >> \in Seq(Items) /\ Silent(<< >>) /\ Once(<< >>)
    BY Singles DEF Once
  <2> QED BY <1>2, <2>1
<1>3. CASE Kind # "read_event" /\ input' = input /\ Kind # "flush"
  BY <1>3
<1>4. CASE /\ input # << >> /\ Kind \in {"read_event", "read2"}
           /\ \E k \in 2 .. 3 : k <= Len(input) + 1 /\ input' = SubSeq(input, k, Len(input))
           /\ Kind = "read_event" /\ pc' = "run" => input[1] \in Events
  <2>1. PICK k \in 2 .. 3 : k <= Len(input) + 1 /\ input' = SubSeq(input, k, Len(input))
    BY <1>4
  <2>2. /\ Silent(input) => Silent(input')
        /\ Once(input) => Once(input')
        /\ Once(input) /\ input[1] \in Events => Silent(input')
    BY <1>0, <2>1, SilentDrops
  <2>3. input[1] \in Events => ~Silent(input)
    <3>1. 1 \in 1 .. Len(input)
      BY <1>0, <1>4
    <3> QED BY <3>1 DEF Silent
  <2> QED BY <1>4, <2>2, <2>3
<1> QED BY <1>1, <1>2, <1>3, <1>4

\* What the chip sends is on its way, then in the input queue.
LEMMA Sending ==
  ASSUME Types, Together, ChipTransmits
  PROVE  /\ Silent(replies) /\ Silent(input) => Silent(replies') /\ Silent(input')
         /\ Silent(replies) /\ Once(input) => Silent(replies') /\ Once(input')
         /\ Once(replies) /\ Silent(input) =>
              (Once(replies') /\ Silent(input')) \/ (Silent(replies') /\ Once(input'))
<1> DEFINE whole == IF Head(replies) \in Confirmation /\ confirms = "together" THEN 2 ELSE 1
           what  == SubSeq(replies, 1, whole)
<1>1. /\ replies # << >>
      /\ replies' = SubSeq(replies, whole + 1, Len(replies))
      /\ input' = IF hostSpeed = chipSpeed THEN input \o what ELSE input
  BY DEF ChipTransmits
<1>2. replies \in Seq(Items) /\ Len(replies) \in Nat /\ Len(replies) > 0 /\ input \in Seq(Items)
  BY <1>1 DEF Types
<1>3. whole \in {1, 2} /\ whole <= Len(replies) /\ (whole = 2 => Coupled(replies) /\ replies[1] \in Confirmation)
  BY <1>1, <1>2, CoupledShrinks DEF Together
<1> HIDE DEF whole
<1>4. what \in Seq(Items) /\ Len(what) = whole /\ \A i \in 1 .. whole : what[i] = replies[i]
  BY <1>2, <1>3
<1> HIDE DEF what
<1>5. Once(what) /\ (replies[1] \notin Events => Silent(what)) /\ (Silent(replies) => Silent(what))
  <2>1. CASE whole = 1
    <3>1. Len(what) = 1 /\ what[1] = replies[1] /\ 1 \in 1 .. Len(replies)
      BY <1>2, <1>4, <2>1
    <3> QED BY <3>1 DEF Once, Silent
  <2>2. CASE whole = 2
    <3>1. replies[1] = B1 /\ replies[2] = B2
      <4>1. 1 \in 1 .. Len(replies) /\ 1 + 1 = 2 /\ ~(1 > 1)
        BY <1>2
      <4>2. replies[1] \in {B1, B2}
        BY <1>3, <2>2, Bytes
      <4> QED BY <1>3, <2>2, <4>1, <4>2 DEF Coupled
    <3>2. what[1] \notin Events /\ what[2] \notin Events /\ Len(what) = 2
      BY <1>4, <2>2, <3>1, Bytes
    <3>3. Silent(what)
      BY <3>2 DEF Silent
    <3> QED BY <1>4, <3>3, Singles
  <2> QED BY <1>3, <2>1, <2>2
<1>6. /\ Silent(replies) => Silent(replies')
      /\ Once(replies) => Once(replies')
      /\ Once(replies) /\ replies[1] \in Events => Silent(replies')
  <2>1. whole + 1 \in 2 .. 3 /\ whole + 1 <= Len(replies) + 1
    BY <1>2, <1>3
  <2> QED BY <1>1, <1>2, <2>1, SilentDrops
<1>7. /\ Silent(input) /\ Silent(what) => Silent(input')
      /\ Once(input) /\ Silent(what) => Once(input')
      /\ Silent(input) => Once(input')
  <2>1. CASE hostSpeed = chipSpeed
    <3>1. input' = input \o what
      BY <1>1, <2>1
    <3> QED BY <1>2, <1>4, <1>5, <3>1, SilentJoin
  <2>2. CASE hostSpeed # chipSpeed
    <3>1. input' = input
      BY <1>1, <2>2
    <3> QED BY <1>2, <3>1, Singles
  <2> QED BY <2>1, <2>2
<1> QED BY <1>5, <1>6, <1>7

LEMMA Emptied ==
  ASSUME NEW s \in Seq(Commands), Len(s) = 1
  PROVE  Tail(s) = << >>
<1>1. Tail(s) \in Seq(Commands) /\ Len(Tail(s)) = 0
  OBVIOUS
<1> QED BY <1>1, EmptySeq

\* What has been executed comes first.
LEMMA Prefixes ==
  ASSUME Types
  PROVE  Clean(line) \/ Clean(arrived) => Clean(executed)
<1>1. Clean(line) => Clean(arrived)
  BY Lines, Parts DEF line, Types
<1>2. Clean(arrived) => Clean(executed)
  BY Parts DEF arrived, Types
<1> QED BY <1>1, <1>2

\* The four places where the one command or its answer can be.
LEMMA SingleNext ==
  ASSUME Types, Parsed, Together, Opened, Single, Write => Idle, ~expired, Next \/ UNCHANGED vars
  PROVE  Single'
<1>0. /\ replies \in Seq(Items) /\ input \in Seq(Items)
      /\ output \in Seq(Commands) /\ received \in Seq(Commands)
  BY DEF Types
<1>1. CASE ParseCmdLine \/ ChipBoots \/ UNCHANGED vars
  <2>1. UNCHANGED <<output, received, replies, input>>
    BY <1>1, Still DEF ParseCmdLine, uart, chip
  <2> QED BY <2>1 DEF Single
<1>2. CASE Write
  <2>1. output' = Append(output, Arg) /\ Arg \in Commands /\ UNCHANGED <<received, replies, input>>
    BY <1>2, Writing
  <2>2. Idle
    BY <1>2
  <2>3. Len(output') = 1
    <3>1. Len(output') = Len(output) + 1
      BY <1>0, <2>1, Appends
    <3> QED BY <2>2, <3>1 DEF Idle
  <2> QED BY <2>1, <2>2, <2>3 DEF Idle, Single
<1>3. CASE Listens
  <2>1. UNCHANGED <<output, received, replies>>
    BY <1>3, Listening
  <2>2. (Silent(input) => Silent(input')) /\ (Once(input) => Once(input'))
    BY <1>3, Reading
  <2> QED BY <2>1, <2>2 DEF Single
<1>4. CASE Transmit
  <2>1. /\ output # << >> /\ output' = Tail(output) /\ UNCHANGED <<replies, input>>
        /\ received' = received \/ received' = Append(received, Head(output))
        /\ Head(output) \in Commands
    BY <1>4, LineTransmits DEF Transmit
  <2>2. Len(output) = 1 /\ received = << >> /\ Silent(replies) /\ Silent(input)
    BY <2>1 DEF Single
  <2>3. output' = << >>
    BY <1>0, <2>1, <2>2, Emptied
  <2>4. received' = << >> \/ Len(received') = 1
    BY <1>0, <2>1, <2>2
  <2> QED BY <1>0, <2>1, <2>2, <2>3, <2>4, Singles DEF Single
<1>5. CASE ChipExecutes
  <2>1. /\ received # << >> /\ received' = Tail(received) /\ UNCHANGED <<output, input>>
        /\ Head(received) \in Commands
    BY <1>5, Executes
  <2>2. output = << >> /\ Len(received) = 1 /\ Silent(replies) /\ Silent(input)
    BY <2>1 DEF Single
  <2>3. received' = << >>
    BY <1>0, <2>1, <2>2, Emptied
  <2>4. Once(replies')
    <3> DEFINE c == Head(received)
    <3>1. PICK ok \in BOOLEAN : replies' = Append(replies, Event(c, ok)) \o Confirmed(c)
      BY <1>5, Executes
    <3>2. Event(c, ok) \in Items /\ Confirmed(c) \in Seq(Items) /\ <<Event(c, ok)>> \in Seq(Items)
      BY <2>1, ItemsTyped, Two2
    <3>3. Confirmed(c) = << >> \/ Confirmed(c) = <<B1, B2>>
      BY DEF Confirmed, B1, B2
    <3>4. Append(replies, Event(c, ok)) = replies \o <<Event(c, ok)>>
      BY <1>0, <3>2, AppendIsConcat, Zenon
    <3> HIDE DEF c
    <3>5. Silent(Confirmed(c)) /\ Once(<<Event(c, ok)>>)
      BY <3>2, <3>3, Singles
    <3>6. Once(replies \o <<Event(c, ok)>>)
      BY <1>0, <2>2, <3>2, <3>5, SilentJoin
    <3>7. replies \o <<Event(c, ok)>> \in Seq(Items)
      BY <1>0, <3>2, ItemsJoin
    <3>8. Once((replies \o <<Event(c, ok)>>) \o Confirmed(c))
      BY <3>2, <3>5, <3>6, <3>7, SilentJoin
    <3> QED BY <3>1, <3>4, <3>8
  <2> QED BY <2>1, <2>2, <2>3, <2>4 DEF Single
<1>6. CASE ChipTransmits
  <2>1. UNCHANGED <<output, received>>
    BY <1>6, Transmitting
  <2> QED BY <1>6, <2>1, Sending DEF Single
<1> QED BY <1>1, <1>2, <1>3, <1>4, <1>5, <1>6 DEF Next, HostStep, ChipStep, Listens

LEMMA LoneNext ==
  ASSUME Types, Parsed, Together, Opened, Lone, ~expired, Next \/ UNCHANGED vars
  PROVE  Lone'
<1>0. On[1] = "alarm" /\ On # Off
  BY Heads, OnOff
<1>1. CASE ParseCmdLine
  <2>1. Whole' /\ (pc' = "run" => Kind' = "flush")
    BY <1>1, WholeKept, Parsing
  <2>2. ~Write
    BY <1>1 DEF ParseCmdLine, Write
  <2> QED BY <1>1, <2>1, <2>2, SingleNext DEF Lone
<1>2. CASE Write
  <2>1. /\ pc = "run" /\ Kind = "write"
        /\ Head(todo') = R(Arg) \/ (Arg = "reset" /\ Head(todo') = On)
    BY <1>2, Writing
  <2>2. ~Awaits /\ Kind # "flush"
    BY <1>0, <2>1 DEF Awaits
  <2>3. Idle /\ Whole
    BY <2>1, <2>2 DEF Lone, Stuck
  <2>4. Awaits'
    BY <2>1, Heads DEF Awaits
  <2>5. Whole' /\ Single'
    BY <1>2, <2>3, WholeKept, SingleNext DEF Lone
  <2> QED BY <2>4, <2>5 DEF Lone
<1>3. CASE Listens
  <2>1. /\ pc = "run" /\ Kind # "write" /\ UNCHANGED <<output, received, replies, executed, sent>>
        /\ pc' = "run" => /\ Return /\ Kind \notin {"attach", "exit"} /\ AheadAt(todo, 1, options)
                          /\ Head(todo) = todo[1] /\ Head(todo') = todo[2]
    BY <1>3, Listening
  <2>2. Single'
    <3>1. ~Write
      BY <2>1 DEF Write
    <3> QED BY <1>3, <3>1, SingleNext DEF Lone
  <2>3. Idle => Idle'
    BY <1>3, <2>1, Reading DEF Idle
  <2>4. Whole => Whole'
    BY <1>3, WholeKept
  <2>5. CASE pc' # "run"
    BY <2>1, <2>2, <2>3, <2>4, <2>5 DEF Lone, Stuck
  <2>6. CASE pc' = "run" /\ Head(todo) = On
    <3>1. Head(todo') = R("reset")
      <4>1. 1 + 1 = 2
        OBVIOUS
      <4> QED BY <2>1, <2>6, <4>1 DEF AheadAt
    <3>2. Awaits'
      BY <3>1, Heads DEF Awaits
    <3> QED BY <2>1, <2>2, <2>3, <2>4, <3>2 DEF Lone, Stuck
  <2>7. CASE pc' = "run" /\ Kind = "read_event"
    <3>1. ~Silent(input) /\ (Once(input) => Silent(input'))
      BY <1>3, <2>7, Reading
    <3>2. output = << >> /\ received = << >> /\ Silent(replies) /\ Once(input) /\ Whole
      BY <3>1 DEF Lone, Single, Stuck, Idle
    <3>3. Idle'
      BY <2>1, <3>1, <3>2 DEF Idle
    <3> QED BY <2>2, <2>4, <3>2, <3>3 DEF Lone
  <2>8. CASE pc' = "run" /\ Head(todo) # On /\ Kind # "read_event"
    <3>1. ~Awaits
      BY <2>8 DEF Awaits
    <3>2. Whole
      BY <2>1, <3>1 DEF Lone, Stuck
    <3>3. Idle'
      <4>1. CASE Kind = "flush"
        <5>1. output = << >> /\ received = << >> /\ replies = << >> /\ input' = << >>
          BY <1>3, <2>1, <4>1, Reading DEF Opened
        <5> QED BY <2>1, <5>1, Singles DEF Idle
      <4>2. CASE Kind # "flush"
        BY <2>1, <2>3, <3>1, <4>2 DEF Lone
      <4> QED BY <4>1, <4>2
    <3> QED BY <2>2, <2>4, <3>2, <3>3 DEF Lone
  <2> QED BY <2>5, <2>6, <2>7, <2>8
<1>4. CASE Transmit /\ ~Heeds
  <2>1. /\ output # << >> /\ output' = Tail(output) /\ received' = received
        /\ UNCHANGED <<pc, todo, replies, input, executed>>
    BY <1>4, LineTransmits DEF host
  <2>2. Len(output) = 1 /\ received = << >> /\ Silent(replies) /\ Silent(input) /\ output \in Seq(Commands)
    BY <2>1 DEF Lone, Single, Types
  <2>3. Idle'
    BY <2>1, <2>2, Emptied DEF Idle
  <2>4. ~Idle
    BY <2>1 DEF Idle
  <2>5. Clean(executed)
    BY <2>4, Prefixes DEF Lone, Stuck, Whole
  <2>6. pc = "run" => Awaits
    <3>1. pc = "run" /\ Kind = "flush" => output = << >>
      BY DEF Opened
    <3> QED BY <2>1, <2>4, <3>1 DEF Lone
  <2>7. Awaits' <=> Awaits
    BY <2>1 DEF Awaits
  <2>8. Stuck'
    BY <2>1, <2>3, <2>5, <2>6, <2>7 DEF Stuck
  <2>9. Single'
    <3>1. ~Write
      BY <2>1, <2>2 DEF Write, hci_send_cmd, Transmit
    <3> QED BY <1>4, <3>1, SingleNext DEF Lone
  <2> QED BY <2>1, <2>3, <2>8, <2>9 DEF Lone
<1>5. CASE (Transmit /\ Heeds) \/ ChipExecutes
  <2>1. UNCHANGED <<pc, todo>> /\ ~Idle
    <3>1. CASE Transmit
      <4>1. output # << >> /\ UNCHANGED <<pc, todo>>
        BY <3>1, LineTransmits DEF host
      <4> QED BY <4>1 DEF Idle
    <3>2. CASE ChipExecutes
      <4>1. received # << >> /\ UNCHANGED <<pc, todo>>
        BY <3>2, Executes
      <4> QED BY <4>1 DEF Idle
    <3> QED BY <1>5, <3>1, <3>2
  <2>2. Whole'
    BY <1>5, <2>1, WholeKept DEF Lone, Stuck
  <2>3. Single'
    BY <1>5, <2>1, SingleNext DEF Lone, Write
  <2> QED BY <2>1, <2>2, <2>3 DEF Lone, Awaits
<1>6. CASE ChipTransmits \/ ChipBoots \/ UNCHANGED vars
  <2>1. UNCHANGED <<pc, todo, output, received, executed>>
    BY <1>6, Transmitting, Still
  <2>2. Idle => Idle'
    BY <1>6, <2>1, Sending, Still DEF Idle
  <2>3. Whole => Whole'
    BY <1>6, WholeKept
  <2>4. Single'
    BY <1>6, <2>1, SingleNext DEF Lone, Write
  <2> QED BY <2>1, <2>2, <2>3, <2>4 DEF Lone, Stuck, Awaits
<1> QED BY <1>1, <1>2, <1>3, <1>4, <1>5, <1>6 DEF Next, HostStep, ChipStep, Listens

LEMMA FirmwareInit == Init => FInv
<1> SUFFICES ASSUME Init PROVE FInv
  OBVIOUS
<1>1. /\ pc = "parse" /\ sent = << >> /\ executed = << >> /\ received = << >> /\ output = << >>
      /\ replies = << >> /\ chipSpeed = Slow /\ ~awake
      /\ input \in {<< >>, <<Event("write_ram", TRUE)>>}
  BY DEF Init
<1>2. line = << >>
  <2>1. << >> \in Seq(Commands)
    OBVIOUS
  <2>2. << >> \o << >> = << >>
    BY <2>1, ConcatEmptySeq, Zenon
  <2> QED BY <1>1, <2>2 DEF line, arrived
<1>3. Opened
  BY <1>1 DEF Opened
<1>4. Whole
  BY <1>1, <1>2 DEF Whole, Clean, Ordered
<1>5. Steady
  BY <1>1, <1>4 DEF Steady, Alarmed, Asleep, ChipSlow, HostSlow, HostFollows, Slow, Fast
<1>6. Once(input)
  <2>1. Event("write_ram", TRUE) \in Items
    BY ItemsTyped DEF Commands
  <2>2. Once(<<Event("write_ram", TRUE)>>)
    BY <2>1, Singles
  <2>3. Once(<< >>)
    BY DEF Once
  <2> QED BY <1>1, <2>2, <2>3
<1>7. Lone
  BY <1>1, <1>4, <1>6, Singles DEF Lone, Single
<1> QED BY <1>3, <1>5, <1>7 DEF FInv

LEMMA FirmwareNext ==
  ASSUME IInv, FInv, Next \/ UNCHANGED vars
  PROVE  FInv'
<1>1. Types /\ Parsed /\ Together /\ Opened
  BY DEF IInv, FInv
<1>2. Opened'
  BY <1>1, OpenedNext
<1>3. ASSUME OneSpeed(options') PROVE Steady'
  <2>1. OneSpeed(options)
    <3>1. CASE ParseCmdLine
      BY <1>1, <3>1 DEF ParseCmdLine, Parsed, OneSpeed
    <3>2. CASE ~ParseCmdLine
      <4>1. options' = options
        BY <1>1, <3>2, Writing, Listening, Expiring, Unmoved, Still
           DEF Next, HostStep, ChipStep, ChipMoves, Listens
      <4> QED BY <1>3, <4>1
    <3> QED BY <3>1, <3>2
  <2> QED BY <1>1, <1>3, <2>1, SteadyNext DEF FInv
<1>4. ASSUME retries' = 0 PROVE Lone'
  <2>1. ~expired
    BY <1>1, <1>4, Expiring
  <2>2. retries = 0
    <3>1. CASE ParseCmdLine
      BY <1>1, <3>1 DEF ParseCmdLine, Parsed
    <3>2. CASE ~ParseCmdLine
      <4>1. retries' = retries
        BY <1>1, <2>1, <3>2, Listening, Unmoved, Still
           DEF Next, HostStep, ChipStep, ChipMoves, Listens, Write
      <4> QED BY <1>4, <4>1
    <3> QED BY <3>1, <3>2
  <2> QED BY <1>1, <2>1, <2>2, LoneNext DEF FInv
<1> QED BY <1>2, <1>3, <1>4 DEF FInv

(***************************************************************************)
(* The chip launches no firmware that is incomplete, whatever the options, *)
(* however many records the patch has and however often the alarm goes     *)
(* off: only of a download at another speed is it assumed that it has not. *)
(***************************************************************************)
THEOREM FirmwareIsComplete == Spec => []FirmwareComplete
<1>1. Init => IInv /\ FInv
  BY InitInvariant, FirmwareInit
<1>2. IInv /\ FInv /\ [Next]_vars => FInv'
  BY FirmwareNext
<1>3. IInv /\ FInv => FirmwareComplete
  <2> SUFFICES ASSUME IInv, FInv, OneSpeed(options) \/ retries = 0 PROVE FirmwareComplete
    BY DEF FirmwareComplete, OneSpeed
  <2>1. Types
    BY DEF IInv
  <2>2. Clean(line) \/ Clean(arrived) \/ Clean(executed)
    BY DEF FInv, Steady, Lone, Whole, Past, Stuck
  <2>3. Clean(executed)
    BY <2>1, <2>2, Prefixes
  <2>4. DOMAIN executed = 1 .. Len(executed)
    BY <2>1 DEF Types
  <2> QED BY <2>3, <2>4 DEF FirmwareComplete, Clean, Backed
<1> QED BY <1>1, <1>2, <1>3, Invariant, PTL DEF Spec
=============================================================================
