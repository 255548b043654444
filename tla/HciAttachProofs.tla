-------------------------- MODULE HciAttachProofs --------------------------
(***************************************************************************)
(* What holds when the UART is handed to the kernel, for each of the three *)
(* chips, all speeds of the command line and every length of the output    *)
(* queue.                                                                  *)
(***************************************************************************)
EXTENDS HciAttachProperties, SequenceTheorems, TLAPS

-----------------------------------------------------------------------------
(* The calls of init_uart by their number: Core is how many of them are    *)
(* RDABT_core_Intialization's.                                             *)

Core == Len(RDABT_core_Intialization)
End0 == 15 + Core

Call(i) == init_uart[i]

Chip == {Table(t) : t \in Tables} \cup {High, Low, Sleep}
Other == {Flush, Break, SetFlags, Gpio} \cup {Try(c) : c \in {"open", "tcsetattr", "TIOCSETD", "HCIUARTSETPROTO"}}
           \cup {SetSpeed(s) : s \in {"init_speed", "speed"}}
           \cup {Checked(t) : t \in {"BAUD_RATE", "MODIFY_FLAG"}}
           \cup {Flow(t) : t \in {"FLOW_CTL_1", "FLOW_CTL_2"}}

LEMMA CoreIs ==
  ASSUME target \in Chips
  PROVE  /\ Core \in {12, 14} /\ DOMAIN RDABT_core_Intialization = 1 .. Core
         /\ RDABT_core_Intialization \in Seq(Chip)
         /\ \A i \in 1 .. Core : RDABT_core_Intialization[i] \in Chip
<1>1. CASE target = "R11_5876"
  BY <1>1 DEF Core, RDABT_core_Intialization, Core_R11_5876, Chip, Tables, Tables_R11_5876
<1>2. CASE target = "R11_5875"
  BY <1>2 DEF Core, RDABT_core_Intialization, Core_R11_5875, Chip, Tables, Tables_R11_5875
<1>3. CASE target = "R10_5870E"
  BY <1>3 DEF Core, RDABT_core_Intialization, Core_R10_5870E, Chip, Tables, Tables_R10_5870E
<1> QED BY <1>1, <1>2, <1>3 DEF Chips

LEMMA OthersAre == Opening \in Seq(Other) /\ Handing \in Seq(Other) /\ Len(Opening) = 6 /\ Len(Handing) = 9
BY DEF Opening, Handing, Other

\* Where each call is.
LEMMA Places ==
  ASSUME target \in Chips
  PROVE  /\ Len(init_uart) = End0 /\ init_uart \in Seq(Chip \cup Other)
         /\ Call(1) = Try("open") /\ Call(2) = Flush /\ Call(3) = Try("tcsetattr")
         /\ Call(4) = SetSpeed("init_speed") /\ Call(5) = Break /\ Call(6) = Gpio
         /\ \A i \in 1 .. Core : Call(6 + i) = RDABT_core_Intialization[i]
         /\ Call(7 + Core) = Checked("BAUD_RATE") /\ Call(8 + Core) = Checked("MODIFY_FLAG")
         /\ Call(9 + Core) = Flush /\ Call(10 + Core) = SetSpeed("speed")
         /\ Call(11 + Core) = Flow("FLOW_CTL_1") /\ Call(12 + Core) = Flow("FLOW_CTL_2")
         /\ Call(13 + Core) = Try("TIOCSETD") /\ Call(14 + Core) = SetFlags
         /\ Call(15 + Core) = Try("HCIUARTSETPROTO")
<1> DEFINE S == Chip \cup Other
           A == Opening \o RDABT_core_Intialization
<1>1. Opening \in Seq(S) /\ Handing \in Seq(S) /\ RDABT_core_Intialization \in Seq(S)
  BY CoreIs, OthersAre
<1>2. Core \in Nat /\ Len(Opening) = 6 /\ Len(Handing) = 9
  BY CoreIs, OthersAre
<1> HIDE DEF S
<1>3. /\ A \in Seq(S) /\ Len(A) = 6 + Core
      /\ \A i \in 1 .. 6 + Core : A[i] = IF i <= 6 THEN Opening[i] ELSE RDABT_core_Intialization[i - 6]
  <2>1. /\ A \in Seq(S) /\ Len(A) = Len(Opening) + Core
        /\ \A i \in 1 .. Len(Opening) + Core :
             A[i] = IF i <= Len(Opening) THEN Opening[i]
                    ELSE RDABT_core_Intialization[i - Len(Opening)]
    BY <1>1, ConcatProperties, Zenon DEF Core
  <2> HIDE DEF A
  <2> QED BY <1>2, <2>1
<1> HIDE DEF A
<1>4. init_uart = A \o Handing
  BY DEF init_uart, A
<1>5. /\ init_uart \in Seq(S) /\ Len(init_uart) = 15 + Core
      /\ \A i \in 1 .. 15 + Core : Call(i) = IF i <= 6 + Core THEN A[i] ELSE Handing[i - (6 + Core)]
  <2>1. /\ init_uart \in Seq(S) /\ Len(init_uart) = Len(A) + Len(Handing)
        /\ \A i \in 1 .. Len(A) + Len(Handing) :
             Call(i) = IF i <= Len(A) THEN A[i] ELSE Handing[i - Len(A)]
    BY <1>1, <1>3, <1>4, ConcatProperties, Zenon DEF Call
  <2>2. Len(A) + Len(Handing) = 15 + Core
    BY <1>2, <1>3
  <2> QED BY <1>2, <1>3, <2>1, <2>2
<1>6. /\ Call(1) = Opening[1] /\ Call(2) = Opening[2] /\ Call(3) = Opening[3]
      /\ Call(4) = Opening[4] /\ Call(5) = Opening[5] /\ Call(6) = Opening[6]
  BY <1>2, <1>3, <1>5
<1>7. \A i \in 1 .. Core : Call(6 + i) = RDABT_core_Intialization[i]
  BY <1>2, <1>3, <1>5
<1>8. /\ Call(7 + Core) = Handing[1] /\ Call(8 + Core) = Handing[2] /\ Call(9 + Core) = Handing[3]
      /\ Call(10 + Core) = Handing[4] /\ Call(11 + Core) = Handing[5] /\ Call(12 + Core) = Handing[6]
      /\ Call(13 + Core) = Handing[7] /\ Call(14 + Core) = Handing[8] /\ Call(15 + Core) = Handing[9]
  BY <1>2, <1>5
<1> QED BY <1>5, <1>6, <1>7, <1>8 DEF Opening, Handing, End0, S

-----------------------------------------------------------------------------
(* The inductive invariant.                                                *)

Types ==
  /\ target \in Chips /\ timely \in BOOLEAN /\ ignored \in 0 .. MaxIgnored
  /\ pc \in {"options", "setup", "check", "poll", "blocked", "restore", "ended"}
  /\ code \in {0, 1} /\ (code # 0 => pc = "ended")
  /\ at \in 1 .. End0 + 1 /\ asleep \in BOOLEAN
  /\ flow \in BOOLEAN /\ canceled \in BOOLEAN /\ hungUp \in BOOLEAN
  /\ powered \in BOOLEAN
  /\ init_speed \in InitSpeedArgs \cup {Default} /\ speed \in SpeedArgs \cup {921600}
  /\ hostSpeed \in Supported /\ chipSpeed \in Supported \cup SpeedArgs
  /\ newSpeed \in Supported \cup SpeedArgs
  /\ output \in Seq(Messages) /\ Len(output) <= QueueCap
  /\ done \in Seq(Messages)

\* The line discipline is set by the last call but one.
Discipline ==
  /\ pc = "options" => at = 1 /\ ~asleep /\ output = << >> /\ done = << >>
                      /\ ldisc = "tty" /\ chipSpeed = Default /\ newSpeed = Default
  /\ pc \in {"check", "poll", "blocked", "restore"} => at = End0 + 1 /\ ~asleep
  /\ pc # "ended" /\ at > 13 + Core => ldisc = "hci"
  /\ pc = "ended" => ldisc = "tty"

Running == Undisturbed /\ pc \notin {"options", "ended"}

Sends(call) == call[1] \in {"write", "write_checked", "write_flow"}

FlowTables == {"FLOW_CTL_1", "FLOW_CTL_2"}

\* Nothing is queued but the message whose sleep is not over.
Slept ==
  IF asleep THEN \/ at = 6 /\ output = << >>
                 \/ /\ at > 8 /\ Sends(Call(at - 1)) /\ (at > 11 + Core => flow)
                    /\ output \in {<< >>, <<Call(at - 1)[2]>>}
            ELSE output = << >>

\* The power is taken away only until the next call.
Power == at >= 8 => powered \/ Call(at - 1) = Low

\* A chip that hears the host changes its speed with the host, in the order
\* of the calls; one that does not keeps its own.
Rates ==
  /\ at \in 5 .. 10 + Core => hostSpeed = uart_speed(init_speed)
  /\ at > 10 + Core => hostSpeed = uart_speed(speed)
  /\ at <= 8 + Core \/ ~Meets => chipSpeed = Default
  /\ at <= 7 + Core \/ ~Meets => newSpeed = Default
  /\ at = 8 + Core /\ output = << >> /\ Meets => newSpeed = speed
  /\ at > 8 + Core /\ Meets =>
       newSpeed = speed /\ chipSpeed = IF output = <<"MODIFY_FLAG">> THEN Default ELSE speed

\* Flow control is written at the last speed, all the rest at the initial one.
Reaches(t) == IF t \in FlowTables THEN Agree ELSE Meets

\* What was written since the chip got its power, the chip has taken, if it
\* was written at its speed, and nothing else.
WrittenBy(j, t) ==
  /\ Call(j) = Table(t) \/ (flow /\ Call(j) = Flow(t))
  /\ \A i \in (j + 1) .. (at - 1) : Call(i) # Low

Kept ==
  \A j \in 7 .. (at - 1) : \A t \in Messages :
    WrittenBy(j, t) /\ Reaches(t) => t \in ToSet(done) \/ (asleep /\ j = at - 1 /\ output = <<t>>)

Taken == \A i \in DOMAIN done : Reaches(done[i]) /\ (done[i] \in FlowTables => flow)

\* The radio comes first.
Late == Tables \ {"ENABLE_SPI"}
RadioFirst ==
  \/ \A j \in DOMAIN done : done[j] \notin Late
  \/ \E i \in DOMAIN done : done[i] = "RF_INIT" /\ \A j \in 1 .. (i - 1) : done[j] \notin Late

Course == Slept /\ Power /\ Rates /\ Kept /\ Taken /\ RadioFirst

IInv == Types /\ Discipline /\ (Running => Course)

-----------------------------------------------------------------------------
(* The three initialisations have the same shape: the power is taken away  *)
(* once and given back at once, every table is written after that, and     *)
(* the radio's before the tables that depend on it.                        *)
Shape(K, L, R, S) ==
  /\ K[1] = High /\ K[L] = Low /\ K[L + 1] = High
  /\ \A k \in 1 .. Len(K) : k # L => K[k] # Low
  /\ S \in (L + 1) .. Len(K) /\ K[S] = Table("RF_INIT")
  /\ \A k \in (L + 1) .. (S - 1) : \A t \in Late \ {"RF_INIT"} : K[k] # Table(t)
  /\ \A k \in 1 .. (L - 1) : \A t \in Late \ {"RF_INIT"} : K[k] = Table(t) => R \in 1 .. (k - 1)
  /\ R \in 1 .. (L - 1) /\ K[R] = Table("RF_INIT")
  /\ \A t \in Tables : \E j \in (L + 1) .. Len(K) : K[j] = Table(t)

LEMMA Distinct ==
  /\ High # Low /\ Sleep # Low
  /\ \A t : Table(t) # Low /\ Table(t) # High /\ Table(t) # Sleep
  /\ \A t, r : Table(t) = Table(r) => t = r
<1>1. High # Low /\ Sleep # Low
  BY DEF High, Low, Sleep
<1>2. ASSUME NEW t PROVE Table(t) # Low /\ Table(t) # High /\ Table(t) # Sleep
  BY DEF High, Low, Sleep, Table
<1>3. ASSUME NEW t, NEW r, Table(t) = Table(r) PROVE t = r
  BY <1>3 DEF Table
<1> QED BY <1>1, <1>2, <1>3

LEMMA Heads ==
  /\ High[1] = "pin" /\ Low[1] = "pin" /\ Sleep[1] = "usleep"
  /\ Gpio[1] = "gpio_init" /\ Flush[1] = "flush" /\ Flush[2] # "break"
  /\ Break[1] = "flush" /\ SetFlags[1] = "set_flags"
  /\ \A t : /\ Table(t)[1] = "write" /\ Table(t)[2] = t
           /\ Try(t)[1] = "try" /\ Try(t)[2] = t
           /\ SetSpeed(t)[1] = "set_speed" /\ SetSpeed(t)[2] = t
           /\ Checked(t)[1] = "write_checked" /\ Checked(t)[2] = t
           /\ Flow(t)[1] = "write_flow" /\ Flow(t)[2] = t
<1>1. /\ High[1] = "pin" /\ Low[1] = "pin" /\ Sleep[1] = "usleep"
      /\ Gpio[1] = "gpio_init" /\ Flush[1] = "flush" /\ Flush[2] # "break"
      /\ Break[1] = "flush" /\ SetFlags[1] = "set_flags"
  BY DEF High, Low, Sleep, Gpio, Flush, Break, SetFlags
<1>2. ASSUME NEW t
      PROVE  /\ Table(t)[1] = "write" /\ Table(t)[2] = t
             /\ Try(t)[1] = "try" /\ Try(t)[2] = t
             /\ SetSpeed(t)[1] = "set_speed" /\ SetSpeed(t)[2] = t
             /\ Checked(t)[1] = "write_checked" /\ Checked(t)[2] = t
             /\ Flow(t)[1] = "write_flow" /\ Flow(t)[2] = t
  BY DEF Table, Try, SetSpeed, Checked, Flow
<1> QED BY <1>1, <1>2

LEMMA ShapeR11_5876 ==
  ASSUME target = "R11_5876" PROVE Shape(RDABT_core_Intialization, 5, 3, 9)
<1> DEFINE K == RDABT_core_Intialization
<1>1. /\ K[1] = High /\ K[2] = Table("ENABLE_SPI") /\ K[3] = Table("RF_INIT")
      /\ K[4] = Table("PSKEY_RF") /\ K[5] = Low /\ K[6] = High /\ K[7] = Sleep
      /\ K[8] = Table("ENABLE_SPI") /\ K[9] = Table("RF_INIT") /\ K[10] = Table("PSKEY_RF")
      /\ K[11] = Table("DCCAL") /\ K[12] = Table("DISABLE_SPI") /\ K[13] = Table("TRAP")
      /\ K[14] = Table("PSKEY_MISC") /\ Len(K) = 14
  BY DEF RDABT_core_Intialization, Core_R11_5876
<1>2. Tables = {"ENABLE_SPI", "RF_INIT", "PSKEY_RF", "DCCAL", "DISABLE_SPI", "TRAP", "PSKEY_MISC"}
  BY DEF Tables, Tables_R11_5876
<1> HIDE DEF K
<1>3. \A k \in 1 .. Len(K) : k # 5 => K[k] # Low
  BY <1>1, Distinct
<1>4. \A k \in 6 .. 8 : \A t \in Late \ {"RF_INIT"} : K[k] # Table(t)
  BY <1>1, <1>2, Distinct DEF Late
<1>5. \A k \in 1 .. 4 : \A t \in Late \ {"RF_INIT"} : K[k] = Table(t) => 3 \in 1 .. (k - 1)
  BY <1>1, <1>2, Distinct DEF Late
<1>6. \A t \in Tables : \E j \in 6 .. Len(K) : K[j] = Table(t)
  BY <1>1, <1>2
<1> QED BY <1>1, <1>3, <1>4, <1>5, <1>6 DEF Shape, K
LEMMA ShapeR11_5875 ==
  ASSUME target = "R11_5875" PROVE Shape(RDABT_core_Intialization, 5, 3, 9)
<1> DEFINE K == RDABT_core_Intialization
<1>1. /\ K[1] = High /\ K[2] = Table("ENABLE_SPI") /\ K[3] = Table("RF_INIT")
      /\ K[4] = Table("PSKEY_RF") /\ K[5] = Low /\ K[6] = High
      /\ K[7] = Sleep /\ K[8] = Table("ENABLE_SPI") /\ K[9] = Table("RF_INIT")
      /\ K[10] = Table("PSKEY_RF") /\ K[11] = Table("DCCAL") /\ K[12] = Table("DISABLE_SPI")
      /\ K[13] = Table("PSKEY_MISC") /\ K[14] = Table("TRAP") /\ Len(K) = 14
  BY DEF RDABT_core_Intialization, Core_R11_5875
<1>2. Tables = {"ENABLE_SPI", "RF_INIT", "PSKEY_RF", "DCCAL", "DISABLE_SPI", "TRAP", "PSKEY_MISC"}
  BY DEF Tables, Tables_R11_5875
<1> HIDE DEF K
<1>3. \A k \in 1 .. Len(K) : k # 5 => K[k] # Low
  BY <1>1, Distinct
<1>4. \A k \in 6 .. 8 : \A t \in Late \ {"RF_INIT"} : K[k] # Table(t)
  BY <1>1, <1>2, Distinct DEF Late
<1>5. \A k \in 1 .. 4 : \A t \in Late \ {"RF_INIT"} : K[k] = Table(t) => 3 \in 1 .. (k - 1)
  BY <1>1, <1>2, Distinct DEF Late
<1>6. \A t \in Tables : \E j \in 6 .. Len(K) : K[j] = Table(t)
  BY <1>1, <1>2
<1> QED BY <1>1, <1>3, <1>4, <1>5, <1>6 DEF Shape, K

LEMMA ShapeR10_5870E ==
  ASSUME target = "R10_5870E" PROVE Shape(RDABT_core_Intialization, 3, 2, 6)
<1> DEFINE K == RDABT_core_Intialization
<1>1. /\ K[1] = High /\ K[2] = Table("RF_INIT") /\ K[3] = Low
      /\ K[4] = High /\ K[5] = Sleep /\ K[6] = Table("RF_INIT")
      /\ K[7] = Table("PSKEY_RF") /\ K[8] = Table("DCCAL") /\ K[9] = Table("PSKEY_MISC")
      /\ K[10] = Table("UNSNIFF") /\ K[11] = Table("FILTER") /\ K[12] = Table("TRAP")
      /\ Len(K) = 12
  BY DEF RDABT_core_Intialization, Core_R10_5870E
<1>2. Tables = {"RF_INIT", "PSKEY_RF", "DCCAL", "PSKEY_MISC", "UNSNIFF", "FILTER", "TRAP"}
  BY DEF Tables, Tables_R10_5870E
<1> HIDE DEF K
<1>3. \A k \in 1 .. Len(K) : k # 3 => K[k] # Low
  BY <1>1, Distinct
<1>4. \A k \in 4 .. 5 : \A t \in Late \ {"RF_INIT"} : K[k] # Table(t)
  BY <1>1, <1>2, Distinct DEF Late
<1>5. \A k \in 1 .. 2 : \A t \in Late \ {"RF_INIT"} : K[k] = Table(t) => 2 \in 1 .. (k - 1)
  BY <1>1, <1>2, Distinct DEF Late
<1>6. \A t \in Tables : \E j \in 4 .. Len(K) : K[j] = Table(t)
  BY <1>1, <1>2
<1> QED BY <1>1, <1>3, <1>4, <1>5, <1>6 DEF Shape, K

LEMMA Shapes ==
  ASSUME target \in Chips
  PROVE  \E L, R, S \in 1 .. Core : Shape(RDABT_core_Intialization, L, R, S)
<1>1. CASE target = "R11_5876"
  BY SMTT(30), <1>1, ShapeR11_5876, CoreIs DEF Shape, Core
<1>2. CASE target = "R11_5875"
  BY SMTT(30), <1>2, ShapeR11_5875, CoreIs DEF Shape, Core
<1>3. CASE target = "R10_5870E"
  BY SMTT(30), <1>3, ShapeR10_5870E, CoreIs DEF Shape, Core
<1> QED BY <1>1, <1>2, <1>3 DEF Chips

\* The same of init_uart.
LEMMA Order ==
  ASSUME target \in Chips
  PROVE  /\ Call(7) = High
         /\ \A k \in 1 .. End0 : Call(k) = Low => Call(k + 1) = High
         /\ \A k \in 1 .. End0 : \A t \in Late \ {"RF_INIT"} : Call(k) = Table(t) =>
              \E j \in 7 .. (k - 1) : /\ Call(j) = Table("RF_INIT")
                                     /\ \A i \in (j + 1) .. (k - 1) : Call(i) # Low
         /\ \A t \in Tables : \E j \in 7 .. (6 + Core) :
              /\ Call(j) = Table(t)
              /\ \A i \in (j + 1) .. End0 : Call(i) # Low
<1> DEFINE K == RDABT_core_Intialization
<1>1. PICK L \in 1 .. Core, R \in 1 .. Core, S \in 1 .. Core : Shape(K, L, R, S)
  BY Shapes
<1>2. Core \in Nat /\ Core = Len(K) /\ End0 = 15 + Core
  BY CoreIs DEF Core, End0
<1>3. \A i \in 1 .. Core : Call(6 + i) = K[i]
  BY Places
<1>4. \A k \in 1 .. 6 \cup (7 + Core) .. End0 : Call(k)[1] \notin {"write", "pin"}
  <2>2. ASSUME NEW k \in 1 .. 6 \cup (7 + Core) .. End0
        PROVE  Call(k)[1] \notin {"write", "pin"}
    <3>1. \/ k \in {1, 2, 3, 4, 5, 6}
          \/ k \in {7 + Core, 8 + Core, 9 + Core, 10 + Core}
          \/ k \in {11 + Core, 12 + Core, 13 + Core, 14 + Core, 15 + Core}
      <4>1. CASE k \in 1 .. 6
        BY <4>1
      <4>2. CASE k \in (7 + Core) .. (15 + Core)
        <5>1. k - Core \in 7 .. 15 /\ k = (k - Core) + Core
          BY <1>2, <4>2
        <5>2. k - Core \in {7, 8, 9, 10, 11, 12, 13, 14, 15}
          BY <5>1
        <5> QED BY <1>2, <5>1, <5>2
      <4> QED BY <1>2, <4>1, <4>2
    <3>2. CASE k \in {1, 2, 3, 4, 5, 6}
      <4>1. /\ Call(1)[1] = "try" /\ Call(2)[1] = "flush" /\ Call(3)[1] = "try"
            /\ Call(4)[1] = "set_speed" /\ Call(5)[1] = "flush" /\ Call(6)[1] = "gpio_init"
        <5>1. /\ Call(1) = Try("open") /\ Call(2) = Flush /\ Call(3) = Try("tcsetattr")
              /\ Call(4) = SetSpeed("init_speed") /\ Call(5) = Break /\ Call(6) = Gpio
          BY Places
        <5> QED BY <5>1, Heads
      <4> QED BY <3>2, <4>1
    <3>3. CASE k \in {7 + Core, 8 + Core, 9 + Core, 10 + Core}
      <4>1. /\ Call(7 + Core) = Checked("BAUD_RATE") /\ Call(8 + Core) = Checked("MODIFY_FLAG")
            /\ Call(9 + Core) = Flush /\ Call(10 + Core) = SetSpeed("speed")
        BY Places
      <4>2. /\ Call(7 + Core)[1] = "write_checked" /\ Call(8 + Core)[1] = "write_checked"
            /\ Call(9 + Core)[1] = "flush" /\ Call(10 + Core)[1] = "set_speed"
        BY <4>1, Heads
      <4> QED BY <3>3, <4>2
    <3>4. CASE k \in {11 + Core, 12 + Core, 13 + Core, 14 + Core, 15 + Core}
      <4>1. /\ Call(11 + Core) = Flow("FLOW_CTL_1") /\ Call(12 + Core) = Flow("FLOW_CTL_2")
            /\ Call(13 + Core) = Try("TIOCSETD") /\ Call(14 + Core) = SetFlags
         /\ Call(15 + Core) = Try("HCIUARTSETPROTO")
        BY Places
      <4>2. /\ Call(11 + Core)[1] = "write_flow" /\ Call(12 + Core)[1] = "write_flow"
            /\ Call(13 + Core)[1] = "try" /\ Call(14 + Core)[1] = "set_flags"
            /\ Call(15 + Core)[1] = "try"
        BY <4>1, Heads
      <4> QED BY <3>4, <4>2
    <3> QED BY <3>1, <3>2, <3>3, <3>4
  <2> QED BY <2>2
<1> HIDE DEF K
<1>5. \A k \in 1 .. End0 : Call(k)[1] \in {"write", "pin"} => k - 6 \in 1 .. Core /\ Call(k) = K[k - 6]
  <2> SUFFICES ASSUME NEW k \in 1 .. End0, Call(k)[1] \in {"write", "pin"}
               PROVE  k - 6 \in 1 .. Core /\ Call(k) = K[k - 6]
    OBVIOUS
  <2>1. k \notin 1 .. 6 \cup (7 + Core) .. End0
    BY <1>4
  <2>2. k - 6 \in 1 .. Core /\ 6 + (k - 6) = k
    BY <1>2, <2>1
  <2>3. Call(6 + (k - 6)) = K[k - 6]
    BY <1>3, <2>2
  <2> QED BY <2>2, <2>3
<1>6. \A k \in 1 .. End0 : Call(k) = Low => k = 6 + L
  BY <1>1, <1>2, <1>5, SMTT(30) DEF Shape, Low
<1>7. Call(7) = High
  BY <1>1, <1>2, <1>3 DEF Shape
<1>8. ASSUME NEW k \in 1 .. End0, Call(k) = Low PROVE Call(k + 1) = High
  <2>1. k = 6 + L /\ K[L + 1] = High /\ L + 1 \in 1 .. Core
    BY <1>1, <1>2, <1>6, <1>8 DEF Shape
  <2>2. Call(6 + (L + 1)) = High
    BY <1>3, <2>1
  <2> QED BY <1>1, <2>1, <2>2
<1>9. ASSUME NEW k \in 1 .. End0, NEW t \in Late \ {"RF_INIT"}, Call(k) = Table(t)
      PROVE  \E j \in 7 .. (k - 1) : /\ Call(j) = Table("RF_INIT")
                                    /\ \A i \in (j + 1) .. (k - 1) : Call(i) # Low
  <2>1. k - 6 \in 1 .. Core /\ K[k - 6] = Table(t)
    BY <1>5, <1>9 DEF Table
  <2>2. K[L] # Table(t)
    BY <1>1 DEF Shape, Low, Table
  <2>3. CASE k - 6 < L
    <3>1. R \in 1 .. (k - 7) /\ K[R] = Table("RF_INIT")
      BY <1>1, <1>2, <2>1, <2>3 DEF Shape
    <3> QED BY <1>1, <1>2, <1>3, <1>6, <2>1, <2>3, <3>1
  <2>4. CASE k - 6 > L
    <3>1. S \in (L + 1) .. Core /\ K[S] = Table("RF_INIT")
      BY <1>1, <1>2 DEF Shape
    <3>2. k - 6 > S
      BY <1>1, <1>2, <2>1, <2>4, <3>1, <1>9 DEF Shape, Table
    <3> QED BY <1>1, <1>2, <1>3, <1>6, <2>1, <2>4, <3>1, <3>2
  <2> QED BY <1>2, <2>1, <2>2, <2>3, <2>4
<1>10. ASSUME NEW t \in Tables
       PROVE  \E j \in 7 .. (6 + Core) : /\ Call(j) = Table(t)
                                        /\ \A i \in (j + 1) .. End0 : Call(i) # Low
  <2>1. PICK j \in (L + 1) .. Core : K[j] = Table(t)
    BY <1>1, <1>2 DEF Shape
  <2>2. Call(6 + j) = Table(t) /\ 6 + j \in 7 .. (6 + Core)
    BY <1>1, <1>2, <1>3, <2>1
  <2>3. \A i \in (6 + j + 1) .. End0 : Call(i) # Low
    BY <1>1, <1>2, <1>6, <2>1
  <2> QED BY <2>2, <2>3
<1> QED BY <1>7, <1>8, <1>9, <1>10

\* Which call is where.
LEMMA Kinds ==
  ASSUME target \in Chips, NEW k \in 1 .. End0
  PROVE  /\ Call(k)[1] \in {"write", "pin", "usleep"} =>
              k \in 7 .. (6 + Core) /\ Call(k) \in Chip
         /\ Call(k)[1] = "gpio_init" => k = 6
         /\ Call(k)[1] = "write_checked" => k \in {7 + Core, 8 + Core}
         /\ Call(k)[1] = "write_flow" => k \in {11 + Core, 12 + Core}
         /\ Call(k)[1] = "set_speed" => k \in {4, 10 + Core}
         /\ Call(k)[1] = "flush" => k \in {2, 5, 9 + Core}
         /\ Call(k)[1] = "try" => k \in {1, 3, 13 + Core, 15 + Core}
         /\ Call(k)[1] = "set_flags" => k = 14 + Core
<1>1. Core \in Nat /\ End0 = 15 + Core
  BY CoreIs DEF End0
<1>2. \A i \in 1 .. Core : Call(6 + i) \in Chip
  BY Places, CoreIs
<1>3. CASE k \in 7 .. (6 + Core)
  <2>1. Call(k) \in Chip
    BY <1>1, <1>2, <1>3
  <2>2. Call(k)[1] \in {"write", "pin", "usleep"}
    BY <2>1, Heads DEF Chip
  <2> QED BY <1>3, <2>1, <2>2
<1>4. CASE k \in 1 .. 6
  <2>1. k \in {1, 2, 3, 4, 5, 6}
    BY <1>4
  <2>2. /\ Call(1) = Try("open") /\ Call(2) = Flush /\ Call(3) = Try("tcsetattr")
        /\ Call(4) = SetSpeed("init_speed") /\ Call(5) = Break /\ Call(6) = Gpio
    BY Places
  <2>3. /\ Call(1)[1] = "try" /\ Call(2)[1] = "flush" /\ Call(3)[1] = "try"
        /\ Call(4)[1] = "set_speed" /\ Call(5)[1] = "flush" /\ Call(6)[1] = "gpio_init"
    BY <2>2, Heads
  <2> QED BY <2>1, <2>3
<1>5. CASE k \in (7 + Core) .. (15 + Core)
  <2>1. k \in {7 + Core, 8 + Core, 9 + Core, 10 + Core, 11 + Core, 12 + Core, 13 + Core,
               14 + Core, 15 + Core}
    BY <1>1, <1>5
  <2> QED BY <2>1, Places, Heads
<1> QED BY <1>1, <1>3, <1>4, <1>5
-----------------------------------------------------------------------------
(* Steps that leave the course of the setup alone.                         *)

LEMMA Fixed ==
  ASSUME target' = target
  PROVE  /\ init_uart' = init_uart /\ RDABT_core_Intialization' = RDABT_core_Intialization
         /\ Core' = Core /\ End0' = End0
         /\ Tables' = Tables /\ Messages' = Messages /\ Late' = Late
<1>1. RDABT_core_Intialization' = RDABT_core_Intialization
  BY DEF RDABT_core_Intialization
<1>2. Tables' = Tables
  BY DEF Tables
<1> QED BY <1>1, <1>2 DEF init_uart, Core, End0, Messages, Late

\* What the chip hears depends on the command line only.
LEMMA Hears ==
  ASSUME UNCHANGED <<init_speed, speed>>
  PROVE  /\ Meets' = Meets /\ Agree' = Agree
         /\ uart_speed(init_speed)' = uart_speed(init_speed)
         /\ uart_speed(speed)' = uart_speed(speed)
         /\ \A t : Reaches(t)' = Reaches(t)
<1>1. /\ uart_speed(init_speed)' = uart_speed(init_speed)
      /\ uart_speed(speed)' = uart_speed(speed)
  BY DEF uart_speed, Supported
<1>2. Meets' = Meets /\ Agree' = Agree
  BY <1>1 DEF Meets, Agree, Default
<1> QED BY <1>1, <1>2 DEF Reaches, FlowTables

LEMMA InitInv == Init => IInv
<1> SUFFICES ASSUME Init PROVE IInv
  OBVIOUS
<1>1. Core \in Nat /\ End0 = 15 + Core
  BY CoreIs DEF Init, End0
<1>2. Types
  <2>1. hostSpeed \in Supported /\ chipSpeed \in Supported /\ newSpeed \in Supported
    BY SMT DEF Init, Supported, Default
  <2>2. output \in Seq(Messages) /\ done \in Seq(Messages) /\ Len(output) = 0
    BY DEF Init
  <2>3. 0 \in 0 .. MaxIgnored /\ 0 <= QueueCap /\ 1 \in 1 .. End0 + 1
    BY <1>1, HciAttachAssumption
  <2>4. /\ target \in Chips /\ timely \in BOOLEAN /\ ignored \in 0 .. MaxIgnored
        /\ pc = "options" /\ code = 0 /\ at \in 1 .. End0 + 1 /\ asleep \in BOOLEAN
        /\ flow \in BOOLEAN /\ canceled \in BOOLEAN /\ hungUp \in BOOLEAN /\ powered \in BOOLEAN
    <3>1. /\ asleep = FALSE /\ flow = TRUE /\ canceled = FALSE /\ hungUp = FALSE
          /\ powered \in BOOLEAN /\ timely \in BOOLEAN /\ target \in Chips /\ ignored = 0
          /\ pc = "options" /\ code = 0 /\ at = 1
      BY SMT DEF Init
    <3> QED BY <2>3, <3>1, Zenon
  <2>5. init_speed \in InitSpeedArgs \cup {Default} /\ speed \in SpeedArgs \cup {921600}
    BY SMT DEF Init
  <2>6. Len(output) <= QueueCap
    BY <2>2, <2>3
  <2> QED BY <2>1, <2>2, <2>4, <2>5, <2>6, SMT DEF Types
<1>3. Discipline
  BY <1>1 DEF Init, Discipline
<1> QED BY <1>2, <1>3 DEF IInv, Init, Running

\* The variables the invariant looks at, but for those of main's loop.
course == <<setting, ignored, at, asleep, speed, flow, hostSpeed, output, chip>>

LEMMA CourseStays ==
  ASSUME Course, UNCHANGED course PROVE Course'
<1>1. target' = target /\ at' = at /\ asleep' = asleep /\ speed' = speed /\ flow' = flow
      /\ hostSpeed' = hostSpeed /\ output' = output /\ powered' = powered
      /\ chipSpeed' = chipSpeed /\ newSpeed' = newSpeed /\ done' = done
  BY DEF course, setting, chip
<1>2. init_uart' = init_uart /\ Core' = Core /\ Messages' = Messages /\ Late' = Late
  BY <1>1, Fixed
<1>9. /\ Meets' = Meets /\ uart_speed(init_speed)' = uart_speed(init_speed)
      /\ uart_speed(speed)' = uart_speed(speed) /\ \A t : Reaches(t)' = Reaches(t)
  BY Hears DEF course, setting
<1>3. Slept'
  BY <1>1, <1>2 DEF Course, Slept, Sends, Call
<1>4. Power'
  BY <1>1, <1>2 DEF Course, Power, Call, Low
<1>5. Rates'
  BY <1>1, <1>2, <1>9, SMT DEF Course, Rates, Default
<1>6. Kept'
  BY <1>1, <1>2, <1>9 DEF Course, Kept, WrittenBy, Call, Table, Flow, Low, ToSet
<1>8. Taken'
  BY <1>1, <1>9 DEF Course, Taken, FlowTables
<1>7. RadioFirst'
  BY <1>1, <1>2 DEF Course, RadioFirst
<1> QED BY <1>3, <1>4, <1>5, <1>6, <1>7, <1>8 DEF Course

\* The steps of the program that end it, of main's loop, and of the device.
LEMMA Passing ==
  ASSUME IInv, UNCHANGED course,
         pc' \in {"check", "poll", "blocked", "restore", "ended"} \/ pc' = pc,
         pc' # "ended" => ldisc' = ldisc /\ code' = code,
         pc' = "ended" => ldisc' = "tty" /\ code' \in {0, 1},
         pc' \in {"check", "poll", "blocked", "restore"} => at = End0 + 1 /\ ~asleep,
         pc' # pc => pc' = "ended" \/ pc \notin {"options", "ended"},
         canceled' \in BOOLEAN, hungUp' \in BOOLEAN
  PROVE  IInv'
<1>1. target' = target /\ timely' = timely /\ ignored' = ignored /\ at' = at /\ asleep' = asleep
      /\ init_speed' = init_speed /\ speed' = speed /\ flow' = flow
      /\ hostSpeed' = hostSpeed /\ output' = output /\ powered' = powered
      /\ chipSpeed' = chipSpeed /\ newSpeed' = newSpeed /\ done' = done
  BY DEF course, setting, chip
<1>2. Core' = Core /\ End0' = End0 /\ Messages' = Messages
  BY <1>1, Fixed
<1>3. Types'
  BY <1>1, <1>2, SMT DEF IInv, Types
<1>4. Discipline'
  BY <1>1, <1>2, SMT DEF IInv, Discipline, Types, Default
<1>5. Running' => Running
  BY <1>1, SMT DEF IInv, Running, Undisturbed, Types
<1>6. Running' => Course'
  BY <1>5, CourseStays DEF IInv
<1> QED BY <1>3, <1>4, <1>6 DEF IInv
-----------------------------------------------------------------------------
(* Calls of init_uart.                                                     *)

Speeds == Supported \cup SpeedArgs

\* What every call that does not end the program has to establish.
LEMMA CallTypes ==
  ASSUME IInv, pc = "setup", ~asleep, at <= End0,
         UNCHANGED <<setting, pc, code, speed, flow, canceled, hungUp>>,
         at' \in (at + 1) .. (End0 + 1), ignored' \in 0 .. MaxIgnored,
         asleep' \in BOOLEAN, powered' \in BOOLEAN,
         hostSpeed' \in Supported, chipSpeed' \in Speeds, newSpeed' \in Speeds,
         output' \in Seq(Messages), Len(output') <= QueueCap, done' \in Seq(Messages),
         at' > 13 + Core => ldisc' = "hci"
  PROVE  Types' /\ Discipline'
<1>1. /\ target' = target /\ timely' = timely /\ init_speed' = init_speed /\ pc' = pc /\ code' = code
      /\ speed' = speed /\ flow' = flow /\ canceled' = canceled /\ hungUp' = hungUp
  BY DEF setting
<1>2. Core' = Core /\ End0' = End0 /\ Messages' = Messages
  BY <1>1, Fixed
<1>3. at' \in 1 .. End0 + 1
  BY DEF IInv, Types
<1>4. Types'
  BY <1>1, <1>2, <1>3, SMT DEF IInv, Types, Speeds
<1>5. Discipline'
  BY <1>1, <1>2, SMT DEF Discipline
<1> QED BY <1>4, <1>5

\* And what a call that leaves the power alone makes of the course.
LEMMA CallCourse ==
  ASSUME IInv, Running, pc = "setup", ~asleep, at <= End0,
         UNCHANGED <<setting, speed, flow, powered, done>>,
         at' = at + 1, Call(at)[1] \notin {"pin", "gpio_init"},
         \/ output' = << >> /\ (asleep' => at = 5) /\ Call(at)[1] # "write"
              /\ (Call(at)[1] = "write_flow" => ~flow)
         \/ /\ output' = <<Call(at)[2]>> /\ asleep' /\ Sends(Call(at)) /\ at >= 8
            /\ (at > 10 + Core => flow),
         Rates'
  PROVE  Course'
<1>1. Types /\ Discipline /\ Slept /\ Power /\ Rates /\ Kept /\ Taken /\ RadioFirst
  BY DEF IInv, Course
<1>2. /\ target' = target /\ init_speed' = init_speed /\ speed' = speed /\ flow' = flow
      /\ powered' = powered /\ done' = done
  BY DEF setting
<1>3. init_uart' = init_uart /\ Core' = Core /\ Messages' = Messages /\ Late' = Late
  BY <1>2, Fixed
<1>4. at \in 1 .. End0 /\ at' - 1 = at /\ at \in Nat /\ End0 \in Nat /\ Core \in Nat
  BY <1>1, CoreIs DEF Types, End0
<1>9. \A t : Reaches(t)' = Reaches(t)
  BY <1>2, Hears
<1>5. Slept'
  <2>1. CASE output' = << >> /\ (asleep' => at = 5)
    BY <2>1 DEF Slept
  <2>2. CASE output' = <<Call(at)[2]>> /\ asleep' /\ Sends(Call(at)) /\ at >= 8
             /\ (at > 10 + Core => flow)
    <3>1. at' > 8 /\ (at' > 11 + Core => flow)
      BY <1>4, <2>2
    <3> QED BY <1>2, <1>3, <1>4, <2>2, <3>1 DEF Slept, Sends, Call
  <2> QED BY <2>1, <2>2
<1>6. Power'
  <2>2. ASSUME at >= 8 PROVE powered
    <3>1. at - 1 \in 1 .. End0 /\ at = (at - 1) + 1
      BY <1>4, <2>2
    <3>2. Call(at - 1) = Low => Call(at) = High
      BY <1>1, <3>1, Order DEF Types
    <3>3. Call(at - 1) # Low
      BY <3>2, Heads
    <3> QED BY <1>1, <2>2, <3>3 DEF Power
  <2>3. at # 7
    BY <1>1, Order, Heads DEF Types
  <2>4. at' >= 8 => powered'
    BY <1>2, <1>4, <2>2, <2>3
  <2> QED BY <2>4 DEF Power
<1>7. Kept'
  <2>1. SUFFICES ASSUME NEW j \in 7 .. at, NEW t \in Messages, Reaches(t),
                        Call(j) = Table(t) \/ (flow /\ Call(j) = Flow(t)),
                        \A i \in (j + 1) .. at : Call(i) # Low
                 PROVE  t \in ToSet(done) \/ (asleep' /\ j = at /\ output' = <<t>>)
    <3>1. SUFFICES ASSUME NEW j \in 7 .. (at' - 1), NEW t \in Messages', WrittenBy(j, t)', Reaches(t)'
                   PROVE  (t \in ToSet(done) \/ (asleep /\ j = at - 1 /\ output = <<t>>))'
      BY DEF Kept
    <3>2. /\ Call(j) = Table(t) \/ (flow /\ Call(j) = Flow(t))
          /\ \A i \in (j + 1) .. at : Call(i) # Low
      BY <1>2, <1>3, <1>4, <3>1 DEF WrittenBy, Call, Table, Flow, Low
    <3>3. t \in ToSet(done) \/ (asleep' /\ j = at /\ output' = <<t>>)
      BY <1>3, <1>4, <1>9, <2>1, <3>1, <3>2
    <3> QED BY <1>2, <1>4, <3>3 DEF ToSet
  <2>2. CASE j = at
    <3>1. Call(at)[1] \in {"write", "write_flow"} /\ Call(at)[2] = t
      BY <2>1, <2>2, Heads
    <3>2. output' = <<Call(at)[2]>> /\ asleep'
      BY <2>1, <2>2, <3>1, Heads
    <3> QED BY <2>2, <3>1, <3>2
  <2>3. CASE j # at
    <3>1. j \in 7 .. (at - 1) /\ WrittenBy(j, t)
      BY <1>4, <2>1, <2>3 DEF WrittenBy
    <3> QED BY <1>1, <2>1, <3>1 DEF Kept
  <2> QED BY <2>2, <2>3
<1>8. RadioFirst'
  BY <1>1, <1>2, <1>3 DEF RadioFirst
<1>10. Taken'
  BY <1>1, <1>2, <1>9 DEF Taken, FlowTables
<1> QED BY <1>5, <1>6, <1>7, <1>8, <1>10 DEF Course

\* A call that fails, and is looked at, ends the program.
LEMMA FailStep ==
  ASSUME IInv, NEW what, Fail(what), pc = "setup" PROVE IInv'
BY Passing, SMT DEF Fail, End, course, IInv, Types

LEMMA CallsAre ==
  ASSUME IInv, NEW name, Calls(name)
  PROVE  /\ pc = "setup" /\ ~asleep /\ at \in 1 .. End0 /\ Call(at)[1] = name /\ Arg = Call(at)[2]
         /\ Core \in Nat /\ End0 = 15 + Core /\ at \in Nat
BY Places, CoreIs, SMTT(30) DEF IInv, Types, Calls, Call, Arg, End0

\* A call that is not at one of the places where a speed changes.
LEMMA SpeedsStay ==
  ASSUME Course, target \in Chips, at \in Nat, at' = at + 1,
         at \notin {4, 7 + Core, 8 + Core, 10 + Core},
         UNCHANGED <<target, init_speed, speed, hostSpeed, chipSpeed, newSpeed>>,
         at > 8 + Core => output' = output \/ (output # <<"MODIFY_FLAG">> /\ output' # <<"MODIFY_FLAG">>)
  PROVE  Rates'
<1>1. Core' = Core /\ Core \in Nat
  BY Fixed, CoreIs
<1>2. /\ Meets' = Meets /\ uart_speed(init_speed)' = uart_speed(init_speed)
      /\ uart_speed(speed)' = uart_speed(speed)
  BY Hears
<1>3. Rates /\ Default' = Default
  BY DEF Course, Default
<1>4. /\ at' \in 5 .. 10 + Core => at \in 5 .. 10 + Core
      /\ at' > 10 + Core => at > 10 + Core
      /\ at' <= 8 + Core => at <= 8 + Core
      /\ at' <= 7 + Core => at <= 7 + Core
      /\ at' # 8 + Core
      /\ at' > 8 + Core => at > 8 + Core
  BY <1>1
<1>5. /\ (at \in 5 .. 10 + Core => hostSpeed = uart_speed(init_speed))'
      /\ (at > 10 + Core => hostSpeed = uart_speed(speed))'
  BY <1>1, <1>2, <1>3, <1>4 DEF Rates
<1>6. /\ (at <= 8 + Core \/ ~Meets => chipSpeed = Default)'
      /\ (at <= 7 + Core \/ ~Meets => newSpeed = Default)'
      /\ (at = 8 + Core /\ output = << >> /\ Meets => newSpeed = speed)'
  BY <1>1, <1>2, <1>3, <1>4 DEF Rates
<1>7. (at > 8 + Core /\ Meets =>
         newSpeed = speed /\ chipSpeed = IF output = <<"MODIFY_FLAG">> THEN Default ELSE speed)'
  BY <1>1, <1>2, <1>3, <1>4 DEF Rates
<1> QED BY <1>5, <1>6, <1>7 DEF Rates

LEMMA TryStep == ASSUME IInv, TryCall PROVE IInv'
<1>1. CASE Fail("tty")
  BY <1>1, FailStep DEF TryCall, Calls
<1>2. CASE /\ at' = at + 1
           /\ ldisc' = IF Arg = "TIOCSETD" THEN "hci" ELSE ldisc
           /\ UNCHANGED <<setting, ignored, pc, code, asleep, speed, flow, canceled,
                          hungUp, hostSpeed, output, chip>>
  <2>1. /\ pc = "setup" /\ ~asleep /\ at \in 1 .. End0 /\ Call(at)[1] = "try" /\ Arg = Call(at)[2]
        /\ Core \in Nat /\ End0 = 15 + Core /\ at \in Nat
    BY CallsAre DEF TryCall
  <2>2. at \in {1, 3, 13 + Core, 15 + Core}
    BY <2>1, Kinds DEF IInv, Types
  <2>3. at' > 13 + Core => ldisc' = "hci"
    <3>1. CASE at = 13 + Core
      BY <1>2, <2>1, <3>1, Places, Heads DEF IInv, Types
    <3>2. CASE at = 15 + Core
      BY <1>2, <2>1, <3>2 DEF IInv, Discipline
    <3> QED BY <1>2, <2>1, <2>2, <3>1, <3>2
  <2>4. Types' /\ Discipline'
    BY <1>2, <2>1, <2>3, CallTypes, SMT DEF IInv, Types, chip, setting, Speeds
  <2>5. ASSUME Running' PROVE Course'
    <3>1. Running /\ Course
      BY <1>2, <2>1, <2>5 DEF IInv, Running, Undisturbed, setting
    <3>2. Core' = Core
      BY <1>2, Fixed DEF setting
    <3>3. output = << >>
      BY <2>1, <3>1 DEF Course, Slept
    <3>4. Rates'
      BY <1>2, <2>1, <2>2, <3>1, <3>2, SpeedsStay, SMT DEF chip, setting, IInv, Types
    <3> QED BY <1>2, <2>1, <3>1, <3>3, <3>4, CallCourse DEF chip
  <2> QED BY <2>4, <2>5 DEF IInv
<1> QED BY <1>1, <1>2 DEF TryCall

LEMMA FlagsStep == ASSUME IInv, SetUartFlags PROVE IInv'
<1>1. CASE Fail("tty")
  BY <1>1, FailStep DEF SetUartFlags, Calls
<1>2. CASE Return /\ UNCHANGED <<hostSpeed, output, chip>>
  <2>1. /\ pc = "setup" /\ ~asleep /\ at \in 1 .. End0 /\ Call(at)[1] = "set_flags"
        /\ Core \in Nat /\ End0 = 15 + Core /\ at \in Nat
    BY CallsAre DEF SetUartFlags
  <2>2. at = 14 + Core
    BY <2>1, Kinds DEF IInv, Types
  <2>3. ldisc' = "hci"
    BY <1>2, <2>1, <2>2 DEF IInv, Discipline, Return
  <2>4. Types' /\ Discipline'
    BY <1>2, <2>1, <2>2, <2>3, CallTypes, SMT DEF IInv, Types, chip, setting, Speeds, Return
  <2>5. ASSUME Running' PROVE Course'
    <3>1. Running /\ Course
      BY <1>2, <2>1, <2>5 DEF IInv, Running, Undisturbed, setting, Return
    <3>2. output = << >>
      BY <2>1, <3>1 DEF Course, Slept
    <3>3. Rates'
      BY <1>2, <2>1, <2>2, <3>1, SpeedsStay, SMT DEF chip, setting, Return, IInv, Types
    <3> QED BY <1>2, <2>1, <3>1, <3>2, <3>3, CallCourse DEF chip, Return
  <2> QED BY <2>4, <2>5 DEF IInv
<1> QED BY <1>1, <1>2 DEF SetUartFlags

LEMMA NamesSpeed == \A s : uart_speed(s) \in Supported
BY SMT DEF uart_speed, Supported

LEMMA SetSpeedStep == ASSUME IInv, SetHostSpeed PROVE IInv'
<1>1. CASE Fail("tty")
  BY <1>1, FailStep DEF SetHostSpeed, Calls
<1>2. CASE /\ hostSpeed' = uart_speed(IF Arg = "init_speed" THEN init_speed ELSE speed)
           /\ Return /\ UNCHANGED <<output, chip>>
  <2>1. /\ pc = "setup" /\ ~asleep /\ at \in 1 .. End0 /\ Call(at)[1] = "set_speed"
        /\ Arg = Call(at)[2] /\ Core \in Nat /\ End0 = 15 + Core /\ at \in Nat
    BY CallsAre DEF SetHostSpeed
  <2>2. \/ at = 4 /\ hostSpeed' = uart_speed(init_speed)
        \/ at = 10 + Core /\ hostSpeed' = uart_speed(speed)
    <3>1. at \in {4, 10 + Core}
      BY <2>1, Kinds DEF IInv, Types
    <3>2. Call(4) = SetSpeed("init_speed") /\ Call(10 + Core) = SetSpeed("speed")
      BY Places DEF IInv, Types
    <3> QED BY <1>2, <2>1, <3>1, <3>2, Heads
  <2>3. hostSpeed' \in Supported
    BY <2>2, NamesSpeed
  <2>4. Types' /\ Discipline'
    BY <1>2, <2>1, <2>2, <2>3, CallTypes, SMT DEF IInv, Types, chip, setting, Speeds, Return
  <2>5. ASSUME Running' PROVE Course'
    <3>1. Running /\ Course
      BY <1>2, <2>1, <2>5 DEF IInv, Running, Undisturbed, setting, Return
    <3>2. Core' = Core
      BY <1>2, Fixed DEF setting, Return
    <3>3. output = << >>
      BY <2>1, <3>1 DEF Course, Slept
    <3>4. /\ Meets' = Meets /\ uart_speed(init_speed)' = uart_speed(init_speed)
          /\ uart_speed(speed)' = uart_speed(speed)
      BY <1>2, Hears DEF setting, Return
    <3>5. Rates'
      <4>1. Core >= 12 /\ at' = at + 1 /\ output' = << >> /\ Default' = Default
            /\ chipSpeed' = chipSpeed /\ newSpeed' = newSpeed /\ speed' = speed
        BY <1>2, <3>1, <3>3, CoreIs DEF chip, Return, Default, IInv, Types
      <4>2. CASE at = 4 /\ hostSpeed' = uart_speed(init_speed)
        BY <2>1, <3>1, <3>2, <3>4, <4>1, <4>2 DEF Rates, Course
      <4>3. CASE at = 10 + Core /\ hostSpeed' = uart_speed(speed)
        BY <2>1, <3>1, <3>2, <3>3, <3>4, <4>1, <4>3 DEF Rates, Course
      <4> QED BY <2>2, <4>2, <4>3
    <3> QED BY <1>2, <2>1, <3>1, <3>3, <3>5, CallCourse DEF chip, Return
  <2> QED BY <2>4, <2>5 DEF IInv
<1> QED BY <1>1, <1>2 DEF SetHostSpeed

LEMMA FlushStep == ASSUME IInv, FlushQueues PROVE IInv'
<1>1. /\ pc = "setup" /\ ~asleep /\ at \in 1 .. End0 /\ Call(at)[1] = "flush"
      /\ Core \in Nat /\ End0 = 15 + Core /\ at \in Nat
  BY CallsAre DEF FlushQueues
<1>2. at \in {2, 5, 9 + Core} /\ (asleep' => at = 5) /\ asleep' \in BOOLEAN
  <2>1. at \in {2, 5, 9 + Core}
    BY <1>1, Kinds DEF IInv, Types
  <2>2. asleep' \in BOOLEAN /\ (asleep' => Call(at)[2] = "break")
    BY DEF FlushQueues, Arg, Call
  <2>3. Call(2) = Flush /\ Call(9 + Core) = Flush
    BY Places DEF IInv, Types
  <2> QED BY <2>1, <2>2, <2>3, Heads
<1>3. output' = << >> /\ output' \in Seq(Messages) /\ Len(output') <= QueueCap
  BY HciAttachAssumption DEF FlushQueues
<1>6. /\ at' = at + 1 /\ ldisc' = ldisc /\ ignored' = ignored /\ pc' = pc /\ code' = code
      /\ speed' = speed /\ flow' = flow /\ canceled' = canceled /\ hungUp' = hungUp
      /\ hostSpeed' = hostSpeed /\ UNCHANGED setting /\ UNCHANGED chip
  BY DEF FlushQueues
<1>4. Types' /\ Discipline'
  BY <1>1, <1>2, <1>3, <1>6, CallTypes, SMT DEF IInv, Types, chip, Speeds
<1>5. ASSUME Running' PROVE Course'
  <2>1. Running /\ Course
    BY <1>1, <1>5, <1>6 DEF IInv, Running, Undisturbed, setting
  <2>3. output = << >>
    BY <1>1, <2>1 DEF Course, Slept
  <2>4. Rates'
    BY <1>1, <1>2, <1>3, <1>6, <2>1, <2>3, SpeedsStay, SMT DEF chip, setting, IInv, Types
  <2> QED BY <1>1, <1>2, <1>3, <1>6, <2>1, <2>4, CallCourse DEF chip
<1> QED BY <1>4, <1>5 DEF IInv

\* A message that is queued.
LEMMA QueueStep ==
  ASSUME IInv, pc = "setup", ~asleep, at \in 1 .. End0, NEW t \in Messages, Queue(t),
         Call(at)[2] = t, Sends(Call(at)), at >= 8, at <= 12 + Core,
         at = 7 + Core => t = "BAUD_RATE",
         at = 8 + Core => t = "MODIFY_FLAG",
         at # 8 + Core => t # "MODIFY_FLAG",
         at \notin {9 + Core, 10 + Core}, at > 10 + Core => flow
  PROVE  IInv'
<1>1. Core \in Nat /\ End0 = 15 + Core /\ at \in Nat
  BY CoreIs DEF IInv, Types, End0
<1>2. output' \in Seq(Messages) /\ Len(output') <= QueueCap
  BY AppendProperties, HciAttachAssumption DEF Queue, IInv, Types
<1>3. Types' /\ Discipline'
  BY <1>1, <1>2, CallTypes, SMT DEF IInv, Types, chip, setting, Speeds, Queue
<1>4. ASSUME Running' PROVE Course'
  <2>1. Running /\ Course
    BY <1>1, <1>4 DEF IInv, Running, Undisturbed, setting, Queue
  <2>2. Core' = Core
    BY Fixed DEF setting, Queue
  <2>3. output = << >> /\ output' = <<t>>
    BY <2>1 DEF Course, Slept, Queue
  <2>4. asleep' /\ at' = at + 1 /\ hostSpeed' = hostSpeed /\ chipSpeed' = chipSpeed
        /\ newSpeed' = newSpeed /\ speed' = speed
    BY DEF Queue, chip
  <2>5. output' # << >> /\ (output' = <<"MODIFY_FLAG">> <=> t = "MODIFY_FLAG")
    BY <2>3
  <2>6. Rates'
    <3>1. CASE at \notin {7 + Core, 8 + Core}
      BY <1>1, <2>1, <2>3, <2>4, <2>5, <3>1, SpeedsStay, SMT DEF Queue, setting, IInv, Types
    <3>2. CASE at \in {7 + Core, 8 + Core}
      <4>1. /\ Meets' = Meets /\ uart_speed(init_speed)' = uart_speed(init_speed)
            /\ uart_speed(speed)' = uart_speed(speed) /\ Default' = Default
        BY Hears DEF Queue, setting, Default
      <4> QED BY <1>1, <2>1, <2>2, <2>3, <2>4, <2>5, <3>2, <4>1 DEF Rates, Course
    <3> QED BY <3>1, <3>2
  <2> QED BY <1>1, <2>1, <2>3, <2>4, <2>6, CallCourse, Heads DEF chip, Queue, Sends
<1> QED BY <1>3, <1>4 DEF IInv

\* A call that fails unnoticed: nothing more is said of the course.
LEMMA IgnoreStep ==
  ASSUME IInv, pc = "setup", ~asleep, at \in 1 .. End0, NEW what, NEW n \in Nat \ {0},
         Ignore(what, n), asleep' \in BOOLEAN, at + n <= 13 + Core
  PROVE  IInv'
<1>1. Core \in Nat /\ End0 = 15 + Core /\ at \in Nat
  BY CoreIs DEF IInv, Types, End0
<1>2. at' \in (at + 1) .. (End0 + 1) /\ ignored' \in 0 .. MaxIgnored /\ ignored' # 0
  BY <1>1, HciAttachAssumption DEF IInv, Types, Ignore
<1>3. Types' /\ Discipline'
  BY <1>1, <1>2, CallTypes, SMT DEF IInv, Types, chip, setting, Speeds, Ignore
<1> QED BY <1>2, <1>3 DEF IInv, Running, Undisturbed

LEMMA WriteStep == ASSUME IInv, Write PROVE IInv'
<1>1. /\ pc = "setup" /\ ~asleep /\ at \in 1 .. End0 /\ Call(at)[1] = "write" /\ Arg = Call(at)[2]
      /\ Core \in Nat /\ End0 = 15 + Core /\ at \in Nat
  BY CallsAre DEF Write
<1>2. at \in 7 .. (6 + Core) /\ Call(at) \in Chip
  BY <1>1, Kinds DEF IInv, Types
<1>3. Arg \in Tables
  BY <1>1, <1>2, Heads DEF Chip
<1>4. at # 7
  BY <1>1, Order, Heads DEF IInv, Types
<1>5. Arg \in Messages /\ Arg # "MODIFY_FLAG"
  BY <1>3 DEF Messages, Tables, Tables_R11_5876, Tables_R11_5875, Tables_R10_5870E, IInv, Types, Chips
<1>6. CASE Queue(Arg)
  BY <1>1, <1>2, <1>4, <1>5, <1>6, QueueStep DEF Sends
<1>7. CASE Ignore("write", 1) /\ asleep' = TRUE
  BY <1>1, <1>2, <1>7, IgnoreStep
<1> QED BY <1>6, <1>7 DEF Write

LEMMA WriteCheckedStep == ASSUME IInv, WriteChecked PROVE IInv'
<1>1. /\ pc = "setup" /\ ~asleep /\ at \in 1 .. End0 /\ Call(at)[1] = "write_checked"
      /\ Arg = Call(at)[2] /\ Core \in Nat /\ End0 = 15 + Core /\ at \in Nat
  BY CallsAre DEF WriteChecked
<1>2. \/ at = 7 + Core /\ Arg = "BAUD_RATE"
      \/ at = 8 + Core /\ Arg = "MODIFY_FLAG"
  <2>1. at \in {7 + Core, 8 + Core}
    BY <1>1, Kinds DEF IInv, Types
  <2>2. Call(7 + Core) = Checked("BAUD_RATE") /\ Call(8 + Core) = Checked("MODIFY_FLAG")
    BY Places DEF IInv, Types
  <2> QED BY <1>1, <2>1, <2>2, Heads
<1>3. Arg \in Messages
  BY <1>2 DEF Messages
<1>4. Core >= 12
  BY CoreIs DEF IInv, Types
<1>5. CASE Queue(Arg)
  BY <1>1, <1>2, <1>3, <1>4, <1>5, QueueStep DEF Sends
<1>6. CASE Fail("write")
  BY <1>1, <1>6, FailStep
<1> QED BY <1>5, <1>6 DEF WriteChecked

LEMMA WriteFlowStep == ASSUME IInv, WriteFlow PROVE IInv'
<1>1. /\ pc = "setup" /\ ~asleep /\ at \in 1 .. End0 /\ Call(at)[1] = "write_flow" /\ flow
      /\ Arg = Call(at)[2] /\ Core \in Nat /\ End0 = 15 + Core /\ at \in Nat
  BY CallsAre DEF WriteFlow
<1>2. \/ at = 11 + Core /\ Arg = "FLOW_CTL_1"
      \/ at = 12 + Core /\ Arg = "FLOW_CTL_2"
  <2>1. at \in {11 + Core, 12 + Core}
    BY <1>1, Kinds DEF IInv, Types
  <2>2. Call(11 + Core) = Flow("FLOW_CTL_1") /\ Call(12 + Core) = Flow("FLOW_CTL_2")
    BY Places DEF IInv, Types
  <2> QED BY <1>1, <2>1, <2>2, Heads
<1>3. Arg \in Messages
  BY <1>2 DEF Messages
<1>4. CASE Queue(Arg)
  BY <1>1, <1>2, <1>3, <1>4, QueueStep DEF Sends
<1>5. CASE Ignore("write", IF Arg = "FLOW_CTL_1" THEN 2 ELSE 1) /\ UNCHANGED asleep
  <2>1. asleep' \in BOOLEAN
    BY <1>5 DEF IInv, Types
  <2>2. CASE at = 11 + Core /\ Arg = "FLOW_CTL_1" /\ Ignore("write", 2)
    BY <1>1, <2>1, <2>2, IgnoreStep
  <2>3. CASE at = 12 + Core /\ Arg = "FLOW_CTL_2" /\ Ignore("write", 1)
    BY <1>1, <2>1, <2>3, IgnoreStep
  <2> QED BY <1>2, <1>5, <2>2, <2>3
<1> QED BY <1>4, <1>5 DEF WriteFlow

LEMMA NotAskedStep == ASSUME IInv, NotAsked PROVE IInv'
<1>1. /\ pc = "setup" /\ ~asleep /\ at \in 1 .. End0
      /\ \/ Call(at)[1] = "write_checked" /\ speed = Default
         \/ Call(at)[1] = "write_flow" /\ ~flow
      /\ Core \in Nat /\ End0 = 15 + Core /\ at \in Nat
  BY CallsAre DEF NotAsked
<1>2. \/ at \in {7 + Core, 8 + Core} /\ speed = Default
      \/ at \in {11 + Core, 12 + Core} /\ ~flow
  BY <1>1, Kinds DEF IInv, Types
<1>3. Types' /\ Discipline'
  BY <1>1, <1>2, CallTypes, SMT DEF IInv, Types, chip, setting, Speeds, Return, NotAsked
<1>4. ASSUME Running' PROVE Course'
  <2>1. Running /\ Course
    BY <1>1, <1>4 DEF IInv, Running, Undisturbed, setting, Return, NotAsked
  <2>2. Core' = Core
    BY Fixed DEF setting, Return, NotAsked
  <2>3. output = << >>
    BY <1>1, <2>1 DEF Course, Slept
  <2>4. Rates'
    <3>1. CASE at \in {11 + Core, 12 + Core}
      BY <1>1, <2>1, <3>1, SpeedsStay, SMT DEF chip, setting, Return, NotAsked, IInv, Types
    <3>2. CASE at \in {7 + Core, 8 + Core} /\ speed = Default
      <4>1. /\ Meets' = Meets /\ uart_speed(init_speed)' = uart_speed(init_speed)
            /\ uart_speed(speed)' = uart_speed(speed) /\ Default' = Default
        BY Hears DEF NotAsked, Return, setting, Default
      <4>2. /\ at' = at + 1 /\ output' = << >> /\ hostSpeed' = hostSpeed /\ speed' = speed
            /\ chipSpeed' = chipSpeed /\ newSpeed' = newSpeed
        BY <2>3 DEF NotAsked, Return, chip
      <4> QED BY <1>1, <2>1, <2>2, <2>3, <3>2, <4>1, <4>2 DEF Rates, Course
    <3> QED BY <1>2, <3>1, <3>2
  <2> QED BY <1>1, <2>1, <2>3, <2>4, CallCourse DEF chip, Return, NotAsked
<1> QED BY <1>3, <1>4 DEF IInv
-----------------------------------------------------------------------------
(* The sleeps, the pin, the chip.                                          *)

LEMMA SleepStep == ASSUME IInv, USleep PROVE IInv'
<1>1. CASE Calls("usleep") /\ Return
  <2>1. /\ pc = "setup" /\ ~asleep /\ at \in 1 .. End0 /\ Call(at)[1] = "usleep"
        /\ Core \in Nat /\ End0 = 15 + Core /\ at \in Nat
    BY <1>1, CallsAre
  <2>2. at \in 7 .. (6 + Core)
    BY <2>1, Kinds DEF IInv, Types
  <2>3. Types' /\ Discipline'
    BY <1>1, <2>1, <2>2, CallTypes, SMT DEF IInv, Types, chip, setting, Speeds, Return, USleep
  <2>4. ASSUME Running' PROVE Course'
    <3>1. Running /\ Course
      BY <1>1, <2>1, <2>4 DEF IInv, Running, Undisturbed, setting, Return
    <3>2. Core' = Core
      BY <1>1, Fixed DEF setting, Return
    <3>3. output = << >>
      BY <2>1, <3>1 DEF Course, Slept
    <3>4. Rates'
      BY <1>1, <2>1, <2>2, <3>1, SpeedsStay, SMT DEF chip, setting, Return, USleep, IInv, Types
    <3> QED BY <1>1, <2>1, <3>1, <3>3, <3>4, CallCourse DEF chip, Return, USleep
  <2> QED BY <2>3, <2>4 DEF IInv
<1>2. CASE /\ pc = "setup" /\ asleep /\ asleep' = FALSE
           /\ UNCHANGED <<setting, ignored, pc, code, at, speed, flow, ldisc, canceled, hungUp>>
  <2>1. /\ target' = target /\ timely' = timely /\ ignored' = ignored /\ pc' = pc
        /\ code' = code /\ at' = at /\ init_speed' = init_speed /\ speed' = speed /\ flow' = flow /\ ldisc' = ldisc
        /\ canceled' = canceled /\ hungUp' = hungUp /\ hostSpeed' = hostSpeed
        /\ output' = output /\ powered' = powered /\ chipSpeed' = chipSpeed
        /\ newSpeed' = newSpeed /\ done' = done
    BY <1>2 DEF USleep, setting, chip
  <2>2. /\ init_uart' = init_uart /\ Core' = Core /\ End0' = End0 /\ Messages' = Messages
        /\ Late' = Late
    BY <2>1, Fixed
  <2>3. Types'
    <3>1. asleep' \in BOOLEAN
      BY <1>2
    <3> QED BY <2>1, <2>2, <3>1, SMT DEF IInv, Types
  <2>4. Discipline'
    BY <1>2, <2>1, <2>2, SMT DEF IInv, Discipline
  <2>5. ASSUME Running' PROVE Course'
    <3>1. Running /\ Slept /\ Power /\ Rates /\ Kept /\ Taken /\ RadioFirst
      BY <2>1, <2>5 DEF Running, Undisturbed, IInv, Course
    <3>2. output = << >>
      BY <3>1 DEF USleep, Running, Undisturbed
    <3>3. Slept'
      BY <1>2, <2>1, <3>2 DEF Slept
    <3>4. Power'
      BY <2>1, <2>2, <3>1 DEF Power, Call, Low
    <3>8. /\ Meets' = Meets /\ uart_speed(init_speed)' = uart_speed(init_speed)
          /\ uart_speed(speed)' = uart_speed(speed) /\ \A t : Reaches(t)' = Reaches(t)
      BY <2>1, Hears
    <3>5. Rates'
      BY <2>1, <2>2, <3>1, <3>8, SMT DEF Rates, Default
    <3>6. Kept'
      <4>1. SUFFICES ASSUME NEW j \in 7 .. (at' - 1), NEW t \in Messages', WrittenBy(j, t)', Reaches(t)'
                     PROVE  (t \in ToSet(done) \/ (asleep /\ j = at - 1 /\ output = <<t>>))'
        BY DEF Kept
      <4>2. WrittenBy(j, t)
        BY <2>1, <2>2, <4>1 DEF WrittenBy, Call, Table, Flow, Low
      <4>3. t \in ToSet(done)
        BY <2>1, <2>2, <3>1, <3>2, <3>8, <4>1, <4>2 DEF Kept
      <4> QED BY <2>1, <4>3 DEF ToSet
    <3>9. Taken'
      BY <2>1, <3>1, <3>8 DEF Taken, FlowTables
    <3>7. RadioFirst'
      BY <2>1, <2>2, <3>1 DEF RadioFirst
    <3> QED BY <3>3, <3>4, <3>5, <3>6, <3>7, <3>9 DEF Course
  <2> QED BY <2>3, <2>4, <2>5 DEF IInv
<1> QED BY <1>1, <1>2 DEF USleep

LEMMA GpioStep == ASSUME IInv, GpioInit PROVE IInv'
<1>1. /\ pc = "setup" /\ ~asleep /\ at \in 1 .. End0 /\ Call(at)[1] = "gpio_init"
      /\ Core \in Nat /\ End0 = 15 + Core /\ at \in Nat
  BY CallsAre DEF GpioInit
<1>2. at = 6
  BY <1>1, Kinds DEF IInv, Types
<1>3. CASE Return /\ PowerOff /\ UNCHANGED <<hostSpeed, output>>
  <2>1. chipSpeed' \in Speeds /\ newSpeed' \in Speeds /\ done' \in Seq(Messages)
        /\ chipSpeed' = Default /\ newSpeed' = Default /\ done' = << >> /\ powered' = FALSE
    BY <1>3, SMT DEF PowerOff, Speeds, Supported, Default
  <2>4. powered' \in BOOLEAN
    BY <2>1
  <2>2. Types' /\ Discipline'
    BY <1>1, <1>2, <1>3, <2>1, <2>4, CallTypes, SMT DEF IInv, Types, setting, Speeds, Return
  <2>3. ASSUME Running' PROVE Course'
    <3>1. Running /\ Course
      BY <1>1, <1>3, <2>3 DEF IInv, Running, Undisturbed, setting, Return
    <3>2. Core' = Core /\ at' = 7 /\ ~asleep' /\ output' = << >>
      BY <1>1, <1>2, <1>3, <3>1, Fixed DEF setting, Return, Course, Slept
    <3>3. Slept' /\ Power'
      BY <3>2 DEF Slept, Power
    <3>4. Rates'
      <4>1. uart_speed(init_speed)' = uart_speed(init_speed) /\ Default' = Default
        BY <1>3, Hears DEF Return, setting, Default
      <4>2. hostSpeed' = hostSpeed /\ Core >= 12
        BY <1>3, CoreIs DEF IInv, Types
      <4> QED BY <1>1, <1>2, <2>1, <3>1, <3>2, <4>1, <4>2 DEF Rates, Course
    <3>5. Kept'
      BY <3>2 DEF Kept
    <3>6. RadioFirst' /\ Taken'
      BY <2>1 DEF RadioFirst, Taken
    <3> QED BY <3>3, <3>4, <3>5, <3>6 DEF Course
  <2> QED BY <2>2, <2>3 DEF IInv
<1>4. CASE (\E n \in {1, 1 + Core} : Ignore("gpio", n)) /\ UNCHANGED asleep
  <2>1. asleep' \in BOOLEAN
    BY <1>4 DEF IInv, Types
  <2>2. CASE Ignore("gpio", 1)
    BY <1>1, <1>2, <2>1, <2>2, IgnoreStep
  <2>3. CASE Ignore("gpio", 1 + Core)
    BY <1>1, <1>2, <2>1, <2>3, IgnoreStep
  <2> QED BY <1>4, <2>2, <2>3
<1> QED BY <1>3, <1>4 DEF GpioInit, Core

LEMMA PowerStep ==
  ASSUME IInv, Calls("pin"), Return, UNCHANGED <<hostSpeed, output>>,
         IF Arg = "high" THEN powered' = TRUE /\ UNCHANGED <<done, chipSpeed, newSpeed>>
                         ELSE PowerOff
  PROVE  IInv'
<1>1. /\ pc = "setup" /\ ~asleep /\ at \in 1 .. End0 /\ Call(at)[1] = "pin" /\ Arg = Call(at)[2]
      /\ Core \in Nat /\ End0 = 15 + Core /\ at \in Nat
  BY CallsAre
<1>2. at \in 7 .. (6 + Core) /\ Call(at) \in Chip
  BY <1>1, Kinds DEF IInv, Types
<1>3. \/ Call(at) = High /\ Arg = "high"
      \/ Call(at) = Low /\ Arg # "high"
  <2>1. Call(at) \in {High, Low}
    BY <1>1, <1>2, Heads DEF Chip
  <2>2. High[2] = "high" /\ Low[2] # "high"
    BY DEF High, Low
  <2> QED BY <1>1, <2>1, <2>2
<1>4. Return /\ UNCHANGED <<hostSpeed, output>>
  OBVIOUS
<1>5. \/ /\ Call(at) = High /\ powered' = TRUE
         /\ done' = done /\ chipSpeed' = chipSpeed /\ newSpeed' = newSpeed
      \/ /\ Call(at) = Low /\ powered' = FALSE
         /\ done' = << >> /\ chipSpeed' = Default /\ newSpeed' = Default
  BY <1>3 DEF PowerOff
<1>6. /\ chipSpeed' \in Speeds /\ newSpeed' \in Speeds /\ done' \in Seq(Messages)
      /\ powered' \in BOOLEAN
  <2>1. Default \in Speeds /\ chipSpeed \in Speeds /\ newSpeed \in Speeds
        /\ done \in Seq(Messages)
    BY SMT DEF Default, Speeds, Supported, IInv, Types
  <2>2. << >> \in Seq(Messages)
    OBVIOUS
  <2>3. powered' \in BOOLEAN
    BY <1>5, Zenon
  <2> QED BY <1>5, <2>1, <2>2, <2>3
<1>7. Types' /\ Discipline'
  BY <1>1, <1>2, <1>4, <1>6, CallTypes, SMT DEF IInv, Types, setting, Speeds, Return
<1>8. ASSUME Running' PROVE Course'
  <2>1. Running /\ Slept /\ Power /\ Rates /\ Kept /\ Taken /\ RadioFirst
    BY <1>1, <1>4, <1>8 DEF IInv, Running, Undisturbed, setting, Return, Course
  <2>2. init_uart' = init_uart /\ Core' = Core /\ Messages' = Messages /\ Late' = Late
    BY <1>4, Fixed DEF setting, Return
  <2>3. output = << >> /\ output' = << >> /\ ~asleep' /\ at' = at + 1
        /\ hostSpeed' = hostSpeed /\ speed' = speed /\ flow' = flow
    BY <1>1, <1>4, <2>1 DEF Slept, Return
  <2>4. Slept'
    BY <2>3 DEF Slept
  <2>5. Power'
    <3>1. at' - 1 = at
      BY <1>1, <2>3
    <3> QED BY <1>5, <2>2, <3>1 DEF Power, Call, Low
  <2>9. /\ Meets' = Meets /\ uart_speed(init_speed)' = uart_speed(init_speed)
        /\ \A x : Reaches(x)' = Reaches(x)
    BY <1>4, Hears DEF Return, setting
  <2>6. Rates'
    <3>1. chipSpeed = Default /\ newSpeed = Default /\ hostSpeed = uart_speed(init_speed)
      BY <1>1, <1>2, <2>1 DEF Rates
    <3>2. chipSpeed' = Default /\ newSpeed' = Default /\ hostSpeed' = uart_speed(init_speed)
      BY <1>5, <2>3, <3>1
    <3>3. Default' = Default
      BY DEF Default
    <3>4. at' \in 8 .. 7 + Core
      BY <1>1, <1>2, <2>3
    <3> QED BY <1>1, <2>2, <2>9, <3>2, <3>3, <3>4 DEF Rates
  <2>7. Kept'
    <3>1. SUFFICES ASSUME NEW j \in 7 .. (at' - 1), NEW t \in Messages', WrittenBy(j, t)', Reaches(t)'
                   PROVE  (t \in ToSet(done) \/ (asleep /\ j = at - 1 /\ output = <<t>>))'
      BY DEF Kept
    <3>2. /\ Call(j) = Table(t) \/ (flow /\ Call(j) = Flow(t))
          /\ \A i \in (j + 1) .. at : Call(i) # Low
      BY <1>1, <2>2, <2>3, <3>1 DEF WrittenBy, Call, Table, Flow, Low
    <3>3. j # at
      BY <1>3, <3>2, Heads
    <3>4. j \in 7 .. (at - 1) /\ Call(at) # Low
      BY <1>1, <2>3, <3>1, <3>2, <3>3
    <3>5. WrittenBy(j, t)
      BY <1>1, <3>2, <3>4 DEF WrittenBy
    <3>6. t \in ToSet(done)
      BY <1>1, <2>1, <2>2, <2>9, <3>1, <3>4, <3>5 DEF Kept
    <3>7. done' = done
      BY <1>5, <3>4
    <3> QED BY <3>6, <3>7 DEF ToSet
  <2>8. RadioFirst'
    <3>1. CASE done' = done
      BY <2>1, <2>2, <3>1 DEF RadioFirst
    <3>2. CASE done' = << >>
      BY <3>2 DEF RadioFirst
    <3> QED BY <1>5, <3>1, <3>2
  <2>10. Taken'
    <3>1. CASE done' = done
      BY <2>1, <2>3, <2>9, <3>1 DEF Taken, FlowTables
    <3>2. CASE done' = << >>
      BY <3>2 DEF Taken
    <3> QED BY <1>5, <3>1, <3>2
  <2> QED BY <2>4, <2>5, <2>6, <2>7, <2>8, <2>10 DEF Course
<1> QED BY <1>7, <1>8 DEF IInv

LEMMA PinStep == ASSUME IInv, SetPin PROVE IInv'
<1>1. CASE Ignore("gpio", 1) /\ UNCHANGED asleep
  <2>1. /\ pc = "setup" /\ ~asleep /\ at \in 1 .. End0 /\ Call(at)[1] = "pin"
        /\ Core \in Nat /\ at \in Nat
    BY CallsAre DEF SetPin
  <2>2. at \in 7 .. (6 + Core)
    BY <2>1, Kinds DEF IInv, Types
  <2>3. asleep' \in BOOLEAN
    BY <1>1 DEF IInv, Types
  <2> QED BY <1>1, <2>1, <2>2, <2>3, IgnoreStep
<1> QED BY <1>1, PowerStep DEF SetPin

\* Where a message is queued, undisturbed, the chip has power to take it, and
\* hears it if it is one that reaches it.
LEMMA Heard ==
  ASSUME IInv, Running, output # << >>
  PROVE  /\ asleep /\ at \in 9 .. End0 + 1 /\ Sends(Call(at - 1)) /\ output = <<Call(at - 1)[2]>>
         /\ powered /\ (at > 11 + Core => flow)
         /\ at <= 9 + Core => (hostSpeed = chipSpeed <=> Meets)
         /\ at > 11 + Core => (hostSpeed = chipSpeed <=> Agree)
         /\ at - 1 \in 8 .. (8 + Core) \/ at - 1 \in {11 + Core, 12 + Core}
         /\ at <= 7 + Core => Call(at - 1)[2] \in Tables /\ Call(at - 1) = Table(Call(at - 1)[2])
         /\ at = 8 + Core => Call(at - 1)[2] = "BAUD_RATE"
         /\ at = 9 + Core => Call(at - 1)[2] = "MODIFY_FLAG"
         /\ at = 12 + Core => Call(at - 1)[2] = "FLOW_CTL_1"
         /\ at = 13 + Core => Call(at - 1)[2] = "FLOW_CTL_2"
<1>1. Types /\ Slept /\ Power /\ Rates /\ Core \in Nat /\ End0 = 15 + Core /\ target \in Chips
  BY CoreIs DEF IInv, Types, Course, End0
<1>2. /\ asleep /\ at \in 9 .. End0 + 1 /\ Sends(Call(at - 1)) /\ output = <<Call(at - 1)[2]>>
      /\ at - 1 \in 1 .. End0 /\ (at > 11 + Core => flow)
  BY <1>1 DEF Slept, Types
<1>3. Call(at - 1) # Low
  BY <1>2, Heads DEF Sends
<1>4. powered
  BY <1>1, <1>2, <1>3 DEF Power
<1>5. \/ at - 1 \in 8 .. (6 + Core) /\ Call(at - 1)[1] = "write" /\ Call(at - 1) \in Chip
      \/ at - 1 = 7 + Core \/ at - 1 = 8 + Core \/ at - 1 = 11 + Core \/ at - 1 = 12 + Core
  BY <1>1, <1>2, Kinds DEF Sends
<1>6. at <= 7 + Core => Call(at - 1)[2] \in Tables /\ Call(at - 1) = Table(Call(at - 1)[2])
  <2>1. ASSUME at <= 7 + Core PROVE Call(at - 1)[1] = "write" /\ Call(at - 1) \in Chip
    BY <1>1, <1>2, <1>5, <2>1
  <2> QED BY <2>1, Heads DEF Chip
<1>7. /\ at = 8 + Core => Call(at - 1)[2] = "BAUD_RATE"
      /\ at = 9 + Core => Call(at - 1)[2] = "MODIFY_FLAG"
      /\ at = 12 + Core => Call(at - 1)[2] = "FLOW_CTL_1"
      /\ at = 13 + Core => Call(at - 1)[2] = "FLOW_CTL_2"
  <2>1. /\ Call(7 + Core)[2] = "BAUD_RATE" /\ Call(8 + Core)[2] = "MODIFY_FLAG"
        /\ Call(11 + Core)[2] = "FLOW_CTL_1" /\ Call(12 + Core)[2] = "FLOW_CTL_2"
    BY <1>1, Places, Heads
  <2>2. /\ at = 8 + Core => at - 1 = 7 + Core
        /\ at = 9 + Core => at - 1 = 8 + Core
        /\ at = 12 + Core => at - 1 = 11 + Core
        /\ at = 13 + Core => at - 1 = 12 + Core
    BY <1>1, <1>2
  <2> QED BY <2>1, <2>2
<1>8. ASSUME at <= 9 + Core PROVE hostSpeed = chipSpeed <=> Meets
  <2>1. hostSpeed = uart_speed(init_speed)
    BY <1>1, <1>2, <1>8 DEF Rates
  <2>2. chipSpeed = Default
    <3>1. CASE at <= 8 + Core \/ ~Meets
      BY <1>1, <3>1 DEF Rates
    <3>2. CASE at = 9 + Core /\ Meets
      <4>1. output = <<"MODIFY_FLAG">>
        BY <1>2, <1>7, <3>2
      <4> QED BY <1>1, <3>2, <4>1 DEF Rates
    <3> QED BY <1>1, <1>2, <1>8, <3>1, <3>2
  <2> QED BY <2>1, <2>2 DEF Meets
<1>9. ASSUME at > 11 + Core PROVE hostSpeed = chipSpeed <=> Agree
  <2>1. at \in {12 + Core, 13 + Core}
    BY <1>1, <1>2, <1>5, <1>9
  <2>2. output # <<"MODIFY_FLAG">>
    BY <1>2, <1>7, <2>1
  <2>3. hostSpeed = uart_speed(speed) /\ chipSpeed = IF Meets THEN speed ELSE Default
    BY <1>1, <2>1, <2>2 DEF Rates
  <2> QED BY <2>3 DEF Agree
<1> QED BY <1>1, <1>2, <1>4, <1>5, <1>6, <1>7, <1>8, <1>9

LEMMA TakenTypes == ASSUME IInv, ChipTakes PROVE Types' /\ Discipline'
<1>1. /\ target' = target /\ timely' = timely /\ ignored' = ignored /\ pc' = pc
      /\ code' = code /\ at' = at /\ asleep' = asleep /\ init_speed' = init_speed
      /\ speed' = speed /\ flow' = flow /\ ldisc' = ldisc /\ canceled' = canceled /\ hungUp' = hungUp /\ hostSpeed' = hostSpeed
      /\ powered' = powered
  BY DEF ChipTakes, program, setting
<1>2. Core' = Core /\ End0' = End0 /\ Messages' = Messages
  BY <1>1, Fixed
<1>3. /\ Head(output) \in Messages /\ Tail(output) \in Seq(Messages)
      /\ Len(Tail(output)) <= QueueCap
  <2>1. output \in Seq(Messages) /\ Len(output) <= QueueCap /\ output # << >>
    BY DEF IInv, Types, ChipTakes
  <2>2. Len(Tail(output)) = Len(output) - 1
    BY <2>1, HeadTailProperties
  <2> QED BY <2>1, <2>2, HeadTailProperties, HciAttachAssumption
<1>4. /\ output' = Tail(output)
      /\ done' = done \/ done' = Append(done, Head(output))
      /\ newSpeed' = newSpeed \/ newSpeed' = speed
      /\ chipSpeed' = chipSpeed \/ chipSpeed' = newSpeed
  BY DEF ChipTakes
<1>5. done' \in Seq(Messages)
  BY SMTT(30), <1>3, <1>4, AppendProperties DEF IInv, Types
<1>6. newSpeed' \in Speeds /\ chipSpeed' \in Speeds
  <2>1. speed \in Speeds /\ newSpeed \in Speeds /\ chipSpeed \in Speeds
    BY SMT DEF IInv, Types, Speeds, Supported
  <2> QED BY <1>4, <2>1
<1>7. Types'
  BY <1>1, <1>2, <1>3, <1>4, <1>5, <1>6, SMT DEF IInv, Types, Speeds
<1>8. Discipline'
  <2>1. pc # "options"
    BY DEF IInv, Discipline, ChipTakes
  <2> QED BY <1>1, <1>2, <2>1, SMT DEF IInv, Discipline
<1> QED BY <1>7, <1>8

LEMMA TakenStep == ASSUME IInv, ChipTakes PROVE IInv'
<1>1. Types' /\ Discipline'
  BY TakenTypes
<1>2. ASSUME Running' PROVE Course'
  <2>1. /\ target' = target /\ at' = at /\ asleep' = asleep /\ flow' = flow
        /\ init_speed' = init_speed /\ speed' = speed
        /\ hostSpeed' = hostSpeed /\ powered' = powered /\ output' = Tail(output)
        /\ output # << >> /\ timely' = timely /\ ignored' = ignored /\ pc' = pc
    BY DEF ChipTakes, program, setting
  <2>2. /\ init_uart' = init_uart /\ Core' = Core /\ Messages' = Messages /\ Late' = Late
    BY <2>1, Fixed
  <2>3. Running /\ Types /\ Slept /\ Power /\ Rates /\ Kept /\ Taken /\ RadioFirst
    BY <1>2, <2>1 DEF Running, Undisturbed, IInv, Course
  <2> DEFINE m == Call(at - 1)[2]
  <2>4. /\ asleep /\ at \in 9 .. End0 + 1 /\ Sends(Call(at - 1)) /\ output = <<m>>
        /\ powered /\ (at > 11 + Core => flow)
        /\ at <= 9 + Core => (hostSpeed = chipSpeed <=> Meets)
        /\ at > 11 + Core => (hostSpeed = chipSpeed <=> Agree)
        /\ at - 1 \in 8 .. (8 + Core) \/ at - 1 \in {11 + Core, 12 + Core}
        /\ at <= 7 + Core => m \in Tables /\ Call(at - 1) = Table(m)
        /\ at = 8 + Core => m = "BAUD_RATE"
        /\ at = 9 + Core => m = "MODIFY_FLAG"
        /\ at = 12 + Core => m = "FLOW_CTL_1"
        /\ at = 13 + Core => m = "FLOW_CTL_2"
    BY <2>1, <2>3, Heard
  <2> HIDE DEF m
  <2>5. output' = << >> /\ Head(output) = m
    BY <2>1, <2>4
  <2>7. Core \in Nat /\ End0 = 15 + Core /\ target \in Chips /\ at \in Nat
    BY <2>3, CoreIs DEF Types, End0
  <2>8. Tables \cap {"BAUD_RATE", "MODIFY_FLAG", "FLOW_CTL_1", "FLOW_CTL_2"} = {}
    BY <2>7 DEF Tables, Tables_R11_5876, Tables_R11_5875, Tables_R10_5870E, Chips
  <2>16. /\ Meets' = Meets /\ uart_speed(init_speed)' = uart_speed(init_speed)
         /\ uart_speed(speed)' = uart_speed(speed) /\ \A x : Reaches(x)' = Reaches(x)
    BY <2>1, Hears
  <2>17. Reaches(m) <=> hostSpeed = chipSpeed
    <3>1. CASE at <= 9 + Core
      <4>1. m \notin FlowTables
        BY <2>4, <2>7, <2>8, <3>1 DEF FlowTables
      <4> QED BY <2>4, <3>1, <4>1 DEF Reaches
    <3>2. CASE at \in {12 + Core, 13 + Core}
      <4>1. m \in FlowTables
        BY <2>4, <3>2 DEF FlowTables
      <4> QED BY <2>4, <2>7, <3>2, <4>1 DEF Reaches
    <3> QED BY <2>4, <2>7, <3>1, <3>2
  <2>9. Slept'
    BY <2>1, <2>2, <2>4, <2>5, <2>7 DEF Slept, Sends, Call
  <2>10. Power'
    BY <2>1, <2>4 DEF Power
  <2>11. CASE hostSpeed = chipSpeed
    <3>1. /\ done' = Append(done, m)
          /\ newSpeed' = IF m = "BAUD_RATE" THEN speed ELSE newSpeed
          /\ chipSpeed' = IF m = "MODIFY_FLAG" THEN newSpeed ELSE chipSpeed
      BY <2>4, <2>5, <2>11 DEF ChipTakes
    <3>2. Rates'
      <4>1. CASE at <= 7 + Core
        <5>1. /\ newSpeed' = Default /\ chipSpeed' = Default
              /\ hostSpeed' = uart_speed(init_speed)
          BY <2>1, <2>3, <2>4, <2>7, <2>8, <3>1, <4>1 DEF Rates
        <5> QED BY <2>1, <2>2, <2>4, <2>7, <2>16, <4>1, <5>1, SMT DEF Rates, Default
      <4>2. CASE at = 8 + Core
        <5>1. /\ newSpeed' = speed /\ chipSpeed' = Default
              /\ hostSpeed' = uart_speed(init_speed) /\ Meets
          BY <2>1, <2>3, <2>4, <2>7, <2>11, <3>1, <4>2 DEF Rates
        <5> QED BY <2>1, <2>2, <2>4, <2>7, <2>16, <4>2, <5>1, SMT DEF Rates, Default
      <4>3. CASE at = 9 + Core
        <5>1. /\ newSpeed' = speed /\ chipSpeed' = speed
              /\ hostSpeed' = uart_speed(init_speed) /\ Meets
          BY <2>1, <2>3, <2>4, <2>7, <2>11, <3>1, <4>3 DEF Rates
        <5> QED BY <2>1, <2>2, <2>4, <2>5, <2>7, <2>16, <4>3, <5>1, SMT DEF Rates, Default
      <4>4. CASE at \in {12 + Core, 13 + Core}
        <5>1. m # "BAUD_RATE" /\ m # "MODIFY_FLAG" /\ output # <<"MODIFY_FLAG">>
          BY <2>4, <4>4
        <5>2. newSpeed' = newSpeed /\ chipSpeed' = chipSpeed
          BY <3>1, <5>1
        <5> QED BY <2>1, <2>2, <2>3, <2>5, <2>7, <2>16, <4>4, <5>1, <5>2, SMT DEF Rates, Default
      <4> QED BY <2>4, <2>7, <4>1, <4>2, <4>3, <4>4
    <3>3. /\ DOMAIN done = 1 .. Len(done) /\ DOMAIN done' = 1 .. Len(done) + 1 /\ Len(done) \in Nat
          /\ \A i \in 1 .. Len(done) : done'[i] = done[i]
          /\ done'[Len(done) + 1] = m
      BY <2>3, <3>1 DEF Types
    <3>4. /\ \A t \in ToSet(done) : t \in ToSet(done')
          /\ m \in ToSet(done')
      BY <3>3 DEF ToSet
    <3>5. Kept'
      <4>1. SUFFICES ASSUME NEW j \in 7 .. (at' - 1), NEW t \in Messages', WrittenBy(j, t)', Reaches(t)'
                     PROVE  (t \in ToSet(done) \/ (asleep /\ j = at - 1 /\ output = <<t>>))'
        BY DEF Kept
      <4>2. WrittenBy(j, t) /\ Reaches(t)
        BY <2>1, <2>2, <2>16, <4>1 DEF WrittenBy, Call, Table, Flow, Low
      <4>3. t \in ToSet(done) \/ output = <<t>>
        BY <2>1, <2>2, <2>3, <4>1, <4>2 DEF Kept
      <4>4. t \in ToSet(done) \/ t = m
        BY <2>4, <4>3
      <4> QED BY <3>4, <4>4 DEF ToSet
    <3>6. RadioFirst'
      <4>1. CASE \E i \in DOMAIN done : done[i] = "RF_INIT" /\ \A j \in 1 .. (i - 1) : done[j] \notin Late
        <5>1. PICK i \in 1 .. Len(done) : done[i] = "RF_INIT" /\ \A j \in 1 .. (i - 1) : done[j] \notin Late
          BY <3>3, <4>1
        <5>2. i \in DOMAIN done' /\ done'[i] = "RF_INIT" /\ \A j \in 1 .. (i - 1) : done'[j] \notin Late
          BY <3>3, <5>1
        <5> QED BY <2>2, <5>2 DEF RadioFirst
      <4>2. CASE \A j \in DOMAIN done : done[j] \notin Late
        <5>1. CASE m \notin Late
          BY <2>2, <3>3, <4>2, <5>1 DEF RadioFirst
        <5>2. CASE m = "RF_INIT"
          <6>1. /\ Len(done) + 1 \in DOMAIN done' /\ done'[Len(done) + 1] = "RF_INIT"
                /\ \A j \in 1 .. (Len(done) + 1 - 1) : done'[j] \notin Late
            BY <3>3, <4>2, <5>2
          <6> QED BY <2>2, <6>1 DEF RadioFirst
        <5>3. CASE m \in Late \ {"RF_INIT"}
          <6>1. at - 1 \in 1 .. End0 /\ Call(at - 1) = Table(m)
            BY <2>4, <2>7, <2>8, <5>3 DEF Late
          <6>2. PICK j \in 7 .. (at - 1 - 1) : /\ Call(j) = Table("RF_INIT")
                                             /\ \A i \in (j + 1) .. (at - 1 - 1) : Call(i) # Low
            BY <2>7, <5>3, <6>1, Order
          <6>3. WrittenBy(j, "RF_INIT") /\ j \in 7 .. (at - 1) /\ j # at - 1
            <7>1. Table(m) # Low
              BY Distinct
            <7> QED BY <2>7, <6>1, <6>2, <7>1 DEF WrittenBy
          <6>4. "RF_INIT" \in Messages /\ "RF_INIT" \in Late
            BY <2>7 DEF Messages, Late, Tables, Tables_R11_5876, Tables_R11_5875, Tables_R10_5870E, Chips
          <6>5. Reaches("RF_INIT")
            <7>1. m \notin FlowTables
              BY <2>8, <5>3 DEF FlowTables, Late
            <7> QED BY <2>11, <2>17, <7>1 DEF Reaches, FlowTables
          <6>6. "RF_INIT" \in ToSet(done)
            BY <2>3, <6>3, <6>4, <6>5 DEF Kept
          <6> QED BY <4>2, <6>4, <6>6 DEF ToSet
        <5> QED BY <5>1, <5>2, <5>3
      <4> QED BY <2>3, <4>1, <4>2 DEF RadioFirst
    <3>7. Taken'
      <4>1. Reaches(m) /\ (m \in FlowTables => flow)
        <5>1. m \in FlowTables => at > 11 + Core
          BY <2>4, <2>7, <2>8 DEF FlowTables
        <5> QED BY <2>4, <2>11, <2>17, <5>1
      <4>2. SUFFICES ASSUME NEW i \in DOMAIN done'
                     PROVE  Reaches(done'[i]) /\ (done'[i] \in FlowTables => flow)
        BY <2>1, <2>16 DEF Taken, FlowTables
      <4>3. CASE i = Len(done) + 1
        BY <3>3, <4>1, <4>3
      <4>4. CASE i # Len(done) + 1
        <5>1. i \in DOMAIN done /\ done'[i] = done[i]
          BY <3>3, <4>4
        <5> QED BY <2>3, <5>1 DEF Taken
      <4> QED BY <4>3, <4>4
    <3> QED BY <2>9, <2>10, <3>2, <3>5, <3>6, <3>7 DEF Course
  <2>12. CASE hostSpeed # chipSpeed
    <3>1. done' = done /\ newSpeed' = newSpeed /\ chipSpeed' = chipSpeed
      BY <2>12 DEF ChipTakes
    <3>2. Rates'
      <4>1. at \in {8 + Core, 9 + Core} => ~Meets
        BY <2>4, <2>7, <2>12
      <4>2. at \in {12 + Core, 13 + Core} => output # <<"MODIFY_FLAG">>
        BY <2>4
      <4>3. at <= 7 + Core \/ at \in {8 + Core, 9 + Core} \/ at \in {12 + Core, 13 + Core}
        BY <2>4, <2>7
      <4> QED BY <2>1, <2>2, <2>3, <2>5, <2>7, <2>16, <3>1, <4>1, <4>2, <4>3, SMT DEF Rates, Default
    <3>3. Kept'
      <4>1. SUFFICES ASSUME NEW j \in 7 .. (at' - 1), NEW t \in Messages', WrittenBy(j, t)', Reaches(t)'
                     PROVE  (t \in ToSet(done) \/ (asleep /\ j = at - 1 /\ output = <<t>>))'
        BY DEF Kept
      <4>2. WrittenBy(j, t) /\ Reaches(t)
        BY <2>1, <2>2, <2>16, <4>1 DEF WrittenBy, Call, Table, Flow, Low
      <4>3. t \in ToSet(done) \/ output = <<t>>
        BY <2>1, <2>2, <2>3, <4>1, <4>2 DEF Kept
      <4>4. output # <<t>>
        BY <2>4, <2>12, <2>17, <4>2
      <4> QED BY <3>1, <4>3, <4>4 DEF ToSet
    <3>4. Taken' /\ RadioFirst'
      BY <2>1, <2>2, <2>3, <2>16, <3>1 DEF Taken, FlowTables, RadioFirst
    <3> QED BY <2>9, <2>10, <3>2, <3>3, <3>4 DEF Course
  <2> QED BY <2>11, <2>12
<1> QED BY <1>1, <1>2 DEF IInv
-----------------------------------------------------------------------------
(* The theorems.                                                           *)

LEMMA OptionsStep == ASSUME IInv, ParseOptions PROVE IInv'
<1>1. CASE \E c \in {0, 1} : End(c) /\ UNCHANGED <<init_speed, speed, flow>>
  BY <1>1, Passing, SMT DEF ParseOptions, End, course, setting, IInv, Types
<1>2. CASE /\ init_speed' \in InitSpeedArgs \cup {Default} /\ speed' \in SpeedArgs \cup {921600} /\ flow' \in BOOLEAN
           /\ pc' = "setup" /\ UNCHANGED <<code, ldisc>>
  <2>1. /\ target' = target /\ timely' = timely /\ ignored' = ignored /\ at' = at
        /\ asleep' = asleep /\ canceled' = canceled /\ hungUp' = hungUp /\ hostSpeed' = hostSpeed
        /\ output' = output /\ powered' = powered /\ chipSpeed' = chipSpeed
        /\ newSpeed' = newSpeed /\ done' = done /\ pc = "options" /\ pc' = "setup"
        /\ code' = code /\ ldisc' = ldisc
    BY <1>2 DEF ParseOptions, chip
  <2>2. Core' = Core /\ End0' = End0 /\ Messages' = Messages /\ Core \in Nat
    BY <2>1, Fixed, CoreIs DEF IInv, Types
  <2>3. at = 1 /\ ~asleep /\ output = << >> /\ done = << >> /\ ldisc = "tty"
        /\ chipSpeed = Default /\ newSpeed = Default
    BY <2>1 DEF IInv, Discipline
  <2>4. Types'
    BY <1>2, <2>1, <2>2, SMT DEF IInv, Types
  <2>5. Discipline'
    BY <2>1, <2>2, <2>3, SMT DEF Discipline
  <2>6. Slept' /\ Power' /\ Kept' /\ Taken' /\ RadioFirst'
    BY <2>1, <2>3 DEF Slept, Power, Kept, Taken, RadioFirst
  <2>7. Rates'
    BY <2>1, <2>2, <2>3, SMT DEF Rates, Default
  <2> QED BY <2>4, <2>5, <2>6, <2>7 DEF IInv, Course
<1> QED BY <1>1, <1>2 DEF ParseOptions

LEMMA LoopStepStep == ASSUME IInv, LoopStep PROVE IInv'
<1>1. pc \in {"check", "poll", "blocked", "restore"} /\ UNCHANGED course
  BY DEF LoopStep, CheckCanceled, PollBlocks, PollReturns, RestoreTty, Go, course
<1>2. at = End0 + 1 /\ ~asleep /\ canceled \in BOOLEAN /\ hungUp \in BOOLEAN /\ code \in {0, 1}
  BY <1>1, SMT DEF IInv, Discipline, Types
<1>3. canceled' = canceled /\ hungUp' = hungUp
  BY DEF LoopStep, CheckCanceled, PollBlocks, PollReturns, RestoreTty, Go
<1>4. \/ pc' \in {"check", "poll", "blocked", "restore"} /\ ldisc' = ldisc /\ code' = code
      \/ pc' = "ended" /\ ldisc' = "tty" /\ code' \in {0, 1}
  BY DEF LoopStep, CheckCanceled, PollBlocks, PollReturns, RestoreTty, Go, End
<1> QED BY <1>1, <1>2, <1>3, <1>4, Passing

LEMMA SignalStep ==
  ASSUME IInv, sig_alarm \/ sig_term \/ sig_hup \/ SetupDone \/ HangUp \/ UNCHANGED vars
  PROVE  IInv'
<1>1. UNCHANGED course
  BY DEF sig_alarm, sig_term, sig_hup, SetupDone, HangUp, Go, course, vars, program
<1>2. canceled \in BOOLEAN /\ hungUp \in BOOLEAN /\ code \in {0, 1} /\ at \in 1 .. End0 + 1
      /\ End0 \in Nat /\ Len(init_uart) = End0
      /\ (pc \in {"check", "poll", "blocked", "restore"} => at = End0 + 1 /\ ~asleep)
      /\ pc \in {"options", "setup", "check", "poll", "blocked", "restore", "ended"}
      /\ (pc = "ended" => ldisc = "tty")
  <2>1. target \in Chips
    BY DEF IInv, Types
  <2>2. End0 \in Nat /\ Len(init_uart) = End0
    BY <2>1, Places, CoreIs DEF End0
  <2> QED BY <2>2, SMT DEF IInv, Types, Discipline
<1>3. CASE sig_alarm
  BY <1>1, <1>2, <1>3, Passing DEF sig_alarm, End
<1>4. CASE sig_term
  <2>1. canceled' \in BOOLEAN /\ hungUp' = hungUp
    BY <1>2, <1>4 DEF sig_term
  <2>2. CASE pc = "setup"
    BY <1>1, <1>2, <1>4, <2>1, <2>2, Passing DEF sig_term, End
  <2>3. CASE pc # "setup"
    BY <1>1, <1>2, <1>4, <2>1, <2>3, Passing DEF sig_term
  <2> QED BY <2>2, <2>3
<1>5. CASE sig_hup
  BY <1>1, <1>2, <1>5, Passing DEF sig_hup, Go
<1>6. CASE SetupDone
  <2>1. at = End0 + 1
    BY <1>2, <1>6 DEF SetupDone
  <2> QED BY <1>1, <1>2, <1>6, <2>1, Passing DEF SetupDone
<1>7. CASE HangUp
  <2>1. hungUp' \in BOOLEAN
    BY <1>7 DEF HangUp
  <2> QED BY <1>1, <1>2, <1>7, <2>1, Passing DEF HangUp, program
<1>8. CASE UNCHANGED vars
  BY <1>1, <1>2, <1>8, Passing DEF vars, program
<1> QED BY <1>3, <1>4, <1>5, <1>6, <1>7, <1>8

LEMMA StepInv == ASSUME IInv, [Next]_vars PROVE IInv'
<1>1. CASE SetupCall
  BY <1>1, TryStep, SetSpeedStep, FlushStep, SleepStep, GpioStep, PinStep, WriteStep,
     WriteCheckedStep, WriteFlowStep, NotAskedStep, FlagsStep DEF SetupCall
<1> QED BY <1>1, OptionsStep, LoopStepStep, SignalStep, TakenStep DEF Next

(* In every state the place of main, and during an undisturbed setup what  *)
(* the chip has been told and has taken, is that of the next call.         *)
THEOREM Invariant == Spec => []IInv
<1> QED BY InitInv, StepInv, PTL DEF Spec

(***************************************************************************)
(* Every variable has its type, for all speeds, queues and failures; the   *)
(* line discipline is set while main's loop serves the UART and is gone    *)
(* when the program has ended, whichever failure, signal or hangup ended   *)
(* it.                                                                     *)
(***************************************************************************)
THEOREM AttachTyped == Spec => []TypeOK
<1>1. IInv => TypeOK
  <2> SUFFICES ASSUME IInv PROVE TypeOK
    OBVIOUS
  <2>1. Core \in Nat /\ End0 = 15 + Core
    BY CoreIs DEF IInv, Types, End0
  <2>2. (Serving => ldisc = "hci") /\ (pc = "ended" => ldisc = "tty")
    BY <2>1, SMT DEF IInv, Discipline, Serving
  <2> QED BY <2>2, SMT DEF IInv, Types, TypeOK
<1> QED BY <1>1, Invariant, PTL

LEMMA Served ==
  ASSUME IInv, Serving, Undisturbed
  PROVE  /\ Core \in Nat /\ End0 = 15 + Core /\ target \in Chips /\ at = End0 + 1 /\ ~asleep
         /\ Kept /\ Taken /\ RadioFirst /\ output = << >>
         /\ hostSpeed = chipSpeed <=> Agree
<1>1. Core \in Nat /\ End0 = 15 + Core /\ target \in Chips
  BY CoreIs DEF IInv, Types, End0
<1>2. Running /\ at = End0 + 1 /\ ~asleep
  BY DEF Serving, Running, IInv, Discipline
<1>3. Slept /\ Rates /\ Kept /\ Taken /\ RadioFirst
  BY <1>2 DEF IInv, Course
<1>4. output = << >>
  BY <1>2, <1>3 DEF Slept
<1>5. hostSpeed = uart_speed(speed) /\ chipSpeed = IF Meets THEN speed ELSE Default
  BY <1>1, <1>2, <1>3, <1>4 DEF Rates
<1> QED BY <1>1, <1>2, <1>3, <1>4, <1>5 DEF Agree

(***************************************************************************)
(* While the UART is served, if nothing failed unnoticed and the sleeps    *)
(* were long enough, the chip and the host use the same speed exactly when *)
(* the command line allows it.  With the initial speed the chip starts     *)
(* with and a speed uart_speed knows they do; with -s at another speed     *)
(* only if the speed is the chip's own, 115200, because it hears nothing   *)
(* of a change.                                                            *)
(***************************************************************************)
THEOREM AttachSpeeds == Spec => []SpeedsAgree
<1>1. IInv => SpeedsAgree
  BY Served DEF SpeedsAgree
<1> QED BY <1>1, Invariant, PTL

(***************************************************************************)
(* Under the same two conditions nothing is then left in the queue, and    *)
(* each of the three chips has taken, since it last got power, every table *)
(* of its initialisation, the radio's first, if the initial speed is the   *)
(* one it starts with; with -s at another speed none of them.  Flow        *)
(* control, where asked for, it has taken exactly if the speeds agree.     *)
(***************************************************************************)
THEOREM AttachConfigured == Spec => []ConfiguredOnAttach
<1>1. IInv => ConfiguredOnAttach
  <2> SUFFICES ASSUME IInv, Serving, Undisturbed
               PROVE  /\ output = << >>
                      /\ Meets => Tables \subseteq ToSet(done)
                      /\ Meets => \E i \in DOMAIN done :
                           /\ done[i] = "RF_INIT"
                           /\ \A j \in 1 .. (i - 1) : done[j] \notin Tables \ {"ENABLE_SPI"}
                      /\ ~Meets => Tables \cap ToSet(done) = {}
                      /\ \A t \in {"FLOW_CTL_1", "FLOW_CTL_2"} :
                           t \in ToSet(done) <=> flow /\ hostSpeed = chipSpeed
    BY Zenon DEF ConfiguredOnAttach
  <2>1. /\ Core \in Nat /\ End0 = 15 + Core /\ target \in Chips /\ at = End0 + 1 /\ ~asleep
        /\ Kept /\ Taken /\ RadioFirst /\ output = << >>
        /\ hostSpeed = chipSpeed <=> Agree
    BY Served
  <2>2. Tables \cap FlowTables = {} /\ "RF_INIT" \in Tables
    BY <2>1 DEF Tables, Tables_R11_5876, Tables_R11_5875, Tables_R10_5870E, Chips, FlowTables
  <2>3. ASSUME Meets, NEW t \in Tables PROVE t \in ToSet(done)
    <3>1. PICK j \in 7 .. (6 + Core) : Call(j) = Table(t) /\ \A i \in (j + 1) .. End0 : Call(i) # Low
      BY <2>1, Order
    <3>2. WrittenBy(j, t) /\ j \in 7 .. (at - 1)
      BY <2>1, <3>1 DEF WrittenBy
    <3>3. Reaches(t)
      BY <2>2, <2>3 DEF Reaches
    <3> QED BY <2>1, <3>2, <3>3 DEF Kept, Messages
  <2>4. ASSUME Meets
        PROVE  \E i \in DOMAIN done : /\ done[i] = "RF_INIT"
                                      /\ \A j \in 1 .. (i - 1) : done[j] \notin Tables \ {"ENABLE_SPI"}
    <3>1. "RF_INIT" \in ToSet(done) /\ "RF_INIT" \in Late
      BY <2>2, <2>3, <2>4 DEF Late
    <3> QED BY <2>1, <3>1 DEF RadioFirst, ToSet, Late
  <2>5. ASSUME ~Meets PROVE Tables \cap ToSet(done) = {}
    <3>1. ASSUME NEW i \in DOMAIN done PROVE done[i] \notin Tables
      BY <2>1, <2>2, <2>5 DEF Taken, Reaches
    <3> QED BY <3>1 DEF ToSet
  <2>6. ASSUME NEW t \in {"FLOW_CTL_1", "FLOW_CTL_2"}, flow, hostSpeed = chipSpeed
        PROVE  t \in ToSet(done)
    <3>1. \A i \in 12 + Core .. End0 : Call(i) # Low
      <4>1. ASSUME NEW i \in 12 + Core .. End0 PROVE Call(i) # Low
        <5>1. i \in 1 .. End0 /\ ~(i \in 7 .. (6 + Core))
          BY <2>1
        <5>2. Call(i)[1] \notin {"write", "pin", "usleep"}
          BY <2>1, <5>1, Kinds
        <5> QED BY <5>2, Heads
      <4> QED BY <4>1
    <3>2. Call(11 + Core) = Flow("FLOW_CTL_1") /\ Call(12 + Core) = Flow("FLOW_CTL_2")
      BY <2>1, Places
    <3>3. WrittenBy(11 + Core, "FLOW_CTL_1") /\ WrittenBy(12 + Core, "FLOW_CTL_2")
      BY <2>1, <2>6, <3>1, <3>2 DEF WrittenBy
    <3>4. Reaches(t) /\ t \in Messages
      BY <2>1, <2>6 DEF Reaches, FlowTables, Messages
    <3> QED BY <2>1, <2>6, <3>3, <3>4 DEF Kept
  <2>7. ASSUME NEW t \in {"FLOW_CTL_1", "FLOW_CTL_2"}, t \in ToSet(done)
        PROVE  flow /\ hostSpeed = chipSpeed
    <3>1. PICK i \in DOMAIN done : done[i] = t
      BY <2>7 DEF ToSet
    <3> QED BY <2>1, <3>1 DEF Taken, Reaches, FlowTables
  <2> QED BY <2>1, <2>3, <2>4, <2>5, <2>6, <2>7
<1> QED BY <1>1, Invariant, PTL
=============================================================================
