------------------------------ MODULE HciAttach -----------------------------
(***************************************************************************)
(* hciattach_rda5876: configures an RDA Bluetooth chip over a UART, hands  *)
(* the UART to the kernel's HCI line discipline and stays to take it back  *)
(* on a signal.                                                            *)
(*                                                                         *)
(* Setup is a fixed sequence of system calls, some of which the options    *)
(* leave out, for each of the chips the program can be built for.  The     *)
(* chip never answers: the program writes a table of registers, sleeps and *)
(* hopes.  A table is one message.  The loop at the end is modelled check  *)
(* by check, since a signal may come between any two of them.              *)
(*                                                                         *)
(* Simplifications: an option that is looked at once and changes one call  *)
(* (-b, -r) is a choice made at that call.  -t is a time, so the alarm may *)
(* come at any moment; -n, -p and the arguments after flow change only     *)
(* what is printed, which process goes on, or nothing.                     *)
(***************************************************************************)
EXTENDS Naturals, Sequences, SequencesExt

CONSTANTS SpeedArgs,  \* the speeds the command line may give
          InitSpeedArgs, \* the initial speeds it may give with -s; -s 0
                         \* gives none
          Failures,   \* what may fail: "gpio", "write", "tty"
          MaxIgnored, \* bound on the failures whose result is ignored
          QueueCap    \* the kernel's output queue, in messages

Chips == {"R11_5876", "R11_5875", "R10_5870E"}

ASSUME HciAttachAssumption == /\ SpeedArgs \subseteq Nat
                              /\ InitSpeedArgs \subseteq Nat \ {0}
                              /\ Failures \subseteq {"gpio", "write", "tty"}
                              /\ MaxIgnored \in Nat
                              /\ QueueCap \in Nat \ {0}

VARIABLES target,    \* the chip the program is built for
          timely,    \* the sleeps are long enough for the UART and the chip
          pc,        \* "options", "setup", "check", "poll", "blocked",
                     \* "restore" or "ended"
          code,      \* the exit code, once ended
          at,        \* which call of init_uart is next
          asleep,    \* the sleep after what was sent is not over
          init_speed, \* u->init_speed
          speed,     \* u->speed
          flow,      \* u->flags & FLOW_CTL
          ldisc,     \* the line discipline: "tty" or "hci"
          canceled,  \* __io_canceled
          ignored,   \* history: the calls that failed and whose result is
                     \* not looked at
          hungUp,    \* the device reports an error or a hangup
          hostSpeed, \* the speed of the host's UART
          output,    \* the kernel's output queue
          powered,   \* the chip has power
          chipSpeed, \* the speed of the chip's UART
          newSpeed,  \* the speed in the chip's register
          done       \* the tables the chip has taken since power-on

setting == <<target, timely, init_speed>>
program == <<setting, ignored, pc, code, at, asleep, speed, flow, ldisc, canceled>>
chip == <<powered, chipSpeed, newSpeed, done>>
vars == <<program, hungUp, hostSpeed, output, chip>>

Default == 115200
Supported == {9600, 19200, 38400, 57600, 115200, 230400, 460800, 500000,
              576000, 921600, 1000000, 1152000, 1500000, 2000000, 2500000,
              3000000, 3500000, 4000000}

uart_speed(s) == IF s \in Supported THEN s ELSE 57600

-----------------------------------------------------------------------------
(* The tables of registers of each chip, by what they configure: radio     *)
(* first over SPI, calibration, settings, and patches of the firmware.     *)
Tables_R11_5876 == {"ENABLE_SPI", "RF_INIT", "PSKEY_RF", "DCCAL", "DISABLE_SPI",
                    "TRAP", "PSKEY_MISC"}
Tables_R11_5875 == {"ENABLE_SPI", "RF_INIT", "PSKEY_RF", "DCCAL", "DISABLE_SPI",
                    "TRAP", "PSKEY_MISC"}
Tables_R10_5870E == {"RF_INIT", "PSKEY_RF", "DCCAL", "PSKEY_MISC", "UNSNIFF",
                     "FILTER", "TRAP"}

Tables == CASE target = "R11_5876"  -> Tables_R11_5876
            [] target = "R11_5875"  -> Tables_R11_5875
            [] target = "R10_5870E" -> Tables_R10_5870E

(* The calls: a table that is written, with a sleep behind it, the pin     *)
(* that gives the chip its power, and what init_uart asks of the UART.     *)
Table(t)    == <<"write", t>>
High        == <<"pin", "high">>
Low         == <<"pin", "low">>
Sleep       == <<"usleep", "">>
Gpio        == <<"gpio_init", "">>
Flush       == <<"flush", "">>
Break       == <<"flush", "break">>
SetFlags    == <<"set_flags", "">>
Try(call)   == <<"try", call>>
SetSpeed(s) == <<"set_speed", s>>
Checked(t)  == <<"write_checked", t>>
Flow(t)     == <<"write_flow", t>>

\* Mutated: after the power cycle the radio is not configured again.
Core_R11_5876_Once ==
  << High, Table("ENABLE_SPI"), Table("RF_INIT"), Table("PSKEY_RF"), Low, High, Sleep,
     Table("DCCAL"), Table("DISABLE_SPI"), Table("TRAP"), Table("PSKEY_MISC") >>

(* The initialisation after gpio_init, table by table.  The radio is       *)
(* configured before and again after a power cycle.                        *)
Core_R11_5876 ==
  << High, Table("ENABLE_SPI"), Table("RF_INIT"), Table("PSKEY_RF"), Low, High, Sleep,
     Table("ENABLE_SPI"), Table("RF_INIT"), Table("PSKEY_RF"),
     Table("DCCAL"), Table("DISABLE_SPI"), Table("TRAP"), Table("PSKEY_MISC") >>

Core_R11_5875 ==
  << High, Table("ENABLE_SPI"), Table("RF_INIT"), Table("PSKEY_RF"), Low, High, Sleep,
     Table("ENABLE_SPI"), Table("RF_INIT"), Table("PSKEY_RF"),
     Table("DCCAL"), Table("DISABLE_SPI"), Table("PSKEY_MISC"), Table("TRAP") >>

Core_R10_5870E ==
  << High, Table("RF_INIT"), Low, High, Sleep, Table("RF_INIT"), Table("PSKEY_RF"),
     Table("DCCAL"), Table("PSKEY_MISC"), Table("UNSNIFF"), Table("FILTER"), Table("TRAP") >>

RDABT_core_Intialization ==
  CASE target = "R11_5876"  -> Core_R11_5876
    [] target = "R11_5875"  -> Core_R11_5875
    [] target = "R10_5870E" -> Core_R10_5870E

Opening == << Try("open"), Flush, Try("tcsetattr"), SetSpeed("init_speed"), Break, Gpio >>

\* Mutated: the flag that makes the new speed effective is not written.
Handing_NoFlag ==
  << Checked("BAUD_RATE"), Flush, SetSpeed("speed"),
     Flow("FLOW_CTL_1"), Flow("FLOW_CTL_2"), Try("TIOCSETD"), SetFlags,
     Try("HCIUARTSETPROTO") >>

\* Mutated: the line discipline is not set.
Handing_NoDiscipline ==
  << Checked("BAUD_RATE"), Checked("MODIFY_FLAG"), Flush, SetSpeed("speed"),
     Flow("FLOW_CTL_1"), Flow("FLOW_CTL_2"), SetFlags, Try("HCIUARTSETPROTO") >>

(* The end of rda_init tells the chip its speed, and the write of the flag *)
(* makes it so.                                                            *)
Handing ==
  << Checked("BAUD_RATE"), Checked("MODIFY_FLAG"), Flush, SetSpeed("speed"),
     Flow("FLOW_CTL_1"), Flow("FLOW_CTL_2"), Try("TIOCSETD"), SetFlags,
     Try("HCIUARTSETPROTO") >>

init_uart == Opening \o RDABT_core_Intialization \o Handing

-----------------------------------------------------------------------------
Init == /\ target \in Chips /\ timely \in BOOLEAN /\ ignored = 0
        /\ pc = "options" /\ code = 0 /\ at = 1 /\ asleep = FALSE
        /\ init_speed = Default /\ speed = 921600 /\ flow = TRUE
        /\ ldisc = "tty" /\ canceled = FALSE /\ hungUp = FALSE
        /\ hostSpeed = 9600 /\ output = << >>
        /\ powered \in BOOLEAN /\ chipSpeed = Default /\ newSpeed = Default
        /\ done = << >>

(* The process ends; closing the UART brings back its own line discipline. *)
End(c) == pc' = "ended" /\ code' = c /\ ldisc' = "tty"

(* main up to alarm(to): the options; or a wrong one, too few arguments or *)
(* an unknown device type; or -l, which only lists the types.              *)
ParseOptions ==
  /\ pc = "options"
  /\ \/ \E c \in {0, 1} : End(c) /\ UNCHANGED <<init_speed, speed, flow>>
     \/ /\ init_speed' \in InitSpeedArgs \cup {Default}
        /\ speed' \in SpeedArgs \cup {921600}
        /\ flow' \in BOOLEAN
        /\ pc' = "setup" /\ UNCHANGED <<code, ldisc>>
  /\ UNCHANGED <<target, timely, ignored, at, asleep, canceled, hungUp, hostSpeed, output, chip>>

Calls(name) == pc = "setup" /\ ~asleep /\ at <= Len(init_uart) /\ init_uart[at][1] = name
Arg == init_uart[at][2]
Return == /\ at' = at + 1
          /\ UNCHANGED <<setting, ignored, pc, code, asleep, speed, flow, ldisc,
                         canceled, hungUp>>

(* A failing call of init_uart ends the program with "Can't initialize     *)
(* device".                                                                *)
Fail(what) == /\ what \in Failures
              /\ End(1)
              /\ UNCHANGED <<setting, ignored, at, asleep, speed, flow, canceled, hungUp,
                             hostSpeed, output, chip>>

(* A failing call whose result is ignored, and with which n - 1 others are *)
(* skipped.                                                                *)
Ignore(what, n) == /\ what \in Failures /\ ignored < MaxIgnored
                   /\ ignored' = ignored + 1
                   /\ at' = at + n
                   /\ UNCHANGED <<setting, pc, code, speed, flow, ldisc, canceled,
                                  hungUp, hostSpeed, output, chip>>

TryCall == /\ Calls("try")
           /\ \/ Fail("tty")
              \/ /\ at' = at + 1
                 /\ ldisc' = IF Arg = "TIOCSETD" THEN "hci" ELSE ldisc
                 /\ UNCHANGED <<setting, ignored, pc, code, asleep, speed, flow, canceled,
                                hungUp, hostSpeed, output, chip>>

(* The raw flag is only asked for with -r.                                 *)
SetUartFlags == /\ Calls("set_flags")
                /\ Fail("tty") \/ (Return /\ UNCHANGED <<hostSpeed, output, chip>>)

SetHostSpeed ==
  /\ Calls("set_speed")
  /\ \/ Fail("tty")
     \/ /\ hostSpeed' = uart_speed(IF Arg = "init_speed" THEN init_speed ELSE speed)
        /\ Return /\ UNCHANGED <<output, chip>>

(* With -b a break is sent behind the first flush, and a sleep follows.    *)
FlushQueues == /\ Calls("flush")
               /\ output' = << >>
               /\ at' = at + 1
               /\ asleep' \in (IF Arg = "break" THEN BOOLEAN ELSE {FALSE})
               /\ UNCHANGED <<setting, ignored, pc, code, speed, flow, ldisc, canceled,
                              hungUp, hostSpeed, chip>>

(* A write blocks while the queue is full.                                 *)
Queue(t) == /\ Len(output) < QueueCap
            /\ output' = Append(output, t)
            /\ at' = at + 1 /\ asleep' = TRUE
            /\ UNCHANGED <<setting, ignored, pc, code, speed, flow, ldisc, canceled, hungUp,
                           hostSpeed, chip>>

(* rdabt_write_memory ignores the result of its write.                     *)
Write == /\ Calls("write")
         /\ Queue(Arg) \/ (Ignore("write", 1) /\ asleep' = TRUE)

(* The chip is told a speed if it is not the one it starts with.           *)
WriteChecked == /\ Calls("write_checked") /\ speed # Default
                /\ Queue(Arg) \/ Fail("write")

(* rda_setup_flow_ctl returns when a write fails, and nobody looks why.    *)
WriteFlow == /\ Calls("write_flow") /\ flow
             /\ \/ Queue(Arg)
                \/ Ignore("write", IF Arg = "FLOW_CTL_1" THEN 2 ELSE 1) /\ UNCHANGED asleep

NotAsked == /\ (Calls("write_checked") /\ speed = Default) \/ (Calls("write_flow") /\ ~flow)
            /\ Return /\ UNCHANGED <<hostSpeed, output, chip>>

(* A sleep that is long enough ends when what was written has arrived.     *)
USleep == /\ timely => output = << >>
          /\ UNCHANGED <<hostSpeed, output, chip>>
          /\ \/ Calls("usleep") /\ Return
             \/ /\ pc = "setup" /\ asleep /\ asleep' = FALSE
                /\ UNCHANGED <<setting, ignored, pc, code, at, speed, flow, ldisc, canceled,
                               hungUp>>

PowerOff == /\ powered' = FALSE
            /\ done' = << >>
            /\ chipSpeed' = Default /\ newSpeed' = Default

(* gpio_init, whose failure leaves the chip as it is, and                  *)
(* gpio_direction_output, which takes the power away.                      *)
GpioInit ==
  /\ Calls("gpio_init")
  /\ \/ Return /\ PowerOff /\ UNCHANGED <<hostSpeed, output>>
     \/ /\ \E n \in {1, 1 + Len(RDABT_core_Intialization)} : Ignore("gpio", n)
        /\ UNCHANGED asleep

(* The results of gpio_direction_output and gpio_set_value are ignored.    *)
SetPin == /\ Calls("pin")
          /\ \/ /\ IF Arg = "high"
                   THEN powered' = TRUE /\ UNCHANGED <<done, chipSpeed, newSpeed>>
                   ELSE PowerOff
                /\ Return /\ UNCHANGED <<hostSpeed, output>>
             \/ Ignore("gpio", 1) /\ UNCHANGED asleep

SetupCall == \/ TryCall \/ SetUartFlags \/ SetHostSpeed \/ FlushQueues \/ USleep \/ GpioInit \/ SetPin
             \/ Write \/ WriteChecked \/ WriteFlow \/ NotAsked

\* Mutated: the handler only prints its message.
sig_alarm_Prints == pc = "setup" /\ UNCHANGED vars

(* sig_alarm: setup took longer than the -t option allows.                 *)
sig_alarm == /\ pc = "setup"
             /\ End(1)
             /\ UNCHANGED <<setting, ignored, at, asleep, speed, flow, canceled, hungUp,
                            hostSpeed, output, chip>>

(* alarm(0), the handlers, fork: the child goes on.                        *)
SetupDone == /\ pc = "setup" /\ ~asleep /\ at > Len(init_uart)
             /\ pc' = "check"
             /\ UNCHANGED <<setting, ignored, code, at, asleep, speed, flow, ldisc, canceled,
                            hungUp, hostSpeed, output, chip>>

-----------------------------------------------------------------------------
(* The loop of main.                                                       *)
Go(from, to) ==
  /\ pc = from
  /\ pc' = to
  /\ UNCHANGED <<setting, ignored, code, at, asleep, speed, flow, ldisc, canceled, hungUp,
                 hostSpeed, output, chip>>

CheckCanceled == Go("check", IF canceled THEN "restore" ELSE "poll")

(* compat_ppoll ignores the signal mask: it is a poll like any other.      *)
PollBlocks == Go("poll", IF hungUp THEN "restore" ELSE "blocked")

\* Mutated: poll is not told to wait for a hangup.
PollReturns_NoHup == FALSE /\ Go("blocked", "restore")

PollReturns == hungUp /\ Go("blocked", "restore")

RestoreTty == /\ pc = "restore"
              /\ \/ End(0)
                 \/ "tty" \in Failures /\ End(1)
              /\ UNCHANGED <<setting, ignored, at, asleep, speed, flow, canceled, hungUp,
                             hostSpeed, output, chip>>

LoopStep == CheckCanceled \/ PollBlocks \/ PollReturns \/ RestoreTty

\* Mutated: the interrupted poll is started again without a look at the flag.
sig_term_Restart == /\ pc \notin {"options", "ended"}
                    /\ IF pc = "setup"
                       THEN End(1) /\ UNCHANGED canceled
                       ELSE canceled' = TRUE /\ UNCHANGED <<pc, code, ldisc>>
                    /\ UNCHANGED <<setting, ignored, at, asleep, speed, flow, hungUp, hostSpeed, output, chip>>

(* SIGTERM or SIGINT: until the handler is installed it ends the program;  *)
(* then sig_term sets the flag, and a poll that is waiting returns EINTR.  *)
sig_term == /\ pc \notin {"options", "ended"}
            /\ IF pc = "setup"
               THEN End(1) /\ UNCHANGED canceled
               ELSE /\ canceled' = TRUE
                    /\ pc' = IF pc = "blocked" THEN "check" ELSE pc
                    /\ UNCHANGED <<code, ldisc>>
            /\ UNCHANGED <<setting, ignored, at, asleep, speed, flow, hungUp, hostSpeed, output, chip>>

(* SIGHUP, SIGCHLD: the handler does nothing, or the signal is ignored.    *)
sig_hup == Go("blocked", "check")

-----------------------------------------------------------------------------
(* The UART, the chip and the device.                                      *)

(* The chip takes a table; what comes at another speed, or without power,  *)
(* is lost.                                                                *)
ChipTakes ==
  /\ output # << >>
  /\ output' = Tail(output)
  /\ IF powered /\ hostSpeed = chipSpeed
     THEN /\ done' = Append(done, Head(output))
          /\ newSpeed' = IF Head(output) = "BAUD_RATE" THEN speed ELSE newSpeed
          /\ chipSpeed' = IF Head(output) = "MODIFY_FLAG" THEN newSpeed ELSE chipSpeed
     ELSE UNCHANGED <<done, newSpeed, chipSpeed>>
  /\ UNCHANGED <<program, hungUp, hostSpeed, powered>>

HangUp == /\ pc \in {"check", "poll", "blocked"} /\ ~hungUp
          /\ hungUp' = TRUE
          /\ UNCHANGED <<program, hostSpeed, output, chip>>

Next == \/ ParseOptions \/ SetupCall \/ SetupDone \/ LoopStep
        \/ sig_alarm \/ sig_term \/ sig_hup \/ ChipTakes \/ HangUp

Spec == Init /\ [][Next]_vars

(* The program runs, the alarm goes off, the UART moves bytes when it can. *)
FairSpec == /\ Spec
            /\ WF_vars(ParseOptions \/ SetupCall \/ SetupDone)
            /\ WF_vars(LoopStep)
            /\ WF_vars(sig_alarm)
=============================================================================
