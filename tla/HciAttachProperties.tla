------------------------ MODULE HciAttachProperties -------------------------
(* What is expected of hciattach_rda5876.                                  *)
EXTENDS HciAttach

Serving == pc \in {"check", "poll", "blocked"}

Messages == Tables \cup {"BAUD_RATE", "MODIFY_FLAG", "FLOW_CTL_1", "FLOW_CTL_2"}

(* Every variable has its type; the HCI line discipline is set exactly     *)
(* while the program serves the UART or is about to.                       *)
TypeOK ==
  /\ target \in Chips /\ timely \in BOOLEAN /\ ignored \in 0 .. MaxIgnored
  /\ pc \in {"options", "setup", "check", "poll", "blocked", "restore", "ended"}
  /\ code \in {0, 1} /\ (code # 0 => pc = "ended")
  /\ flow \in BOOLEAN /\ canceled \in BOOLEAN /\ hungUp \in BOOLEAN
  /\ powered \in BOOLEAN
  /\ init_speed \in InitSpeedArgs \cup {Default} /\ speed \in SpeedArgs \cup {921600}
  /\ hostSpeed \in Supported /\ {chipSpeed, newSpeed} \subseteq Supported \cup SpeedArgs
  /\ output \in Seq(Messages) /\ Len(output) <= QueueCap
  /\ done \in Seq(Messages)
  /\ (Serving => ldisc = "hci") /\ (pc = "ended" => ldisc = "tty")

(* No call failed unnoticed, and the UART and the chip keep up with the    *)
(* sleeps.                                                                 *)
Undisturbed == ignored = 0 /\ timely

(* The chip hears what the program configures: a chip that gets its power  *)
(* listens at 115200, whatever -s says.                                    *)
Meets == uart_speed(init_speed) = Default

(* The speed the host ends at is the one the chip was told; or, if it did  *)
(* not hear that, the one it starts with.                                  *)
Agree == uart_speed(speed) = (IF Meets THEN speed ELSE Default)

(***************************************************************************)
(* When the UART is handed over undisturbed, chip and host serve the       *)
(* connection at the same speed exactly if the command line allows it: not *)
(* when -s makes the chip deaf and the speed is another than its own, and  *)
(* not when the host takes a speed it does not know for 57600.             *)
(***************************************************************************)
SpeedsAgree == Serving /\ Undisturbed => (hostSpeed = chipSpeed <=> Agree)

(***************************************************************************)
(* When the UART is handed over undisturbed, nothing is still queued that  *)
(* the line discipline would find there, and the chip has taken, since it  *)
(* last got power, every table of its initialisation, in an order in which *)
(* the radio comes before what depends on it.  With -s at another speed it *)
(* has taken none of them, and setup is a success all the same.  Flow      *)
(* control, where asked for, it has taken exactly if the speeds agree.     *)
(***************************************************************************)
ConfiguredOnAttach ==
  Serving /\ Undisturbed =>
     /\ output = << >>
     /\ IF Meets
        THEN /\ Tables \subseteq ToSet(done)
             /\ \E i \in DOMAIN done :
                  /\ done[i] = "RF_INIT"
                  /\ \A j \in 1 .. (i - 1) : done[j] \notin Tables \ {"ENABLE_SPI"}
        ELSE Tables \cap ToSet(done) = {}
     /\ \A t \in {"FLOW_CTL_1", "FLOW_CTL_2"} :
          t \in ToSet(done) <=> flow /\ hostSpeed = chipSpeed

(***************************************************************************)
(* Setup ends: if the chip holds back the line for ever and a write blocks *)
(* on the full queue, the alarm ends the program.                          *)
(***************************************************************************)
SetupEnds == <>(pc \notin {"options", "setup"})

(* A device that hangs up ends the program, which gives the line back.     *)
HangUpEnds == hungUp ~> (pc = "ended")

(***************************************************************************)
(* A signal that asks the program to end makes it end, so that it restores *)
(* the line discipline.  One signal is not enough when it comes between    *)
(* the test of the flag and the poll.                                      *)
(***************************************************************************)
TermEnds == canceled ~> (pc = "ended")

(* A signal that asks the program to end makes it end if it is repeated as *)
(* long as the program goes on, so that the line discipline is restored.   *)
RepeatedTermEnds == SF_vars(sig_term) => TermEnds
=============================================================================
