------------------------------ MODULE PatchRam ------------------------------
(***************************************************************************)
(* brcm_patchram_plus: the program that configures a Broadcom Bluetooth    *)
(* chip over a UART, downloads its firmware and hands the UART over to the *)
(* kernel's HCI line discipline.                                           *)
(*                                                                         *)
(* The program is one thread and one signal handler.  What it runs is      *)
(* fixed by its options: Program gives the sequence of its system calls,   *)
(* and each kind of call is an action.  The handler of SIGALRM, the UART   *)
(* and the chip run at any moment between two calls.                       *)
(*                                                                         *)
(* A command or an event is one message and carries only its name.  What   *)
(* is sent at another speed than the receiver's is lost.  The two bytes by *)
(* which an older chip confirms the minidriver are two messages, because   *)
(* read may return one of them without the other.                          *)
(***************************************************************************)
EXTENDS Naturals, Sequences

CONSTANTS Options,     \* the options the command line may give
          Records,     \* the number of records of the patch, before the launch
          Refused,     \* the commands the chip may answer with an error status
          MaxRetries   \* bound on the resets the handler of SIGALRM sends

AllOptions == {"patchram", "baudrate", "bd_addr", "enable_lpm", "enable_hci",
               "use_baudrate_for_download", "scopcm", "i2s", "no2bytes",
               "tosleep"}

Commands == {"reset", "download_minidriver", "update_baud_rate", "write_bd_addr",
             "write_sleep_mode", "write_sco_pcm_int", "write_pcm_data_format",
             "write_i2spcm_interface_param", "write_ram", "launch_ram"}

ASSUME PatchRamAssumption == /\ Options \subseteq AllOptions
                             /\ Records \in Nat
                             /\ Refused \subseteq Commands
                             /\ MaxRetries \in Nat

VARIABLES pc,         \* "parse", "run", "attached", "exited", or "misframed"
          code,       \* the exit code, once exited
          asked,      \* the options on the command line
          options,    \* the options in effect
          todo,       \* the calls the program still has to make
          armed,      \* an alarm is pending
          retries,    \* resets sent by the handler of SIGALRM
          hostSpeed,  \* the speed of the host's UART
          output,     \* the kernel's output queue
          input,      \* the kernel's input queue
          confirms,   \* the two bytes by which the chip confirms the minidriver:
                      \* "none", "together" or, on the line, "apart"
          awake,      \* the chip has booted
          chipSpeed,  \* the speed of the chip's UART
          received,   \* commands the chip has not executed
          replies,    \* what the chip has not transmitted
          sent,       \* history: the commands written, in order
          executed,   \* history: the commands executed, in order
          answers     \* history: the events read, each with the command it
                      \* was read for

host == <<pc, code, asked, options, todo, armed, retries, sent, answers>>
uart == <<hostSpeed, output, input>>
chip == <<confirms, awake, chipSpeed, received, replies, executed>>
vars == <<host, uart, chip>>

Slow == "115200"
Fast == "termios_baudrate"
Speeds == {Slow, Fast}

Event(c, ok) == [event |-> c, ok |-> ok]
Events == [event : Commands, ok : BOOLEAN]
Confirmation == [byte : {1, 2}]

-----------------------------------------------------------------------------
(* The calls the program makes, function by function.                      *)

Ask(c)   == << <<"write", c>>, <<"read_event", c>> >>
Speed(s) == << <<"tcsetattr", s>> >>
When(o, opts, calls) == IF o \in opts THEN calls ELSE << >>

\* Mutated: what is left in the queues is not flushed.
init_uart_NoFlush == Speed(Slow)

init_uart == << <<"flush">> >> \o Speed(Slow)

\* Mutated: the alarm is not cancelled.
proc_reset_Armed == << <<"write", "reset">>, <<"alarm", TRUE>>,
                       <<"read_event", "reset">> >>

\* Mutated: no alarm is set.
proc_reset_NoAlarm == Ask("reset")

proc_reset == << <<"write", "reset">>, <<"alarm", TRUE>>,
                 <<"read_event", "reset">>, <<"alarm", FALSE>> >>

\* Mutated: the host changes its speed before it has the answer.
proc_baudrate_Early == << <<"write", "update_baud_rate">> >> \o Speed(Fast)
                          \o << <<"read_event", "update_baud_rate">> >>

proc_baudrate == Ask("update_baud_rate") \o Speed(Fast)

\* The records of the patch, each with its answer.
Download == [i \in 1 .. 2 * Records |-> Ask("write_ram")[2 - (i % 2)]]

\* Mutated: the host keeps its speed when the firmware is launched.
proc_patchram_KeepSpeed(opts) ==
  Ask("download_minidriver")
    \o (IF "no2bytes" \in opts THEN << >> ELSE << <<"read2">> >>)
    \o Download
    \o Ask("launch_ram")
    \o proc_reset

proc_patchram(opts) ==
  Ask("download_minidriver")
    \o (IF "no2bytes" \in opts THEN << >> ELSE << <<"read2">> >>)
    \o Download
    \o Ask("launch_ram")
    \o When("use_baudrate_for_download", opts, Speed(Slow))
    \o proc_reset

\* Mutated: the second answer is not read.
proc_scopcm_Unread ==
  Ask("write_sco_pcm_int") \o << <<"write", "write_pcm_data_format">> >>

proc_scopcm == Ask("write_sco_pcm_int") \o Ask("write_pcm_data_format")

Program(opts) ==
  init_uart
    \o proc_reset
    \o When("use_baudrate_for_download", opts, When("baudrate", opts, proc_baudrate))
    \o When("patchram", opts, proc_patchram(opts))
    \o When("baudrate", opts, proc_baudrate)
    \o When("bd_addr", opts, Ask("write_bd_addr"))
    \o When("enable_lpm", opts, Ask("write_sleep_mode"))
    \o When("scopcm", opts, proc_scopcm)
    \o When("i2s", opts, Ask("write_i2spcm_interface_param"))
    \o (IF "enable_hci" \in opts THEN << <<"attach">> >> ELSE << <<"exit">> >>)

-----------------------------------------------------------------------------
Init == /\ pc = "parse" /\ code = 0
        /\ asked = {} /\ options = {} /\ todo = << >>
        /\ armed = FALSE /\ retries = 0
        /\ hostSpeed \in Speeds
        /\ output = << >>
        \* left over from whatever used the UART before
        /\ input \in {<< >>, <<Event("write_ram", TRUE)>>}
        /\ confirms \in {"none", "together", "apart"}
        /\ awake = FALSE /\ chipSpeed = Slow
        /\ received = << >> /\ replies = << >>
        /\ sent = << >> /\ executed = << >> /\ answers = << >>

\* Mutated: an argument that cannot be parsed ends the program with 0.
Refusal_Zero == [o \in {"patchram", "scopcm", "i2s", "tosleep"} |->
                   IF o = "patchram" THEN {3, 4, 5} ELSE {0}]

(***************************************************************************)
(* main up to the first use of the UART.  An argument a function refuses   *)
(* ends the program, the first one the loop reaches with its own code; a   *)
(* speed that is not in the table is ignored.                              *)
(***************************************************************************)
Refusal == [o \in {"patchram", "scopcm", "i2s", "tosleep"} |->
              IF o = "patchram" THEN {3, 4, 5} ELSE {1}]

ParseCmdLine ==
  /\ pc = "parse"
  /\ \E given \in SUBSET Options :
       /\ asked' = given
       /\ \/ \E o \in given \cap DOMAIN Refusal : /\ pc' = "exited"
                                                  /\ code' \in Refusal[o]
                                                  /\ UNCHANGED <<options, todo>>
          \/ /\ pc' = "exited" /\ code' = 2    \* no UART could be opened
             /\ UNCHANGED <<options, todo>>
          \/ \E ignored \in SUBSET (given \cap {"baudrate"}) :
               /\ options' = given \ ignored
               /\ todo' = Program(options')
               /\ pc' = "run" /\ UNCHANGED code
  /\ UNCHANGED <<armed, retries, sent, answers, uart, chip>>

(* The call at the head of the program, and its return.                    *)
Calls(name) == pc = "run" /\ todo # << >> /\ Head(todo)[1] = name
Arg == Head(todo)[2]
Return == todo' = Tail(todo) /\ UNCHANGED <<asked, options>>

(* hci_send_cmd: write returns when the kernel has queued the command.     *)
hci_send_cmd(c) == output' = Append(output, c) /\ sent' = Append(sent, c)

Write == /\ Calls("write")
         /\ hci_send_cmd(Arg)
         /\ Return
         /\ UNCHANGED <<pc, code, armed, retries, answers, hostSpeed, input, chip>>

(***************************************************************************)
(* read_event reads three bytes and then as many as the third announces.   *)
(* It takes whatever event comes first; a byte of the confirmation at the  *)
(* head makes it take the bytes of the next event for something else.      *)
(***************************************************************************)
ReadEvent ==
  /\ Calls("read_event") /\ input # << >>
  /\ input' = Tail(input)
  /\ IF Head(input) \in Events
     THEN /\ answers' = Append(answers, [got |-> Head(input), for |-> Arg])
          /\ Return /\ UNCHANGED pc
     ELSE /\ pc' = "misframed"
          /\ UNCHANGED <<asked, options, todo, answers>>
  /\ UNCHANGED <<code, armed, retries, sent, hostSpeed, output, chip>>

(* read(uart_fd, &buffer[0], 2) returns one byte when only one is there.   *)
ReadTwoBytes ==
  /\ Calls("read2") /\ input # << >>
  /\ IF Head(input) \in Events
     THEN /\ input' = Tail(input) /\ pc' = "misframed"
          /\ UNCHANGED <<asked, options, todo>>
     ELSE /\ input' = SubSeq(input, IF Len(input) > 1 THEN 3 ELSE 2, Len(input))
          /\ Return /\ UNCHANGED pc
  /\ UNCHANGED <<code, armed, retries, sent, answers, hostSpeed, output, chip>>

Alarm == /\ Calls("alarm")
         /\ armed' = Arg
         /\ Return
         /\ UNCHANGED <<pc, code, retries, sent, answers, uart, chip>>

(* tcsetattr(TCSANOW) does not wait for the output queue to drain.         *)
SetSpeed == /\ Calls("tcsetattr")
            /\ hostSpeed' = Arg
            /\ Return
            /\ UNCHANGED <<pc, code, armed, retries, sent, answers, output, input, chip>>

Flush == /\ Calls("flush")
         /\ output' = << >> /\ input' = << >>
         /\ Return
         /\ UNCHANGED <<pc, code, armed, retries, sent, answers, hostSpeed, chip>>

(* proc_enable_hci: main sleeps ever after, whether the ioctls succeed or  *)
(* not.  Signals no longer matter: no alarm is pending.                    *)
Attach == /\ Calls("attach")
          /\ pc' = "attached"
          /\ Return
          /\ UNCHANGED <<code, armed, retries, sent, answers, uart, chip>>

Exit == /\ Calls("exit")
        /\ pc' = "exited" /\ code' = 0
        /\ Return
        /\ UNCHANGED <<armed, retries, sent, answers, uart, chip>>

(* The handler of SIGALRM; the read it interrupts is restarted.            *)
expired == /\ armed /\ retries < MaxRetries
           /\ retries' = retries + 1
           /\ hci_send_cmd("reset")
           /\ armed' = TRUE
           /\ UNCHANGED <<pc, code, asked, options, todo, answers, hostSpeed, input, chip>>

-----------------------------------------------------------------------------
(* The UART and the chip.  Until the chip has booted it holds the line by  *)
(* flow control or loses what is sent to it.                               *)

ChipBoots == /\ ~awake
             /\ awake' = TRUE
             /\ UNCHANGED <<host, uart, confirms, chipSpeed, received, replies, executed>>

Transmit == /\ output # << >>
            /\ output' = Tail(output)
            /\ received' = IF awake /\ hostSpeed = chipSpeed
                           THEN Append(received, Head(output)) ELSE received
            /\ UNCHANGED <<host, hostSpeed, input, confirms, awake,
                           chipSpeed, replies, executed>>

(* The chip answers each command with one event.                           *)
ChipExecutes ==
  /\ received # << >>
  /\ \E ok \in {TRUE, Head(received) \notin Refused} :
       replies' = Append(replies, Event(Head(received), ok))
                    \o (IF confirms # "none" /\ Head(received) = "download_minidriver"
                        THEN <<[byte |-> 1], [byte |-> 2]>> ELSE << >>)
  /\ received' = Tail(received)
  /\ executed' = Append(executed, Head(received))
  /\ UNCHANGED <<host, uart, confirms, awake, chipSpeed>>

(* A new speed takes effect after the answer; the launched firmware starts *)
(* at the default speed.                                                   *)
ChipTransmits ==
  LET whole == IF Head(replies) \in Confirmation /\ confirms = "together" THEN 2 ELSE 1
      what  == SubSeq(replies, 1, whole)
  IN /\ replies # << >>
     /\ replies' = SubSeq(replies, whole + 1, Len(replies))
     /\ input' = IF hostSpeed = chipSpeed THEN input \o what ELSE input
     /\ chipSpeed' =
          CASE Head(what) = Event("update_baud_rate", TRUE) -> Fast
            [] Head(what) = Event("launch_ram", TRUE)       -> Slow
            [] OTHER                                        -> chipSpeed
     /\ UNCHANGED <<host, hostSpeed, output, confirms, awake, received, executed>>

HostStep == \/ ParseCmdLine \/ Write \/ ReadEvent \/ ReadTwoBytes \/ Alarm
            \/ SetSpeed \/ Flush \/ Attach \/ Exit
ChipStep == ChipBoots \/ Transmit \/ ChipExecutes \/ ChipTransmits

Next == HostStep \/ expired \/ ChipStep

Spec == Init /\ [][Next]_vars

(***************************************************************************)
(* The program runs, the chip boots, and the UART and the chip make        *)
(* progress.  A signal need not come.                                      *)
(***************************************************************************)
FairSpec == Spec /\ WF_vars(HostStep) /\ WF_vars(ChipStep)

(* The alarm goes off while it is pending, and the chip boots.             *)
RetrySpec == FairSpec /\ WF_vars(expired) /\ WF_vars(ChipBoots)
=============================================================================
