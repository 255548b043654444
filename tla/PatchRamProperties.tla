------------------------- MODULE PatchRamProperties -------------------------
(* What is expected of brcm_patchram_plus.                                 *)
EXTENDS PatchRam

(* Every variable has its type; the program ends with 0 exactly when it    *)
(* has used the UART.                                                      *)
TypeOK ==
  /\ pc \in {"parse", "run", "attached", "exited", "misframed"}
  /\ code \in 0 .. 5 /\ (code # 0 => pc = "exited")
  /\ (pc = "exited" => (code = 0 <=> sent # << >>))
  /\ options \subseteq asked /\ asked \subseteq Options
  /\ armed \in BOOLEAN /\ retries \in 0 .. MaxRetries
  /\ hostSpeed \in Speeds /\ chipSpeed \in Speeds /\ awake \in BOOLEAN /\ confirms \in {"none", "together", "apart"}
  /\ output \in Seq(Commands) /\ received \in Seq(Commands)
  /\ input \in Seq(Events \cup Confirmation)
  /\ replies \in Seq(Events \cup Confirmation)
  /\ sent \in Seq(Commands) /\ executed \in Seq(Commands)
  /\ answers \in Seq([got : Events, for : Commands])

(* The command line fits the chip: it waits for the confirmation of the    *)
(* minidriver exactly when the chip sends one, whose bytes come together.  *)
FitsChip ==
  "patchram" \in options =>
     confirms = IF "no2bytes" \in options THEN "none" ELSE "together"

(* The chip has refused no command.                                        *)
Accepted == \A i \in DOMAIN answers : answers[i].got.ok

Quiet == output = << >> /\ received = << >> /\ replies = << >>

(***************************************************************************)
(* As long as the alarm has not gone off, read_event returns the answer to *)
(* the command it was called for, although it never looks at the event:    *)
(* nothing older is in the queue and no call leaves an answer unread.      *)
(***************************************************************************)
AnswersMatch ==
  FitsChip /\ retries = 0 =>
     \A i \in DOMAIN answers : answers[i].got.event = answers[i].for

(***************************************************************************)
(* As long as the alarm has not gone off and the chip has refused nothing, *)
(* nothing travels while the two UARTs are at different speeds: neither the commands around a change of  *)
(* the speed, by proc_baudrate or by the launch of the firmware, nor their *)
(* answers are lost.                                                       *)
(***************************************************************************)
SpeedsAgree ==
  FitsChip /\ Accepted /\ retries = 0 /\ pc = "run" /\ awake =>
     (output # << >> \/ replies # << >> => hostSpeed = chipSpeed)

(***************************************************************************)
(* The chip launches the firmware only after the minidriver and all the    *)
(* records of the patch, with nothing in between: a reset sent by the      *)
(* handler of SIGALRM never reaches it during the download.  Of a download *)
(* at another speed this holds as long as the alarm has not gone off: an   *)
(* answer that comes late makes the host change its speed before the chip, *)
(* which then misses the minidriver and takes the rest.                    *)
(***************************************************************************)
FirmwareComplete ==
  "use_baudrate_for_download" \notin options \/ retries = 0 =>
     \A i \in DOMAIN executed :
        executed[i] = "launch_ram" =>
           /\ i > Records + 1
           /\ executed[i - Records - 1] = "download_minidriver"
           /\ \A j \in (i - Records) .. (i - 1) : executed[j] = "write_ram"

(***************************************************************************)
(* If the alarm repeated no reset and the command line fits the chip, then *)
(* when the UART is handed over to the HCI line discipline no answer to a  *)
(* command of this program is on its way or in the input queue: the kernel *)
(* would take it for an answer to its own first commands.  After a         *)
(* repeated reset there may be one, since both resets can be answered and  *)
(* the program reads one answer for each of its other commands.            *)
(***************************************************************************)
HandoverQuiet ==
  pc = "attached" /\ retries = 0 /\ FitsChip => Quiet /\ input = << >>

Ended == pc \in {"attached", "exited"}

(***************************************************************************)
(* If the chip is up before the first reset reaches it and answers before  *)
(* the alarm goes off, and refuses nothing, the program ends, whatever the *)
(* speed.                                                                  *)
(***************************************************************************)
PromptChipFinishes ==
  [](FitsChip /\ Accepted /\ retries = 0 /\ (awake \/ sent = << >>)) => <>Ended

(***************************************************************************)
(* If the chip boots late, so that resets are lost or answered late, the   *)
(* alarm keeps the program going: it ends unless the bound on the retries  *)
(* is reached.  The command line changes no speed and waits for no         *)
(* confirmation: with either, an answer that comes late can block it.      *)
(***************************************************************************)
SlowChipFinishes ==
  []("baudrate" \notin options /\ FitsChip
       /\ ("patchram" \in options => confirms = "none"))
    /\ [](retries < MaxRetries) => <>Ended

-----------------------------------------------------------------------------
(***************************************************************************)
(* What the comment at the head of the file says of the exit code, "It     *)
(* will return 0 for success and a number greater than 0 for any errors":  *)
(* after success the two UARTs run at the same speed.                      *)
(***************************************************************************)
SpeedInEffect ==
  pc = "exited" /\ code = 0 /\ Quiet => hostSpeed = chipSpeed
=============================================================================
