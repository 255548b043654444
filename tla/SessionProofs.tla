---------------------------- MODULE SessionProofs ---------------------------
(***************************************************************************)
(* What holds of a program that uses the library for any number of         *)
(* starts, clients, calls and restarts of BlueZ.                           *)
(***************************************************************************)
EXTENDS SessionProperties, TLAPS

-----------------------------------------------------------------------------
(* The inductive invariant.                                                *)

\* Where in setUpEventLoop a rule is added; tearDownEventLoop removes the
\* rules in the opposite order.
Position(r) == IF r = "DBus" THEN 4 ELSE IF r = "Adapter" THEN 5 ELSE 6

\* Step added of the set-up was made, and step removed of the tear-down not.
Up(added, removed) ==
  \/ phase = "starting" /\ at > added
  \/ phase = "on" /\ conn
  \/ phase = "stopping" /\ thread = "alive" /\ conn /\ at <= removed

RuleUp(r) == Up(Position(r), 9 - Position(r))

Types ==
  /\ phase \in {"off", "starting", "on", "stopping"}
  /\ thread \in {"none", "alive", "ended"}
  /\ {path, agent, stale, conn, connected} \subseteq BOOLEAN
  /\ at \in Nat /\ filters \in Nat /\ late \in Nat
  /\ rules \in [Rules -> Nat]

\* How the steps, the thread and the connection go with the phase.
Control ==
  /\ phase = "off" => at = 0 /\ thread = "none"
  /\ phase = "starting" => at \in 1 .. 6 /\ thread = "none" /\ (at > 1 => conn)
  /\ phase = "on" => at = 0 /\ thread = "alive"
  /\ phase = "stopping" /\ at # 0 => at \in 1 .. 6 /\ thread = "alive" /\ conn
  /\ prog \in {"boot", "services"} => phase = "off" /\ ~agent
  /\ prog = "ready" /\ agent => conn

\* Path and agent are there only while they are up, or after a late failure.
Names ==
  /\ Up(1, 2) => path
  /\ late = 0 /\ path => Up(1, 2)
  /\ late = 0 /\ agent => Up(2, 1)

\* Of a filter or rule there is one more than late failures at most.
Filters ==
  /\ Up(3, 6) => filters > 0
  /\ filters <= late + 1 /\ (~Up(3, 6) => filters <= late)

RuleHeld(r) ==
  /\ connected /\ RuleUp(r) => rules[r] > 0
  /\ rules[r] <= late + 1 /\ (~RuleUp(r) => rules[r] <= late)

\* An agent that BlueZ kept is in the way of every start.
Stuck == stale => /\ agent /\ phase \in {"off", "starting"}
                  /\ phase = "starting" => at <= 2

IInv == Types /\ Control /\ Names /\ Filters /\ (\A r \in Rules : RuleHeld(r)) /\ Stuck

-----------------------------------------------------------------------------
(* The steps of setUpEventLoop and tearDownEventLoop by their number.      *)

LEMMA Order ==
  /\ Len(SetUp) = 6 /\ Len(TearDown) = 6
  /\ DOMAIN SetUp = 1 .. 6 /\ DOMAIN TearDown = 1 .. 6
  /\ SetUp[1] = "path" /\ SetUp[2] = "agent" /\ SetUp[3] = "filter"
  /\ SetUp[4] = "DBus" /\ SetUp[5] = "Adapter" /\ SetUp[6] = "Device"
  /\ TearDown[1] = "agent" /\ TearDown[2] = "path" /\ TearDown[3] = "Device"
  /\ TearDown[4] = "Adapter" /\ TearDown[5] = "DBus" /\ TearDown[6] = "filter"
BY DEF SetUp, TearDown

LEMMA SetUpStep ==
  ASSUME NEW c, NEW step, SettingUp(c, step)
  PROVE  /\ phase = "starting" /\ holder = c /\ prog = "ready" /\ at \in 1 .. 6
         /\ step = "path" => at = 1
         /\ step = "agent" => at = 2
         /\ step = "filter" => at = 3
         /\ step \in Rules => at = Position(step)
BY Order DEF SettingUp, Rules, Position

LEMMA TearDownStep ==
  ASSUME NEW step, TearingDown(step)
  PROVE  /\ phase = "stopping" /\ at \in 1 .. 6
         /\ step = "agent" => at = 1
         /\ step = "path" => at = 2
         /\ step = "filter" => at = 6
         /\ step \in Rules => at = 9 - Position(step)
BY Order DEF TearingDown, Rules, Position

LEMMA Positions ==
  /\ \A r \in Rules : Position(r) \in 4 .. 6
  /\ \A r, s \in Rules : Position(r) = Position(s) => r = s
BY DEF Rules, Position

LEMMA SettingUpKeeps ==
  ASSUME NEW c, NEW step, SettingUp(c, step)
  PROVE  UNCHANGED <<callVars, services, adapter, conn, remote, bluez, asked, connected>>
BY DEF SettingUp, Aside, callVars

LEMMA TearingDownKeeps ==
  ASSUME NEW step, TearingDown(step)
  PROVE  UNCHANGED <<callVars, services, adapter, conn, remote, bluez, asked, connected,
                     prog, stale>>
BY DEF TearingDown, Aside, callVars

-----------------------------------------------------------------------------
(* Each step keeps the invariant.                                          *)

\* What the invariant speaks of.
Seen == <<phase, thread, at, path, agent, stale, conn, connected, filters, late,
          rules, prog>>

LEMMA Unseen == ASSUME IInv, UNCHANGED Seen PROVE IInv'
BY DEF Seen, IInv, Types, Control, Names, Filters, RuleHeld, RuleUp, Up, Stuck

\* A step of the set-up that is the last one, or not, and one that fails.
LEMMA GoesOn ==
  ASSUME NEW c, SetUpGoesOn(c), at \in 1 .. 6
  PROVE  /\ prog' = prog /\ stale' = stale
         /\ \/ at = 6 /\ phase' = "on" /\ thread' = "alive" /\ at' = 0
            \/ at < 6 /\ phase' = phase /\ thread' = thread /\ at' = at + 1
BY Order DEF SetUpGoesOn, Service!Launch, loopVars

LEMMA Fails ==
  ASSUME NEW c, SetUpFails(c)
  PROVE  /\ prog' = prog /\ stale' = agent' /\ at' = 0
         /\ phase = "starting" /\ phase' = "off" /\ thread' = thread
BY DEF SetUpFails, Service!Abandon

LEMMA TearsOn ==
  ASSUME TearDownGoesOn, at \in 1 .. 6
  PROVE  /\ phase' = phase
         /\ \/ at = 6 /\ thread' = "ended" /\ at' = 0
            \/ at < 6 /\ thread' = thread /\ at' = at + 1
BY Order DEF TearDownGoesOn, Service!End, loopVars

LEMMA OneMore == \A j, k \in Nat : j <= k => j <= k + 1
OBVIOUS

LEMMA MoreLate == \A i, j, k \in Nat : i <= j + 1 /\ j <= k => i <= k + 1
OBVIOUS

\* When the set-up fails nothing is up, and late failures account for what is
\* there.
LEMMA AfterFailure ==
  ASSUME IInv, NEW c \in Clients, SetUpFails(c), prog = "ready",
         UNCHANGED <<conn, connected>>,
         path' \in BOOLEAN, agent' \in BOOLEAN, agent' => conn,
         late' \in Nat, filters' \in Nat, rules' \in [Rules -> Nat],
         late' = 0 => ~path' /\ ~agent',
         filters' <= late', \A r \in Rules : rules'[r] <= late'
  PROVE  IInv'
<1>1. /\ prog' = "ready" /\ stale' = agent' /\ at' = 0 /\ phase' = "off"
      /\ phase = "starting" /\ thread' = thread
  BY Fails
<1>2. Types'
  BY <1>1 DEF IInv, Types
<1>3. Control'
  BY <1>1 DEF IInv, Types, Control
<1>4. Names'
  BY <1>1 DEF Names, Up
<1>7. Filters'
  BY <1>1, OneMore DEF Filters, Up
<1>5. \A r \in Rules : RuleHeld(r)'
  BY <1>1, Positions DEF IInv, Types, RuleHeld, RuleUp, Up
<1>6. Stuck'
  BY <1>1 DEF Stuck
<1> QED BY <1>2, <1>3, <1>4, <1>5, <1>6, <1>7 DEF IInv

LEMMA KeptByRegisterPath ==
  ASSUME IInv, NEW c \in Clients, RegisterPath(c) PROVE IInv'
<1>1. /\ phase = "starting" /\ at = 1 /\ conn /\ prog = "ready"
      /\ UNCHANGED <<conn, connected, filters, rules, agent, late>>
  BY SetUpStep, SettingUpKeeps DEF RegisterPath
<1>2. CASE ~path /\ path' = TRUE /\ SetUpGoesOn(c)
  <2>1. phase' = "starting" /\ thread' = thread /\ at' = 2 /\ UNCHANGED <<prog, stale>>
    BY <1>1, <1>2, GoesOn
  <2> QED
    BY <1>1, <1>2, <2>1, Positions
    DEF IInv, Types, Control, Names, Filters, RuleHeld, RuleUp, Up, Stuck
<1>3. CASE path' = FALSE /\ SetUpFails(c)
  <2>1. late = 0 => ~agent
    BY <1>1 DEF IInv, Names, Up
  <2>2. filters <= late /\ \A r \in Rules : rules[r] <= late
    BY <1>1, Positions DEF IInv, Filters, RuleHeld, RuleUp, Up
  <2> QED
    BY <1>1, <1>3, <2>1, <2>2, AfterFailure DEF IInv, Types
<1> QED BY <1>2, <1>3 DEF RegisterPath

LEMMA KeptByStartWithoutSetUp ==
  ASSUME IInv, NEW c \in Clients, StartWithoutSetUp(c) PROVE IInv'
<1>1. /\ phase = "starting" /\ at = 1 /\ prog = "ready"
      /\ UNCHANGED <<conn, connected, path, filters, rules, agent, late>>
  BY SetUpStep, SettingUpKeeps DEF StartWithoutSetUp, regVars
<1>2. late = 0 => ~path /\ ~agent
  BY <1>1 DEF IInv, Types, Names, Up
<1>3. filters <= late /\ \A r \in Rules : rules[r] <= late
  BY <1>1, Positions DEF IInv, Filters, RuleHeld, RuleUp, Up
<1>4. agent => conn
  BY <1>1 DEF IInv, Control
<1>5. CASE SetUpFails(c)
  BY <1>1, <1>2, <1>3, <1>4, <1>5, AfterFailure DEF IInv, Types
<1>6. CASE ~conn /\ Service!Launch(c) /\ at' = 0 /\ UNCHANGED <<prog, stale>>
  <2>1. phase' = "on" /\ thread' = "alive" /\ at' = 0 /\ UNCHANGED <<prog, stale>>
    BY <1>6 DEF Service!Launch
  <2>2. ~agent /\ ~stale
    BY <1>1, <1>4, <1>6 DEF IInv, Stuck
  <2>3. Types' /\ Control' /\ Stuck'
    BY <1>1, <2>1, <2>2 DEF IInv, Types, Control, Stuck
  <2>4. Names' /\ Filters'
    BY <1>1, <1>2, <1>3, <1>6, <2>1 DEF IInv, Types, Names, Filters, Up
  <2>5. \A r \in Rules : RuleHeld(r)'
    BY <1>1, <1>3, <1>6, <2>1 DEF IInv, Types, RuleHeld, RuleUp, Up
  <2> QED BY <2>3, <2>4, <2>5 DEF IInv
<1> QED BY <1>5, <1>6 DEF StartWithoutSetUp

LEMMA KeptByRegisterAgent ==
  ASSUME IInv, NEW c \in Clients, RegisterAgent(c) PROVE IInv'
<1>1. /\ phase = "starting" /\ at = 2 /\ conn /\ prog = "ready"
      /\ UNCHANGED <<conn, connected, filters, rules>>
  BY SetUpStep, SettingUpKeeps DEF RegisterAgent, IInv, Control
<1>2. late \in Nat /\ filters <= late /\ \A r \in Rules : rules[r] <= late
  BY <1>1, Positions DEF IInv, Types, Filters, RuleHeld, RuleUp, Up
<1>3. late = 0 => ~agent
  BY <1>1 DEF IInv, Names, Up
<1>4. CASE ~agent /\ agent' = TRUE /\ SetUpGoesOn(c) /\ UNCHANGED <<path, late>>
  <2>1. phase' = "starting" /\ thread' = thread /\ at' = 3 /\ UNCHANGED <<prog, stale>>
    BY <1>1, <1>4, GoesOn
  <2>2. ~stale
    BY <1>4 DEF IInv, Stuck
  <2>3. Types' /\ Control' /\ Stuck'
    BY <1>1, <1>4, <2>1, <2>2 DEF IInv, Types, Control, Stuck
  <2>4. Names' /\ Filters'
    BY <1>1, <1>2, <1>4, <2>1 DEF IInv, Types, Names, Filters, Up
  <2>5. \A r \in Rules : RuleHeld(r)'
    BY <1>1, <1>2, <1>4, <2>1, Positions DEF IInv, Types, RuleHeld, RuleUp, Up
  <2> QED BY <2>3, <2>4, <2>5 DEF IInv
<1>5. CASE path' = FALSE /\ UNCHANGED <<agent, late>> /\ SetUpFails(c)
  BY <1>1, <1>2, <1>3, <1>5, AfterFailure DEF IInv, Types
<1>6. CASE path' = FALSE /\ agent' = TRUE /\ late' = late + 1 /\ SetUpFails(c)
  <2>1. late' \in Nat /\ late' # 0 /\ filters <= late' /\ \A r \in Rules : rules[r] <= late'
    BY <1>2, <1>6 DEF IInv, Types
  <2> QED BY <1>1, <1>6, <2>1, AfterFailure DEF IInv, Types
<1>7. CASE prog' = "aborted" /\ UNCHANGED <<loopVars, at, path, agent, late, stale>>
  BY <1>1, <1>7
  DEF IInv, Types, Control, Names, Filters, RuleHeld, RuleUp, Up, Stuck, loopVars
<1> QED BY <1>4, <1>5, <1>6, <1>7 DEF RegisterAgent

LEMMA KeptByAddFilter ==
  ASSUME IInv, NEW c \in Clients, AddFilter(c) PROVE IInv'
<1>1. /\ phase = "starting" /\ at = 3 /\ conn /\ prog = "ready"
      /\ UNCHANGED <<conn, connected, path, rules, agent>>
  BY SetUpStep, SettingUpKeeps DEF AddFilter, IInv, Control
<1>2. /\ late \in Nat /\ filters \in Nat /\ filters <= late
      /\ \A r \in Rules : rules[r] \in Nat /\ rules[r] <= late
  BY <1>1, Positions DEF IInv, Types, Filters, RuleHeld, RuleUp, Up
<1>3. CASE filters' = filters + 1 /\ UNCHANGED late /\ SetUpGoesOn(c)
  <2>1. phase' = "starting" /\ thread' = thread /\ at' = 4 /\ UNCHANGED <<prog, stale>>
    BY <1>1, <1>3, GoesOn
  <2>2. Types' /\ Control' /\ Stuck'
    BY <1>1, <1>2, <1>3, <2>1 DEF IInv, Types, Control, Stuck
  <2>3. Names' /\ Filters'
    BY <1>1, <1>2, <1>3, <2>1 DEF IInv, Types, Names, Filters, Up
  <2>4. \A r \in Rules : RuleHeld(r)'
    BY <1>1, <1>2, <1>3, <2>1, Positions DEF IInv, Types, RuleHeld, RuleUp, Up
  <2> QED BY <2>2, <2>3, <2>4 DEF IInv
<1>4. CASE UNCHANGED filters /\ late' = late + 1 /\ SetUpFails(c)
  <2>1. /\ late' \in Nat /\ late' # 0 /\ filters <= late'
        /\ \A r \in Rules : rules[r] <= late'
    BY <1>2, <1>4
  <2> QED BY <1>1, <1>4, <2>1, AfterFailure DEF IInv, Types
<1> QED BY <1>3, <1>4 DEF AddFilter

LEMMA KeptByAddMatch ==
  ASSUME IInv, NEW c \in Clients, NEW r \in Rules, AddMatch(c, r) PROVE IInv'
<1>1. /\ phase = "starting" /\ at = Position(r) /\ at \in 4 .. 6 /\ conn /\ prog = "ready"
      /\ UNCHANGED <<conn, connected, path, filters, agent>>
  BY SetUpStep, SettingUpKeeps, Positions DEF AddMatch, IInv, Control
<1>2. /\ late \in Nat /\ filters \in Nat /\ filters <= late + 1
      /\ \A q \in Rules : rules[q] \in Nat /\ rules[q] <= late + 1
      /\ rules[r] <= late
  BY <1>1 DEF IInv, Types, Filters, RuleHeld, RuleUp, Up
<1>3. CASE connected /\ rules' = [rules EXCEPT ![r] = @ + 1] /\ UNCHANGED late /\ SetUpGoesOn(c)
  <2>1. /\ UNCHANGED <<prog, stale>>
        /\ \/ at = 6 /\ phase' = "on" /\ thread' = "alive" /\ at' = 0
           \/ at < 6 /\ phase' = "starting" /\ thread' = thread /\ at' = at + 1
    BY <1>1, <1>3, GoesOn
  <2>2. rules' \in [Rules -> Nat] /\ rules'[r] = rules[r] + 1
        /\ \A q \in Rules \ {r} : rules'[q] = rules[q]
    BY <1>2, <1>3 DEF IInv, Types
  <2>3. Types'
    BY <1>1, <1>3, <2>1, <2>2 DEF IInv, Types
  <2>4. Control' /\ Stuck'
    BY <1>1, <1>3, <2>1 DEF IInv, Types, Control, Stuck
  <2>5. Names' /\ Filters'
    BY <1>1, <1>2, <1>3, <2>1 DEF IInv, Types, Names, Filters, Up
  <2>6. ASSUME NEW q \in Rules PROVE RuleHeld(q)'
    <3>1. CASE q = r
      BY <1>1, <1>2, <1>3, <2>1, <2>2, <3>1 DEF RuleHeld, RuleUp, Up
    <3>2. CASE q # r
      <4>1. RuleUp(q)' <=> RuleUp(q)
        BY <1>1, <2>1, <3>2, Positions DEF RuleUp, Up
      <4> QED BY <1>1, <1>3, <2>2, <3>2, <4>1 DEF IInv, RuleHeld
    <3> QED BY <3>1, <3>2
  <2> QED BY <2>3, <2>4, <2>5, <2>6 DEF IInv
<1>4. CASE /\ late' = late + 1 /\ SetUpFails(c)
           /\ \/ UNCHANGED rules
              \/ connected /\ rules' = [rules EXCEPT ![r] = @ + 1]
  <2>1. late' \in Nat /\ late' # 0 /\ filters' <= late' /\ rules' \in [Rules -> Nat]
    BY <1>1, <1>2, <1>4 DEF IInv, Types
  <2>2. \A q \in Rules : rules'[q] <= late'
    BY <1>2, <1>4 DEF IInv, Types
  <2> QED BY <1>1, <1>2, <1>4, <2>1, <2>2, AfterFailure DEF IInv, Types
<1> QED BY <1>3, <1>4 DEF AddMatch

LEMMA KeptByStart ==
  ASSUME IInv, NEW c \in Clients, startEventLoop(c) PROVE IInv'
<1>1. UNCHANGED <<conn, connected, path, filters, rules, agent, late, stale, prog>>
      /\ prog = "ready"
  BY DEF startEventLoop, Aside, callVars, regVars
<1>2. CASE Service!Start(c) /\ at' = 1
  <2>1. phase = "off" /\ phase' = "starting" /\ thread' = thread
    BY <1>2 DEF Service!Start
  <2>2. Types' /\ Control' /\ Stuck'
    BY <1>1, <1>2, <2>1 DEF IInv, Types, Control, Stuck
  <2>3. Names' /\ Filters'
    BY <1>1, <1>2, <2>1 DEF IInv, Types, Names, Filters, Up
  <2>4. \A r \in Rules : RuleHeld(r)'
    BY <1>1, <1>2, <2>1, Positions DEF IInv, Types, RuleHeld, RuleUp, Up
  <2> QED BY <2>2, <2>3, <2>4 DEF IInv
<1>3. CASE Service!Refuse /\ UNCHANGED at
  BY <1>1, <1>3, Unseen DEF Service!Refuse, Seen
<1> QED BY <1>2, <1>3 DEF startEventLoop

LEMMA KeptByStop ==
  ASSUME IInv, NEW c \in Clients, stopEventLoop(c) PROVE IInv'
<1>1. UNCHANGED <<conn, connected, path, filters, rules, agent, late, stale, prog, at>>
  BY DEF stopEventLoop, Aside, callVars, regVars
<1>2. CASE Service!Stop(c)
  <2>1. phase = "on" /\ phase' = "stopping" /\ thread' = thread
    BY <1>2 DEF Service!Stop
  <2>2. Types' /\ Control' /\ Stuck'
    BY <1>1, <2>1 DEF IInv, Types, Control, Stuck
  <2>3. Names' /\ Filters'
    BY <1>1, <2>1 DEF IInv, Types, Control, Names, Filters, Up
  <2>4. \A r \in Rules : RuleHeld(r)'
    BY <1>1, <2>1, Positions DEF IInv, Types, Control, RuleHeld, RuleUp, Up
  <2> QED BY <2>2, <2>3, <2>4 DEF IInv
<1>3. CASE Service!Ignore
  BY <1>1, <1>3, Unseen DEF Service!Ignore, Seen
<1> QED BY <1>2, <1>3 DEF stopEventLoop

LEMMA KeptByLoopExits == ASSUME IInv, LoopExits PROVE IInv'
<1>1. /\ phase = "stopping" /\ thread = "alive" /\ at = 0
      /\ UNCHANGED <<conn, connected, path, filters, rules, agent, late, stale, prog>>
  BY DEF LoopExits, Aside, callVars, regVars
<1>2. CASE conn /\ at' = 1 /\ UNCHANGED loopVars
  <2>1. Types' /\ Control' /\ Stuck'
    BY <1>1, <1>2 DEF IInv, Types, Control, Stuck, loopVars
  <2>2. Names' /\ Filters'
    BY <1>1, <1>2 DEF IInv, Types, Names, Filters, Up, loopVars
  <2>3. \A r \in Rules : RuleHeld(r)'
    BY <1>1, <1>2, Positions DEF IInv, Types, RuleHeld, RuleUp, Up, loopVars
  <2> QED BY <2>1, <2>2, <2>3 DEF IInv
<1>3. CASE ~conn /\ Service!End /\ UNCHANGED at
  <2>1. phase' = "stopping" /\ thread' = "ended"
    BY <1>1, <1>3 DEF Service!End
  <2>2. Types' /\ Control' /\ Stuck'
    BY <1>1, <1>3, <2>1 DEF IInv, Types, Control, Stuck
  <2>3. Names' /\ Filters'
    BY <1>1, <1>3, <2>1 DEF IInv, Types, Names, Filters, Up
  <2>4. \A r \in Rules : RuleHeld(r)'
    BY <1>1, <1>3, <2>1, Positions DEF IInv, Types, RuleHeld, RuleUp, Up
  <2> QED BY <2>2, <2>3, <2>4 DEF IInv
<1> QED BY <1>2, <1>3 DEF LoopExits

\* What the invariant says of a tear-down under way.
LEMMA Tearing ==
  ASSUME IInv, NEW step, TearingDown(step), TearDownGoesOn
  PROVE  /\ phase = "stopping" /\ at \in 1 .. 6 /\ thread = "alive" /\ conn /\ ~stale
         /\ phase' = "stopping" /\ UNCHANGED <<conn, connected, prog, stale>>
         /\ \/ at = 6 /\ thread' = "ended" /\ at' = 0
            \/ at < 6 /\ thread' = "alive" /\ at' = at + 1
         /\ Control' /\ Stuck'
<1>1. /\ phase = "stopping" /\ at \in 1 .. 6 /\ thread = "alive" /\ conn /\ ~stale
      /\ UNCHANGED <<conn, connected, prog, stale>>
  BY TearDownStep, TearingDownKeeps DEF IInv, Control, Stuck
<1>2. /\ phase' = "stopping"
      /\ \/ at = 6 /\ thread' = "ended" /\ at' = 0
         \/ at < 6 /\ thread' = "alive" /\ at' = at + 1
  BY <1>1, TearsOn
<1>3. Control' /\ Stuck'
  BY <1>1, <1>2 DEF IInv, Control, Stuck
<1> QED BY <1>1, <1>2, <1>3

LEMMA KeptByUnregisterAgent == ASSUME IInv, UnregisterAgent PROVE IInv'
<1>1. TearingDown("agent") /\ TearDownGoesOn /\ at = 1
      /\ UNCHANGED <<path, filters, rules>>
  BY TearDownStep DEF UnregisterAgent
<1>2. /\ phase = "stopping" /\ thread = "alive" /\ conn
      /\ phase' = "stopping" /\ UNCHANGED <<conn, connected, prog, stale>>
      /\ thread' = "alive" /\ at' = 2 /\ Control' /\ Stuck'
  BY <1>1, Tearing
<1>3. /\ late \in Nat /\ late' \in Nat /\ late <= late' /\ agent' \in BOOLEAN
      /\ late' = 0 => late = 0 /\ ~agent'
  <2>1. late \in Nat /\ agent \in BOOLEAN
    BY DEF IInv, Types
  <2>2. CASE agent' = FALSE /\ UNCHANGED late
    <3>1. agent' \in BOOLEAN /\ ~agent'
      BY <2>2
    <3>2. late' \in Nat /\ late <= late' /\ (late' = 0 => late = 0)
      BY <2>1, <2>2
    <3> QED BY <2>1, <3>1, <3>2
  <2>3. CASE UNCHANGED agent /\ late' = IF agent THEN late + 1 ELSE late
    <3>1. CASE agent
      BY <2>1, <2>3, <3>1
    <3>2. CASE ~agent
      BY <2>1, <2>3, <3>2
    <3> QED BY <3>1, <3>2
  <2> QED BY <2>2, <2>3 DEF UnregisterAgent
<1>4. Types'
  BY <1>1, <1>2, <1>3 DEF IInv, Types
<1>5. Names'
  BY <1>1, <1>2, <1>3 DEF IInv, Names, Up
<1>6. Filters'
  <2>1. Up(3, 6) /\ Up(3, 6)'
    BY <1>1, <1>2 DEF Up
  <2>2. filters \in Nat /\ filters > 0 /\ filters <= late + 1
    BY <2>1 DEF IInv, Types, Filters
  <2>3. filters <= late' + 1
    BY <1>3, <2>2, MoreLate
  <2> QED BY <1>1, <2>1, <2>2, <2>3 DEF Filters
<1>7. \A r \in Rules : RuleHeld(r)'
  BY <1>1, <1>2, <1>3, Positions DEF IInv, Types, RuleHeld, RuleUp, Up
<1> QED BY <1>2, <1>4, <1>5, <1>6, <1>7 DEF IInv

LEMMA KeptByUnregisterPath == ASSUME IInv, UnregisterPath PROVE IInv'
<1>1. TearingDown("path") /\ TearDownGoesOn /\ at = 2 /\ path' = FALSE
      /\ UNCHANGED <<filters, rules, agent, late>>
  BY TearDownStep DEF UnregisterPath
<1>2. /\ phase = "stopping" /\ thread = "alive" /\ conn
      /\ phase' = "stopping" /\ UNCHANGED <<conn, connected, prog, stale>>
      /\ thread' = "alive" /\ at' = 3 /\ Control' /\ Stuck'
  BY <1>1, Tearing
<1>3. Types'
  BY <1>1, <1>2 DEF IInv, Types
<1>4. Names'
  BY <1>1, <1>2 DEF IInv, Names, Up
<1>5. Filters'
  BY <1>1, <1>2 DEF IInv, Types, Filters, Up
<1>6. \A r \in Rules : RuleHeld(r)'
  BY <1>1, <1>2, Positions DEF IInv, Types, RuleHeld, RuleUp, Up
<1> QED BY <1>2, <1>3, <1>4, <1>5, <1>6 DEF IInv

LEMMA KeptByRemoveMatch == ASSUME IInv, NEW r \in Rules, RemoveMatch(r) PROVE IInv'
<1>1. TearingDown(r) /\ TearDownGoesOn /\ at = 9 - Position(r)
      /\ UNCHANGED <<path, filters, agent>>
  BY TearDownStep DEF RemoveMatch
<1>2. /\ phase = "stopping" /\ thread = "alive" /\ conn /\ at \in 3 .. 5
      /\ phase' = "stopping" /\ UNCHANGED <<conn, connected, prog, stale>>
      /\ thread' = "alive" /\ at' = at + 1 /\ Control' /\ Stuck'
  BY <1>1, Tearing, Positions
<1>3. /\ late \in Nat /\ rules \in [Rules -> Nat]
      /\ \A q \in Rules : rules[q] <= late + 1
  BY DEF IInv, Types, RuleHeld
<1>4. \/ /\ connected /\ rules[r] > 0 /\ late' = late
         /\ rules' \in [Rules -> Nat] /\ rules'[r] = rules[r] - 1
         /\ \A q \in Rules \ {r} : rules'[q] = rules[q]
      \/ rules' = rules /\ late' = late + 1
  BY <1>3 DEF RemoveMatch
<1>5. late' \in Nat /\ late <= late' /\ rules' \in [Rules -> Nat]
  BY <1>3, <1>4
<1>6. Types'
  BY <1>1, <1>2, <1>5 DEF IInv, Types
<1>7. Names'
  BY <1>1, <1>2, <1>3, <1>5 DEF IInv, Names, Up
<1>8. Filters'
  <2>1. Up(3, 6) /\ Up(3, 6)'
    BY <1>2 DEF Up
  <2>2. filters \in Nat /\ filters > 0 /\ filters <= late + 1
    BY <2>1 DEF IInv, Types, Filters
  <2>3. filters <= late' + 1
    BY <1>3, <1>5, <2>2, MoreLate
  <2> QED BY <1>1, <2>1, <2>2, <2>3 DEF Filters
<1>9. ASSUME NEW q \in Rules PROVE RuleHeld(q)'
  <2>1. CASE q = r
    <3>1. ~RuleUp(q)' /\ rules'[q] <= late'
      BY <1>1, <1>2, <1>3, <1>4, <2>1, Positions DEF RuleUp, Up
    <3>2. rules'[q] <= late' + 1
      BY <1>5, <3>1
    <3> QED BY <3>1, <3>2 DEF RuleHeld
  <2>2. CASE q # r
    <3>1. Position(q) # Position(r) /\ Position(q) \in 4 .. 6 /\ Position(r) \in 4 .. 6
      BY <2>2, Positions
    <3>2. RuleUp(q)' <=> RuleUp(q)
      BY <1>1, <1>2, <3>1 DEF RuleUp, Up
    <3>3. rules'[q] = rules[q]
      BY <1>4, <2>2
    <3> QED BY <1>2, <1>3, <1>5, <3>2, <3>3 DEF IInv, RuleHeld
  <2> QED BY <2>1, <2>2
<1> QED BY <1>2, <1>6, <1>7, <1>8, <1>9 DEF IInv

LEMMA KeptByRemoveFilter == ASSUME IInv, RemoveFilter PROVE IInv'
<1>1. TearingDown("filter") /\ TearDownGoesOn /\ at = 6
      /\ filters > 0 /\ filters' = filters - 1
      /\ UNCHANGED <<path, rules, agent, late>>
  BY TearDownStep DEF RemoveFilter
<1>2. /\ phase = "stopping" /\ thread = "alive" /\ conn
      /\ phase' = "stopping" /\ UNCHANGED <<conn, connected, prog, stale>>
      /\ thread' = "ended" /\ at' = 0 /\ Control' /\ Stuck'
  BY <1>1, Tearing
<1>3. Types'
  BY <1>1, <1>2 DEF IInv, Types
<1>4. Names'
  BY <1>1, <1>2 DEF IInv, Names, Up
<1>5. Filters'
  BY <1>1, <1>2 DEF IInv, Types, Filters, Up
<1>6. \A r \in Rules : RuleHeld(r)'
  BY <1>1, <1>2, Positions DEF IInv, Types, RuleHeld, RuleUp, Up
<1> QED BY <1>2, <1>3, <1>4, <1>5, <1>6 DEF IInv

LEMMA KeptByStopReturns == ASSUME IInv, NEW c \in Clients, StopReturns(c) PROVE IInv'
<1>1. UNCHANGED <<conn, connected, path, filters, rules, agent, late, prog, at>>
  BY DEF StopReturns, Aside, callVars, regVars
<1>2. CASE Service!Join(c) /\ UNCHANGED stale
  <2>1. phase = "stopping" /\ phase' = phase /\ thread = "ended" /\ thread' = "none"
    BY <1>2 DEF Service!Join
  <2>2. Types' /\ Control' /\ Stuck'
    BY <1>1, <1>2, <2>1 DEF IInv, Types, Control, Stuck
  <2>3. Names' /\ Filters'
    BY <1>1, <2>1 DEF IInv, Types, Names, Filters, Up
  <2>4. \A r \in Rules : RuleHeld(r)'
    BY <1>1, <2>1, Positions DEF IInv, Types, RuleHeld, RuleUp, Up
  <2> QED BY <2>2, <2>3, <2>4 DEF IInv
<1>3. CASE Service!Finish(c) /\ stale' = agent
  <2>1. phase = "stopping" /\ phase' = "off" /\ thread = "none" /\ thread' = "none"
    BY <1>3 DEF Service!Finish
  <2>2. at = 0
    BY <2>1 DEF IInv, Control
  <2>3. Types' /\ Control' /\ Stuck'
    BY <1>1, <1>3, <2>1, <2>2 DEF IInv, Types, Control, Stuck
  <2>4. Names' /\ Filters'
    BY <1>1, <2>1 DEF IInv, Types, Names, Filters, Up
  <2>5. \A r \in Rules : RuleHeld(r)'
    BY <1>1, <2>1, Positions DEF IInv, Types, RuleHeld, RuleUp, Up
  <2> QED BY <2>3, <2>4, <2>5 DEF IInv
<1> QED BY <1>2, <1>3 DEF StopReturns

\* A call, and what BlueZ does for it, touches nothing the invariant sees.
LEMMA AsyncStep ==
  ASSUME NEW c,
         Async!Compose(c) \/ Async!Send(c) \/ Async!SetNotify(c)
           \/ Async!Answer(c) \/ Async!Complete(c)
  PROVE  UNCHANGED connected
BY DEF Async!Compose, Async!Send, Async!SetNotify, Async!Answer, Async!Complete

LEMMA KeptByCalling == ASSUME IInv, NEW c \in Calls, Calling(c) PROVE IInv'
<1>1. CallOnly /\ UNCHANGED connected
  <2>1. CASE MakeCall(c)
    BY <2>1, AsyncStep DEF MakeCall
  <2>2. CASE GoOnCalling(c)
    BY <2>2, AsyncStep DEF GoOnCalling
  <2>3. CASE DispatchReply(c)
    BY <2>3, AsyncStep DEF DispatchReply
  <2>4. CASE BluezReplies(c)
    BY <2>4, AsyncStep DEF BluezReplies
  <2>5. CASE DispatchRequest(c) \/ BluezAsks(c) \/ BluezTimesOut(c)
    BY <2>5 DEF DispatchRequest, BluezAsks, BluezTimesOut, callVars
  <2> QED BY <2>1, <2>2, <2>3, <2>4, <2>5 DEF Calling
<1>2. UNCHANGED Seen
  BY <1>1 DEF CallOnly, loopVars, progVars, regVars, Seen
<1> QED BY <1>2, Unseen

\* BlueZ and the bus only take away: the agent, and the rules with the
\* connection.
LEMMA KeptByBus == ASSUME IInv, Bus PROVE IInv'
<1>1. UNCHANGED <<phase, thread, at, path, conn, filters, late, prog>>
  BY DEF Bus, BluezExits, BluezStarts, BusCloses, Outside, loopVars, progVars
<1>2. CASE BluezExits
  <2>1. agent' = FALSE /\ stale' = FALSE /\ UNCHANGED <<connected, rules>>
    BY <1>2 DEF BluezExits, callVars
  <2> QED
    BY <1>1, <2>1
    DEF IInv, Types, Control, Names, Filters, RuleHeld, RuleUp, Up, Stuck
<1>3. CASE BluezStarts
  BY <1>1, <1>3, Unseen DEF BluezStarts, callVars, Seen
<1>4. CASE BusCloses
  <2>1. /\ agent' = FALSE /\ stale' = FALSE /\ connected' = FALSE
        /\ rules' = [r \in Rules |-> 0]
    BY <1>4 DEF BusCloses, Async!Disconnect
  <2>2. Types' /\ Control' /\ Stuck'
    BY <1>1, <2>1 DEF IInv, Types, Control, Stuck
  <2>3. Names' /\ Filters'
    BY <1>1, <2>1 DEF IInv, Names, Filters, Up
  <2>4. \A r \in Rules : RuleHeld(r)'
    BY <1>1, <2>1 DEF IInv, Types, RuleHeld
  <2> QED BY <2>2, <2>3, <2>4 DEF IInv
<1> QED BY <1>2, <1>3, <1>4 DEF Bus

\* The program gets or gives up its connection only while the loop is off.
LEMMA KeptByProgram == ASSUME IInv, Program PROVE IInv'
<1>1. UNCHANGED <<phase, thread, at, path, agent, stale, connected, filters, late, rules>>
  BY DEF Program, initServices, initializeBluetoothEvent, cleanupBluetoothEvent,
         destoryServices, OutsideOnly, loopVars, callVars
<1>2. conn' \in BOOLEAN
  BY DEF Program, initServices, initializeBluetoothEvent, cleanupBluetoothEvent,
         destoryServices, IInv, Types
<1>3. phase = "off" \/ conn' = conn
  BY DEF Program, initServices, initializeBluetoothEvent, cleanupBluetoothEvent,
         destoryServices, IInv, Control
<1>4. /\ prog' \in {"boot", "services"} => phase = "off" /\ ~agent
      /\ prog' = "ready" => ~agent
  BY DEF Program, initServices, initializeBluetoothEvent, cleanupBluetoothEvent,
         destoryServices, IInv, Control
<1>5. Types' /\ Control' /\ Stuck'
  BY <1>1, <1>2, <1>3, <1>4 DEF IInv, Types, Control, Stuck
<1>6. Names' /\ Filters'
  BY <1>1, <1>3 DEF IInv, Names, Filters, Up
<1>7. \A r \in Rules : RuleHeld(r)'
  BY <1>1, <1>3 DEF IInv, RuleHeld, RuleUp, Up
<1> QED BY <1>5, <1>6, <1>7 DEF IInv

-----------------------------------------------------------------------------
(* The invariant, and what follows from it.                                *)

\* The invariant holds initially, and every step of the program, of BlueZ
\* and of the bus keeps it.
THEOREM Invariance == Spec => []IInv
<1>1. Init => IInv
  <2> SUFFICES ASSUME Init PROVE IInv
    OBVIOUS
  <2>1. /\ phase = "off" /\ thread = "none" /\ connected = TRUE /\ conn = FALSE
        /\ prog = "boot" /\ at = 0 /\ path = FALSE /\ agent = FALSE /\ stale = FALSE
        /\ filters = 0 /\ late = 0 /\ rules = [r \in Rules |-> 0]
    BY DEF Init, Async!Init, Service!Init
  <2>2. Types /\ Control /\ Stuck
    BY <2>1 DEF Types, Control, Stuck
  <2>3. Names /\ Filters
    BY <2>1 DEF Names, Filters, Up
  <2>4. \A r \in Rules : RuleHeld(r)
    BY <2>1 DEF RuleHeld, RuleUp, Up
  <2> QED BY <2>2, <2>3, <2>4 DEF IInv
<1>2. IInv /\ [Next]_vars => IInv'
  <2> SUFFICES ASSUME IInv, [Next]_vars PROVE IInv'
    OBVIOUS
  <2>1. CASE Program
    BY <2>1, KeptByProgram
  <2>2. CASE Stopping
    BY <2>2, KeptByLoopExits, KeptByUnregisterAgent, KeptByUnregisterPath,
       KeptByRemoveFilter, KeptByRemoveMatch DEF Stopping
  <2>3. CASE Bus
    BY <2>3, KeptByBus
  <2>4. ASSUME NEW c \in Clients, startEventLoop(c) \/ stopEventLoop(c) \/ StopReturns(c)
        PROVE  IInv'
    BY <2>4, KeptByStart, KeptByStop, KeptByStopReturns
  <2>5. ASSUME NEW c \in Clients, Starting(c) PROVE IInv'
    BY <2>5, KeptByStartWithoutSetUp, KeptByRegisterPath, KeptByRegisterAgent,
       KeptByAddFilter, KeptByAddMatch DEF Starting
  <2>6. ASSUME NEW c \in Calls, Calling(c) PROVE IInv'
    BY <2>6, KeptByCalling
  <2>7. CASE UNCHANGED vars
    BY <2>7, Unseen DEF vars, loopVars, callVars, progVars, regVars, Seen
  <2> QED BY <2>1, <2>2, <2>3, <2>4, <2>5, <2>6, <2>7 DEF Next
<1> QED BY <1>1, <1>2, PTL DEF Spec

(* While the loop is on, with its connection, the path, the filter and     *)
(* the rules are there, whatever earlier starts left behind.               *)
THEOREM WhatRunsIsHeard == Spec => []RunningIsHeard
<1>1. IInv => RunningIsHeard
  BY Positions DEF IInv, Names, Filters, RuleHeld, RuleUp, Up, RunningIsHeard
<1> QED BY <1>1, Invariance, PTL

(* A loop that is off left no more than what failed late.                  *)
THEOREM NothingPilesUp == Spec => []StoppedLeavesNothing
<1>1. IInv => StoppedLeavesNothing
  BY DEF IInv, Types, Names, Filters, RuleHeld, RuleUp, Up, StoppedLeavesNothing
<1> QED BY <1>1, Invariance, PTL

(* Without a late failure BlueZ never has an agent whose path is gone.     *)
THEOREM AgentsCanBeAsked == Spec => []AgentHasPath
<1>1. IInv => AgentHasPath
  BY DEF IInv, Control, Types, Names, Up, AgentHasPath
<1> QED BY <1>1, Invariance, PTL

(* An agent that BlueZ kept keeps the loop off.                            *)
THEOREM KeptAgentIsFinal == Spec => []StaleAgentBlocks
<1>1. IInv => StaleAgentBlocks
  BY DEF IInv, Stuck, StaleAgentBlocks
<1> QED BY <1>1, Invariance, PTL

-----------------------------------------------------------------------------
(* The calls of a session are calls as AsyncCall has them.                 *)

Memory == INSTANCE AsyncCallProofs

LEMMA CallsRefine == Spec => Memory!Spec
<1>1. Init => Memory!Init
  BY DEF Init, Async!Init, Memory!Init
<1>2. [Next]_vars => [Memory!Next]_Memory!vars
  <2> SUFFICES ASSUME [Next]_vars PROVE [Memory!Next]_Memory!vars
    OBVIOUS
  <2>1. ASSUME NEW c \in Calls,
               MakeCall(c) \/ GoOnCalling(c) \/ DispatchReply(c) \/ BluezReplies(c)
        PROVE  Memory!Next
    BY <2>1 DEF MakeCall, GoOnCalling, DispatchReply, BluezReplies, Memory!Next,
       Async!Compose, Async!Send, Async!SetNotify, Async!Answer, Async!Complete,
       Async!Return, Async!dbus_func_args_async_callback, Async!mem,
       Memory!Compose, Memory!Send, Memory!SetNotify, Memory!Answer, Memory!Complete,
       Memory!Return, Memory!dbus_func_args_async_callback, Memory!mem
  <2>2. CASE BusCloses
    BY <2>2 DEF BusCloses, Memory!Next, Async!Disconnect, Memory!Disconnect,
                Async!mem, Memory!mem
  <2>3. CASE UNCHANGED callVars
    BY <2>3 DEF callVars, Memory!vars, Memory!mem
  <2>4. ASSUME NEW c \in Calls, DispatchRequest(c) \/ BluezAsks(c) \/ BluezTimesOut(c)
        PROVE  UNCHANGED callVars
    BY <2>4 DEF DispatchRequest, BluezAsks, BluezTimesOut
  <2>5. CASE Program \/ BluezExits \/ BluezStarts
    BY <2>3, <2>5 DEF Program, initServices, initializeBluetoothEvent,
       cleanupBluetoothEvent, destoryServices, OutsideOnly, BluezExits, BluezStarts
  <2>6. CASE Stopping
    BY <2>3, <2>6 DEF Stopping, LoopExits, UnregisterAgent, UnregisterPath,
       RemoveFilter, RemoveMatch, TearingDown, Aside
  <2>7. ASSUME NEW c \in Clients,
               startEventLoop(c) \/ stopEventLoop(c) \/ Starting(c) \/ StopReturns(c)
        PROVE  UNCHANGED callVars
    BY <2>7 DEF startEventLoop, stopEventLoop, Starting, StopReturns,
       StartWithoutSetUp, RegisterPath, RegisterAgent, AddFilter, AddMatch,
       SettingUp, Aside
  <2>8. CASE UNCHANGED vars
    BY <2>3, <2>8 DEF vars
  <2> QED
    BY <2>1, <2>2, <2>3, <2>4, <2>5, <2>6, <2>7, <2>8 DEF Next, Bus, Calling
<1> QED BY <1>1, <1>2, PTL DEF Spec, Memory!Spec

(* The callback has its memory however often the loop starts and stops     *)
(* meanwhile.                                                              *)
THEOREM SessionMemory == Spec => []CallbackHasItsMemory
<1>1. Memory!CallbackHasItsMemory => CallbackHasItsMemory
  BY DEF CallbackHasItsMemory, Memory!CallbackHasItsMemory, Async!CallbackHasItsMemory
<1> QED BY <1>1, CallsRefine, Memory!CallbackMemory, PTL

(* And it runs at most once, and leaves nothing of the call.               *)
THEOREM SessionReleases == Spec => []CallbackReleases
<1>1. Memory!CallbackReleases => CallbackReleases
  BY DEF CallbackReleases, Memory!CallbackReleases, Async!CallbackReleases
<1> QED BY <1>1, CallsRefine, Memory!CallbackReleasesAll, PTL

-----------------------------------------------------------------------------
(* The types of what the invariant does not speak of.                      *)

Places == {"boot", "services", "ready", "cleaned", "ended", "aborted"}
Requests == {"no", "sent", "taken", "stale", "over"}

RestTyped ==
  /\ holder \in Clients \cup {NoOne} /\ reported \in {0, 1}
  /\ prog \in Places
  /\ {services, adapter, remote, bluez} \subseteq BOOLEAN
  /\ asked \in [Calls -> Requests]
  /\ used \in [starts : 0 .. MaxStarts, restarts : 0 .. MaxRestarts]

\* What is counted stays in its bound.
LEMMA CountedOn ==
  ASSUME RestTyped
  PROVE  /\ used.starts < MaxStarts =>
              [used EXCEPT !.starts = @ + 1]
                \in [starts : 0 .. MaxStarts, restarts : 0 .. MaxRestarts]
         /\ used.restarts < MaxRestarts =>
              [used EXCEPT !.restarts = @ + 1]
                \in [starts : 0 .. MaxStarts, restarts : 0 .. MaxRestarts]
BY SessionAssumption DEF RestTyped, SessionAssumption

\* A step of the loop's service hands the mutex to the client it is for.
LEMMA ServiceTyped ==
  ASSUME RestTyped, NEW c \in Clients,
         \/ Service!Start(c) \/ Service!Launch(c) \/ Service!Abandon(c)
         \/ Service!Stop(c) \/ Service!Join(c) \/ Service!Finish(c)
         \/ Service!Refuse \/ Service!Ignore \/ Service!End \/ UNCHANGED loopVars
  PROVE  holder' \in Clients \cup {NoOne} /\ reported' \in {0, 1}
BY DEF RestTyped, Service!Start, Service!Launch, Service!Abandon, Service!Stop,
       Service!Join, Service!Finish, Service!Refuse, Service!Ignore, Service!End,
       loopVars

LEMMA RestInv == Spec => []RestTyped
<1>1. Init => RestTyped
  <2> SUFFICES ASSUME Init PROVE RestTyped
    OBVIOUS
  <2>1. 0 \in 0 .. MaxStarts /\ 0 \in 0 .. MaxRestarts
    BY SessionAssumption DEF SessionAssumption
  <2>2. used \in [starts : 0 .. MaxStarts, restarts : 0 .. MaxRestarts]
    BY <2>1 DEF Init
  <2>3. holder \in Clients \cup {NoOne} /\ reported \in {0, 1}
    BY DEF Init, Service!Init
  <2>4. prog \in Places /\ asked \in [Calls -> Requests]
    BY DEF Init, Places, Requests
  <2>5. {services, adapter, remote, bluez} \subseteq BOOLEAN
    BY DEF Init
  <2> QED BY <2>2, <2>3, <2>4, <2>5 DEF RestTyped
<1>2. RestTyped /\ [Next]_vars => RestTyped'
  <2> SUFFICES ASSUME RestTyped, [Next]_vars PROVE RestTyped'
    OBVIOUS
  <2>1. CASE Program
    BY <2>1 DEF Program, initServices, initializeBluetoothEvent, cleanupBluetoothEvent,
                destoryServices, OutsideOnly, loopVars, RestTyped, Places
  <2>2. CASE Stopping
    <3>1. UNCHANGED <<prog, services, adapter, remote, bluez, asked, used>>
      BY <2>2 DEF Stopping, LoopExits, UnregisterAgent, UnregisterPath,
                  RemoveFilter, RemoveMatch, TearingDown, Aside
    <3>2. UNCHANGED loopVars \/ Service!End
      BY <2>2 DEF Stopping, LoopExits, UnregisterAgent, UnregisterPath,
                  RemoveFilter, RemoveMatch, TearDownGoesOn
    <3> QED BY <3>1, <3>2 DEF RestTyped, Service!End, loopVars
  <2>3. CASE Bus
    <3>1. /\ UNCHANGED <<holder, reported, prog, services, adapter, remote>>
          /\ bluez' \in BOOLEAN
      BY <2>3 DEF Bus, BluezExits, BluezStarts, BusCloses, Outside, loopVars, progVars,
                  RestTyped
    <3>2. asked' \in [Calls -> Requests]
      BY <2>3 DEF Bus, BluezExits, BluezStarts, BusCloses, WaitsNoMore, RestTyped, Requests
    <3>3. used' \in [starts : 0 .. MaxStarts, restarts : 0 .. MaxRestarts]
      BY <2>3, CountedOn DEF Bus, BluezExits, BluezStarts, BusCloses, RestTyped
    <3> QED BY <3>1, <3>2, <3>3 DEF RestTyped
  <2>4. ASSUME NEW c \in Clients, startEventLoop(c) \/ stopEventLoop(c) \/ StopReturns(c)
        PROVE  RestTyped'
    <3>1. UNCHANGED <<prog, services, adapter, remote, bluez, asked>>
      BY <2>4 DEF startEventLoop, stopEventLoop, StopReturns, Aside
    <3>2. used' \in [starts : 0 .. MaxStarts, restarts : 0 .. MaxRestarts]
      BY <2>4, CountedOn DEF startEventLoop, stopEventLoop, StopReturns, RestTyped
    <3>3. \/ Service!Start(c) \/ Service!Refuse \/ Service!Stop(c)
          \/ Service!Ignore \/ Service!Join(c) \/ Service!Finish(c)
      BY <2>4 DEF startEventLoop, stopEventLoop, StopReturns
    <3> QED BY <3>1, <3>2, <3>3, ServiceTyped DEF RestTyped
  <2>5. ASSUME NEW c \in Clients, Starting(c) PROVE RestTyped'
    <3>1. UNCHANGED <<services, adapter, remote, bluez, asked, used>>
      BY <2>5 DEF Starting, StartWithoutSetUp, RegisterPath, RegisterAgent,
                  AddFilter, AddMatch, SettingUp, Aside
    <3>2. prog' = prog \/ prog' = "aborted"
      BY <2>5 DEF Starting, StartWithoutSetUp, RegisterPath, RegisterAgent,
                  AddFilter, AddMatch, SetUpGoesOn, SetUpFails
    <3>3. Service!Launch(c) \/ Service!Abandon(c) \/ UNCHANGED loopVars
      BY <2>5 DEF Starting, StartWithoutSetUp, RegisterPath, RegisterAgent,
                  AddFilter, AddMatch, SetUpGoesOn, SetUpFails
    <3> QED BY <3>1, <3>2, <3>3, ServiceTyped DEF RestTyped, Places
  <2>6. ASSUME NEW c \in Calls, Calling(c) PROVE RestTyped'
    <3>1. UNCHANGED <<holder, reported, prog, services, adapter, remote, bluez, used>>
      BY <2>6 DEF Calling, MakeCall, GoOnCalling, DispatchReply, DispatchRequest,
                  BluezReplies, BluezAsks, BluezTimesOut, CallOnly, loopVars, progVars
    <3>2. asked' \in [Calls -> Requests]
      BY <2>6 DEF Calling, MakeCall, GoOnCalling, DispatchReply, DispatchRequest,
                  BluezReplies, BluezAsks, BluezTimesOut, WaitsNoMore, RestTyped, Requests
    <3> QED BY <3>1, <3>2 DEF RestTyped
  <2>7. CASE UNCHANGED vars
    BY <2>7 DEF vars, loopVars, progVars, RestTyped
  <2> QED BY <2>1, <2>2, <2>3, <2>4, <2>5, <2>6, <2>7 DEF Next
<1> QED BY <1>1, <1>2, PTL DEF Spec

\* The memory of the calls, with all its types.
LEMMA CallsInv == Spec => []Memory!IInv
BY CallsRefine, Memory!Invariance, PTL

(* The variables of a session keep their types, and a step is under way    *)
(* only inside setUpEventLoop and tearDownEventLoop.                       *)
THEOREM SessionTyped == Spec => []TypeOK
<1>1. IInv /\ RestTyped /\ Memory!IInv => TypeOK
  <2> SUFFICES ASSUME IInv, RestTyped, Memory!IInv PROVE TypeOK
    OBVIOUS
  <2>1. Async!TypeOK
    BY DEF Memory!IInv, Memory!TypeOK, Async!TypeOK
  <2>2. at # 0 => phase = "starting" \/ (phase = "stopping" /\ thread = "alive" /\ conn)
    BY DEF IInv, Types, Control
  <2> QED BY <2>1, <2>2 DEF IInv, Types, RestTyped, Places, Requests, TypeOK
<1> QED BY <1>1, Invariance, RestInv, CallsInv, PTL
=============================================================================
