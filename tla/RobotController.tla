-------------------------- MODULE RobotController --------------------------
(***************************************************************************)
(* The robot's motion controller, loop() of                                *)
(* Arduino/robot/sketch_apr05a.ino/sketch_apr05a.ino.ino: voice commands   *)
(* become pulses on the call pins, and the robot turns on the spot until   *)
(* its compass sector faces the heading of its user, which the Bluetooth   *)
(* remote reports.  One iteration of the loop is one action.               *)
(*                                                                         *)
(* The compass is read as the number of its 30-degree sector, 12 for the   *)
(* single reading 360, which no case of the switch is for.  Driving        *)
(* forward and back is out of the model as it is out of the program:       *)
(* getBleDistance() returns at once and every call of hideBlock() is a     *)
(* comment.                                                                *)
(***************************************************************************)
EXTENDS Integers, FiniteSets

CONSTANTS UserAngles,   \* headings the remote reports, a subset of 0 .. 360
          Commands,     \* what the speech module recognises, 0 for nothing
          Durations,    \* how long an iteration may take
          PulseLimit,   \* length of a pulse, 1500 ms in the code
          MaxMoves      \* changes of the user's heading in a behaviour

ASSUME ControllerAssumption ==
  /\ UserAngles \subseteq 0 .. 360 /\ UserAngles # {}
  /\ Commands \subseteq 0 .. 36
  /\ Durations \subseteq Nat \ {0}
  /\ PulseLimit \in Nat
  /\ MaxMoves \in Nat

Sectors == 0 .. 12
CallPins == {10, 11, 12}

VARIABLES heading,    \* environment: compass sector the robot looks into
          turned,     \* environment: the robot has turned since the last reading
          user,       \* environment: the user's heading
          val,        \* environment: the mode switch on A0
          motor,      \* what the wheels were last told: "brake", "left", "right"
          aaa,        \* 1 once the robot has braked because it faces the user
          pin8,       \* facing the user, as told to the main board
          pin4,       \* follow mode, as told to the main board
          high,       \* the call pins that are HIGH
          isPing,     \* a pulse is under way
          timeCount,  \* its age
          moves       \* changes of the user's heading so far

wheels == <<motor, aaa, pin8>>
voice == <<pin4, high, isPing, timeCount>>
world == <<heading, user, val, moves>>
vars == <<wheels, voice, world, turned>>

Levels == {"low", "middle", "high"}   \* val <= 100, between, val >= 800

Init ==
  /\ heading \in Sectors /\ user \in UserAngles /\ val \in Levels
  /\ turned = FALSE
  /\ motor = "brake" /\ aaa = 0
  /\ pin8 = FALSE /\ pin4 = TRUE
  /\ high = {} /\ isPing = FALSE /\ timeCount = 0
  /\ moves = 0

-----------------------------------------------------------------------------
(* The switch on the sector.  A case has a range of headings it takes for   *)
(* ahead, and two borders: a user between them is turned to one way, a user *)
(* outside them the other way.                                              *)
Case(ahead, bot, top, between) ==
  [ahead |-> ahead, bot |-> bot, top |-> top, between |-> between]

(* Mutant: sector 1 takes its borders for those of sector 3. *)
Cases0To3Swapped(k) ==
  CASE k = 0 -> Case((351 .. 999) \cup (0 .. 34), 35, 175, "right")
    [] k = 1 -> Case(36 .. 69, 155, 270, "right")
    [] k = 2 -> Case(71 .. 109, 70, 250, "right")
    [] k = 3 -> Case(111 .. 154, 155, 270, "right")

Cases0To3(k) ==
  CASE k = 0 -> Case((351 .. 999) \cup (0 .. 34), 35, 175, "right")
    [] k = 1 -> Case(36 .. 69, 35, 200, "right")
    [] k = 2 -> Case(71 .. 109, 70, 250, "right")
    [] k = 3 -> Case(111 .. 154, 155, 270, "right")

Cases4To7(k) ==
  CASE k = 4 -> Case(156 .. 179, 180, 330, "right")
    [] k \in 5 .. 7 -> Case(181 .. 229, 70, 230, "left")

Cases8To11(k) ==
  CASE k = 8 -> Case(181 .. 254, 70, 255, "left")
    [] k = 9 -> Case(231 .. 265, 115, 230, "left")
    [] k = 10 -> Case(266 .. 287, 115, 265, "left")
    [] k = 11 -> Case(288 .. 349, 170, 350, "left")

CaseOf(k) ==
  CASE k \in 0 .. 3 -> Cases0To3(k)
    [] k \in 4 .. 7 -> Cases4To7(k)
    [] k \in 8 .. 11 -> Cases8To11(k)

Opposite(way) == IF way = "right" THEN "left" ELSE "right"

(* What the case of sector k decides when the user is read to be at u.  The *)
(* default case, for the reading 360, does what the last branch of the      *)
(* others does.                                                             *)
Decision(k, u) ==
  IF k = 12 THEN "none" ELSE
  LET c == CaseOf(k) IN
  CASE u \in c.ahead -> "ahead"
    [] u \notin c.ahead /\ c.bot < u /\ u < c.top -> c.between
    [] u \notin c.ahead /\ (u < c.bot \/ u > c.top) -> Opposite(c.between)
    [] OTHER -> "none"

(* manualBle() takes the last three characters of whatever has arrived for  *)
(* a heading.  Whole, they are the user's.  Cut short, they are the end of  *)
(* an earlier heading a and the beginning of the user's u; a heading and    *)
(* the beginning of a reply of the Bluetooth module; or fewer than three    *)
(* characters or letters, which read as 0.                                  *)
Torn(a, u) ==
  {(a % 100) * 10 + u \div 100, (a % 10) * 100 + u \div 10, u % 100, u % 10, 0}

(* What sector k may decide on a torn reading of the heading u. *)
Misread ==
  [k \in Sectors |-> [u \in UserAngles |->
     {Decision(k, w) : w \in UNION {Torn(a, u) : a \in UserAngles}}]]

(* Mutant: turning does not forget that the robot had faced the user. *)
TurnKeepsFacing(way) ==
  /\ motor' = way
  /\ UNCHANGED <<aaa, pin8>>

Turn(way) ==
  /\ motor' = way
  /\ aaa' = 0
  /\ pin8' = FALSE

(* Facing the user: brake, but only the first time. *)
Ahead ==
  /\ motor' = IF aaa = 0 THEN "brake" ELSE motor
  /\ aaa' = 1
  /\ pin8' = TRUE

(* The last branch of every case, and the default case: the heading is on a *)
(* border, or unknown.                                                      *)
Neither == motor' = "brake" /\ aaa' = 0 /\ UNCHANGED pin8

(* The switch carries out decision d. *)
Steer(d) ==
  \/ d = "ahead" /\ Ahead
  \/ d \in {"left", "right"} /\ Turn(d)
  \/ d = "none" /\ Neither

(* manualBle() without data brakes, then asks for a connection; the switch  *)
(* then sees -1 / 30 = 0 and the angle -1.                                  *)
Silent ==
  \/ val = "high" /\ Neither
  \/ val # "high" /\ motor' = "brake" /\ UNCHANGED <<aaa, pin8>>

(* With data that one of the decisions is made on: the mode switch decides; *)
(* in its middle the wheels are left alone.                                 *)
Heard(decisions) ==
  \/ val = "high" /\ \E d \in decisions : Steer(d)
  \/ val = "middle" /\ UNCHANGED wheels
  \/ val = "low" /\ motor' = "brake" /\ UNCHANGED <<aaa, pin8>>

-----------------------------------------------------------------------------
(* The pin a voice command raises: answer, hang up, call. *)
PinOf(command) ==
  CASE command \in 1 .. 16 -> 10
    [] command \in 17 .. 25 -> 11
    [] command \in 26 .. 29 -> 12

(* Mutant: a command does not lower the other pins. *)
VoiceKeepsPins(command, dt) ==
  LET over == isPing /\ timeCount + dt > PulseLimit
      rest == IF over THEN {} ELSE high
  IN  /\ timeCount' = CASE over -> 0
                        [] isPing /\ ~over -> timeCount + dt
                        [] OTHER -> timeCount
      /\ pin4' = ((pin4 \/ command = 30) /\ command \notin 31 .. 36)
      /\ high' = IF command \in 1 .. 29 THEN rest \cup {PinOf(command)} ELSE rest
      /\ isPing' = ((isPing /\ ~over) \/ command \in 1 .. 29)

(* The first half of loop(): a pulse that is old enough ends, then a        *)
(* recognised command starts one.  A command during a pulse does not start  *)
(* the count again.                                                         *)
Voice(command, dt) ==
  LET over == isPing /\ timeCount + dt > PulseLimit
      rest == IF over THEN {} ELSE high
  IN  /\ timeCount' = CASE over -> 0
                        [] isPing /\ ~over -> timeCount + dt
                        [] OTHER -> timeCount
      /\ pin4' = ((pin4 \/ command = 30) /\ command \notin 31 .. 36)
      /\ high' = IF command \in 1 .. 29 THEN {PinOf(command)} ELSE rest
      /\ isPing' = ((isPing /\ ~over) \/ command \in 1 .. 29)

(* One iteration of loop(), with a whole heading from the remote, with a    *)
(* torn one, and with none.                                                 *)
LoopHeard ==
  /\ \E command \in Commands, dt \in Durations : Voice(command, dt)
  /\ Heard({Decision(heading, user)})
  /\ turned' = FALSE
  /\ UNCHANGED world

LoopTorn ==
  /\ \E command \in Commands, dt \in Durations : Voice(command, dt)
  /\ Heard(Misread[heading][user])
  /\ turned' = FALSE
  /\ UNCHANGED world

LoopSilent ==
  /\ \E command \in Commands, dt \in Durations : Voice(command, dt)
  /\ Silent
  /\ turned' = FALSE
  /\ UNCHANGED world

-----------------------------------------------------------------------------
(* The wheels turn the robot, at most by one sector between two readings;   *)
(* it may come to stand on the reading 360 between sectors 11 and 0.        *)
Rotate ==
  /\ ~turned
  /\ turned' = TRUE
  /\ heading' \in CASE motor = "right" ->
                         IF heading \in {11, 12} THEN {(heading + 1) % 13, 0}
                                                 ELSE {heading + 1}
                    [] motor = "left" ->
                         IF heading \in {0, 12} THEN {(heading + 12) % 13, 11}
                                                ELSE {heading - 1}
                    [] motor = "brake" -> {}
  /\ UNCHANGED <<wheels, voice, user, val, moves>>

(* The user turns, or somebody sets the mode switch. *)
UserMoves ==
  /\ moves < MaxMoves
  /\ user' \in UserAngles
  /\ val' \in Levels
  /\ moves' = moves + 1
  /\ UNCHANGED <<wheels, voice, heading, turned>>

Next == LoopHeard \/ LoopTorn \/ LoopSilent \/ Rotate \/ UserMoves

Spec == Init /\ [][Next]_vars

(* The loop runs for ever and the remote is heard whole again and again;    *)
(* wheels told to turn again and again move the robot.                      *)
FairSpec == Spec /\ SF_vars(LoopHeard) /\ SF_vars(Rotate)

-----------------------------------------------------------------------------
(* A robot that reports facing its user stands still, although Ahead brakes *)
(* only the first time and pin 8 outlives lost data and mode changes.       *)
FacingIsStill == aaa = 1 \/ pin8 => motor = "brake"

(* At most one call pin is HIGH, one is exactly while a pulse is under way, *)
(* and so the main board never sees two commands at once.                   *)
OnePulse == Cardinality(high) = IF isPing THEN 1 ELSE 0

(* The headings on which some case of the switch has a border. *)
Borders == {35, 70, 110, 115, 155, 170, 175, 180, 200, 230, 250, 255, 265,
            270, 330, 350}

(* The twelve cases agree with each other: in follow mode, with a user who  *)
(* stands still off the borders, the robot ends up facing the user, from    *)
(* wherever it looks and whatever torn readings have made it do before,     *)
(* unless it stops on the reading 360 or torn readings go on making it do   *)
(* what neither the whole heading nor silence would.                        *)
FacesUser ==
  (/\ <>[](val = "high" /\ user \notin Borders /\ heading # 12)
   /\ <>[][LoopTorn => LoopHeard \/ LoopSilent]_vars)
    => <>[](pin8 /\ motor = "brake" /\ user \in CaseOf(heading).ahead)
=============================================================================
