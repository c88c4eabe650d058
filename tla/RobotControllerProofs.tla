----------------------- MODULE RobotControllerProofs -----------------------
(***************************************************************************)
(* The motion controller for every set of headings, commands and durations *)
(* and every length of a pulse: the wheels are braked when the robot says  *)
(* it faces its user, and the call pins pulse one at a time.               *)
(***************************************************************************)
EXTENDS RobotController, FiniteSetTheorems, TLAPS

(* FacingIsStill is inductive once aaa is known to be a flag: Ahead brakes  *)
(* only when it is 0.                                                       *)
FacingInv == aaa \in {0, 1} /\ pin8 \in BOOLEAN /\ FacingIsStill

(* The branches of loop() that command the wheels keep FacingInv. *)
LEMMA WheelsKeepFacing ==
  ASSUME FacingInv, Silent \/ \E ds : Heard(ds)
  PROVE  FacingInv'
<1> USE DEF FacingInv, FacingIsStill
<1>1. ASSUME NEW way \in {"left", "right"}, Turn(way) PROVE FacingInv'
  <2>1. aaa' = 0 /\ ~pin8' /\ pin8' \in BOOLEAN
    BY <1>1, Zenon DEF Turn
  <2>2. aaa' \in {0, 1} /\ aaa' # 1
    BY <2>1
  <2> QED BY <2>1, <2>2, Zenon
<1>2. CASE Ahead
  BY <1>2 DEF Ahead
<1>3. CASE Neither
  BY <1>3 DEF Neither
<1>4. CASE motor' = "brake" /\ UNCHANGED <<aaa, pin8>>
  BY <1>4
<1>5. CASE UNCHANGED wheels
  BY <1>5 DEF wheels
<1>6. ASSUME NEW ds, Heard(ds) PROVE FacingInv'
  <2>1. ASSUME NEW d \in ds, Steer(d) PROVE FacingInv'
    BY <2>1, <1>1, <1>2, <1>3 DEF Steer
  <2> QED BY <1>6, <2>1, <1>4, <1>5 DEF Heard
<1>7. CASE Silent
  BY <1>7, <1>3, <1>4 DEF Silent
<1> QED BY <1>6, <1>7

(* A robot that reports facing its user stands still (Stop() of loop() is   *)
(* guarded by aaa == 0, pin 8 is lowered only by a turn).                   *)
THEOREM ControllerFacingIsStill == Spec => []FacingIsStill
<1>1. Init => FacingInv
  BY DEF Init, FacingInv, FacingIsStill
<1>2. FacingInv /\ [Next]_vars => FacingInv'
  <2> SUFFICES ASSUME FacingInv, [Next]_vars PROVE FacingInv'
    OBVIOUS
  <2>1. CASE LoopHeard \/ LoopTorn
    BY <2>1, WheelsKeepFacing DEF LoopHeard, LoopTorn
  <2>2. CASE LoopSilent
    BY <2>2, WheelsKeepFacing DEF LoopSilent
  <2>3. CASE UNCHANGED wheels
    BY <2>3 DEF wheels, FacingInv, FacingIsStill
  <2>4. Rotate \/ UserMoves \/ UNCHANGED vars => UNCHANGED wheels
    BY DEF Rotate, UserMoves, vars
  <2> QED BY <2>1, <2>2, <2>3, <2>4 DEF Next
<1>3. FacingInv => FacingIsStill
  BY DEF FacingInv
<1> QED BY <1>1, <1>2, <1>3, PTL DEF Spec

-----------------------------------------------------------------------------
(* OnePulse is inductive for Boolean isPing. *)
PulseInv == isPing \in BOOLEAN /\ OnePulse

(* The voice half of loop() keeps PulseInv. *)
LEMMA VoiceKeepsPulse ==
  ASSUME PulseInv, NEW command, NEW dt, Voice(command, dt)
  PROVE  PulseInv'
<1> DEFINE over == isPing /\ timeCount + dt > PulseLimit
<1> DEFINE starts == command \in 1 .. 29
<1>1. CASE starts
  <2>1. isPing' = TRUE /\ high' = {PinOf(command)}
    BY <1>1 DEF Voice
  <2> QED BY <2>1, FS_Singleton DEF PulseInv, OnePulse
<1>2. CASE ~starts /\ over
  <2>1. isPing' = FALSE /\ high' = {}
    BY <1>2 DEF Voice
  <2> QED BY <2>1, FS_EmptySet DEF PulseInv, OnePulse
<1>3. CASE ~starts /\ ~over
  <2>1. isPing' = isPing /\ high' = high
    BY <1>3 DEF Voice, PulseInv
  <2> QED BY <2>1 DEF PulseInv, OnePulse
<1> QED BY <1>1, <1>2, <1>3

(* At most one call pin is HIGH, and one is exactly while isPing, however   *)
(* commands and the end of a pulse fall together in loop().                 *)
THEOREM ControllerOnePulse == Spec => []OnePulse
<1>1. Init => PulseInv
  BY FS_EmptySet DEF Init, PulseInv, OnePulse
<1>2. PulseInv /\ [Next]_vars => PulseInv'
  <2> SUFFICES ASSUME PulseInv, [Next]_vars PROVE PulseInv'
    OBVIOUS
  <2>1. CASE LoopHeard \/ LoopTorn \/ LoopSilent
    BY <2>1, VoiceKeepsPulse DEF LoopHeard, LoopTorn, LoopSilent
  <2>2. CASE UNCHANGED voice
    BY <2>2 DEF voice, PulseInv, OnePulse
  <2>3. Rotate \/ UserMoves \/ UNCHANGED vars => UNCHANGED voice
    BY DEF Rotate, UserMoves, vars
  <2> QED BY <2>1, <2>2, <2>3 DEF Next
<1>3. PulseInv => OnePulse
  BY DEF PulseInv
<1> QED BY <1>1, <1>2, <1>3, PTL DEF Spec
=============================================================================
