--------------------------- MODULE CallSignalling ---------------------------
(***************************************************************************)
(* Setting up, keeping and ending a call: the listener thread and the user *)
(* interface of the phone (service/PhoneAnswerListener.java, with the      *)
(* activities that call it) against those of the robot (python/gui.py),    *)
(* exchanging one-byte messages through the relay's UDP forwarding.        *)
(*                                                                         *)
(* Each listener loops over four branches chosen by unsynchronised flags   *)
(* the user interface also writes; a branch blocks in receive(), so an     *)
(* iteration is two steps: the choice (and its send), and what is done      *)
(* with the message or timeout, by the branch chosen earlier whatever the   *)
(* flags are by then.  A user-interface handler that tests a flag and then  *)
(* writes one is two steps as well.                                         *)
(*                                                                         *)
(* In flight is a bag of messages per receiver: any may come next, each may *)
(* be lost, and a receive may time out although something is in flight.     *)
(* A side may be without its network for a while: its sends then throw, and  *)
(* what follows them in the branch is not done.                              *)
(***************************************************************************)
EXTENDS Integers, FiniteSets

CONSTANTS MaxInFlight,   \* copies of one message in flight to one receiver
          MaxClicks,     \* user actions of a behaviour
          Outages,       \* the sides whose network may fail
          MaxDown        \* the sides whose network is down at a time

ASSUME CallAssumption ==
  /\ MaxInFlight \in Nat \ {0} /\ MaxClicks \in Nat
  /\ Outages \subseteq {"phone", "robot"} /\ MaxDown \in Nat

ON_PHONE_CALL == "ON_PHONE_CALL"
ALIVE_CALL == "ALIVE_CALL"
HANG_UP_CALL == "HANG_UP_CALL"
Msgs == {ON_PHONE_CALL, ALIVE_CALL, HANG_UP_CALL}

LoseLimit == 2   \* "loseConnectionCount > 2"

VARIABLES p,          \* phone listener: flags, loseConnectionCount, branch
          pui,        \* phone UI thread: what an answerPhoneCall() under way will set
          screen,     \* phone: "ringing" while OnPhoneCallActivity is on top
          bcast,      \* phone: broadcasts of the listener not yet handled
          toPhone,    \* messages in flight to the phone
          r,          \* robot listener: flags, lose_connection_count, branch
          rui,        \* robot UI thread: the handler under way
          media,      \* robot: "on", "off", or "broken": an Audio_Capture never started
          toRobot,    \* messages in flight to the robot
          overlap,    \* history: a hang-up or an answer ran inside an answer handler
          down,       \* the sides whose sends throw
          clicks      \* user actions so far

phoneVars == <<p, pui, screen, bcast>>
robotVars == <<r, rui, media, overlap>>
vars == <<phoneVars, toPhone, robotVars, toRobot, down, clicks>>

NoFlags == [haveCall |-> FALSE, isCalling |-> FALSE, answerCall |-> FALSE,
            hangUpCall |-> FALSE, lose |-> 0, pc |-> "top"]

Init ==
  /\ p = NoFlags
  /\ pui = "free"
  /\ screen = "main"
  /\ bcast = {}
  /\ toPhone = [m \in Msgs |-> 0]
  /\ r = NoFlags
  /\ rui = "free"
  /\ media = "off"
  /\ toRobot = [m \in Msgs |-> 0]
  /\ overlap = FALSE
  /\ down = {}
  /\ clicks = 0

(* Sending into, and taking from, what is in flight. *)
Sent(net, m) == IF net[m] < MaxInFlight THEN [net EXCEPT ![m] = @ + 1] ELSE net
Took(net, m) == [net EXCEPT ![m] = @ - 1]

-----------------------------------------------------------------------------

(* The hang-up branch of the phone: tell the robot, clear all flags, tell   *)
(* the activities.  If the send throws nothing else is done, and the turn   *)
(* is no step.                                                              *)
PhoneHangUp ==
  /\ p.hangUpCall /\ "phone" \notin down
  /\ toRobot' = Sent(toRobot, HANG_UP_CALL)
  /\ p' = NoFlags
  /\ bcast' = bcast \cup {"hang_up"}

(* The call branch when the robot has been silent for three rounds. *)
PhoneMissed ==
  /\ ~p.hangUpCall /\ ~p.isCalling /\ p.answerCall
  /\ p.lose > LoseLimit
  /\ p' = [p EXCEPT !.hangUpCall = TRUE, !.answerCall = FALSE, !.lose = 0]
  /\ bcast' = bcast \cup {"miss_connection"}
  /\ UNCHANGED toRobot

(* Mutant: silent rounds are not counted. *)
PhoneKeepAlivePatient ==
  /\ ~p.hangUpCall /\ ~p.isCalling /\ p.answerCall /\ "phone" \notin down
  /\ p.lose <= LoseLimit
  /\ toRobot' = Sent(toRobot, ALIVE_CALL)
  /\ p' = [p EXCEPT !.pc = "answer"]
  /\ UNCHANGED bcast

(* The call branch of the phone up to receive().  If the send throws the    *)
(* round is not counted, and the turn is no step.                           *)
PhoneKeepAlive ==
  /\ ~p.hangUpCall /\ ~p.isCalling /\ p.answerCall /\ "phone" \notin down
  /\ p.lose <= LoseLimit
  /\ toRobot' = Sent(toRobot, ALIVE_CALL)
  /\ p' = [p EXCEPT !.lose = @ + 1, !.pc = "answer"]
  /\ UNCHANGED bcast

PhoneEnter ==
  /\ ~p.hangUpCall
  /\ \/ p.isCalling /\ p' = [p EXCEPT !.pc = "calling"]
     \/ ~p.isCalling /\ ~p.answerCall /\ p' = [p EXCEPT !.pc = "idle"]
  /\ UNCHANGED <<toRobot, bcast>>

(* The top of the phone's loop. *)
PhoneLoop ==
  /\ p.pc = "top"
  /\ PhoneHangUp \/ PhoneMissed \/ PhoneKeepAlive \/ PhoneEnter
  /\ UNCHANGED <<pui, screen, toPhone, robotVars, down, clicks>>

(* The phone while calling: the partner's ALIVE or own call is its answer.  *)
PhoneCallingGets(m) ==
  /\ p.pc = "calling"
  /\ \/ /\ m = HANG_UP_CALL
        /\ p' = [p EXCEPT !.hangUpCall = TRUE, !.pc = "top"]
     \/ /\ m \in {ALIVE_CALL, ON_PHONE_CALL}
        /\ p' = [p EXCEPT !.isCalling = FALSE, !.answerCall = TRUE, !.pc = "top"]
  /\ UNCHANGED bcast

(* The phone in a call: only ALIVE proves that the partner is there.        *)
PhoneAnswerGets(m) ==
  /\ p.pc = "answer"
  /\ p' = CASE m = HANG_UP_CALL -> [p EXCEPT !.hangUpCall = TRUE, !.pc = "top"]
            [] m = ALIVE_CALL -> [p EXCEPT !.lose = 0, !.pc = "top"]
            [] m = ON_PHONE_CALL -> [p EXCEPT !.pc = "top"]
  /\ UNCHANGED bcast

(* The phone with no call: an ALIVE is from a call it is not in, a first    *)
(* ON_PHONE_CALL makes it ring.                                             *)
PhoneIdleGets(m) ==
  /\ p.pc = "idle"
  /\ \/ /\ m = ALIVE_CALL
        /\ p' = [p EXCEPT !.hangUpCall = TRUE, !.pc = "top"]
        /\ UNCHANGED bcast
     \/ /\ m = ON_PHONE_CALL
        /\ p' = [p EXCEPT !.haveCall = TRUE, !.pc = "top"]
        /\ bcast' = IF p.haveCall THEN bcast ELSE bcast \cup {"on_phone_call"}
     \/ /\ m = HANG_UP_CALL
        /\ p' = [p EXCEPT !.pc = "top"]
        /\ bcast' = bcast \cup {"hang_up"}

PhoneRecv(m) ==
  /\ toPhone[m] > 0
  /\ toPhone' = Took(toPhone, m)
  /\ PhoneCallingGets(m) \/ PhoneAnswerGets(m) \/ PhoneIdleGets(m)
  /\ UNCHANGED <<pui, screen, robotVars, toRobot, down, clicks>>

(* receive() times out; only the calling branch sends, its call again.      *)
PhoneTimeout ==
  /\ p.pc # "top"
  /\ toRobot' = IF p.pc = "calling" /\ "phone" \notin down
                THEN Sent(toRobot, ON_PHONE_CALL) ELSE toRobot
  /\ p' = [p EXCEPT !.pc = "top"]
  /\ UNCHANGED <<pui, screen, bcast, toPhone, robotVars, down, clicks>>

(* click_call_start: makeACall() tests no flag. *)
PhoneClickCall ==
  /\ pui = "free" /\ screen = "main" /\ clicks < MaxClicks
  /\ p' = [p EXCEPT !.isCalling = TRUE]
  /\ clicks' = clicks + 1
  /\ UNCHANGED <<pui, screen, bcast, toPhone, robotVars, toRobot, down>>

(* The test before answerPhoneCall() assigns: MainActivity asks isCalling(), *)
(* OnPhoneCallActivity also counts a call that only rings.                   *)
MayEnd == p.isCalling \/ p.answerCall \/ (screen = "ringing" /\ p.haveCall)

(* answerCall() and hangUp() of the ringing screen, click_call_end() of the  *)
(* main one: the test ...                                                    *)
PhoneClick(act) ==
  /\ pui = "free" /\ clicks < MaxClicks
  /\ screen = "main" => act = "hangup"
  /\ pui' = IF MayEnd THEN act ELSE "free"
  /\ screen' = "main"
  /\ clicks' = clicks + 1
  /\ UNCHANGED <<p, bcast, toPhone, robotVars, toRobot, down>>

(* ... and the assignment, whatever the listener did in between. *)
PhoneClickDone ==
  /\ pui # "free"
  /\ p' = IF pui = "answer" THEN [p EXCEPT !.answerCall = TRUE]
                            ELSE [p EXCEPT !.hangUpCall = TRUE]
  /\ pui' = "free"
  /\ UNCHANGED <<screen, bcast, toPhone, robotVars, toRobot, down, clicks>>

(* The user leaves the ringing screen without an answer. *)
PhoneBack ==
  /\ pui = "free" /\ screen = "ringing" /\ clicks < MaxClicks
  /\ screen' = "main"
  /\ clicks' = clicks + 1
  /\ UNCHANGED <<p, pui, bcast, toPhone, robotVars, toRobot, down>>

(* on_phone_call shows the ringing screen.  hang_up ends, on whichever       *)
(* screen, the call there is by the time it is handled, and so does          *)
(* miss_connection, which only MainActivity listens to.                      *)
PhoneBroadcast(b) ==
  /\ pui = "free"
  /\ bcast' = bcast \ {b}
  /\ screen' = CASE b = "on_phone_call" -> "ringing"
                 [] b = "hang_up" -> "main"
                 [] b = "miss_connection" -> screen
  /\ pui' = IF \/ b = "hang_up" /\ MayEnd
               \/ b = "miss_connection" /\ (p.isCalling \/ p.answerCall)
            THEN "hangup" ELSE "free"
  /\ UNCHANGED <<p, toPhone, robotVars, toRobot, down, clicks>>

-----------------------------------------------------------------------------
(* stop() of the audio raises when it was never started, and then self.audio *)
(* is not replaced.                                                         *)
Stopped == IF media = "broken" THEN "broken" ELSE "off"

(* The call again, unless the send raises, which the handler swallows. *)
CallsAgain == IF "robot" \in down THEN toPhone ELSE Sent(toPhone, ON_PHONE_CALL)

(* The end of a turn that leaves these flags.  A robot with no call sends   *)
(* an empty datagram in every sixty-first such turn; if that raises, it     *)
(* does so in the except clause itself, and the listener thread ends.       *)
TurnEnds(flags) ==
  {[flags EXCEPT !.pc = "top"]} \cup
  {g \in {[flags EXCEPT !.pc = "ended"]} :
     "robot" \in down /\ ~flags.haveCall /\ ~flags.isCalling /\ ~flags.answerCall}

(* Mutant: hanging up leaves audio and camera running. *)
RobotHangUpNoStop ==
  /\ r.hangUpCall /\ "robot" \notin down
  /\ toPhone' = Sent(toPhone, HANG_UP_CALL)
  /\ r' = NoFlags
  /\ overlap' = (overlap \/ rui = "starting")
  /\ UNCHANGED media

(* Mutant: hanging up does not reset answer_call. *)
RobotHangUpStays ==
  /\ r.hangUpCall /\ "robot" \notin down
  /\ toPhone' = Sent(toPhone, HANG_UP_CALL)
  /\ r' = [NoFlags EXCEPT !.answerCall = r.answerCall]
  /\ media' = Stopped
  /\ overlap' = (overlap \/ rui = "starting")

(* The hang-up branch of the robot: tell the phone, clear all flags, stop   *)
(* audio and camera.                                                        *)
RobotHangUp ==
  /\ r.hangUpCall /\ "robot" \notin down
  /\ toPhone' = Sent(toPhone, HANG_UP_CALL)
  /\ r' = NoFlags
  /\ media' = Stopped
  /\ overlap' = (overlap \/ rui = "starting")

(* The send of the hang-up branch raises: the flags stay as they are. *)
RobotHangUpFails ==
  /\ r.hangUpCall /\ "robot" \in down
  /\ r' \in TurnEnds(r)
  /\ UNCHANGED <<media, overlap, toPhone>>

(* Mutant: no reaction to a silent partner. *)
RobotKeepAlivePatient ==
  /\ ~r.hangUpCall /\ ~r.isCalling /\ r.answerCall /\ "robot" \notin down
  /\ toPhone' = Sent(toPhone, ALIVE_CALL)
  /\ r' = [r EXCEPT !.pc = "answer"]
  /\ UNCHANGED <<media, overlap>>

(* The call branch of the robot up to recv(): after three silent rounds it  *)
(* decides to hang up, but stays in the call for one more round.            *)
RobotKeepAlive ==
  /\ ~r.hangUpCall /\ ~r.isCalling /\ r.answerCall /\ "robot" \notin down
  /\ toPhone' = Sent(toPhone, ALIVE_CALL)
  /\ r' = [r EXCEPT !.hangUpCall = r.lose > LoseLimit,
                    !.lose = IF r.lose > LoseLimit THEN 1 ELSE @ + 1,
                    !.pc = "answer"]
  /\ UNCHANGED <<media, overlap>>

(* Its send raises: the round is not counted, but a decision made just      *)
(* before stands.                                                           *)
RobotKeepAliveFails ==
  /\ ~r.hangUpCall /\ ~r.isCalling /\ r.answerCall /\ "robot" \in down
  /\ r.lose > LoseLimit
  /\ r' = [r EXCEPT !.hangUpCall = TRUE, !.lose = 0]
  /\ UNCHANGED <<media, overlap, toPhone>>

RobotEnter ==
  /\ ~r.hangUpCall
  /\ \/ r.isCalling /\ r' = [r EXCEPT !.pc = "calling"]
     \/ ~r.isCalling /\ ~r.answerCall /\ r' = [r EXCEPT !.pc = "idle"]
  /\ UNCHANGED <<media, overlap, toPhone>>

(* The top of the robot's loop. *)
RobotLoop ==
  /\ r.pc = "top"
  /\ RobotHangUp \/ RobotHangUpFails \/ RobotKeepAlive \/ RobotKeepAliveFails \/ RobotEnter
  /\ UNCHANGED <<phoneVars, rui, toRobot, down, clicks>>

(* The robot while calling.  An answer sets have_call and runs              *)
(* action_answer_call(): flags, old media stopped, new media opened.  What  *)
(* it raises the bare except turns into another call.                       *)
RobotCallingGets(m) ==
  /\ r.pc = "calling"
  /\ \/ /\ m = HANG_UP_CALL
        /\ r' = [r EXCEPT !.hangUpCall = TRUE, !.pc = "top"]
        /\ UNCHANGED <<media, overlap, toPhone>>
     \/ /\ m \in {ALIVE_CALL, ON_PHONE_CALL} /\ media # "broken"
        /\ r' = [r EXCEPT !.answerCall = TRUE, !.haveCall = FALSE, !.pc = "starting"]
        /\ media' = "off"
        /\ overlap' = (overlap \/ rui = "starting")
        /\ UNCHANGED toPhone
     \/ /\ m \in {ALIVE_CALL, ON_PHONE_CALL} /\ media = "broken"
        /\ r' = [r EXCEPT !.answerCall = TRUE, !.haveCall = FALSE, !.pc = "top"]
        /\ toPhone' = CallsAgain
        /\ UNCHANGED <<media, overlap>>

(* The robot in a call. *)
RobotAnswerGets(m) ==
  /\ r.pc = "answer"
  /\ r' = CASE m = HANG_UP_CALL -> [r EXCEPT !.hangUpCall = TRUE, !.pc = "top"]
            [] m = ALIVE_CALL -> [r EXCEPT !.lose = 0, !.pc = "top"]
            [] m = ON_PHONE_CALL -> [r EXCEPT !.pc = "top"]
  /\ UNCHANGED <<media, overlap, toPhone>>

(* The robot with no call; a first ON_PHONE_CALL opens a modal box in the   *)
(* listener thread.  A HANG_UP leaves have_call as it is.                   *)
RobotIdleGets(m) ==
  /\ r.pc = "idle"
  /\ r' \in CASE m = ALIVE_CALL -> TurnEnds([r EXCEPT !.hangUpCall = TRUE])
              [] m = ON_PHONE_CALL /\ ~r.haveCall ->
                   {[r EXCEPT !.haveCall = TRUE, !.pc = "dialog"]}
              [] OTHER -> TurnEnds(r)
  /\ UNCHANGED <<media, overlap, toPhone>>

RobotRecv(m) ==
  /\ toRobot[m] > 0
  /\ toRobot' = Took(toRobot, m)
  /\ RobotCallingGets(m) \/ RobotAnswerGets(m) \/ RobotIdleGets(m)
  /\ UNCHANGED <<phoneVars, rui, down, clicks>>

RobotTimeout ==
  /\ r.pc \in {"calling", "answer", "idle"}
  /\ toPhone' = IF r.pc = "calling" THEN CallsAgain ELSE toPhone
  /\ r' \in TurnEnds(r)
  /\ UNCHANGED <<phoneVars, rui, media, overlap, toRobot, down, clicks>>

(* The listener's own action_answer_call() ends: media run, or the camera   *)
(* cannot be opened and the audio made just before it is never started.     *)
RobotStarted ==
  /\ r.pc = "starting"
  /\ \/ /\ media' = "on"
        /\ r' = [r EXCEPT !.isCalling = FALSE, !.pc = "top"]
        /\ UNCHANGED toPhone
     \/ /\ media' = "broken"
        /\ r' = [r EXCEPT !.pc = "top"]
        /\ toPhone' = CallsAgain
  /\ UNCHANGED <<phoneVars, rui, overlap, toRobot, down, clicks>>

(* The user dismisses the modal box. *)
RobotDismiss ==
  /\ r.pc = "dialog"
  /\ r' = [r EXCEPT !.pc = "top"]
  /\ UNCHANGED <<phoneVars, toPhone, rui, media, overlap, toRobot, down, clicks>>

(* action_call_phone(): the test ... *)
RobotClickCall ==
  /\ rui = "free" /\ clicks < MaxClicks
  /\ ~r.haveCall /\ ~r.answerCall /\ ~r.hangUpCall /\ ~r.isCalling
  /\ rui' = "dialing"
  /\ clicks' = clicks + 1
  /\ UNCHANGED <<phoneVars, toPhone, r, media, overlap, toRobot, down>>

(* ... and the assignment. *)
RobotDial ==
  /\ rui = "dialing"
  /\ r' = [r EXCEPT !.isCalling = TRUE]
  /\ rui' = "free"
  /\ UNCHANGED <<phoneVars, toPhone, media, overlap, toRobot, down, clicks>>

(* action_hang_up(). *)
RobotClickHangUp ==
  /\ rui = "free" /\ clicks < MaxClicks
  /\ r.haveCall \/ r.isCalling \/ r.answerCall
  /\ r' = [r EXCEPT !.hangUpCall = TRUE]
  /\ clicks' = clicks + 1
  /\ UNCHANGED <<phoneVars, toPhone, rui, media, overlap, toRobot, down>>

(* action_answer_call() by the button: have_call is tested, the flags are   *)
(* set and the old media stopped, and then the new media are opened.        *)
RobotClickAnswer ==
  /\ rui = "free" /\ clicks < MaxClicks
  /\ r.haveCall
  /\ rui' = "answering"
  /\ clicks' = clicks + 1
  /\ UNCHANGED <<phoneVars, toPhone, r, media, overlap, toRobot, down>>

RobotAnswer ==
  /\ rui = "answering"
  /\ r' = [r EXCEPT !.answerCall = TRUE, !.haveCall = FALSE]
  /\ media' = Stopped
  /\ rui' = IF media = "broken" THEN "free" ELSE "starting"
  /\ overlap' = (overlap \/ r.pc = "starting")
  /\ UNCHANGED <<phoneVars, toPhone, toRobot, down, clicks>>

RobotOpenMedia ==
  /\ rui = "starting"
  /\ media' \in {"on", "broken"}
  /\ rui' = "free"
  /\ UNCHANGED <<phoneVars, toPhone, r, overlap, toRobot, down, clicks>>

-----------------------------------------------------------------------------
(* The network loses a message. *)
Lose(m) ==
  \/ /\ toPhone[m] > 0
     /\ toPhone' = Took(toPhone, m)
     /\ UNCHANGED <<phoneVars, robotVars, toRobot, down, clicks>>
  \/ /\ toRobot[m] > 0
     /\ toRobot' = Took(toRobot, m)
     /\ UNCHANGED <<phoneVars, robotVars, toPhone, down, clicks>>

(* The network of a side goes and comes back. *)
NetworkFails(side) ==
  /\ side \notin down /\ Cardinality(down) < MaxDown
  /\ down' = down \cup {side}
  /\ UNCHANGED <<phoneVars, toPhone, robotVars, toRobot, clicks>>

NetworkReturns(side) ==
  /\ side \in down
  /\ down' = down \ {side}
  /\ UNCHANGED <<phoneVars, toPhone, robotVars, toRobot, clicks>>

PhoneListener == PhoneLoop \/ (\E m \in Msgs : PhoneRecv(m)) \/ PhoneTimeout
PhoneUI == PhoneClickDone \/ \E b \in bcast : PhoneBroadcast(b)
RobotListener ==
  RobotLoop \/ (\E m \in Msgs : RobotRecv(m)) \/ RobotTimeout \/ RobotStarted
RobotUI == RobotDial \/ RobotAnswer \/ RobotOpenMedia
Users ==
  \/ PhoneClickCall \/ PhoneBack
  \/ \E act \in {"answer", "hangup"} : PhoneClick(act)
  \/ RobotClickCall \/ RobotClickHangUp \/ RobotClickAnswer

Next ==
  \/ PhoneListener \/ PhoneUI
  \/ RobotListener \/ RobotUI \/ RobotDismiss
  \/ Users
  \/ \E m \in Msgs : Lose(m)
  \/ \E side \in Outages : NetworkFails(side) \/ NetworkReturns(side)

Spec == Init /\ [][Next]_vars

(* Threads keep running and the robot's user dismisses the box in the end;  *)
(* users otherwise do as they like and the network owes nothing.            *)
Fairness ==
  /\ WF_vars(PhoneListener) /\ WF_vars(PhoneUI)
  /\ WF_vars(RobotListener) /\ WF_vars(RobotUI) /\ WF_vars(RobotDismiss)

FairSpec == Spec /\ Fairness

-----------------------------------------------------------------------------
(* A listener that keeps a call alive: answered, and no longer calling. *)
InCall(flags) == flags.answerCall /\ ~flags.isCalling

(* The robot's microphone and camera run only during a call, unless a       *)
(* hang-up was carried out while action_answer_call() was opening them.     *)
MediaOnlyInCall == media = "on" => r.answerCall \/ overlap

(* A robot in a call has its microphone and camera, or is opening them,     *)
(* unless it once failed to open the camera: from then on stop() of the     *)
(* audio that was never started fails every later answer.                   *)
CallHasMedia ==
  InCall(r) => media \in {"on", "broken"} \/ rui = "starting" \/ overlap

(* A side that can do nothing for a call: its sends throw or, on the robot, *)
(* the listener thread has ended for good.                                  *)
PhoneCutOff == "phone" \in down
RobotCutOff == "robot" \in down \/ r.pc = "ended"

(* A phone in a call the robot is not in does not stay there, whatever is   *)
(* lost: it leaves the call (loseConnectionCount) or the robot joins.  Only *)
(* a phone whose sends throw does not count the silent rounds and stays.    *)
PhoneNotLeftAlone ==
  (InCall(p) /\ ~r.answerCall) ~> (~InCall(p) \/ r.answerCall \/ PhoneCutOff)

(* The same for the robot (lose_connection_count), whose listener may also  *)
(* have ended in an outage.                                                 *)
RobotNotLeftAlone ==
  (InCall(r) /\ ~p.answerCall) ~> (~InCall(r) \/ p.answerCall \/ RobotCutOff)

=============================================================================
