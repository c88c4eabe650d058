----------------------------- MODULE CallProofs -----------------------------
(***************************************************************************)
(* The robot's microphone and camera follow its call, for any number of    *)
(* messages in flight and of clicks, although the listener thread, the      *)
(* user interface and the phone write the same flags without a lock.        *)
(* Then the media themselves: the robot's speaker plays pieces of sound in  *)
(* order and none twice (RobotMedia), and the phone shows the verdict on    *)
(* the password entered last and opens one microphone at a time             *)
(* (PhoneMedia).                                                            *)
(***************************************************************************)
EXTENDS CallSignalling, PhoneMedia, RobotMedia, FiniteSetTheorems, SequenceTheorems, TLAPS

RobotFlags ==
  [haveCall : BOOLEAN, isCalling : BOOLEAN, answerCall : BOOLEAN,
   hangUpCall : BOOLEAN, lose : Int,
   pc : {"top", "calling", "answer", "idle", "starting", "dialog", "ended"}]

RobotType ==
  /\ r \in RobotFlags
  /\ rui \in {"free", "dialing", "answering", "starting"}
  /\ media \in {"on", "off", "broken"}
  /\ overlap \in BOOLEAN

(* While the listener waits for the answer to its call, and while it opens  *)
(* the media for one, nothing clears is_calling.                            *)
CallingIsKept == r.pc \in {"calling", "starting"} => r.isCalling

(* Whoever is opening the media does so for an answered call; only a hang-  *)
(* up inside the user interface's own handler can break that.               *)
OpensForCall ==
  /\ r.pc = "starting" => r.answerCall
  /\ rui = "starting" => r.answerCall \/ overlap

(* Inductive invariant of the robot's side of a call. *)
RobotCallInv ==
  RobotType /\ CallingIsKept /\ OpensForCall /\ MediaOnlyInCall /\ CallHasMedia

(* The flags of a robot without a call. *)
LEMMA NoFlagsSet ==
  NoFlags \in RobotFlags /\ ~NoFlags.answerCall /\ NoFlags.pc = "top"
  BY DEF NoFlags, RobotFlags

(* The invariant holds at first. *)
LEMMA RobotCallInit == Init => RobotCallInv
<1> SUFFICES ASSUME Init PROVE RobotCallInv
  OBVIOUS
<1>1. r = NoFlags /\ rui = "free" /\ media = "off" /\ overlap = FALSE
  BY DEF Init
<1> QED
  BY <1>1, NoFlagsSet DEF RobotCallInv, RobotType, CallingIsKept,
                          OpensForCall, MediaOnlyInCall, CallHasMedia, InCall

(* A turn of the listener that neither begins nor ends a call. *)
LEMMA QuietTurn ==
  ASSUME RobotCallInv, UNCHANGED <<rui, media, overlap>>, r' \in RobotFlags,
         r'.answerCall = r.answerCall, r'.isCalling = r.isCalling,
         r'.pc \notin {"calling", "starting"}
  PROVE  RobotCallInv'
  BY DEF RobotCallInv, RobotType, CallingIsKept, OpensForCall,
         MediaOnlyInCall, CallHasMedia, InCall

(* The end of a turn with no call, also if it is the thread's. *)
LEMMA TurnEndsQuiet ==
  ASSUME NEW flags \in RobotFlags, NEW g \in TurnEnds(flags)
  PROVE  /\ g \in RobotFlags /\ g.pc \in {"top", "ended"}
         /\ g.answerCall = flags.answerCall /\ g.isCalling = flags.isCalling
<1>1. g \in {[flags EXCEPT !.pc = "top"], [flags EXCEPT !.pc = "ended"]}
  BY DEF TurnEnds
<1> QED
  BY <1>1, Zenon DEF RobotFlags

(* The steps of the listener thread up to its receive, hang-up included. *)
LEMMA RobotLoopInv == RobotCallInv /\ RobotLoop => RobotCallInv'
<1> SUFFICES ASSUME RobotCallInv, RobotLoop PROVE RobotCallInv'
  OBVIOUS
<1> USE DEF RobotCallInv, RobotType, RobotFlags, CallingIsKept, OpensForCall,
            MediaOnlyInCall, CallHasMedia, InCall
<1>1. r.pc = "top" /\ rui' = rui
  BY DEF RobotLoop
<1>2. CASE RobotHangUp
  <2>1. /\ r' = NoFlags
        /\ media' \in {"off", "broken"}
        /\ overlap' \in BOOLEAN
        /\ rui = "starting" => overlap'
    BY <1>2 DEF RobotHangUp, Stopped
  <2>2. CallHasMedia' /\ MediaOnlyInCall' /\ OpensForCall'
    BY <1>1, <2>1, NoFlagsSet
  <2> QED
    BY <1>1, <2>1, <2>2, NoFlagsSet
<1>3. CASE RobotKeepAlive
  <2> DEFINE silent == r.lose > LoseLimit
             count == IF silent THEN 1 ELSE r.lose + 1
  <2>1. /\ UNCHANGED <<rui, media, overlap>>
        /\ r' = [r EXCEPT !.hangUpCall = silent, !.lose = count, !.pc = "answer"]
    BY <1>1, <1>3 DEF RobotKeepAlive
  <2>2. silent \in BOOLEAN /\ count \in Int
    BY DEF LoseLimit
  <2> HIDE DEF silent, count
  <2>3. r' \in RobotFlags
    BY <2>1, <2>2, Zenon
  <2>4. /\ r'.answerCall = r.answerCall /\ r'.isCalling = r.isCalling
        /\ r'.pc = "answer"
    BY <2>1, Zenon
  <2> HIDE DEF RobotCallInv
  <2> QED
    BY <2>1, <2>3, <2>4, QuietTurn
<1>4. CASE RobotEnter
  BY <1>1, <1>4 DEF RobotEnter
<1>5. CASE RobotHangUpFails
  <2>1. r' \in TurnEnds(r) /\ UNCHANGED <<rui, media, overlap>>
    BY <1>1, <1>5 DEF RobotHangUpFails
  <2> HIDE DEF RobotCallInv, RobotFlags
  <2>2. r \in RobotFlags
    BY DEF RobotCallInv
  <2> QED
    BY <2>1, <2>2, QuietTurn, TurnEndsQuiet
<1>6. CASE RobotKeepAliveFails
  <2>1. /\ UNCHANGED <<rui, media, overlap>>
        /\ r' = [r EXCEPT !.hangUpCall = TRUE, !.lose = 0]
    BY <1>1, <1>6 DEF RobotKeepAliveFails
  <2>2. TRUE \in BOOLEAN /\ 0 \in Int
    OBVIOUS
  <2>3. r' \in RobotFlags
    BY <2>1, <2>2, Zenon
  <2>4. /\ r'.answerCall = r.answerCall /\ r'.isCalling = r.isCalling
        /\ r'.pc = "top"
    BY <1>1, <2>1, Zenon
  <2> HIDE DEF RobotCallInv
  <2> QED
    BY <2>1, <2>3, <2>4, QuietTurn
<1> QED
  BY <1>2, <1>3, <1>4, <1>5, <1>6 DEF RobotLoop

(* The listener on a message, by the branch it chose earlier. *)
LEMMA RobotRecvInv ==
  ASSUME RobotCallInv, NEW m \in Msgs, RobotRecv(m)
  PROVE  RobotCallInv'
<1> USE DEF RobotCallInv, RobotType, RobotFlags, CallingIsKept, OpensForCall,
            MediaOnlyInCall, CallHasMedia, InCall
<1>1. rui' = rui
  BY DEF RobotRecv
<1>2. CASE RobotCallingGets(m)
  BY <1>1, <1>2 DEF RobotCallingGets
<1>3. CASE RobotIdleGets(m)
  <2>1. UNCHANGED <<rui, media, overlap>>
    BY <1>1, <1>3 DEF RobotIdleGets
  <2>2. \/ r' \in TurnEnds([r EXCEPT !.hangUpCall = TRUE])
        \/ r' = [r EXCEPT !.haveCall = TRUE, !.pc = "dialog"]
        \/ r' \in TurnEnds(r)
    BY <1>3 DEF RobotIdleGets
  <2>3. [r EXCEPT !.hangUpCall = TRUE] \in RobotFlags /\ r \in RobotFlags
    OBVIOUS
  <2>4. /\ [r EXCEPT !.hangUpCall = TRUE].answerCall = r.answerCall
        /\ [r EXCEPT !.hangUpCall = TRUE].isCalling = r.isCalling
    OBVIOUS
  <2>5. CASE r' = [r EXCEPT !.haveCall = TRUE, !.pc = "dialog"]
    <3>1. /\ r' \in RobotFlags /\ r'.pc = "dialog"
          /\ r'.answerCall = r.answerCall /\ r'.isCalling = r.isCalling
      BY <2>5, Zenon
    <3> HIDE DEF RobotCallInv
    <3> QED
      BY <2>1, <3>1, QuietTurn
  <2>6. CASE r' \in TurnEnds([r EXCEPT !.hangUpCall = TRUE]) \/ r' \in TurnEnds(r)
    <3> HIDE DEF RobotCallInv, RobotFlags
    <3>1. /\ r' \in RobotFlags /\ r'.pc \in {"top", "ended"}
          /\ r'.answerCall = r.answerCall /\ r'.isCalling = r.isCalling
      BY <2>3, <2>4, <2>6, TurnEndsQuiet
    <3> QED
      BY <2>1, <3>1, QuietTurn
  <2> QED
    BY <2>2, <2>5, <2>6
<1>4. CASE RobotAnswerGets(m)
  <2>1. UNCHANGED <<rui, media, overlap>>
    BY <1>1, <1>4 DEF RobotAnswerGets
  <2>2. r' \in {[r EXCEPT !.hangUpCall = TRUE, !.pc = "top"],
                [r EXCEPT !.lose = 0, !.pc = "top"],
                [r EXCEPT !.pc = "top"]}
    BY <1>4, m \in {ON_PHONE_CALL, ALIVE_CALL, HANG_UP_CALL}
       DEF RobotAnswerGets, Msgs
  <2>3. r' \in RobotFlags
    <3>1. 0 \in Int
      OBVIOUS
    <3> QED
      BY <2>2, <3>1, Zenon
  <2>4. /\ r'.answerCall = r.answerCall /\ r'.isCalling = r.isCalling
        /\ r'.pc = "top"
    BY <2>2, Zenon
  <2> HIDE DEF RobotCallInv
  <2> QED
    BY <2>1, <2>3, <2>4, QuietTurn
<1> QED
  BY <1>2, <1>3, <1>4 DEF RobotRecv

(* The end of the listener's own answer, its timeouts and its box. *)
LEMMA RobotListenerRestInv ==
  RobotCallInv /\ (RobotTimeout \/ RobotStarted \/ RobotDismiss) => RobotCallInv'
<1> SUFFICES ASSUME RobotCallInv, RobotTimeout \/ RobotStarted \/ RobotDismiss
             PROVE  RobotCallInv'
  OBVIOUS
<1>1. CASE RobotTimeout
  <2>1. r' \in TurnEnds(r) /\ UNCHANGED <<rui, media, overlap>>
    BY <1>1 DEF RobotTimeout
  <2>2. r \in RobotFlags
    BY DEF RobotCallInv, RobotType
  <2> QED
    BY <2>1, <2>2, QuietTurn, TurnEndsQuiet
<1>2. CASE RobotStarted \/ RobotDismiss
  BY <1>2 DEF RobotCallInv, RobotType, RobotFlags, CallingIsKept, OpensForCall,
              MediaOnlyInCall, CallHasMedia, InCall, RobotStarted, RobotDismiss
<1> QED
  BY <1>1, <1>2

(* The user interface, whose handlers run at any moment of the listener's. *)
LEMMA RobotUIInv ==
  /\ RobotCallInv
  /\ RobotUI \/ RobotClickCall \/ RobotClickHangUp \/ RobotClickAnswer
  => RobotCallInv'
<1> SUFFICES ASSUME RobotCallInv,
                    RobotUI \/ RobotClickCall \/ RobotClickHangUp \/ RobotClickAnswer
             PROVE  RobotCallInv'
  OBVIOUS
<1> USE DEF RobotCallInv, RobotType, RobotFlags, CallingIsKept, OpensForCall,
            MediaOnlyInCall, CallHasMedia, InCall
<1>1. CASE RobotDial
  BY <1>1 DEF RobotDial
<1>2. CASE RobotAnswer
  BY <1>2 DEF RobotAnswer, Stopped
<1>3. CASE RobotOpenMedia
  BY <1>3 DEF RobotOpenMedia
<1>4. CASE RobotClickCall \/ RobotClickHangUp \/ RobotClickAnswer
  BY <1>4 DEF RobotClickCall, RobotClickHangUp, RobotClickAnswer
<1> QED
  BY <1>1, <1>2, <1>3, <1>4 DEF RobotUI

(* The phone and the network touch nothing of the robot's. *)
LEMMA PhoneLeavesRobot ==
  ASSUME \/ PhoneListener \/ PhoneUI \/ PhoneClickCall \/ PhoneBack
         \/ \E act \in {"answer", "hangup"} : PhoneClick(act)
         \/ \E m \in Msgs : Lose(m)
         \/ \E side \in Outages : NetworkFails(side) \/ NetworkReturns(side)
  PROVE  UNCHANGED <<r, rui, media, overlap>>
  BY DEF PhoneListener, PhoneLoop, PhoneRecv, PhoneTimeout, PhoneUI, PhoneClickDone,
         PhoneBroadcast, PhoneClickCall, PhoneBack, PhoneClick, Lose, robotVars,
         NetworkFails, NetworkReturns

(* Every step of either side keeps it. *)
LEMMA RobotCallStep == RobotCallInv /\ [Next]_vars => RobotCallInv'
<1> SUFFICES ASSUME RobotCallInv, [Next]_vars PROVE RobotCallInv'
  OBVIOUS
<1>1. CASE RobotLoop
  BY <1>1, RobotLoopInv
<1>2. CASE \E m \in Msgs : RobotRecv(m)
  BY <1>2, RobotRecvInv
<1>3. CASE RobotTimeout \/ RobotStarted \/ RobotDismiss
  BY <1>3, RobotListenerRestInv
<1>4. CASE RobotUI \/ RobotClickCall \/ RobotClickHangUp \/ RobotClickAnswer
  BY <1>4, RobotUIInv
<1>5. ASSUME UNCHANGED <<r, rui, media, overlap>>
      PROVE  RobotCallInv'
  BY <1>5 DEF RobotCallInv, RobotType, CallingIsKept, OpensForCall,
              MediaOnlyInCall, CallHasMedia
<1>6. CASE UNCHANGED vars
  BY <1>5, <1>6 DEF vars, robotVars
<1> QED
  BY <1>1, <1>2, <1>3, <1>4, <1>5, <1>6, PhoneLeavesRobot
     DEF Next, RobotListener, Users

(* The inductive invariant holds in every state of every call. *)
THEOREM RobotCallInvariant == Spec => []RobotCallInv
  BY RobotCallInit, RobotCallStep, PTL DEF Spec

(* Microphone and camera of the robot run only during a call, unless a      *)
(* hang-up was carried out inside action_answer_call().                     *)
THEOREM RobotMediaOnlyInCall == Spec => []MediaOnlyInCall
<1>1. RobotCallInv => MediaOnlyInCall
  BY DEF RobotCallInv
<1> QED
  BY <1>1, RobotCallInvariant, PTL

(* A robot in a call has its media, or is opening them, or once failed to   *)
(* open its camera.                                                         *)
THEOREM RobotCallHasMedia == Spec => []CallHasMedia
<1>1. RobotCallInv => CallHasMedia
  BY DEF RobotCallInv
<1> QED
  BY <1>1, RobotCallInvariant, PTL

-----------------------------------------------------------------------------
(* The phone's verdict on a password *)

(* The two flags as the last listener thread, given its state, left them. *)
VerdictOf(state) ==
  IF state = "running" THEN ~initFinish /\ ~passwordError
  ELSE initFinish /\ passwordError = (state = "failed")

(* Inductive invariant: until a login overtakes a restart, the flags are    *)
(* those of the last thread, which cannot have ended before they are reset. *)
VerdictInv ==
  /\ login \in Seq({"running", "listening", "failed", "ended"}) /\ login # <<>>
  /\ initFinish \in BOOLEAN /\ passwordError \in BOOLEAN
  /\ ~(main = "restarting" /\ remembered = "restarting")
  /\ ~overtaken => IF Restarting THEN login[Len(login)] = "running"
                   ELSE VerdictOf(login[Len(login)])

(* Everything but a login, a restart and the end of a listener. *)
LEMMA VerdictKept ==
  ASSUME VerdictInv, UNCHANGED listenVars,
         main' = main \/ (main # "restarting" /\ main' # "restarting")
  PROVE  VerdictInv'
<1>1. UNCHANGED <<login, initFinish, passwordError, remembered, overtaken>>
  BY DEF listenVars
<1> QED
  BY <1>1 DEF VerdictInv, VerdictOf, Restarting

(* A listener thread that is not the last one ends. *)
LEMMA VerdictTurn ==
  ASSUME VerdictInv, NEW g \in DOMAIN login,
         login' = [login EXCEPT ![g] = IF g = Len(login) THEN @ ELSE "ended"],
         UNCHANGED <<main, initFinish, passwordError, remembered, overtaken>>
  PROVE  VerdictInv'
<1> DEFINE last == Len(login)
<1>1. login' \in Seq({"running", "listening", "failed", "ended"}) /\ login' # <<>>
  BY DEF VerdictInv
<1>2. Len(login') = last /\ login'[last] = login[last]
  BY DEF VerdictInv
<1> QED
  BY <1>1, <1>2 DEF VerdictInv, VerdictOf, Restarting

(* A login reports. *)
LEMMA VerdictLogin ==
  ASSUME VerdictInv, NEW g \in DOMAIN login, Login(g)
  PROVE  VerdictInv'
<1> DEFINE last == Len(login)
<1>1. PICK ok \in BOOLEAN :
        /\ initFinish' = TRUE
        /\ passwordError' = IF ok THEN passwordError ELSE TRUE
        /\ login' = [login EXCEPT ![g] = IF ok THEN "listening" ELSE "failed"]
  BY DEF Login
<1>2. /\ login[g] = "running" /\ UNCHANGED <<main, remembered>>
      /\ ~overtaken' => ~overtaken /\ g = last /\ ~Restarting
  BY DEF Login
<1>3. login' \in Seq({"running", "listening", "failed", "ended"}) /\ login' # <<>>
  BY <1>1 DEF VerdictInv
<1>4. /\ Len(login') = last /\ last \in DOMAIN login
      /\ login'[g] = IF ok THEN "listening" ELSE "failed"
  BY <1>1 DEF VerdictInv
<1>5. initFinish' \in BOOLEAN /\ passwordError' \in BOOLEAN
  BY <1>1 DEF VerdictInv
<1>6. ASSUME ~overtaken' PROVE VerdictOf(login[last])' /\ ~Restarting'
  BY <1>1, <1>2, <1>4, <1>6 DEF VerdictInv, VerdictOf, Restarting
<1>7. ~(main' = "restarting" /\ remembered' = "restarting")
  BY <1>2 DEF VerdictInv
<1> QED
  BY <1>3, <1>4, <1>5, <1>6, <1>7 DEF VerdictInv

(* restartListening() has started its thread, on either thread. *)
LEMMA VerdictPick ==
  ASSUME VerdictInv, login' = Append(login, "running"), ~Restarting,
         \/ main' = "restarting" /\ remembered' = remembered
         \/ main' = main /\ remembered' = "restarting",
         UNCHANGED <<initFinish, passwordError, overtaken>>
  PROVE  VerdictInv'
<1>1. Restarting' /\ ~(main' = "restarting" /\ remembered' = "restarting")
  BY DEF Restarting
<1>2. /\ login' \in Seq({"running", "listening", "failed", "ended"}) /\ login' # <<>>
      /\ login'[Len(login')] = "running"
  BY DEF VerdictInv
<1> QED
  BY <1>1, <1>2 DEF VerdictInv

(* restartListening() has reset the flags. *)
LEMMA VerdictRestart == VerdictInv /\ (Restart \/ RememberedRestart) => VerdictInv'
<1> SUFFICES ASSUME VerdictInv, Restart \/ RememberedRestart PROVE VerdictInv'
  OBVIOUS
<1>1. /\ initFinish' = FALSE /\ passwordError' = FALSE
      /\ UNCHANGED <<login, overtaken>>
  BY DEF Restart, RememberedRestart
<1>2. Restarting /\ ~Restarting'
  BY DEF Restart, RememberedRestart, Restarting, VerdictInv
<1> QED
  BY <1>1, <1>2 DEF VerdictInv, VerdictOf, Restarting

(* Every step keeps VerdictInv. *)
LEMMA VerdictStep == VerdictInv /\ [PhoneNext]_sessionVars => VerdictInv'
<1> SUFFICES ASSUME VerdictInv, [PhoneNext]_sessionVars PROVE VerdictInv'
  OBVIOUS
<1>1. ASSUME NEW g \in DOMAIN login, Listen(g) \/ ListenHangUp(g) \/ ListenEnds(g)
      PROVE  VerdictInv'
  <2>1. UNCHANGED <<main, initFinish, passwordError, remembered, overtaken>>
    BY <1>1 DEF Listen, ListenHangUp, ListenEnds
  <2>2. login' = [login EXCEPT ![g] = IF g = Len(login) THEN @ ELSE "ended"]
    BY <1>1 DEF Listen, ListenHangUp, ListenEnds, AfterTurn
  <2> QED
    BY <2>1, <2>2, VerdictTurn
<1>2. ASSUME NEW s, Starter(s) \/ GetSetting(s)
      PROVE  UNCHANGED <<listenVars, main>>
  BY <1>2 DEF Starter, GetSetting, TakeLock, CheckIdle,
              WaitInit, CameraAnswers
<1>3. ASSUME \/ HandleAudio \/ HandleConfigured \/ HandleEnd
             \/ HandleStart \/ HandleGone \/ HandleDial \/ HandleRing
             \/ HandleRingEnd \/ HandleLaunch \/ HandleDestroy
             \/ UserActs \/ UNCHANGED sessionVars
      PROVE  UNCHANGED <<listenVars, main>>
  BY <1>3 DEF HandleAudio, HandleConfigured, HandleEnd, HandleStart,
              HandleGone, HandleDial, HandleRing, HandleRingEnd,
              HandleLaunch, HandleDestroy, UserActs, sessionVars
<1>4. ASSUME HandleOpened \/ HandleVideo
      PROVE  UNCHANGED listenVars /\ main = "free" /\ main' \in {"free", "stuck", "dead"}
  BY <1>4 DEF HandleOpened, HandleVideo, Now
<1>5. CASE HandlePick
  <2>1. /\ login' = Append(login, "running") /\ main = "free" /\ main' = "restarting"
        /\ remembered # "restarting" /\ UNCHANGED <<initFinish, passwordError, remembered, overtaken>>
    BY <1>5 DEF HandlePick, Now
  <2> QED
    BY <2>1, VerdictPick DEF Restarting
<1>6. CASE RememberedPick
  <2>1. /\ remembered = "waiting" /\ main # "restarting"
        /\ UNCHANGED <<main, initFinish, passwordError, overtaken>>
    BY <1>6 DEF RememberedPick
  <2>2. CASE remembered' = "restarting" /\ login' = Append(login, "running")
    BY <2>1, <2>2, VerdictPick DEF Restarting
  <2>3. CASE remembered' = "done" /\ login' = login
    BY <2>1, <2>3 DEF VerdictInv, VerdictOf, Restarting
  <2> QED
    BY <1>6, <2>2, <2>3 DEF RememberedPick
<1> QED
  BY <1>1, <1>2, <1>3, <1>4, <1>5, <1>6, VerdictKept, VerdictLogin, VerdictRestart
     DEF PhoneNext, MainThread

(* initFinish and passwordError tell of the password entered last, unless a *)
(* login ended inside restartListening() or after a later one had begun.    *)
THEOREM PhoneVerdictIsOurs == PhoneSpec => []VerdictIsOurs
<1>1. PhoneInit => VerdictInv
  <2> SUFFICES ASSUME PhoneInit PROVE VerdictInv
    OBVIOUS
  <2>1. PICK stored \in BOOLEAN :
          /\ login = <<IF stored THEN "running" ELSE "failed">>
          /\ initFinish = ~stored /\ passwordError = ~stored
    BY DEF PhoneInit
  <2>2. main = "free" /\ remembered # "restarting"
    BY DEF PhoneInit
  <2>3. /\ login \in Seq({"running", "listening", "failed", "ended"}) /\ login # <<>>
        /\ Len(login) = 1 /\ login[1] = IF stored THEN "running" ELSE "failed"
    BY <2>1
  <2>4. VerdictOf(login[Len(login)]) /\ initFinish \in BOOLEAN /\ passwordError \in BOOLEAN
    BY <2>1, <2>3 DEF VerdictOf
  <2> QED
    BY <2>2, <2>3, <2>4 DEF VerdictInv, Restarting
<1>2. VerdictInv => VerdictIsOurs
  <2> SUFFICES ASSUME VerdictInv, ~Restarting, ~overtaken,
                      \A g \in DOMAIN login : login[g] # "running"
               PROVE  initFinish /\ passwordError = (login[Len(login)] = "failed")
    BY DEF VerdictIsOurs
  <2>1. Len(login) \in DOMAIN login
    BY DEF VerdictInv
  <2> QED
    BY <2>1 DEF VerdictInv, VerdictOf
<1> QED
  BY <1>1, <1>2, VerdictStep, PTL DEF PhoneSpec

-----------------------------------------------------------------------------
(* The robot's speaker *)

(* A buffer b after n pieces, of which those in m were refused: it holds    *)
(* the last pieces that were not, in order and without a gap.               *)
Unbroken(b, n, m) ==
  /\ b \in Seq(Nat) /\ n \in Nat /\ m \subseteq 1 .. n
  /\ \A i \in 1 .. Len(b) : b[i] \in (1 .. n) \ m
  /\ \A i \in 1 .. Len(b) - 1 : b[i] < b[i + 1] /\ b[i] + 1 .. b[i + 1] - 1 \subseteq m
  /\ Len(b) > 0 => b[Len(b)] + 1 .. n \subseteq m

(* Before the first piece is played the buffer b holds the first pieces of  *)
(* the call, or all but the one just deleted; as it takes more than three   *)
(* to fill it, none of them is refused.                                     *)
Opening(b) ==
  IF deleted THEN b[1] = 2 /\ b[2] = 3
  ELSE /\ \A i \in 1 .. Len(b) : i <= 3 => b[i] = i
       /\ Len(b) <= 3 => arrived = Len(b) /\ ear # "refuse"

(* Inductive invariant: the piece heard last is second in the buffer, or    *)
(* first while the callback is between deleting and playing.                *)
SoundInv ==
  /\ Unbroken(recieveBuffer, arrived, missed)
  /\ deleted \in BOOLEAN /\ CallbackSafe
  /\ IF heard = 0 THEN Opening(recieveBuffer)
     ELSE /\ Len(recieveBuffer) >= 2
          /\ heard = IF deleted THEN recieveBuffer[1] ELSE recieveBuffer[2]

(* The next piece goes to the end of the buffer. *)
LEMMA AppendUnbroken ==
  ASSUME NEW b, NEW n, NEW m, Unbroken(b, n, m)
  PROVE  Unbroken(Append(b, n + 1), n + 1, m)
<1> DEFINE c == Append(b, n + 1)
<1> USE DEF Unbroken
<1>1. /\ c \in Seq(Nat) /\ Len(c) = Len(b) + 1 /\ c[Len(b) + 1] = n + 1
      /\ \A i \in 1 .. Len(b) : c[i] = b[i]
  OBVIOUS
<1>2. n + 1 \in Nat /\ m \subseteq 1 .. n + 1 /\ n + 1 \notin m /\ Len(b) \in Nat
  OBVIOUS
<1> HIDE DEF c
<1>3. ASSUME NEW i \in 1 .. Len(c) PROVE c[i] \in (1 .. n + 1) \ m
  <2>1. CASE i \in 1 .. Len(b)
    <3>1. c[i] = b[i] /\ b[i] \in (1 .. n) \ m
      BY <1>1, <2>1
    <3> QED
      BY <3>1, <1>2
  <2>2. CASE i = Len(b) + 1
    <3>1. c[i] = n + 1
      BY <1>1, <2>2
    <3> QED
      BY <3>1, <1>2
  <2> QED
    BY <1>1, <1>2, <2>1, <2>2
<1>4. ASSUME NEW i \in 1 .. Len(c) - 1
      PROVE  c[i] < c[i + 1] /\ c[i] + 1 .. c[i + 1] - 1 \subseteq m
  <2>1. CASE i < Len(b)
    <3>1. i \in 1 .. Len(b) - 1 /\ i \in 1 .. Len(b) /\ i + 1 \in 1 .. Len(b)
      BY <1>1, <1>2, <2>1
    <3>2. c[i] = b[i] /\ c[i + 1] = b[i + 1]
      BY <1>1, <3>1
    <3> QED
      BY <3>1, <3>2
  <2>2. CASE i = Len(b)
    <3>1. c[i] = b[Len(b)] /\ c[i + 1] = n + 1 /\ b[Len(b)] \in 1 .. n
      BY <1>1, <1>2, <2>2
    <3>2. c[i + 1] - 1 = n
      BY <3>1, <1>2
    <3> QED
      BY <3>1, <3>2, <2>2
  <2> QED
    BY <1>1, <1>2, <2>1, <2>2
<1>5. c[Len(c)] + 1 .. n + 1 \subseteq m
  BY <1>1, <1>2
<1> QED
  BY <1>1, <1>2, <1>3, <1>4, <1>5 DEF c

(* The next piece is refused. *)
LEMMA RefuseUnbroken ==
  ASSUME NEW b, NEW n, NEW m, Unbroken(b, n, m)
  PROVE  Unbroken(b, n + 1, m \cup {n + 1})
BY DEF Unbroken

(* The first piece is deleted. *)
LEMMA TailUnbroken ==
  ASSUME NEW b, NEW n, NEW m, Unbroken(b, n, m), Len(b) > 0
  PROVE  Unbroken(Tail(b), n, m)
<1> DEFINE c == Tail(b)
<1> USE DEF Unbroken
<1>1. /\ c \in Seq(Nat) /\ Len(c) = Len(b) - 1
      /\ \A i \in 1 .. Len(c) : c[i] = b[i + 1]
  OBVIOUS
<1>2. Len(b) \in Nat
  OBVIOUS
<1> HIDE DEF c
<1>3. ASSUME NEW i \in 1 .. Len(c) PROVE c[i] \in (1 .. n) \ m
  <2>1. c[i] = b[i + 1] /\ i + 1 \in 1 .. Len(b)
    BY <1>1, <1>2
  <2> QED
    BY <2>1
<1>4. ASSUME NEW i \in 1 .. Len(c) - 1
      PROVE  c[i] < c[i + 1] /\ c[i] + 1 .. c[i + 1] - 1 \subseteq m
  <2>1. i \in 1 .. Len(c) /\ i + 1 \in 1 .. Len(c) /\ i + 1 \in 1 .. Len(b) - 1
    BY <1>1, <1>2
  <2>2. c[i] = b[i + 1] /\ c[i + 1] = b[(i + 1) + 1]
    BY <1>1, <2>1
  <2> QED
    BY <2>1, <2>2
<1>5. ASSUME Len(c) > 0 PROVE c[Len(c)] + 1 .. n \subseteq m
  <2>1. Len(c) \in 1 .. Len(c) /\ Len(c) + 1 = Len(b)
    BY <1>1, <1>2, <1>5
  <2>2. c[Len(c)] = b[Len(b)]
    BY <1>1, <2>1
  <2> QED
    BY <2>2
<1> QED
  BY <1>1, <1>2, <1>3, <1>4, <1>5 DEF c

(* A call that begins or ends empties the buffer. *)
LEMMA SilenceInv ==
  ASSUME Silence
  PROVE  SoundInv'
<1>1. /\ recieveBuffer' = <<>> /\ arrived' = 0 /\ missed' = {}
      /\ heard' = 0 /\ deleted' = FALSE /\ ear' = "test"
  BY DEF Silence
<1>2. Unbroken(<<>>, 0, {})
  BY DEF Unbroken
<1>3. Unbroken(recieveBuffer', arrived', missed')
  BY <1>1, <1>2
<1>4. Opening(recieveBuffer)'
  BY <1>1 DEF Opening
<1> QED
  BY <1>1, <1>3, <1>4, Zenon DEF SoundInv, CallbackSafe

(* The receiver looks at the buffer, and finds it full only with more than  *)
(* three pieces.                                                            *)
LEMMA TestBufferInv ==
  ASSUME SoundInv, TestBuffer
  PROVE  SoundInv'
<1>1. /\ UNCHANGED <<recieveBuffer, deleted, arrived, heard, missed>>
      /\ Len(recieveBuffer) \in Nat
      /\ ear' = IF Len(recieveBuffer) < RecvCap THEN "take" ELSE "refuse"
  BY DEF TestBuffer, SoundInv, Unbroken
<1>2. Len(recieveBuffer) <= 3 => ear' # "refuse"
  BY <1>1, MediaAssumption
<1> QED
  BY <1>1, <1>2 DEF SoundInv, CallbackSafe, Opening

(* A piece arrives and is kept, or refused. *)
LEMMA RecvDataInv ==
  ASSUME SoundInv, RecvData
  PROVE  SoundInv'
<1> DEFINE b == recieveBuffer
<1>1. arrived' = arrived + 1 /\ UNCHANGED <<deleted, heard>> /\ ear' = "raise"
  BY DEF RecvData
<1>0. b \in Seq(Nat) /\ Len(b) \in Nat /\ arrived \in Nat
  BY DEF SoundInv, Unbroken
<1>2. CASE ear = "take"
  <2>1. recieveBuffer' = Append(b, arrived + 1) /\ missed' = missed
    BY <1>2 DEF RecvData
  <2>2. Unbroken(recieveBuffer', arrived', missed')
    BY <1>1, <2>1, AppendUnbroken DEF SoundInv
  <2>3. /\ Len(recieveBuffer') = Len(b) + 1
        /\ recieveBuffer'[Len(b) + 1] = arrived + 1
        /\ \A i \in 1 .. Len(b) : recieveBuffer'[i] = b[i]
    BY <1>0, <2>1
  <2>4. Len(b) >= 2 => recieveBuffer'[1] = b[1] /\ recieveBuffer'[2] = b[2]
    BY <1>0, <2>3
  <2>5. heard = 0 /\ ~deleted => Opening(recieveBuffer)'
    <3> SUFFICES ASSUME heard = 0, ~deleted PROVE Opening(recieveBuffer)'
      OBVIOUS
    <3>1. /\ \A i \in 1 .. Len(b) : i <= 3 => b[i] = i
          /\ Len(b) <= 3 => arrived = Len(b)
      BY DEF SoundInv, Opening
    <3>2. ASSUME NEW i \in 1 .. Len(b) + 1, i <= 3 PROVE recieveBuffer'[i] = i
      <4>1. i = Len(b) + 1 => arrived = Len(b)
        BY <1>0, <3>1, <3>2
      <4>2. i # Len(b) + 1 => i \in 1 .. Len(b)
        BY <1>0, <3>2
      <4> QED
        BY <2>3, <3>1, <3>2, <4>1, <4>2
    <3>3. Len(b) + 1 <= 3 => arrived + 1 = Len(b) + 1
      BY <1>0, <3>1
    <3>4. /\ \A i \in 1 .. Len(recieveBuffer') : i <= 3 => recieveBuffer'[i] = i
          /\ Len(recieveBuffer') <= 3 => arrived' = Len(recieveBuffer')
      BY <1>1, <2>3, <3>2, <3>3
    <3> QED
      BY <1>1, <3>4 DEF Opening
  <2> QED
    BY <1>0, <1>1, <2>2, <2>3, <2>4, <2>5 DEF SoundInv, CallbackSafe, Opening
<1>3. CASE ear = "refuse"
  <2>1. recieveBuffer' = b /\ missed' = missed \cup {arrived + 1}
    BY <1>3 DEF RecvData
  <2>2. Unbroken(recieveBuffer', arrived', missed')
    BY <1>1, <2>1, RefuseUnbroken DEF SoundInv
  <2>3. heard = 0 => Opening(recieveBuffer)'
    BY <1>1, <1>3, <2>1 DEF SoundInv, Opening
  <2> QED
    BY <1>1, <2>1, <2>2, <2>3 DEF SoundInv, CallbackSafe
<1> QED
  BY <1>2, <1>3 DEF RecvData

(* The receiver gives up waiting, or sets the flag. *)
LEMMA ReceiverRestInv ==
  ASSUME SoundInv, RecvTimesOut \/ SetFlag
  PROVE  SoundInv'
<1>1. /\ UNCHANGED <<recieveBuffer, deleted, arrived, heard, missed>>
      /\ ear' \in {"raise", "lower", "test"}
  BY DEF RecvTimesOut, SetFlag
<1> QED
  BY <1>1 DEF SoundInv, CallbackSafe, Opening

(* The first half of the callback. *)
LEMMA CallbackInv ==
  ASSUME SoundInv, Callback
  PROVE  SoundInv'
<1> DEFINE b == recieveBuffer
<1>1. ~deleted /\ UNCHANGED <<ear, arrived, heard, missed>>
  BY DEF Callback
<1>2. CASE flag /\ Len(b) > 2
  <2>1. recieveBuffer' = Tail(b) /\ deleted' = TRUE
    BY <1>2 DEF Callback
  <2>2. b \in Seq(Nat)
    BY DEF SoundInv, Unbroken
  <2>3. /\ Len(recieveBuffer') >= 2 /\ Len(b) > 0
        /\ recieveBuffer'[1] = b[2] /\ recieveBuffer'[2] = b[3]
    BY <1>2, <2>1, <2>2
  <2>4. Unbroken(recieveBuffer', arrived', missed')
    BY <1>1, <2>1, <2>3, TailUnbroken DEF SoundInv
  <2>5. heard = 0 => Opening(recieveBuffer)'
    <3> SUFFICES ASSUME heard = 0 PROVE Opening(recieveBuffer)'
      OBVIOUS
    <3>1. 2 \in 1 .. Len(b) /\ 3 \in 1 .. Len(b)
      BY <1>2, <2>2
    <3>2. b[2] = 2 /\ b[3] = 3
      BY <1>1, <3>1 DEF SoundInv, Opening
    <3> QED
      BY <2>1, <2>3, <3>2 DEF Opening
  <2> QED
    BY <1>1, <2>1, <2>3, <2>4, <2>5 DEF SoundInv, CallbackSafe
<1>3. CASE ~(flag /\ Len(b) > 2)
  <2>1. UNCHANGED <<recieveBuffer, deleted>>
    BY <1>3 DEF Callback
  <2> QED
    BY <1>1, <2>1 DEF SoundInv, CallbackSafe, Opening
<1> QED
  BY <1>2, <1>3

(* The second half of the callback. *)
LEMMA CallbackPlaysInv ==
  ASSUME SoundInv, CallbackPlays
  PROVE  SoundInv'
<1>1. /\ UNCHANGED <<recieveBuffer, arrived, missed>>
      /\ deleted /\ deleted' = FALSE /\ heard' = recieveBuffer[2]
  BY DEF CallbackPlays
<1>2. Len(recieveBuffer) >= 2 /\ recieveBuffer[2] # 0
  BY <1>1 DEF SoundInv, CallbackSafe, Unbroken
<1> QED
  BY <1>1, <1>2 DEF SoundInv, CallbackSafe

(* Every other step leaves what the speaker is about. *)
LEMMA SoundKept ==
  ASSUME SoundInv, UNCHANGED <<recieveBuffer, deleted, ear, arrived, heard, missed>>
  PROVE  SoundInv'
BY DEF SoundInv, CallbackSafe, Opening

(* Every step keeps SoundInv. *)
LEMMA SoundStep ==
  ASSUME SoundInv, [CaptureNext]_captureVars
  PROVE  SoundInv'
<1>1. CASE Answer \/ HangUp
  BY <1>1, SilenceInv DEF Answer, HangUp
<1>2. ASSUME NEW c \in Calls, Thread(c) \/ DecoderEnds(c) \/ RecvATK(c)
      PROVE  SoundInv'
  <2>1. UNCHANGED soundVars
    BY <1>2 DEF Thread, SendStream, Insist, DecoderEnds, RecvATK
  <2> QED
    BY <2>1, SoundKept DEF soundVars
<1>3. CASE SentData \/ UNCHANGED captureVars
  BY <1>3, SoundKept DEF SentData, captureVars, soundVars
<1> QED
  BY <1>1, <1>2, <1>3, TestBufferInv, RecvDataInv, ReceiverRestInv, CallbackInv,
     CallbackPlaysInv DEF CaptureNext

(* SoundInv is an invariant. *)
LEMMA SoundInvariant == CaptureSpec => []SoundInv
<1>1. CaptureInit => SoundInv
  <2> SUFFICES ASSUME CaptureInit PROVE SoundInv
    OBVIOUS
  <2>1. Unbroken(<<>>, 0, {})
    BY DEF Unbroken
  <2>2. /\ recieveBuffer = <<>> /\ arrived = 0 /\ missed = {}
        /\ deleted = FALSE /\ heard = 0 /\ ear = "test"
    BY DEF CaptureInit
  <2>3. Unbroken(recieveBuffer, arrived, missed)
    BY <2>1, <2>2
  <2>4. Opening(recieveBuffer)
    BY <2>2 DEF Opening
  <2> QED
    BY <2>2, <2>3, <2>4, Zenon DEF SoundInv, CallbackSafe
<1> QED
  BY <1>1, SoundStep, PTL DEF CaptureSpec

(* callback() always finds the second piece it plays, whatever the receiver *)
(* does between its two halves and however small the buffers are.           *)
THEOREM RobotCallbackSafe == CaptureSpec => []CallbackSafe
<1>1. SoundInv => CallbackSafe
  BY DEF SoundInv
<1> QED
  BY <1>1, SoundInvariant, PTL

(* The speaker begins a call with its third piece and then repeats none and *)
(* leaves out none but those a full buffer refused, although callback()     *)
(* deletes one piece and plays another.                                     *)
THEOREM RobotSoundInOrder == CaptureSpec => SoundInOrder
<1> DEFINE inOrder == IF heard = 0 THEN heard' = 3
                      ELSE /\ heard < heard' /\ heard' \notin missed
                           /\ heard + 1 .. heard' - 1 \subseteq missed
<1>1. ASSUME [CaptureNext]_captureVars, heard' \notin {heard, 0}
      PROVE  CallbackPlays
  <2>1. ~(Answer \/ HangUp)
    BY <1>1 DEF Answer, HangUp, Silence
  <2>2. ASSUME NEW c \in Calls
        PROVE  ~(Thread(c) \/ DecoderEnds(c) \/ RecvATK(c))
    BY <1>1 DEF Thread, SendStream, Insist, DecoderEnds,
                RecvATK, soundVars
  <2>3. ~(TestBuffer \/ RecvData \/ RecvTimesOut \/ SetFlag \/ Callback \/ SentData)
    BY <1>1 DEF TestBuffer, RecvData, RecvTimesOut, SetFlag, Callback, SentData
  <2> QED
    BY <1>1, <2>1, <2>2, <2>3 DEF CaptureNext, captureVars, soundVars
<1>2. ASSUME SoundInv, CallbackPlays PROVE inOrder
  <2> DEFINE b == recieveBuffer
  <2>1. /\ heard # 0 => heard = b[1]
        /\ heard = 0 => b[2] = 3
        /\ heard' = b[2] /\ Len(b) >= 2 /\ b \in Seq(Nat)
    BY <1>2 DEF SoundInv, CallbackSafe, Opening, Unbroken, CallbackPlays
  <2>2. b[1] \in Nat /\ b[1] < b[1 + 1] /\ b[1] + 1 .. b[1 + 1] - 1 \subseteq missed
    BY <1>2, <2>1 DEF SoundInv, Unbroken
  <2>3. b[2] \in Nat /\ b[2] \notin missed
    BY <1>2, <2>1 DEF SoundInv, Unbroken
  <2> HIDE DEF b
  <2> QED
    BY <2>1, <2>2, <2>3
<1>3. SoundInv /\ [CaptureNext]_captureVars => [heard' \notin {heard, 0} => inOrder]_captureVars
  BY <1>1, <1>2
<1> QED
  BY <1>3, SoundInvariant, PTL DEF CaptureSpec, SoundInOrder

-----------------------------------------------------------------------------
(* One microphone on the phone.  First the tasks of the main thread. *)

ForActivity ==
  StartTasks \cup {"click_start", "click_end", "miss_connection", "hang_up",
                   "answer_call", "resume", "destroy"}
Kinds == ForActivity \cup {"on_phone_call", "ringEnd", "launch", "pick"}
Tasks == [kind : Kinds, a : Nat, s : Nat]
Activities ==
  [live : BOOLEAN, audio : Nat, video : Nat, lock : Nat, surface : BOOLEAN, start : BOOLEAN]

Places == {"lock", "check", "init", "setting", "opening", "done"}
StarterRecs == [a : Nat, pc : Places]

MediaTypes ==
  /\ looper \in Seq(Tasks)
  /\ acts \in Seq(Activities)
  /\ starters \in Seq(StarterRecs)

(* ForLive has a task for every live activity and for no other: counting    *)
(* the live ones up to an activity numbers them from 1 without a gap.       *)
LEMMA ForLiveTasks ==
  ASSUME MediaTypes, NEW kind \in Kinds
  PROVE  /\ ForLive(kind) \in Seq(Tasks)
         /\ \A j \in DOMAIN ForLive(kind) :
              ForLive(kind)[j].kind = kind /\ ForLive(kind)[j].a \in Live
         /\ \A a \in Live : \E j \in DOMAIN ForLive(kind) : ForLive(kind)[j].a = a
<1> DEFINE Upto(a) == {b \in Live : b <= a}
<1> DEFINE n == Cardinality(Live)
<1> DEFINE rank == [a \in Live |-> Cardinality(Upto(a))]
<1> DEFINE At(i) == CHOOSE a \in Live : Cardinality(Upto(a)) = i
<1>1. Live \subseteq Nat /\ IsFiniteSet(Live) /\ n \in Nat
  <2>1. DOMAIN acts = 1 .. Len(acts) /\ Len(acts) \in Nat
    BY DEF MediaTypes
  <2>2. IsFiniteSet(1 .. Len(acts))
    BY <2>1, FS_Interval
  <2>3. Live \in SUBSET (1 .. Len(acts))
    BY <2>1 DEF Live
  <2>4. IsFiniteSet(Live)
    BY <2>2, <2>3, FS_Subset
  <2>5. n \in Nat
    BY <2>4, FS_CardinalityType
  <2>6. Live \subseteq Nat
    BY <2>1, <2>3
  <2> QED BY <2>4, <2>5, <2>6
<1>2. ASSUME NEW a \in Live
      PROVE  IsFiniteSet(Upto(a)) /\ Cardinality(Upto(a)) \in 1 .. n
  <2>1. Upto(a) \in SUBSET Live /\ a \in Upto(a)
    BY <1>1
  <2>2. IsFiniteSet(Upto(a)) /\ Cardinality(Upto(a)) <= n
    BY <2>1, <1>1, FS_Subset
  <2>3. Cardinality(Upto(a)) \in Nat /\ Cardinality(Upto(a)) # 0
    BY <2>1, <2>2, FS_CardinalityType, FS_EmptySet
  <2> QED BY <2>2, <2>3, <1>1
<1>3. ASSUME NEW a \in Live, NEW b \in Live, Cardinality(Upto(a)) = Cardinality(Upto(b))
      PROVE  a = b
  <2>1. ASSUME NEW x \in Live, NEW y \in Live, x < y,
               Cardinality(Upto(x)) = Cardinality(Upto(y))
        PROVE  FALSE
    <3>1. x \in Nat /\ y \in Nat /\ \A c \in Live : c \in Nat
      BY <1>1
    <3>2. \A c \in Live : c <= x => c <= y
      BY <3>1, <2>1
    <3>3. y <= y /\ ~(y <= x)
      BY <3>1, <2>1
    <3>4. Upto(x) \in SUBSET Upto(y)
      BY <3>2
    <3>5. y \in Upto(y) /\ y \notin Upto(x)
      BY <3>3
    <3>6. IsFiniteSet(Upto(y)) /\ Cardinality(Upto(y)) = Cardinality(Upto(x))
      BY <1>2, <2>1
    <3> HIDE DEF Upto
    <3>7. Upto(y) = Upto(x)
      BY <3>4, <3>6, FS_Subset
    <3> QED BY <3>5, <3>7
  <2>2. a \in Nat /\ b \in Nat
    BY <1>1
  <2>3. a < b \/ b < a \/ a = b
    BY <2>2
  <2> QED BY <2>1, <2>3, <1>3
<1>4. rank \in Injection(Live, 1 .. n)
  <2> HIDE DEF Upto, n
  <2>1. rank \in [Live -> 1 .. n]
    BY <1>2
  <2>2. \A a, b \in Live : rank[a] = rank[b] => a = b
    BY <1>3
  <2> HIDE DEF rank
  <2> QED BY <2>1, <2>2 DEF Injection, IsInjective
<1>5. IsFiniteSet(1 .. n) /\ Cardinality(1 .. n) = n
  <2> HIDE DEF n
  <2> QED BY <1>1, FS_Interval
<1>6. rank \in Surjection(Live, 1 .. n)
  <2> HIDE DEF rank
  <2> QED BY <1>4, <1>5, FS_Injection
<1>7. \A i \in 1 .. n : \E a \in Live : Cardinality(Upto(a)) = i
  <2> HIDE DEF Upto, n
  <2> QED BY <1>6 DEF Surjection
<1>8. ASSUME NEW i \in 1 .. n
      PROVE  At(i) \in Live /\ Cardinality(Upto(At(i))) = i
  <2> HIDE DEF Upto, n
  <2> QED BY <1>7
<1>9. ASSUME NEW a \in Live PROVE At(Cardinality(Upto(a))) = a
  <2> DEFINE c == Cardinality(Upto(a))
  <2>1. c \in 1 .. n
    BY <1>2
  <2>2. At(c) \in Live /\ Cardinality(Upto(At(c))) = c
    <3> HIDE DEF c, At
    <3> QED BY <2>1, <1>8
  <2> HIDE DEF At
  <2> QED BY <2>2, <1>3
<1>10. ForLive(kind) = [i \in 1 .. n |-> Task(kind, At(i), 0)]
  BY DEF ForLive
<1> HIDE DEF At, Upto, n
<1>11. ASSUME NEW i \in 1 .. n PROVE Task(kind, At(i), 0) \in Tasks
  BY <1>8, <1>1 DEF Task, Tasks
<1>12. ForLive(kind) \in Seq(Tasks) /\ DOMAIN ForLive(kind) = 1 .. n
  <2>1. ForLive(kind) \in [1 .. n -> Tasks]
    BY <1>10, <1>11
  <2>2. n \in Nat
    BY <1>1
  <2>3. ForLive(kind) \in Seq(Tasks)
    BY <2>1, <2>2, SeqDef
  <2>4. DOMAIN ForLive(kind) = 1 .. n
    BY <2>1
  <2> QED BY <2>3, <2>4
<1>13. ASSUME NEW j \in 1 .. n
       PROVE  ForLive(kind)[j].kind = kind /\ ForLive(kind)[j].a = At(j)
  BY <1>10 DEF Task
<1>14. ASSUME NEW a \in Live PROVE \E j \in 1 .. n : ForLive(kind)[j].a = a
  <2>1. Cardinality(Upto(a)) \in 1 .. n
    BY <1>2
  <2> QED BY <2>1, <1>9, <1>13
<1> QED BY <1>12, <1>13, <1>14, <1>8

(* A step takes d tasks from the front of the looper, one or none, and puts *)
(* tasks at its end.                                                        *)
Shifted(d, tasks) ==
  /\ d \in {0, 1}
  /\ looper' \in Seq(Tasks)
  /\ \A i \in DOMAIN looper : i > d => i - d \in DOMAIN looper' /\ looper'[i - d] = looper[i]
  /\ \A j \in DOMAIN tasks : \E i \in DOMAIN looper' : looper'[i] = tasks[j]
  /\ \A i \in DOMAIN looper' :
       \/ i + d \in DOMAIN looper /\ looper'[i] = looper[i + d]
       \/ /\ i + d > Len(looper) /\ i + d - Len(looper) \in DOMAIN tasks
          /\ looper'[i] = tasks[i + d - Len(looper)]

(* Joining two sequences, in the form Shifted needs. *)
LEMMA Joined ==
  ASSUME NEW u \in Seq(Tasks), NEW q \in Seq(Tasks), NEW z, z = u \o q
  PROVE  /\ z \in Seq(Tasks) /\ DOMAIN z = 1 .. Len(u) + Len(q)
         /\ \A i \in 1 .. Len(u) : z[i] = u[i]
         /\ \A j \in 1 .. Len(q) : z[Len(u) + j] = q[j]
<1>1. Len(u) \in Nat /\ Len(q) \in Nat
  OBVIOUS
<1>2. z \in Seq(Tasks) /\ Len(z) = Len(u) + Len(q)
  BY ConcatProperties
<1>3. DOMAIN z = 1 .. Len(u) + Len(q)
  BY <1>2
<1>4. \A i \in 1 .. Len(u) + Len(q) : z[i] = IF i <= Len(u) THEN u[i] ELSE q[i - Len(u)]
  BY ConcatProperties
<1>5. ASSUME NEW i \in 1 .. Len(u) PROVE z[i] = u[i]
  <2>1. i \in 1 .. Len(u) + Len(q) /\ i <= Len(u)
    BY <1>1
  <2> QED BY <2>1, <1>4
<1>6. ASSUME NEW j \in 1 .. Len(q) PROVE z[Len(u) + j] = q[j]
  <2>1. Len(u) + j \in 1 .. Len(u) + Len(q) /\ ~(Len(u) + j <= Len(u)) /\ Len(u) + j - Len(u) = j
    BY <1>1
  <2> QED BY <2>1, <1>4
<1> QED BY <1>2, <1>3, <1>5, <1>6

(* The main thread takes the first task and puts others at the end. *)
LEMMA ShiftOne ==
  ASSUME MediaTypes, looper # <<>>, NEW tasks \in Seq(Tasks), Also(tasks)
  PROVE  Shifted(1, tasks)
<1>0. PICK u, z : u = Tail(looper) /\ z = u \o tasks
  OBVIOUS
<1>1. looper \in Seq(Tasks) /\ Len(looper) \in Nat /\ Len(looper) # 0 /\ DOMAIN looper = 1 .. Len(looper)
  BY DEF MediaTypes
<1>2. u \in Seq(Tasks) /\ Len(u) = Len(looper) - 1 /\ \A i \in 1 .. Len(u) : u[i] = looper[i + 1]
  BY <1>0, <1>1, HeadTailProperties
<1>3. looper' = z
  BY <1>0 DEF Also
<1>4. /\ z \in Seq(Tasks) /\ DOMAIN z = 1 .. Len(u) + Len(tasks)
      /\ \A i \in 1 .. Len(u) : z[i] = u[i]
      /\ \A j \in 1 .. Len(tasks) : z[Len(u) + j] = tasks[j]
  BY <1>0, <1>2, Joined
<1>5. Len(tasks) \in Nat /\ DOMAIN tasks = 1 .. Len(tasks)
  OBVIOUS
<1>6. ASSUME NEW i \in DOMAIN looper, i > 1
      PROVE  i - 1 \in DOMAIN z /\ z[i - 1] = looper[i]
  <2>0. i \in 1 .. Len(looper) /\ Len(u) = Len(looper) - 1
    BY <1>1, <1>2
  <2>1. i - 1 \in 1 .. Len(u) /\ i - 1 \in 1 .. Len(u) + Len(tasks) /\ (i - 1) + 1 = i
    BY <2>0, <1>1, <1>5, <1>6
  <2> QED BY <2>1, <1>2, <1>4
<1>7. ASSUME NEW j \in DOMAIN tasks PROVE \E i \in DOMAIN z : z[i] = tasks[j]
  <2>1. Len(u) + j \in 1 .. Len(u) + Len(tasks)
    BY <1>1, <1>2, <1>5
  <2> QED BY <2>1, <1>4, <1>5
<1>8. ASSUME NEW i \in DOMAIN z
      PROVE  \/ i + 1 \in DOMAIN looper /\ z[i] = looper[i + 1]
             \/ /\ i + 1 > Len(looper) /\ i + 1 - Len(looper) \in DOMAIN tasks
                /\ z[i] = tasks[i + 1 - Len(looper)]
  <2>1. CASE i <= Len(u)
    <3>0. i \in 1 .. Len(u) + Len(tasks) /\ Len(u) = Len(looper) - 1
      BY <1>2, <1>4
    <3>1. i \in 1 .. Len(u) /\ i + 1 \in 1 .. Len(looper)
      BY <3>0, <2>1, <1>1, <1>5
    <3> QED BY <3>1, <1>1, <1>2, <1>4
  <2>2. CASE i > Len(u)
    <3> DEFINE j == i + 1 - Len(looper)
    <3>0. i \in 1 .. Len(u) + Len(tasks) /\ Len(u) = Len(looper) - 1
      BY <1>2, <1>4
    <3>1. j \in 1 .. Len(tasks) /\ Len(u) + j = i /\ i + 1 > Len(looper)
      <4>1. \A m, l, k \in Nat : \A x \in 1 .. m + k : m = l - 1 /\ x > m =>
              x + 1 - l \in 1 .. k /\ m + (x + 1 - l) = x /\ x + 1 > l
        OBVIOUS
      <4>2. Len(u) \in Nat /\ Len(looper) \in Nat /\ Len(tasks) \in Nat
        BY <1>1, <1>2, <1>5
      <4> QED BY <4>1, <4>2, <3>0, <2>2
    <3>2. z[Len(u) + j] = tasks[j]
      <4> HIDE DEF j
      <4> QED BY <3>1, <1>4
    <3> QED BY <3>1, <3>2, <1>5
  <2>3. i \in Nat /\ Len(u) \in Nat
    BY <1>1, <1>2, <1>4
  <2> QED BY <2>1, <2>2, <2>3
<1> QED BY <1>3, <1>4, <1>6, <1>7, <1>8 DEF Shifted

(* Tasks put at the end only. *)
LEMMA ShiftNone ==
  ASSUME MediaTypes, NEW tasks \in Seq(Tasks), looper' = looper \o tasks
  PROVE  Shifted(0, tasks)
<1> DEFINE z == looper \o tasks
<1>1. looper \in Seq(Tasks) /\ Len(looper) \in Nat /\ DOMAIN looper = 1 .. Len(looper)
  BY DEF MediaTypes
<1>2. Len(tasks) \in Nat /\ DOMAIN tasks = 1 .. Len(tasks)
  OBVIOUS
<1>3. /\ z \in Seq(Tasks) /\ DOMAIN z = 1 .. Len(looper) + Len(tasks)
      /\ \A i \in 1 .. Len(looper) : z[i] = looper[i]
      /\ \A j \in 1 .. Len(tasks) : z[Len(looper) + j] = tasks[j]
  BY <1>1, Joined
<1>4. looper' = z
  OBVIOUS
<1> HIDE DEF z
<1>5. ASSUME NEW i \in DOMAIN looper
      PROVE  i - 0 \in DOMAIN z /\ z[i - 0] = looper[i]
  <2>1. i - 0 = i /\ i \in 1 .. Len(looper) + Len(tasks)
    BY <1>1, <1>2
  <2> QED BY <2>1, <1>1, <1>3
<1>6. ASSUME NEW j \in DOMAIN tasks PROVE \E i \in DOMAIN z : z[i] = tasks[j]
  <2>1. Len(looper) + j \in 1 .. Len(looper) + Len(tasks)
    BY <1>1, <1>2
  <2> QED BY <2>1, <1>2, <1>3
<1>7. ASSUME NEW i \in DOMAIN z
      PROVE  \/ i + 0 \in DOMAIN looper /\ z[i] = looper[i + 0]
             \/ /\ i + 0 > Len(looper) /\ i + 0 - Len(looper) \in DOMAIN tasks
                /\ z[i] = tasks[i + 0 - Len(looper)]
  <2>0. i \in Nat /\ i + 0 = i
    BY <1>1, <1>2, <1>3
  <2>1. CASE i <= Len(looper)
    <3>1. i \in 1 .. Len(looper)
      BY <2>1, <1>1, <1>2, <1>3
    <3> QED BY <3>1, <2>0, <1>1, <1>3
  <2>2. CASE i > Len(looper)
    <3> DEFINE j == i + 0 - Len(looper)
    <3>0. i \in 1 .. Len(looper) + Len(tasks)
      BY <1>3
    <3>1. j \in 1 .. Len(tasks) /\ Len(looper) + j = i /\ i + 0 > Len(looper)
      BY <3>0, <2>2, <1>1, <1>2
    <3>2. z[Len(looper) + j] = tasks[j]
      <4> HIDE DEF j
      <4> QED BY <3>1, <1>3
    <3> QED BY <3>1, <3>2, <1>2
  <2> QED BY <2>0, <2>1, <2>2, <1>1
<1> QED BY <1>3, <1>4, <1>5, <1>6, <1>7 DEF Shifted

(* One task put at the end. *)
LEMMA ShiftAppend ==
  ASSUME MediaTypes, NEW t \in Tasks, looper' = Append(looper, t)
  PROVE  Shifted(0, <<t>>)
<1>1. looper' = looper \o <<t>>
  BY AppendIsConcat DEF MediaTypes
<1>2. <<t>> \in Seq(Tasks)
  OBVIOUS
<1> QED BY <1>1, <1>2, ShiftNone

(* The looper as it was. *)
LEMMA ShiftNothing ==
  ASSUME MediaTypes, looper' = looper
  PROVE  Shifted(0, <<>>)
<1>1. looper' = looper \o <<>>
  BY ConcatEmptySeq DEF MediaTypes
<1>2. <<>> \in Seq(Tasks)
  OBVIOUS
<1> QED BY <1>1, <1>2, ShiftNone

-----------------------------------------------------------------------------
(* The inductive invariant of OneMicrophone. *)

(* A task names an activity there is, and a task of a start one that has    *)
(* left getSetting().                                                       *)
TaskOK(t) ==
  /\ t.kind \in ForActivity => t.a \in DOMAIN acts
  /\ t.kind \in StartTasks =>
       /\ t.s \in DOMAIN starters
       /\ starters[t.s].a = t.a
       /\ starters[t.s].pc \in {"opening", "done"}

MediaRefs ==
  /\ \A s \in DOMAIN starters : starters[s].a \in DOMAIN acts
  /\ \A i \in DOMAIN looper : TaskOK(looper[i])

HasTask(s, kinds) == \E i \in DOMAIN looper : looper[i].kind \in kinds /\ looper[i].s = s

(* A start under way; one that has passed its test; and one whose Audio has *)
(* yet to be made.                                                          *)
Unfinished(s) == starters[s].pc # "done" \/ HasTask(s, StartTasks)
Passed(s) == starters[s].pc \in {"init", "setting", "opening"} \/ HasTask(s, StartTasks)
Soundless(s) == starters[s].pc \in {"init", "setting"} \/ HasTask(s, {"audio"})

(* Activity b is destroyed by a task in the looper, or by one before i. *)
Leaving(b) == \E j \in DOMAIN looper : looper[j].kind = "destroy" /\ looper[j].a = b
Doomed(b, i) == \E j \in DOMAIN looper : j < i /\ looper[j].kind = "destroy" /\ looper[j].a = b

(* Only the last activity stays, and the others are gone before its sound   *)
(* starts; a start asks for its sound once.                                 *)
OthersLeave == \A b \in DOMAIN acts : acts[b].live /\ b < Len(acts) => Leaving(b)
GoneBeforeSound ==
  \A i \in DOMAIN looper : looper[i].kind = "audio" =>
    \A b \in DOMAIN acts : b < looper[i].a /\ acts[b].live => Doomed(b, i)
SoundAskedOnce ==
  \A i, j \in DOMAIN looper :
    looper[i].kind = "audio" /\ looper[j].kind = "audio" /\ looper[i].s = looper[j].s => i = j
LooperOrder == OthersLeave /\ GoneBeforeSound /\ SoundAskedOnce

(* A start under way has its activity; an activity with sound is the first  *)
(* live one; one start per activity has passed its test, and as long as its *)
(* sound is to come the field is free; a microphone is in the field of its  *)
(* activity, where an end finds it.                                         *)
StartHasActivity == \A s \in DOMAIN starters : Unfinished(s) => acts[starters[s].a].live
SoundIsFirst ==
  \A a \in DOMAIN acts : acts[a].audio # 0 =>
    acts[a].live /\ \A b \in DOMAIN acts : b < a => ~acts[b].live
OnePassed ==
  \A s, t \in DOMAIN starters :
    Passed(s) /\ Passed(t) /\ starters[s].a = starters[t].a => s = t
FieldIsFree == \A s \in DOMAIN starters : Soundless(s) => acts[starters[s].a].audio = 0
MicInField == \A s \in mics : s \in DOMAIN starters /\ acts[starters[s].a].audio = s
Sessions == StartHasActivity /\ SoundIsFirst /\ OnePassed /\ FieldIsFree /\ MicInField

MicInv == MediaTypes /\ MediaRefs /\ (raced = {} => LooperOrder /\ Sessions)

(* What a step does to the starters: none turns back or goes from its test  *)
(* to its session.                                                          *)
Forward(u, q) ==
  /\ q # "done" => u # "done"
  /\ q \in {"init", "setting", "opening"} => u \in {"init", "setting", "opening"}
  /\ q \in {"init", "setting"} => u \in {"init", "setting"}
  /\ u \in {"opening", "done"} => q \in {"opening", "done"}

StartersGoOn ==
  /\ DOMAIN starters' = DOMAIN starters
  /\ \A s \in DOMAIN starters :
       starters'[s].a = starters[s].a /\ Forward(starters[s].pc, starters'[s].pc)

(* What a step puts into the looper: tasks for activities there are, those  *)
(* of a start only for one that has passed, its sound only from             *)
(* getSetting().                                                            *)
Plain(tasks) ==
  \A j \in DOMAIN tasks :
    /\ tasks[j].kind \notin StartTasks
    /\ tasks[j].kind \in ForActivity => tasks[j].a \in DOMAIN acts
Mail(tasks) ==
  \A j \in DOMAIN tasks :
    /\ tasks[j].kind \in ForActivity => tasks[j].a \in DOMAIN acts
    /\ tasks[j].kind \in StartTasks =>
         /\ tasks[j].s \in DOMAIN starters
         /\ starters[tasks[j].s].a = tasks[j].a
         /\ starters'[tasks[j].s].pc \in {"opening", "done"}
         /\ Passed(tasks[j].s)
    /\ tasks[j].kind = "audio" =>
         DOMAIN tasks = {1} /\ starters[tasks[j].s].pc = "setting"

(* What a step leaves of the activities. *)
SameSessions ==
  /\ DOMAIN acts' = DOMAIN acts
  /\ \A a \in DOMAIN acts : acts'[a].live = acts[a].live /\ acts'[a].audio = acts[a].audio

(* Tasks that belong to no start. *)
LEMMA PlainIsMail ==
  ASSUME NEW tasks, Plain(tasks) PROVE Mail(tasks)
  BY DEF Plain, Mail, StartTasks

(* Replacing an element of a sequence. *)
LEMMA ExceptInSeq ==
  ASSUME NEW S, NEW q \in Seq(S), NEW i \in DOMAIN q, NEW e \in S
  PROVE  /\ [q EXCEPT ![i] = e] \in Seq(S)
         /\ DOMAIN [q EXCEPT ![i] = e] = DOMAIN q
         /\ [q EXCEPT ![i] = e][i] = e
         /\ \A k \in DOMAIN q : k # i => [q EXCEPT ![i] = e][k] = q[k]
<1>1. q \in [1 .. Len(q) -> S] /\ Len(q) \in Nat
  OBVIOUS
<1>2. [q EXCEPT ![i] = e] \in [1 .. Len(q) -> S]
  BY <1>1
<1>3. [q EXCEPT ![i] = e] \in Seq(S)
  BY <1>1, <1>2, SeqDef
<1> QED BY <1>1, <1>3

(* What Goto does to the threads. *)
LEMMA GotoSteps ==
  ASSUME MediaTypes, NEW s \in DOMAIN starters, NEW pc \in Places, starters' = Goto(s, pc)
  PROVE  /\ starters' \in Seq(StarterRecs) /\ DOMAIN starters' = DOMAIN starters
         /\ starters'[s].a = starters[s].a /\ starters'[s].pc = pc
         /\ \A k \in DOMAIN starters : k # s => starters'[k] = starters[k]
<1>1. starters \in Seq(StarterRecs)
  BY DEF MediaTypes
<1> DEFINE e == [a |-> starters[s].a, pc |-> pc]
<1>2. starters[s] \in StarterRecs
  BY <1>1, ElementOfSeq
<1>3. e \in StarterRecs /\ e = [starters[s] EXCEPT !.pc = pc]
  BY <1>2 DEF StarterRecs
<1>4. starters' = [starters EXCEPT ![s] = e]
  BY <1>3 DEF Goto
<1>5. e.a = starters[s].a /\ e.pc = pc
  OBVIOUS
<1> HIDE DEF e
<1>6. /\ starters' \in Seq(StarterRecs) /\ DOMAIN starters' = DOMAIN starters
      /\ starters'[s] = e /\ \A k \in DOMAIN starters : k # s => starters'[k] = starters[k]
  BY <1>1, <1>3, <1>4, ExceptInSeq
<1> QED BY <1>5, <1>6

(* A thread that steps forward. *)
LEMMA GotoGoesOn ==
  ASSUME MediaTypes, NEW s \in DOMAIN starters, NEW pc \in Places,
         starters' = Goto(s, pc), Forward(starters[s].pc, pc)
  PROVE  StartersGoOn /\ starters' \in Seq(StarterRecs)
<1>1. \A u : Forward(u, u)
  BY DEF Forward
<1> QED BY <1>1, GotoSteps DEF StartersGoOn

(* No thread steps. *)
LEMMA SameGoOn ==
  ASSUME UNCHANGED starters PROVE StartersGoOn
  BY DEF StartersGoOn, Forward

-----------------------------------------------------------------------------
(* What steps of this kind keep. *)

(* Tasks go on naming activities and starts there are. *)
LEMMA RefsKept ==
  ASSUME MediaTypes, MediaRefs, StartersGoOn, NEW d, NEW tasks, Shifted(d, tasks), Mail(tasks),
         DOMAIN acts \subseteq DOMAIN acts'
  PROVE  MediaRefs'
<1>1. \A s \in DOMAIN starters' : starters'[s].a \in DOMAIN acts'
  BY DEF MediaRefs, StartersGoOn
<1>2. ASSUME NEW t, TaskOK(t) PROVE TaskOK(t)'
  BY <1>2 DEF TaskOK, StartersGoOn, Forward
<1>3. ASSUME NEW j \in DOMAIN tasks PROVE TaskOK(tasks[j])'
  <2>1. PICK t : t = tasks[j]
    OBVIOUS
  <2>2. /\ t.kind \in ForActivity => t.a \in DOMAIN acts'
        /\ t.kind \in StartTasks =>
             /\ t.s \in DOMAIN starters'
             /\ starters'[t.s].a = t.a
             /\ starters'[t.s].pc \in {"opening", "done"}
    BY <2>1 DEF Mail, StartersGoOn
  <2>3. TaskOK(t)'
    BY <2>2 DEF TaskOK
  <2> QED BY <2>1, <2>3
<1>4. ASSUME NEW i \in DOMAIN looper', NEW t, t = looper'[i] PROVE TaskOK(t)'
  <2>1. \/ \E k \in DOMAIN looper : t = looper[k]
        \/ \E j \in DOMAIN tasks : t = tasks[j]
    BY <1>4 DEF Shifted
  <2>2. ASSUME NEW k \in DOMAIN looper, t = looper[k] PROVE TaskOK(t)'
    BY <2>2, <1>2 DEF MediaRefs
  <2>3. ASSUME NEW j \in DOMAIN tasks, t = tasks[j] PROVE TaskOK(t)'
    BY <2>3, <1>3
  <2> QED BY <2>1, <2>2, <2>3
<1> QED BY <1>1, <1>4 DEF MediaRefs, TaskOK

(* A destruction waits behind what it waited behind, until it is done. *)
LEMMA DoomKept ==
  ASSUME MediaTypes, NEW d, NEW tasks, Shifted(d, tasks), NEW b, NEW i \in Nat, Doomed(b, i),
         d = 1 /\ Head(looper).kind = "destroy" => Head(looper).a # b
  PROVE  \E k \in DOMAIN looper' :
           k + d < i /\ looper'[k].kind = "destroy" /\ looper'[k].a = b
<1>1. PICK j \in DOMAIN looper : j < i /\ looper[j].kind = "destroy" /\ looper[j].a = b
  BY DEF Doomed
<1>2. j \in Nat /\ d \in {0, 1} /\ j >= 1
  BY DEF MediaTypes, Shifted
<1>3. looper # <<>> /\ Head(looper) = looper[1]
  BY <1>1 DEF MediaTypes
<1>4. j > d
  <2>1. CASE d = 1
    <3>1. j # 1
      BY <2>1, <1>1, <1>3
    <3> QED BY <3>1, <2>1, <1>2
  <2> QED BY <2>1, <1>2
<1>5. j - d \in DOMAIN looper' /\ looper'[j - d] = looper[j] /\ (j - d) + d < i
  <2>1. j - d \in DOMAIN looper' /\ looper'[j - d] = looper[j]
    BY <1>4 DEF Shifted
  <2>2. (j - d) + d = j
    BY <1>2
  <2> QED BY <2>1, <2>2, <1>1
<1> QED BY <1>1, <1>5

(* A destruction in the looper comes before what is put behind it. *)
LEMMA LeavingIsDoomed ==
  ASSUME MediaTypes, NEW b, Leaving(b)
  PROVE  \A n \in Nat : n > Len(looper) => Doomed(b, n)
<1>1. PICK j \in DOMAIN looper : looper[j].kind = "destroy" /\ looper[j].a = b
  BY DEF Leaving
<1>2. j \in Nat /\ Len(looper) \in Nat /\ j <= Len(looper)
  BY DEF MediaTypes
<1> QED BY <1>1, <1>2 DEF Doomed

(* The destruction of an activity that stays alive has not been taken. *)
Taken(d) == d = 1 /\ Head(looper).kind = "destroy" => ~acts'[Head(looper).a].live

(* A destruction stays in the looper until it is done. *)
LEMMA LeavingKept ==
  ASSUME MediaTypes, NEW d, NEW tasks, Shifted(d, tasks), Taken(d),
         NEW b, acts'[b].live, Leaving(b)
  PROVE  Leaving(b)'
<1>1. Len(looper) + 1 \in Nat /\ Len(looper) + 1 > Len(looper)
  BY DEF MediaTypes
<1>2. Doomed(b, Len(looper) + 1)
  BY <1>1, LeavingIsDoomed
<1>3. \E k \in DOMAIN looper' : looper'[k].kind = "destroy" /\ looper'[k].a = b
  BY <1>1, <1>2, DoomKept DEF Taken
<1> QED BY <1>3 DEF Leaving

(* OthersLeave, while no activity is launched. *)
LEMMA OthersLeaveKept ==
  ASSUME MediaTypes, NEW d, NEW tasks, Shifted(d, tasks), Taken(d), OthersLeave,
         acts' \in Seq(Activities), DOMAIN acts' = DOMAIN acts,
         \A b \in DOMAIN acts : acts'[b].live => acts[b].live
  PROVE  OthersLeave'
<1>1. Len(acts') = Len(acts)
  BY DEF MediaTypes
<1>2. ASSUME NEW b \in DOMAIN acts, acts'[b].live, b < Len(acts) PROVE Leaving(b)'
  BY <1>2, LeavingKept DEF OthersLeave
<1> QED BY <1>1, <1>2 DEF OthersLeave

(* GoneBeforeSound: a new sound is put behind all destructions. *)
LEMMA GoneBeforeSoundKept ==
  ASSUME MediaTypes, MediaRefs, LooperOrder, acts' \in Seq(Activities),
         NEW d, NEW tasks, Shifted(d, tasks), Mail(tasks), Taken(d),
         \A b \in DOMAIN acts : acts'[b].live => acts[b].live
  PROVE  GoneBeforeSound'
<1> SUFFICES ASSUME NEW i \in DOMAIN looper', looper'[i].kind = "audio",
                    NEW b \in DOMAIN acts', b < looper'[i].a, acts'[b].live
             PROVE  \E k \in DOMAIN looper' :
                      k < i /\ looper'[k].kind = "destroy" /\ looper'[k].a = b
  BY DEF GoneBeforeSound, Doomed
<1>1. i \in Nat /\ d \in Nat /\ d \in {0, 1} /\ Len(looper) \in Nat /\ i + d \in Nat
  BY DEF Shifted, MediaTypes
<1>2. looper'[i].a \in DOMAIN acts
  <2>1. \/ \E k \in DOMAIN looper : looper'[i] = looper[k]
        \/ \E j \in DOMAIN tasks : looper'[i] = tasks[j]
    BY DEF Shifted
  <2> QED BY <2>1 DEF MediaRefs, TaskOK, Mail, ForActivity, StartTasks
<1>3. b \in DOMAIN acts /\ acts[b].live /\ b < Len(acts)
  <2>1. Len(acts) \in Nat /\ DOMAIN acts = 1 .. Len(acts)
    BY DEF MediaTypes
  <2>2. b \in Nat /\ b >= 1
    OBVIOUS
  <2>3. looper'[i].a \in Nat /\ looper'[i].a <= Len(acts)
    BY <2>1, <1>2
  <2>4. b \in 1 .. Len(acts) /\ b < Len(acts)
    BY <2>1, <2>2, <2>3
  <2> QED BY <2>1, <2>4
<1>4. Doomed(b, i + d)
  <2>1. CASE i + d \in DOMAIN looper /\ looper'[i] = looper[i + d]
    BY <2>1, <1>3 DEF LooperOrder, GoneBeforeSound
  <2>2. CASE i + d > Len(looper)
    BY <2>2, <1>1, <1>3, LeavingIsDoomed DEF LooperOrder, OthersLeave
  <2> QED BY <2>1, <2>2 DEF Shifted
<1>5. PICK k \in DOMAIN looper' : k + d < i + d /\ looper'[k].kind = "destroy" /\ looper'[k].a = b
  BY <1>1, <1>4, DoomKept DEF Taken
<1>6. k < i
  <2>1. k \in Nat
    BY DEF Shifted
  <2> QED BY <2>1, <1>1, <1>5
<1> QED BY <1>5, <1>6

(* SoundAskedOnce: a thread in getSetting() has no sound in the looper. *)
LEMMA SoundAskedOnceKept ==
  ASSUME MediaTypes, MediaRefs, SoundAskedOnce,
         NEW d, NEW tasks, Shifted(d, tasks), Mail(tasks)
  PROVE  SoundAskedOnce'
<1> DEFINE Old(i) == i + d \in DOMAIN looper /\ looper'[i] = looper[i + d]
<1> DEFINE New(i) == i + d - Len(looper) = 1 /\ looper'[i] = tasks[1] /\ 1 \in DOMAIN tasks
<1>1. d \in {0, 1} /\ Len(looper) \in Nat /\ DOMAIN looper' \subseteq Nat
  BY DEF Shifted, MediaTypes
<1>2. ASSUME NEW i \in DOMAIN looper', looper'[i].kind = "audio" PROVE Old(i) \/ New(i)
  <2>1. CASE Old(i)
    BY <2>1
  <2>2. CASE i + d - Len(looper) \in DOMAIN tasks /\ looper'[i] = tasks[i + d - Len(looper)]
    <3>1. DOMAIN tasks = {1}
      BY <2>2, <1>2 DEF Mail
    <3> QED BY <3>1, <2>2
  <2> QED BY <2>1, <2>2 DEF Shifted
<1>3. ASSUME NEW i \in DOMAIN looper', NEW j \in DOMAIN looper', Old(i), New(j),
             looper'[i].kind = "audio", looper'[j].kind = "audio"
      PROVE  looper'[i].s # looper'[j].s
  <2>1. starters[looper'[i].s].pc \in {"opening", "done"}
    BY <1>3 DEF MediaRefs, TaskOK, StartTasks
  <2>2. starters[looper'[j].s].pc = "setting"
    BY <1>3 DEF Mail
  <2> QED BY <2>1, <2>2
<1>4. ASSUME NEW i \in DOMAIN looper', NEW j \in DOMAIN looper', Old(i), Old(j),
             looper'[i].kind = "audio", looper'[j].kind = "audio", looper'[i].s = looper'[j].s
      PROVE  i = j
  <2>1. i + d = j + d
    BY <1>4 DEF SoundAskedOnce
  <2> QED BY <2>1, <1>1
<1>5. ASSUME NEW i \in DOMAIN looper', NEW j \in DOMAIN looper', New(i), New(j)
      PROVE  i = j
  BY <1>5, <1>1
<1> HIDE DEF Old, New
<1> QED BY <1>2, <1>3, <1>4, <1>5 DEF SoundAskedOnce

(* All of LooperOrder, while no activity is launched. *)
LEMMA OrderKept ==
  ASSUME MediaTypes, MediaRefs, LooperOrder, acts' \in Seq(Activities),
         NEW d, NEW tasks, Shifted(d, tasks), Mail(tasks), Taken(d), DOMAIN acts' = DOMAIN acts,
         \A b \in DOMAIN acts : acts'[b].live => acts[b].live
  PROVE  LooperOrder'
<1>1. OthersLeave'
  BY OthersLeaveKept DEF LooperOrder
<1>2. GoneBeforeSound'
  BY GoneBeforeSoundKept
<1>3. SoundAskedOnce'
  BY SoundAskedOnceKept DEF LooperOrder
<1> QED BY <1>1, <1>2, <1>3 DEF LooperOrder

(* A start comes closer to its end. *)
StartsFade ==
  \A s \in DOMAIN starters :
    /\ Unfinished(s)' => Unfinished(s)
    /\ Passed(s)' => Passed(s)
    /\ Soundless(s)' => Soundless(s)

(* A task in the looper was there before or has been put. *)
LEMMA TaskOrigin ==
  ASSUME NEW d, NEW tasks, Shifted(d, tasks), NEW s, NEW kinds, HasTask(s, kinds)'
  PROVE  \/ HasTask(s, kinds)
         \/ \E j \in DOMAIN tasks : tasks[j].kind \in kinds /\ tasks[j].s = s
<1>1. PICK i \in DOMAIN looper' : looper'[i].kind \in kinds /\ looper'[i].s = s
  BY DEF HasTask
<1>2. \/ \E k \in DOMAIN looper : looper'[i] = looper[k]
      \/ \E j \in DOMAIN tasks : looper'[i] = tasks[j]
  BY DEF Shifted
<1> QED BY <1>1, <1>2 DEF HasTask

(* Such steps bring no start back. *)
LEMMA Fading ==
  ASSUME StartersGoOn, NEW d, NEW tasks, Shifted(d, tasks), Mail(tasks)
  PROVE  StartsFade
<1> SUFFICES ASSUME NEW s \in DOMAIN starters
             PROVE  /\ Unfinished(s)' => Unfinished(s)
                    /\ Passed(s)' => Passed(s)
                    /\ Soundless(s)' => Soundless(s)
  BY DEF StartsFade
<1>1. Forward(starters[s].pc, starters'[s].pc)
  BY DEF StartersGoOn
<1>2. HasTask(s, StartTasks)' => Passed(s)
  <2>1. \A j \in DOMAIN tasks : tasks[j].kind \in StartTasks => Passed(tasks[j].s)
    BY DEF Mail
  <2> QED BY <2>1, TaskOrigin DEF Passed
<1>3. HasTask(s, {"audio"})' => Soundless(s)
  <2>1. \A j \in DOMAIN tasks : tasks[j].kind \in {"audio"} => Soundless(tasks[j].s)
    BY DEF Mail, Soundless
  <2> QED BY <2>1, TaskOrigin DEF Soundless
<1>4. Passed(s) => Unfinished(s)
  BY DEF Passed, Unfinished
<1>5. Unfinished(s)' => Unfinished(s)
  BY <1>1, <1>2, <1>4 DEF Unfinished, Forward
<1>6. Passed(s)' => Passed(s)
  BY <1>1, <1>2 DEF Passed, Forward
<1>7. Soundless(s)' => Soundless(s)
  BY <1>1, <1>3 DEF Soundless, Forward
<1> QED BY <1>5, <1>6, <1>7

(* The parts of Sessions that are about starts only. *)
LEMMA OnePassedKept ==
  ASSUME OnePassed, StartersGoOn, StartsFade PROVE OnePassed'
  BY DEF OnePassed, StartersGoOn, StartsFade

(* Sessions, when no field of an activity changes that it is about. *)
LEMMA SessionsKept ==
  ASSUME MediaRefs, Sessions, StartersGoOn, StartsFade, SameSessions, mics' \subseteq mics
  PROVE  Sessions'
<1>1. \A s \in DOMAIN starters : starters[s].a \in DOMAIN acts
  BY DEF MediaRefs
<1>2. StartHasActivity'
  BY <1>1 DEF Sessions, StartHasActivity, StartersGoOn, StartsFade, SameSessions
<1>3. SoundIsFirst'
  BY DEF Sessions, SoundIsFirst, SameSessions
<1>4. OnePassed'
  BY OnePassedKept DEF Sessions
<1>5. FieldIsFree'
  BY <1>1 DEF Sessions, FieldIsFree, StartersGoOn, StartsFade, SameSessions
<1>6. MicInField'
  BY <1>1 DEF Sessions, MicInField, StartersGoOn, SameSessions
<1> QED BY <1>2, <1>3, <1>4, <1>5, <1>6 DEF Sessions

(* Most steps are of this kind. *)
LEMMA QuietStep ==
  ASSUME MicInv, StartersGoOn, starters' \in Seq(StarterRecs),
         NEW d, NEW tasks, Shifted(d, tasks), Mail(tasks),
         d = 1 => Head(looper).kind # "destroy",
         acts' \in Seq(Activities), SameSessions, mics' \subseteq mics, raced \subseteq raced'
  PROVE  MicInv'
<1>1. MediaTypes'
  BY DEF MediaTypes, Shifted
<1>2. MediaRefs'
  BY RefsKept DEF MicInv, SameSessions
<1>3. ASSUME raced' = {} PROVE LooperOrder' /\ Sessions'
  <2>1. raced = {}
    BY <1>3
  <2>2. LooperOrder'
    BY <2>1, OrderKept DEF MicInv, SameSessions, Taken
  <2>3. Sessions'
    BY <2>1, Fading, SessionsKept DEF MicInv
  <2> QED BY <2>2, <2>3
<1> QED BY <1>1, <1>2, <1>3 DEF MicInv

-----------------------------------------------------------------------------
(* The steps, one by one. *)

(* What Task makes. *)
LEMMA TaskIsTask ==
  ASSUME NEW kind \in Kinds, NEW a \in Nat, NEW s \in Nat
  PROVE  /\ Task(kind, a, s) \in Tasks
         /\ Task(kind, a, s).kind = kind /\ Task(kind, a, s).a = a /\ Task(kind, a, s).s = s
  BY DEF Task, Tasks

(* What the main thread knows of the task it takes. *)
LEMMA FirstTask ==
  ASSUME MicInv, NEW kind, Now(kind)
  PROVE  /\ looper # <<>> /\ 1 \in DOMAIN looper /\ Head(looper) = looper[1]
         /\ Head(looper) \in Tasks /\ Head(looper).a \in Nat /\ Head(looper).s \in Nat
         /\ Head(looper).kind = kind /\ TaskOK(Head(looper))
<1>1. looper \in Seq(Tasks) /\ looper # <<>> /\ Head(looper).kind = kind
  BY DEF MicInv, MediaTypes, Now
<1>2. 1 \in DOMAIN looper /\ Head(looper) = looper[1] /\ Head(looper) \in Tasks
  BY <1>1
<1>3. TaskOK(Head(looper))
  BY <1>2 DEF MicInv, MediaRefs
<1>4. Head(looper).a \in Nat /\ Head(looper).s \in Nat
  BY <1>2 DEF Tasks
<1> QED BY <1>1, <1>2, <1>3, <1>4

(* One plain task. *)
LEMMA OneTask ==
  ASSUME NEW t, t.kind \notin StartTasks, t.kind \in ForActivity => t.a \in DOMAIN acts
  PROVE  Plain(<<t>>)
  BY DEF Plain

(* No task at all. *)
LEMMA NoTask == Plain(<<>>) /\ Mail(<<>>) /\ <<>> \in Seq(Tasks)
  BY DEF Plain, Mail

(* sendBroadcast() reaches activities there are, and no start. *)
LEMMA BroadcastPlain ==
  ASSUME MediaTypes, NEW kind \in {"answer_call", "miss_connection", "hang_up"}
  PROVE  Broadcast(kind) \in Seq(Tasks) /\ Plain(Broadcast(kind))
<1> DEFINE u == ForLive(kind)
<1> DEFINE q == IF kind = "hang_up" /\ ringing THEN <<Task("ringEnd", 0, 0)>> ELSE <<>>
<1> DEFINE z == u \o q
<1>1. u \in Seq(Tasks) /\ \A j \in DOMAIN u : u[j].kind = kind /\ u[j].a \in Live
  <2>1. kind \in Kinds
    BY DEF Kinds, ForActivity
  <2> HIDE DEF u
  <2>2. u = ForLive(kind)
    BY DEF u
  <2> QED BY <2>1, <2>2, ForLiveTasks
<1>2. q \in Seq(Tasks) /\ \A j \in DOMAIN q : q[j].kind = "ringEnd"
  <2>1. Task("ringEnd", 0, 0) \in Tasks /\ Task("ringEnd", 0, 0).kind = "ringEnd"
    BY TaskIsTask DEF Kinds
  <2>2. q = <<>> \/ q = <<Task("ringEnd", 0, 0)>>
    OBVIOUS
  <2>3. PICK t \in Tasks : t.kind = "ringEnd" /\ (q = <<>> \/ q = <<t>>)
    BY <2>1, <2>2
  <2> HIDE DEF q
  <2>4. CASE q = <<>>
    BY <2>4
  <2>5. CASE q = <<t>>
    <3>1. DOMAIN q = {1} /\ q[1] = t
      BY <2>5
    <3>2. q \in Seq(Tasks)
      BY <2>5
    <3> QED BY <3>1, <3>2, <2>3
  <2> QED BY <2>3, <2>4, <2>5
<1>3. Broadcast(kind) = z
  BY DEF Broadcast
<1> HIDE DEF u, q
<1>4. /\ z \in Seq(Tasks) /\ DOMAIN z = 1 .. Len(u) + Len(q)
      /\ \A i \in 1 .. Len(u) : z[i] = u[i]
      /\ \A j \in 1 .. Len(q) : z[Len(u) + j] = q[j]
  BY <1>1, <1>2, Joined
<1> HIDE DEF z
<1>5. ASSUME NEW i \in DOMAIN z
      PROVE  (z[i].kind = kind /\ z[i].a \in Live) \/ z[i].kind = "ringEnd"
  <2>1. Len(u) \in Nat /\ Len(q) \in Nat /\ DOMAIN u = 1 .. Len(u) /\ DOMAIN q = 1 .. Len(q) /\ i \in Nat
    BY <1>1, <1>2, <1>4
  <2>2. CASE i \in 1 .. Len(u)
    BY <2>1, <2>2, <1>1, <1>4
  <2>3. CASE i \notin 1 .. Len(u)
    <3>1. i - Len(u) \in 1 .. Len(q) /\ Len(u) + (i - Len(u)) = i
      BY <2>1, <2>3, <1>4
    <3>2. z[i] = q[i - Len(u)]
      BY <3>1, <1>4
    <3> QED BY <3>1, <3>2, <2>1, <1>2
  <2> QED BY <2>2, <2>3
<1>6. Live \subseteq DOMAIN acts
  BY DEF Live
<1>7. Plain(z)
  BY <1>5, <1>6 DEF Plain, StartTasks, ForActivity
<1> QED BY <1>3, <1>4, <1>7

(* No activity changes. *)
LEMMA SameActs ==
  ASSUME MediaTypes, UNCHANGED acts PROVE acts' \in Seq(Activities) /\ SameSessions
  BY DEF MediaTypes, SameSessions

(* Steps that leave activities and starters alone. *)
LEMMA LooperStep ==
  ASSUME MicInv, UNCHANGED <<acts, starters>>, mics' \subseteq mics, raced \subseteq raced',
         NEW d, NEW tasks, Shifted(d, tasks), Plain(tasks),
         d = 1 => Head(looper).kind # "destroy"
  PROVE  MicInv'
<1>1. acts' \in Seq(Activities) /\ SameSessions
  BY SameActs DEF MicInv
<1>2. StartersGoOn /\ starters' \in Seq(StarterRecs)
  BY SameGoOn DEF MicInv, MediaTypes
<1>3. Mail(tasks)
  BY PlainIsMail
<1> QED BY <1>1, <1>2, <1>3, QuietStep

(* Steps that leave the looper alone as well. *)
LEMMA SameLooperStep ==
  ASSUME MicInv, UNCHANGED <<acts, starters, looper>>, mics' \subseteq mics, raced \subseteq raced'
  PROVE  MicInv'
<1>1. Shifted(0, <<>>)
  BY ShiftNothing DEF MicInv
<1> QED BY <1>1, LooperStep, NoTask

(* The listener threads. *)
LEMMA MicListener ==
  ASSUME MicInv, NEW g, Login(g) \/ Listen(g) \/ ListenHangUp(g) \/ ListenEnds(g)
  PROVE  MicInv'
<1>1. UNCHANGED <<acts, starters>> /\ mics' \subseteq mics /\ raced \subseteq raced'
  BY DEF Login, Listen, ListenHangUp, ListenEnds, mediaVars
<1>2. \/ UNCHANGED looper
      \/ \E kind \in {"answer_call", "miss_connection", "hang_up"} : looper' = looper \o Broadcast(kind)
      \/ looper' = Append(looper, Task("on_phone_call", 0, 0))
  <2>1. CASE Listen(g)
    <3>1. PICK m : Gets(m)
      BY <2>1 DEF Listen
    <3> QED BY <3>1, Zenon DEF Gets
  <2>2. CASE ~Listen(g)
    BY <2>2 DEF Login, ListenHangUp, ListenEnds
  <2> QED BY <2>1, <2>2
<1>3. CASE UNCHANGED looper
  BY <1>1, <1>3, SameLooperStep
<1>4. ASSUME NEW kind \in {"answer_call", "miss_connection", "hang_up"},
             looper' = looper \o Broadcast(kind)
      PROVE  MicInv'
  <2>1. Broadcast(kind) \in Seq(Tasks) /\ Plain(Broadcast(kind))
    BY BroadcastPlain DEF MicInv
  <2>2. Shifted(0, Broadcast(kind))
    BY <2>1, <1>4, ShiftNone DEF MicInv
  <2> QED BY <2>1, <2>2, <1>1, LooperStep
<1>5. CASE looper' = Append(looper, Task("on_phone_call", 0, 0))
  <2> DEFINE t == Task("on_phone_call", 0, 0)
  <2>1. t \in Tasks /\ t.kind = "on_phone_call"
    BY TaskIsTask DEF Kinds
  <2>2. Plain(<<t>>)
    <3> HIDE DEF t
    <3> QED BY <2>1, OneTask DEF StartTasks, ForActivity
  <2>3. Shifted(0, <<t>>)
    BY <2>1, <1>5, ShiftAppend DEF MicInv
  <2> QED BY <2>2, <2>3, <1>1, LooperStep
<1> QED BY <1>2, <1>3, <1>4, <1>5

(* Another lock, surface or display leaves the sessions as they are. *)
LEMMA FieldChange ==
  ASSUME MediaTypes, NEW a \in DOMAIN acts, NEW x \in Nat,
         \/ acts' = [acts EXCEPT ![a].lock = x]
         \/ acts' = [acts EXCEPT ![a].video = x]
         \/ acts' = [acts EXCEPT ![a].surface = TRUE]
  PROVE  acts' \in Seq(Activities) /\ SameSessions
<1>1. acts \in Seq(Activities) /\ acts[a] \in Activities
  BY ElementOfSeq DEF MediaTypes
<1>2. PICK e \in Activities :
        acts' = [acts EXCEPT ![a] = e] /\ e.live = acts[a].live /\ e.audio = acts[a].audio
  <2>1. CASE acts' = [acts EXCEPT ![a].lock = x]
    <3> DEFINE e == [acts[a] EXCEPT !.lock = x]
    <3>1. e \in Activities /\ e.live = acts[a].live /\ e.audio = acts[a].audio
      BY <1>1 DEF Activities
    <3>2. acts' = [acts EXCEPT ![a] = e]
      BY <2>1
    <3> QED BY <3>1, <3>2
  <2>2. CASE acts' = [acts EXCEPT ![a].video = x]
    <3> DEFINE e == [acts[a] EXCEPT !.video = x]
    <3>1. e \in Activities /\ e.live = acts[a].live /\ e.audio = acts[a].audio
      BY <1>1 DEF Activities
    <3>2. acts' = [acts EXCEPT ![a] = e]
      BY <2>2
    <3> QED BY <3>1, <3>2
  <2>3. CASE acts' = [acts EXCEPT ![a].surface = TRUE]
    <3> DEFINE e == [acts[a] EXCEPT !.surface = TRUE]
    <3>1. e \in Activities /\ e.live = acts[a].live /\ e.audio = acts[a].audio
      BY <1>1 DEF Activities
    <3>2. acts' = [acts EXCEPT ![a] = e]
      BY <2>3
    <3> QED BY <3>1, <3>2
  <2> QED BY <2>1, <2>2, <2>3
<1>3. /\ acts' \in Seq(Activities) /\ DOMAIN acts' = DOMAIN acts /\ acts'[a] = e
      /\ \A k \in DOMAIN acts : k # a => acts'[k] = acts[k]
  BY <1>1, <1>2, ExceptInSeq
<1> QED BY <1>2, <1>3 DEF SameSessions

(* A start and its activity. *)
LEMMA StarterTyped ==
  ASSUME MicInv, NEW s \in DOMAIN starters
  PROVE  s \in Nat /\ starters[s].a \in Nat /\ starters[s].a \in DOMAIN acts
<1>1. starters \in Seq(StarterRecs)
  BY DEF MicInv, MediaTypes
<1>2. s \in Nat /\ starters[s] \in StarterRecs
  BY <1>1
<1>3. starters[s].a \in DOMAIN acts
  BY DEF MicInv, MediaRefs
<1> QED BY <1>2, <1>3 DEF StarterRecs

(* A step of a starter that does not pass the test. *)
LEMMA StarterStep ==
  ASSUME MicInv, NEW s \in DOMAIN starters, NEW pc \in Places,
         starters' = Goto(s, pc), Forward(starters[s].pc, pc),
         \/ UNCHANGED acts
         \/ \E x \in Nat : acts' = [acts EXCEPT ![starters[s].a].lock = x],
         NEW tasks, Shifted(0, tasks), Mail(tasks), UNCHANGED mics, raced \subseteq raced'
  PROVE  MicInv'
<1>1. StartersGoOn /\ starters' \in Seq(StarterRecs)
  BY GotoGoesOn DEF MicInv
<1>2. starters[s].a \in DOMAIN acts
  BY DEF MicInv, MediaRefs
<1>3. acts' \in Seq(Activities) /\ SameSessions
  BY <1>2, SameActs, FieldChange DEF MicInv
<1> QED BY <1>1, <1>3, QuietStep

(* A start enters its critical section. *)
LEMMA MicTakeLock ==
  ASSUME MicInv, NEW s \in DOMAIN starters, TakeLock(s)
  PROVE  MicInv'
<1>1. starters' = Goto(s, "check") /\ Forward(starters[s].pc, "check") /\ "check" \in Places
  BY DEF TakeLock, Forward, Places
<1>2. acts' = [acts EXCEPT ![starters[s].a].lock = s] /\ s \in Nat
  BY DEF TakeLock, MicInv, MediaTypes
<1>3. Shifted(0, <<>>)
  BY ShiftNothing DEF MicInv, TakeLock
<1>4. UNCHANGED <<mics, raced>>
  BY DEF TakeLock
<1> QED BY <1>1, <1>2, <1>3, <1>4, NoTask, StarterStep

(* A start waits for the login. *)
LEMMA MicWaitInit ==
  ASSUME MicInv, NEW s \in DOMAIN starters, WaitInit(s)
  PROVE  MicInv'
<1>1. Shifted(0, <<>>)
  BY ShiftNothing DEF MicInv, WaitInit
<1>2. UNCHANGED <<mics, raced>> /\ starters[s].pc = "init"
  BY DEF WaitInit
<1>3. CASE passwordError
  <2>1. starters' = Goto(s, "done") /\ Forward(starters[s].pc, "done") /\ "done" \in Places
    BY <1>2, <1>3 DEF WaitInit, Forward, Places
  <2>2. acts' = [acts EXCEPT ![starters[s].a].lock = 0]
    BY <1>3 DEF WaitInit
  <2> QED BY <1>1, <1>2, <2>1, <2>2, NoTask, StarterStep
<1>4. CASE ~passwordError
  <2>1. starters' = Goto(s, "setting") /\ Forward(starters[s].pc, "setting") /\ "setting" \in Places
    BY <1>2, <1>4 DEF WaitInit, Forward, Places
  <2>2. UNCHANGED acts
    BY <1>4 DEF WaitInit
  <2> QED BY <1>1, <1>2, <2>1, <2>2, NoTask, StarterStep
<1> QED BY <1>3, <1>4

(* getSetting() asks for the sound of a start that has passed. *)
LEMMA MicGetSetting ==
  ASSUME MicInv, NEW s \in DOMAIN starters, GetSetting(s)
  PROVE  MicInv'
<1> DEFINE t == Task("audio", starters[s].a, s)
<1>1. starters[s].pc = "setting" /\ UNCHANGED mics /\ raced \subseteq raced'
  BY DEF GetSetting
<1>2. starters' = Goto(s, "opening") /\ Forward(starters[s].pc, "opening") /\ "opening" \in Places
  BY <1>1 DEF GetSetting, Forward, Places
<1>3. acts' = [acts EXCEPT ![starters[s].a].lock = 0]
  BY DEF GetSetting
<1>4. s \in Nat /\ starters[s].a \in Nat /\ starters[s].a \in DOMAIN acts
  BY StarterTyped
<1>5. t \in Tasks /\ t.kind = "audio" /\ t.a = starters[s].a /\ t.s = s
  BY <1>4, TaskIsTask DEF Kinds, ForActivity, StartTasks
<1>6. looper' = Append(looper, t)
  BY DEF GetSetting
<1> HIDE DEF t
<1>7. Shifted(0, <<t>>)
  BY <1>5, <1>6, ShiftAppend DEF MicInv
<1>8. Passed(s)
  BY <1>1 DEF Passed
<1>9. starters'[s].pc = "opening"
  BY <1>2, GotoSteps DEF MicInv
<1>10. Mail(<<t>>)
  BY <1>1, <1>4, <1>5, <1>8, <1>9 DEF Mail
<1> QED BY <1>1, <1>2, <1>3, <1>7, <1>10, StarterStep

(* The camera answers a start. *)
LEMMA MicCameraAnswers ==
  ASSUME MicInv, NEW s \in DOMAIN starters, CameraAnswers(s)
  PROVE  MicInv'
<1> DEFINE t == Task("opened", starters[s].a, s)
<1>1. starters[s].pc = "opening" /\ UNCHANGED <<mics, acts, raced>>
  BY DEF CameraAnswers
<1>2. starters' = Goto(s, "done") /\ Forward(starters[s].pc, "done") /\ "done" \in Places
  BY <1>1 DEF CameraAnswers, Forward, Places
<1>3. CASE UNCHANGED looper
  <2>1. Shifted(0, <<>>)
    BY <1>3, ShiftNothing DEF MicInv
  <2> QED BY <1>1, <1>2, <2>1, NoTask, StarterStep
<1>4. CASE looper' = Append(looper, t)
  <2>1. s \in Nat /\ starters[s].a \in Nat /\ starters[s].a \in DOMAIN acts
    BY StarterTyped
  <2>2. t \in Tasks /\ t.kind = "opened" /\ t.a = starters[s].a /\ t.s = s
    BY <2>1, TaskIsTask DEF Kinds, ForActivity, StartTasks
  <2> HIDE DEF t
  <2>3. Shifted(0, <<t>>)
    BY <2>2, <1>4, ShiftAppend DEF MicInv
  <2>4. Passed(s)
    BY <1>1 DEF Passed
  <2>5. starters'[s].pc = "done"
    BY <1>2, GotoSteps DEF MicInv
  <2>6. Mail(<<t>>)
    BY <1>1, <2>1, <2>2, <2>4, <2>5 DEF Mail
  <2> QED BY <1>1, <1>2, <2>3, <2>6, StarterStep
<1> QED BY <1>3, <1>4 DEF CameraAnswers

(* A start passes the test "audio == null && video == null": the field is   *)
(* free, and unless two starts race no other start of the activity has      *)
(* passed.                                                                  *)
LEMMA MicCheckIdle ==
  ASSUME MicInv, NEW s \in DOMAIN starters, CheckIdle(s)
  PROVE  MicInv'
<1> DEFINE a == starters[s].a
<1>1. starters[s].pc = "check" /\ UNCHANGED <<looper, mics>> /\ raced \subseteq raced'
  BY DEF CheckIdle
<1>2. CASE ~IdleActivity(a)
  <2>1. starters' = Goto(s, "done") /\ Forward(starters[s].pc, "done") /\ "done" \in Places
    BY <1>1, <1>2 DEF CheckIdle, Forward, Places
  <2>2. acts' = [acts EXCEPT ![starters[s].a].lock = 0]
    BY <1>2 DEF CheckIdle
  <2>3. Shifted(0, <<>>)
    BY <1>1, ShiftNothing DEF MicInv
  <2> QED BY <1>1, <2>1, <2>2, <2>3, NoTask, StarterStep
<1>3. CASE IdleActivity(a)
  <2>1. starters' = Goto(s, "init") /\ "init" \in Places /\ acts' = acts
    BY <1>3 DEF CheckIdle, Places
  <2>2. /\ starters' \in Seq(StarterRecs) /\ DOMAIN starters' = DOMAIN starters
        /\ starters'[s].a = a /\ starters'[s].pc = "init"
        /\ \A k \in DOMAIN starters : k # s => starters'[k] = starters[k]
    BY <2>1, GotoSteps DEF MicInv
  <2>3. raced' = {} => \A t \in DOMAIN starters :
          ~(t # s /\ starters[t].a = a /\ starters[t].pc # "lock" /\ Pending(a, DOMAIN starters \ {t}))
    BY <1>3 DEF CheckIdle
  <2>4. \A k \in DOMAIN starters : starters'[k].a = starters[k].a
    BY <2>2
  <2>5. MediaTypes'
    BY <1>1, <2>1, <2>2 DEF MicInv, MediaTypes
  <2> HIDE DEF a
  <2>6. MediaRefs'
    <3>1. ASSUME NEW t, TaskOK(t) PROVE TaskOK(t)'
      BY <3>1, <1>1, <2>1, <2>2 DEF TaskOK
    <3>2. ASSUME NEW i \in DOMAIN looper PROVE TaskOK(looper[i])'
      BY <3>1, <1>1 DEF MicInv, MediaRefs
    <3>3. \A k \in DOMAIN starters' : starters'[k].a \in DOMAIN acts'
      BY <2>1, <2>2, <2>4 DEF MicInv, MediaRefs
    <3> QED BY <3>2, <3>3, <1>1 DEF MediaRefs
  <2>7. ASSUME raced' = {} PROVE LooperOrder' /\ Sessions'
    <3>1. LooperOrder /\ Sessions /\ raced = {}
      BY <1>1, <2>7 DEF MicInv
    <3>2. LooperOrder'
      BY <3>1, <1>1, <2>1
         DEF LooperOrder, OthersLeave, GoneBeforeSound, SoundAskedOnce, Leaving, Doomed
    <3>3. ASSUME NEW k \in DOMAIN starters
          PROVE  /\ Unfinished(k)' => Unfinished(k)
                 /\ k # s /\ Passed(k)' => Passed(k)
                 /\ k # s /\ Soundless(k)' => Soundless(k)
      <4>1. \A kinds : HasTask(k, kinds)' <=> HasTask(k, kinds)
        BY <1>1 DEF HasTask
      <4> QED BY <4>1, <1>1, <2>2 DEF Unfinished, Passed, Soundless
    <3>4. ASSUME NEW t \in DOMAIN starters, t # s, starters[t].a = a, Passed(t) PROVE FALSE
      <4>1. starters[t].pc # "lock" /\ Pending(a, DOMAIN starters \ {t})
        <5>1. CASE starters[t].pc \in {"init", "setting", "opening"}
          BY <5>1, <3>4 DEF Pending
        <5>2. CASE HasTask(t, StartTasks)
          <6>1. PICK i \in DOMAIN looper : looper[i].kind \in StartTasks /\ looper[i].s = t
            BY <5>2 DEF HasTask
          <6>2. looper[i].a = a /\ starters[t].pc \in {"opening", "done"}
            BY <6>1, <3>4 DEF MicInv, MediaRefs, TaskOK
          <6> QED BY <6>1, <6>2 DEF Pending
        <5> QED BY <5>1, <5>2, <3>4 DEF Passed
      <4> QED BY <4>1, <3>4, <2>3, <2>7
    <3>5. StartHasActivity'
      BY <3>1, <3>3, <2>1, <2>2, <2>4 DEF Sessions, StartHasActivity
    <3>6. SoundIsFirst'
      BY <3>1, <2>1 DEF Sessions, SoundIsFirst
    <3>7. OnePassed'
      <4> SUFFICES ASSUME NEW u \in DOMAIN starters, NEW q \in DOMAIN starters,
                          Passed(u)', Passed(q)', starters[u].a = starters[q].a
                   PROVE  u = q
        BY <2>2, <2>4 DEF OnePassed
      <4>1. CASE u = s \/ q = s
        BY <4>1, <3>3, <3>4 DEF a
      <4>2. CASE u # s /\ q # s
        BY <4>2, <3>1, <3>3 DEF Sessions, OnePassed
      <4> QED BY <4>1, <4>2
    <3>8. FieldIsFree'
      <4>1. ASSUME NEW k \in DOMAIN starters, Soundless(k)' PROVE acts[starters[k].a].audio = 0
        <5>1. CASE k = s
          BY <5>1, <1>3 DEF IdleActivity, a
        <5>2. CASE k # s
          BY <5>2, <4>1, <3>1, <3>3 DEF Sessions, FieldIsFree
        <5> QED BY <5>1, <5>2
      <4> QED BY <4>1, <2>1, <2>2, <2>4 DEF FieldIsFree
    <3>9. MicInField'
      BY <3>1, <1>1, <2>1, <2>2, <2>4 DEF Sessions, MicInField
    <3> QED BY <3>2, <3>5, <3>6, <3>7, <3>8, <3>9 DEF Sessions
  <2> QED BY <2>5, <2>6, <2>7 DEF MicInv
<1> QED BY <1>2, <1>3

(* Tasks of the main thread that put at most one plain task. *)
LEMMA PopStep ==
  ASSUME MicInv, NEW kind, Now(kind), kind # "destroy",
         UNCHANGED <<acts, starters>>, mics' \subseteq mics, raced \subseteq raced',
         \/ Also(<<>>)
         \/ \E t \in Tasks :
              /\ Also(<<t>>) /\ t.kind \notin StartTasks
              /\ t.kind \in ForActivity => t.a \in DOMAIN acts
  PROVE  MicInv'
<1>1. looper # <<>> /\ Head(looper).kind = kind
  BY FirstTask
<1>2. CASE Also(<<>>)
  <2>1. Shifted(1, <<>>)
    BY <1>1, <1>2, NoTask, ShiftOne DEF MicInv
  <2> QED BY <2>1, <1>1, NoTask, LooperStep
<1>3. ASSUME NEW t \in Tasks, Also(<<t>>), t.kind \notin StartTasks,
             t.kind \in ForActivity => t.a \in DOMAIN acts
      PROVE  MicInv'
  <2>1. <<t>> \in Seq(Tasks)
    OBVIOUS
  <2>2. Shifted(1, <<t>>)
    BY <2>1, <1>1, <1>3, ShiftOne DEF MicInv
  <2>3. Plain(<<t>>)
    BY <1>3, OneTask
  <2> QED BY <2>2, <2>3, <1>1, LooperStep
<1> QED BY <1>2, <1>3

(* Tasks that concern neither starts nor activities. *)
LEMMA MicOtherTasks ==
  ASSUME MicInv,
         HandleConfigured \/ HandleGone \/ HandleDial \/ HandleRing \/ HandleRingEnd \/ HandlePick
  PROVE  MicInv'
<1>1. UNCHANGED <<acts, starters, mics>> /\ raced \subseteq raced'
  BY DEF HandleConfigured, HandleGone, HandleDial, HandleRing, HandleRingEnd, HandlePick, mediaVars
<1>2. CASE HandleConfigured \/ HandleGone \/ HandleRing \/ HandlePick
  <2>1. PICK kind : kind # "destroy" /\ Now(kind) /\ Also(<<>>)
    BY <1>2 DEF HandleConfigured, HandleGone, HandleRing, HandlePick
  <2> QED BY <2>1, <1>1, PopStep
<1>3. CASE HandleDial
  <2>1. Now("click_start")
    BY <1>3 DEF HandleDial
  <2> DEFINE t == Task("destroy", Head(looper).a, 0)
  <2>2. Also(<<t>>) \/ Also(<<>>)
    BY <1>3 DEF HandleDial
  <2>3. Head(looper).a \in Nat /\ Head(looper).a \in DOMAIN acts
    BY <2>1, FirstTask DEF TaskOK, ForActivity
  <2>4. t \in Tasks /\ t.kind = "destroy" /\ t.a \in DOMAIN acts
    <3>1. "destroy" \in Kinds
      BY DEF Kinds, ForActivity
    <3> QED BY <3>1, <2>3, TaskIsTask
  <2> HIDE DEF t
  <2>5. t.kind \notin StartTasks
    BY <2>4 DEF StartTasks
  <2> QED BY <1>1, <2>1, <2>2, <2>4, <2>5, PopStep
<1>4. CASE HandleRingEnd
  <2>1. Now("ringEnd")
    BY <1>4 DEF HandleRingEnd
  <2> DEFINE t == Task("launch", 0, Head(looper).s)
  <2>2. Also(<<t>>) \/ Also(<<>>)
    BY <1>4 DEF HandleRingEnd
  <2>3. Head(looper).s \in Nat
    BY <2>1, FirstTask
  <2>4. t \in Tasks /\ t.kind = "launch"
    <3>1. "launch" \in Kinds
      BY DEF Kinds
    <3> QED BY <3>1, <2>3, TaskIsTask
  <2> HIDE DEF t
  <2>5. t.kind \notin StartTasks /\ t.kind \notin ForActivity
    BY <2>4 DEF StartTasks, ForActivity
  <2> QED BY <1>1, <2>1, <2>2, <2>4, <2>5, PopStep
<1> QED BY <1>2, <1>3, <1>4

(* New tasks from outside the looper. *)
LEMMA PutStep ==
  ASSUME MicInv, UNCHANGED <<acts, starters, mics, raced>>, NEW t \in Tasks,
         looper' = Append(looper, t), t.kind \notin StartTasks,
         t.kind \in ForActivity => t.a \in DOMAIN acts
  PROVE  MicInv'
<1>1. Shifted(0, <<t>>)
  BY ShiftAppend DEF MicInv
<1> QED BY <1>1, OneTask, LooperStep

(* restartListening() launches MainActivity. *)
LEMMA MicRestart ==
  ASSUME MicInv, Restart PROVE MicInv'
<1> DEFINE t == Task("launch", 0, 0)
<1>1. t \in Tasks /\ t.kind = "launch"
  BY TaskIsTask DEF Kinds
<1>2. looper' = Append(looper, t) /\ UNCHANGED <<acts, starters, mics, raced>>
  BY DEF Restart, mediaVars
<1> HIDE DEF t
<1>3. t.kind \notin StartTasks /\ t.kind \notin ForActivity
  BY <1>1 DEF StartTasks, ForActivity
<1> QED BY <1>1, <1>2, <1>3, PutStep

(* What the user does is a task for the last activity or for none. *)
LEMMA MicUserActs ==
  ASSUME MicInv, UserActs PROVE MicInv'
<1>1. UNCHANGED <<acts, starters, mics, raced>>
  BY DEF UserActs, mediaVars
<1>2. Len(acts) \in Nat /\ (Len(acts) > 0 => Len(acts) \in DOMAIN acts)
  BY DEF MicInv, MediaTypes
<1>3. \E t : /\ looper' = Append(looper, t)
             /\ \/ /\ Len(acts) > 0
                   /\ \E k \in {"click_start", "click_end", "resume", "destroy"} :
                        t = Task(k, Len(acts), 0)
                \/ \E s \in {0, 1} : t = Task("ringEnd", 0, s)
                \/ t = Task("pick", 0, 0)
  BY DEF UserActs
<1>4. ASSUME NEW k \in {"click_start", "click_end", "resume", "destroy"}, Len(acts) > 0,
             NEW t, t = Task(k, Len(acts), 0)
      PROVE  /\ t \in Tasks /\ t.kind \notin StartTasks
             /\ t.kind \in ForActivity => t.a \in DOMAIN acts
  <2>1. k \in Kinds
    BY DEF Kinds, ForActivity
  <2>2. t \in Tasks /\ t.kind = k /\ t.a = Len(acts)
    BY <2>1, <1>2, <1>4, TaskIsTask
  <2> QED BY <2>2, <1>2, <1>4 DEF StartTasks
<1>5. ASSUME NEW s \in {0, 1}, NEW t, t = Task("ringEnd", 0, s) \/ t = Task("pick", 0, 0)
      PROVE  t \in Tasks /\ t.kind \notin StartTasks /\ t.kind \notin ForActivity
  <2>1. "ringEnd" \in Kinds /\ "pick" \in Kinds /\ s \in Nat
    BY DEF Kinds
  <2>2. t \in Tasks /\ t.kind \in {"ringEnd", "pick"}
    BY <2>1, <1>5, TaskIsTask
  <2> QED BY <2>2 DEF StartTasks, ForActivity
<1>6. PICK t \in Tasks : /\ looper' = Append(looper, t) /\ t.kind \notin StartTasks
                         /\ t.kind \in ForActivity => t.a \in DOMAIN acts
  BY <1>3, <1>4, <1>5
<1> QED BY <1>1, <1>6, PutStep

(* A start goes on from onOpened() to the display. *)
LEMMA VideoStep ==
  ASSUME MicInv, NEW kind \in {"opened", "video"}, Now(kind), UNCHANGED <<starters, mics, raced>>,
         NEW next \in {"video", "configured"},
         Also(<<Task(next, Head(looper).a, Head(looper).s)>>),
         \/ acts' = [acts EXCEPT ![Head(looper).a].surface = TRUE]
         \/ acts' = [acts EXCEPT ![Head(looper).a].video = Head(looper).s]
  PROVE  MicInv'
<1> DEFINE h == Head(looper)
<1> DEFINE t == Task(next, h.a, h.s)
<1>1. /\ looper # <<>> /\ 1 \in DOMAIN looper
      /\ h = looper[1] /\ h.kind = kind /\ h.a \in Nat /\ h.s \in Nat
  BY FirstTask
<1>2. /\ h.a \in DOMAIN acts /\ h.s \in DOMAIN starters
      /\ starters[h.s].a = h.a /\ starters[h.s].pc \in {"opening", "done"}
  BY <1>1, FirstTask DEF TaskOK, ForActivity, StartTasks
<1>3. next \in Kinds
  BY DEF Kinds, ForActivity, StartTasks
<1> HIDE DEF h
<1>4. t \in Tasks /\ t.kind = next /\ t.a = h.a /\ t.s = h.s
  BY <1>1, <1>3, TaskIsTask
<1>5. Also(<<t>>) /\ <<t>> \in Seq(Tasks)
  BY <1>4 DEF h
<1>6. Shifted(1, <<t>>)
  BY <1>1, <1>5, ShiftOne DEF MicInv
<1>7. Passed(h.s)
  <2>1. HasTask(h.s, StartTasks)
    BY <1>1 DEF HasTask, StartTasks
  <2> QED BY <2>1 DEF Passed
<1> HIDE DEF t
<1>8. Mail(<<t>>)
  BY <1>2, <1>4, <1>7 DEF Mail
<1>9. acts' \in Seq(Activities) /\ SameSessions
  BY <1>1, <1>2, FieldChange DEF MicInv, h
<1>10. StartersGoOn /\ starters' \in Seq(StarterRecs)
  BY SameGoOn DEF MicInv, MediaTypes
<1>11. h.kind # "destroy"
  BY <1>1
<1> QED BY <1>6, <1>8, <1>9, <1>10, <1>11, QuietStep DEF h

(* onOpened(). *)
LEMMA MicHandleOpened ==
  ASSUME MicInv, HandleOpened PROVE MicInv'
<1>1. Now("opened") /\ UNCHANGED <<starters, mics, raced>>
  BY DEF HandleOpened
<1>2. CASE /\ acts' = [acts EXCEPT ![Head(looper).a].surface = TRUE]
           /\ Also(<<Task("video", Head(looper).a, Head(looper).s)>>)
  BY <1>1, <1>2, VideoStep
<1>3. CASE UNCHANGED acts /\ Also(<<>>)
  BY <1>1, <1>3, PopStep
<1> QED BY <1>2, <1>3 DEF HandleOpened

(* ON_VIDEO_START. *)
LEMMA MicHandleVideo ==
  ASSUME MicInv, HandleVideo PROVE MicInv'
<1>1. Now("video") /\ UNCHANGED <<starters, raced>>
  BY DEF HandleVideo
<1>2. CASE /\ acts' = [acts EXCEPT ![Head(looper).a].video = Head(looper).s]
           /\ Also(<<Task("configured", Head(looper).a, Head(looper).s)>>)
           /\ UNCHANGED mics
  BY <1>1, <1>2, VideoStep
<1>3. CASE UNCHANGED acts /\ Also(<<>>) /\ mics' \subseteq mics
  BY <1>1, <1>3, PopStep
<1> QED BY <1>2, <1>3 DEF HandleVideo

(* An activity with other fields. *)
LEMMA ActivityChange ==
  ASSUME MediaTypes, NEW a \in DOMAIN acts, NEW e \in Activities, acts' = [acts EXCEPT ![a] = e]
  PROVE  /\ acts' \in Seq(Activities) /\ DOMAIN acts' = DOMAIN acts /\ acts'[a] = e
         /\ \A k \in DOMAIN acts : k # a => acts'[k] = acts[k]
  BY ExceptInSeq DEF MediaTypes

(* The fields of an activity. *)
LEMMA ActivityTyped ==
  ASSUME MediaTypes, NEW a \in DOMAIN acts PROVE acts[a] \in Activities
  BY ElementOfSeq DEF MediaTypes

(* A session set in the field. *)
LEMMA AudioSet ==
  ASSUME MediaTypes, NEW a \in DOMAIN acts, NEW x \in Nat, acts' = [acts EXCEPT ![a].audio = x]
  PROVE  /\ acts' \in Seq(Activities) /\ DOMAIN acts' = DOMAIN acts
         /\ \A k \in DOMAIN acts : acts'[k].live = acts[k].live
         /\ acts'[a].audio = x
         /\ \A k \in DOMAIN acts : k # a => acts'[k].audio = acts[k].audio
<1> DEFINE e == [acts[a] EXCEPT !.audio = x]
<1>1. e \in Activities /\ e.live = acts[a].live /\ e.audio = x
  BY ActivityTyped DEF Activities
<1>2. acts' = [acts EXCEPT ![a] = e]
  OBVIOUS
<1> HIDE DEF e
<1> QED BY <1>1, <1>2, ActivityChange

(* A session cleared from the field. *)
LEMMA AudioCleared ==
  ASSUME MediaTypes, NEW a \in DOMAIN acts, Close(a)
  PROVE  /\ acts' \in Seq(Activities) /\ DOMAIN acts' = DOMAIN acts
         /\ \A k \in DOMAIN acts : acts'[k].live = acts[k].live
         /\ acts'[a].audio = 0
         /\ \A k \in DOMAIN acts : k # a => acts'[k].audio = acts[k].audio
<1> DEFINE e == [acts[a] EXCEPT !.audio = 0, !.video = 0]
<1>1. e \in Activities /\ e.live = acts[a].live /\ e.audio = 0
  BY ActivityTyped DEF Activities
<1>2. acts' = [acts EXCEPT ![a] = e]
  BY DEF Close
<1> HIDE DEF e
<1> QED BY <1>1, <1>2, ActivityChange

(* The main thread makes the Audio of a start: its field was free, no       *)
(* earlier activity is left, and nobody else is about to set the field.     *)
LEMMA MicHandleAudio ==
  ASSUME MicInv, HandleAudio PROVE MicInv'
<1>0. PICK a, s : a = Head(looper).a /\ s = Head(looper).s
  OBVIOUS
<1>1. Now("audio") /\ Also(<<>>) /\ UNCHANGED <<starters, raced>>
  BY DEF HandleAudio
<1>2. /\ looper # <<>> /\ 1 \in DOMAIN looper /\ looper[1].a = a /\ looper[1].s = s
      /\ a \in Nat /\ s \in Nat /\ Head(looper).kind = "audio" /\ looper[1].kind = "audio"
  BY <1>0, <1>1, FirstTask
<1>3. /\ a \in DOMAIN acts /\ s \in DOMAIN starters
      /\ starters[s].a = a /\ starters[s].pc \in {"opening", "done"}
  BY <1>0, <1>1, <1>2, FirstTask DEF TaskOK, ForActivity, StartTasks
<1>4. CASE UNCHANGED <<acts, mics>>
  BY <1>1, <1>4, PopStep
<1>5. CASE mics' = mics \cup {s} /\ acts' = [acts EXCEPT ![a].audio = s]
  <2>1. /\ acts' \in Seq(Activities) /\ DOMAIN acts' = DOMAIN acts
        /\ \A k \in DOMAIN acts : acts'[k].live = acts[k].live
        /\ acts'[a].audio = s
        /\ \A k \in DOMAIN acts : k # a => acts'[k].audio = acts[k].audio
    BY <1>2, <1>3, <1>5, AudioSet DEF MicInv
  <2>2. Shifted(1, <<>>)
    BY <1>1, <1>2, NoTask, ShiftOne DEF MicInv
  <2>3. StartersGoOn /\ StartsFade
    <3>1. StartersGoOn
      BY <1>1, SameGoOn
    <3> QED BY <3>1, <2>2, Fading, NoTask
  <2>4. MediaTypes'
    BY <1>1, <2>1, <2>2 DEF MicInv, MediaTypes, Shifted
  <2>5. MediaRefs'
    BY <2>1, <2>2, <2>3, NoTask, RefsKept DEF MicInv
  <2>6. ASSUME raced' = {} PROVE LooperOrder' /\ Sessions'
    <3>1. LooperOrder /\ Sessions
      BY <1>1, <2>6 DEF MicInv
    <3>2. Taken(1)
      BY <1>2 DEF Taken
    <3>3. LooperOrder'
      BY <3>1, <3>2, <2>1, <2>2, NoTask, OrderKept DEF MicInv
    <3>4. HasTask(s, StartTasks) /\ HasTask(s, {"audio"})
      BY <1>2 DEF HasTask, StartTasks
    <3>5. Unfinished(s) /\ Passed(s) /\ Soundless(s)
      BY <3>4 DEF Unfinished, Passed, Soundless
    <3>6. acts[a].live /\ acts[a].audio = 0
      BY <3>1, <3>5, <1>3 DEF Sessions, StartHasActivity, FieldIsFree
    <3>7. ASSUME NEW b \in DOMAIN acts, b < a PROVE ~acts[b].live
      <4>1. ~Doomed(b, 1)
        BY DEF Doomed, MicInv, MediaTypes
      <4> QED BY <4>1, <3>1, <3>7, <1>2 DEF LooperOrder, GoneBeforeSound
    <3>8. ~Soundless(s)'
      <4>1. ASSUME NEW i \in DOMAIN looper', looper'[i].kind = "audio", looper'[i].s = s PROVE FALSE
        <5>1. i + 1 \in DOMAIN looper /\ looper'[i] = looper[i + 1]
          BY <2>2 DEF Shifted
        <5>2. i + 1 = 1
          BY <5>1, <4>1, <3>1, <1>2 DEF LooperOrder, SoundAskedOnce
        <5>3. i \in Nat /\ i >= 1
          BY <2>2 DEF Shifted
        <5> QED BY <5>2, <5>3
      <4>2. ~HasTask(s, {"audio"})'
        BY <4>1 DEF HasTask
      <4> QED BY <4>2, <1>1, <1>3 DEF Soundless
    <3>9. StartHasActivity'
      BY <3>1, <2>1, <2>3, <1>1 DEF Sessions, StartHasActivity, StartsFade, MicInv, MediaRefs
    <3>10. SoundIsFirst'
      <4> SUFFICES ASSUME NEW k \in DOMAIN acts, acts'[k].audio # 0
                   PROVE  acts[k].live /\ \A b \in DOMAIN acts : b < k => ~acts[b].live
        BY <2>1 DEF SoundIsFirst
      <4>1. CASE k = a
        BY <4>1, <3>6, <3>7
      <4>2. CASE k # a
        BY <4>2, <2>1, <3>1 DEF Sessions, SoundIsFirst
      <4> QED BY <4>1, <4>2
    <3>11. OnePassed'
      BY <3>1, <2>3, OnePassedKept DEF Sessions
    <3>12. FieldIsFree'
      <4> SUFFICES ASSUME NEW t \in DOMAIN starters, Soundless(t)'
                   PROVE  acts'[starters[t].a].audio = 0
        BY <1>1 DEF FieldIsFree
      <4>1. Soundless(t) /\ starters[t].a \in DOMAIN acts
        BY <2>3 DEF StartsFade, MicInv, MediaRefs
      <4>2. Passed(t)
        <5>1. HasTask(t, {"audio"}) => HasTask(t, StartTasks)
          BY DEF HasTask, StartTasks
        <5> QED BY <5>1, <4>1 DEF Soundless, Passed
      <4>3. t # s
        BY <3>8
      <4>4. starters[t].a # a
        BY <4>2, <4>3, <3>1, <3>5, <1>3 DEF Sessions, OnePassed
      <4> QED BY <4>1, <4>4, <2>1, <3>1 DEF Sessions, FieldIsFree
    <3>13. MicInField'
      <4> SUFFICES ASSUME NEW t \in mics'
                   PROVE  t \in DOMAIN starters /\ acts'[starters[t].a].audio = t
        BY <1>1 DEF MicInField
      <4>1. CASE t = s
        BY <4>1, <2>1, <1>3
      <4>2. CASE t # s
        <5>1. t \in DOMAIN starters /\ acts[starters[t].a].audio = t /\ starters[t].a \in DOMAIN acts
          BY <4>2, <1>5, <3>1 DEF Sessions, MicInField, MicInv, MediaRefs
        <5>2. t # 0
          BY <5>1 DEF MicInv, MediaTypes
        <5>3. starters[t].a # a
          BY <5>1, <5>2, <3>6
        <5> QED BY <5>1, <5>3, <2>1
      <4> QED BY <4>1, <4>2
    <3> QED BY <3>3, <3>9, <3>10, <3>11, <3>12, <3>13 DEF Sessions
  <2> QED BY <2>4, <2>5, <2>6 DEF MicInv
<1> QED BY <1>0, <1>4, <1>5 DEF HandleAudio

(* click_call_end() takes the session of its activity from the field and    *)
(* the microphone with it.                                                  *)
LEMMA MicHandleEnd ==
  ASSUME MicInv, HandleEnd PROVE MicInv'
<1>1. PICK kind \in {"click_end", "miss_connection", "hang_up"} :
        /\ Now(kind) /\ Close(Head(looper).a)
        /\ Also(IF kind = "hang_up" THEN <<Task("launch", 0, 0)>> ELSE <<>>)
        /\ raced \subseteq raced' /\ UNCHANGED starters
  BY DEF HandleEnd
<1>2. PICK a : a = Head(looper).a
  OBVIOUS
<1>3. looper # <<>> /\ Head(looper).kind = kind /\ a \in DOMAIN acts
  BY <1>1, <1>2, FirstTask DEF TaskOK, ForActivity
<1>4. Close(a) /\ mics' = mics \ {acts[a].audio}
  BY <1>1, <1>2 DEF Close
<1>5. /\ acts' \in Seq(Activities) /\ DOMAIN acts' = DOMAIN acts
      /\ \A k \in DOMAIN acts : acts'[k].live = acts[k].live
      /\ acts'[a].audio = 0
      /\ \A k \in DOMAIN acts : k # a => acts'[k].audio = acts[k].audio
  BY <1>3, <1>4, AudioCleared DEF MicInv
<1>6. PICK tasks \in Seq(Tasks) : Also(tasks) /\ Plain(tasks)
  <2>1. Task("launch", 0, 0) \in Tasks /\ Task("launch", 0, 0).kind = "launch"
    BY TaskIsTask DEF Kinds
  <2>2. PICK t \in Tasks : t.kind = "launch" /\ (Also(<<t>>) \/ Also(<<>>))
    BY <1>1, <2>1
  <2>3. Plain(<<t>>) /\ <<t>> \in Seq(Tasks)
    BY <2>2, OneTask DEF StartTasks, ForActivity
  <2> QED BY <2>2, <2>3, NoTask
<1>7. Shifted(1, tasks) /\ Mail(tasks)
  BY <1>3, <1>6, ShiftOne, PlainIsMail DEF MicInv
<1>8. StartersGoOn
  BY <1>1, SameGoOn
<1>9. StartsFade
  BY <1>7, <1>8, Fading
<1>10. MediaTypes'
  BY <1>1, <1>5, <1>7 DEF MicInv, MediaTypes, Shifted
<1>11. MediaRefs'
  BY <1>5, <1>7, <1>8, RefsKept DEF MicInv
<1>12. ASSUME raced' = {} PROVE LooperOrder' /\ Sessions'
  <2>1. LooperOrder /\ Sessions
    BY <1>1, <1>12 DEF MicInv
  <2>2. Taken(1)
    BY <1>3 DEF Taken
  <2>3. LooperOrder'
    BY <2>1, <2>2, <1>5, <1>7, OrderKept DEF MicInv
  <2>4. \A t \in DOMAIN starters : starters[t].a \in DOMAIN acts
    BY DEF MicInv, MediaRefs
  <2>5. StartHasActivity'
    BY <2>1, <2>4, <1>1, <1>5, <1>9 DEF Sessions, StartHasActivity, StartsFade
  <2>6. SoundIsFirst'
    BY <2>1, <1>5 DEF Sessions, SoundIsFirst
  <2>7. OnePassed'
    BY <2>1, <1>8, <1>9, OnePassedKept DEF Sessions
  <2>8. FieldIsFree'
    BY <2>1, <2>4, <1>1, <1>5, <1>9 DEF Sessions, FieldIsFree, StartsFade
  <2>9. MicInField'
    BY <2>1, <2>4, <1>1, <1>4, <1>5 DEF Sessions, MicInField
  <2> QED BY <2>3, <2>5, <2>6, <2>7, <2>8, <2>9 DEF Sessions
<1> QED BY <1>10, <1>11, <1>12 DEF MicInv

(* onDestroy() of an activity without a start under way and without sound. *)
LEMMA MicHandleDestroy ==
  ASSUME MicInv, HandleDestroy PROVE MicInv'
<1>1. Now("destroy") /\ Also(<<>>) /\ UNCHANGED <<starters, mics>> /\ raced \subseteq raced'
  BY DEF HandleDestroy
<1>2. PICK a : a = Head(looper).a
  OBVIOUS
<1>3. looper # <<>> /\ a \in DOMAIN acts
  BY <1>1, <1>2, FirstTask DEF TaskOK, ForActivity
<1>4. acts' = [acts EXCEPT ![a].live = FALSE]
  BY <1>2 DEF HandleDestroy
<1>5. raced' = {} => ~Pending(a, {}) /\ acts[a].audio = 0
  BY <1>2 DEF HandleDestroy, IdleActivity
<1>6. /\ acts' \in Seq(Activities) /\ DOMAIN acts' = DOMAIN acts
      /\ ~acts'[a].live /\ acts'[a].audio = acts[a].audio
      /\ \A k \in DOMAIN acts : k # a => acts'[k] = acts[k]
  <2> DEFINE e == [acts[a] EXCEPT !.live = FALSE]
  <2>1. e \in Activities /\ ~e.live /\ e.audio = acts[a].audio
    BY <1>3, ActivityTyped DEF Activities, MicInv
  <2>2. acts' = [acts EXCEPT ![a] = e]
    BY <1>4
  <2> HIDE DEF e
  <2> QED BY <1>3, <2>1, <2>2, ActivityChange DEF MicInv
<1>7. Shifted(1, <<>>)
  BY <1>1, <1>3, NoTask, ShiftOne DEF MicInv
<1>8. StartersGoOn
  BY <1>1, SameGoOn
<1>9. StartsFade
  BY <1>7, <1>8, Fading, NoTask
<1>10. MediaTypes'
  BY <1>1, <1>6, <1>7 DEF MicInv, MediaTypes, Shifted
<1>11. MediaRefs'
  BY <1>6, <1>7, <1>8, NoTask, RefsKept DEF MicInv
<1>12. ASSUME raced' = {} PROVE LooperOrder' /\ Sessions'
  <2>1. LooperOrder /\ Sessions
    BY <1>1, <1>12 DEF MicInv
  <2>2. Taken(1)
    BY <1>2, <1>6 DEF Taken
  <2>3. \A b \in DOMAIN acts : acts'[b].live => acts[b].live
    BY <1>6
  <2>4. LooperOrder'
    BY <2>1, <2>2, <2>3, <1>6, <1>7, NoTask, OrderKept DEF MicInv
  <2>5. \A t \in DOMAIN starters : starters[t].a \in DOMAIN acts
    BY DEF MicInv, MediaRefs
  <2>6. ASSUME NEW t \in DOMAIN starters, Unfinished(t) PROVE starters[t].a # a
    <3>1. CASE starters[t].pc # "done"
      BY <3>1, <1>5, <1>12 DEF Pending
    <3>2. CASE HasTask(t, StartTasks)
      <4>1. PICK i \in DOMAIN looper : looper[i].kind \in StartTasks /\ looper[i].s = t
        BY <3>2 DEF HasTask
      <4>2. looper[i].a = starters[t].a
        BY <4>1 DEF MicInv, MediaRefs, TaskOK
      <4> QED BY <4>1, <4>2, <1>5, <1>12 DEF Pending
    <3> QED BY <2>6, <3>1, <3>2 DEF Unfinished
  <2>7. StartHasActivity'
    <3>1. ASSUME NEW t \in DOMAIN starters, Unfinished(t)' PROVE acts'[starters[t].a].live
      <4>1. Unfinished(t)
        BY <3>1, <1>9 DEF StartsFade
      <4> QED BY <4>1, <2>1, <2>5, <2>6, <1>6 DEF Sessions, StartHasActivity
    <3> QED BY <3>1, <1>1 DEF StartHasActivity
  <2>8. SoundIsFirst'
    BY <2>1, <2>3, <1>5, <1>6, <1>12 DEF Sessions, SoundIsFirst
  <2>9. OnePassed'
    BY <2>1, <1>8, <1>9, OnePassedKept DEF Sessions
  <2>10. FieldIsFree'
    BY <2>1, <2>5, <1>1, <1>6, <1>9 DEF Sessions, FieldIsFree, StartsFade
  <2>11. MicInField'
    BY <2>1, <2>5, <1>1, <1>6 DEF Sessions, MicInField
  <2> QED BY <2>4, <2>7, <2>8, <2>9, <2>10, <2>11 DEF Sessions
<1> QED BY <1>10, <1>11, <1>12 DEF MicInv

(* The starters are as before, or there is one more, for activity a. *)
StartersGrow(a) ==
  \/ UNCHANGED starters
  \/ \E n : /\ n \notin DOMAIN starters /\ DOMAIN starters' = DOMAIN starters \cup {n}
            /\ starters'[n].a = a /\ starters'[n].pc = "lock"
            /\ \A k \in DOMAIN starters : starters'[k] = starters[k]

(* What NewStarter does to the threads. *)
LEMMA Starting ==
  ASSUME MediaTypes, NEW a \in Nat, starters' \in {starters, NewStarter(a)}
  PROVE  starters' \in Seq(StarterRecs) /\ StartersGrow(a)
<1>1. starters \in Seq(StarterRecs)
  BY DEF MediaTypes
<1>2. CASE starters' = starters
  BY <1>1, <1>2 DEF StartersGrow
<1>3. CASE starters' = NewStarter(a)
  <2> DEFINE e == [a |-> a, pc |-> "lock"]
  <2> DEFINE n == Len(starters) + 1
  <2>1. e \in StarterRecs /\ e.a = a /\ e.pc = "lock"
    BY DEF StarterRecs, Places
  <2>2. starters' = Append(starters, e)
    BY <1>3 DEF NewStarter
  <2> HIDE DEF e
  <2>3. /\ starters' \in Seq(StarterRecs) /\ Len(starters') = Len(starters) + 1
        /\ \A i \in 1 .. Len(starters) : starters'[i] = starters[i]
        /\ starters'[Len(starters) + 1] = e
    BY <1>1, <2>1, <2>2, AppendProperties
  <2>4. DOMAIN starters = 1 .. Len(starters) /\ Len(starters) \in Nat
    BY <1>1
  <2>5. DOMAIN starters' = 1 .. Len(starters) + 1
    BY <2>3
  <2>6. n \notin DOMAIN starters /\ DOMAIN starters' = DOMAIN starters \cup {n}
    BY <2>4, <2>5
  <2>7. starters'[n] = e
    BY <2>3
  <2> HIDE DEF n
  <2> QED BY <2>1, <2>3, <2>4, <2>6, <2>7 DEF StartersGrow
<1> QED BY <1>2, <1>3

(* A new start has no task yet, the old ones come closer to their end. *)
LEMMA GrownFade ==
  ASSUME MicInv, NEW d, NEW tasks, Shifted(d, tasks), Plain(tasks), NEW a, StartersGrow(a),
         NEW s \in DOMAIN starters'
  PROVE  /\ s \in DOMAIN starters => /\ starters'[s] = starters[s]
                                     /\ Unfinished(s)' => Unfinished(s)
         /\ s \notin DOMAIN starters => starters'[s].a = a
         /\ Passed(s)' => s \in DOMAIN starters /\ Passed(s)
         /\ Soundless(s)' => s \in DOMAIN starters /\ Soundless(s)
<1>1. HasTask(s, StartTasks)' => HasTask(s, StartTasks)
  BY TaskOrigin DEF Plain
<1>2. HasTask(s, {"audio"})' => HasTask(s, {"audio"})
  <2>1. \A j \in DOMAIN tasks : tasks[j].kind \notin {"audio"}
    BY DEF Plain, StartTasks
  <2> QED BY <2>1, TaskOrigin
<1>3. HasTask(s, {"audio"}) => HasTask(s, StartTasks)
  BY DEF HasTask, StartTasks
<1>4. HasTask(s, StartTasks) => s \in DOMAIN starters
  BY DEF HasTask, MicInv, MediaRefs, TaskOK
<1>5. CASE s \in DOMAIN starters
  <2>1. starters'[s] = starters[s]
    BY <1>5 DEF StartersGrow
  <2> QED BY <1>1, <1>2, <1>5, <2>1 DEF Unfinished, Passed, Soundless
<1>6. CASE s \notin DOMAIN starters
  <2>1. starters'[s].a = a /\ starters'[s].pc = "lock"
    BY <1>6 DEF StartersGrow
  <2> QED BY <1>1, <1>2, <1>3, <1>4, <1>6, <2>1 DEF Passed, Soundless
<1> QED BY <1>5, <1>6

(* A step that may add a start and an activity without sound. *)
LEMMA GrowStep ==
  ASSUME MicInv, NEW tasks, Shifted(1, tasks), Plain(tasks), Head(looper).kind # "destroy",
         UNCHANGED <<mics, raced>>,
         acts' \in Seq(Activities), DOMAIN acts \subseteq DOMAIN acts',
         \A k \in DOMAIN acts : acts'[k] = acts[k],
         \A k \in DOMAIN acts' \ DOMAIN acts : acts'[k].audio = 0,
         NEW a \in DOMAIN acts', acts'[a].live,
         starters' \in Seq(StarterRecs), StartersGrow(a),
         raced = {} => OthersLeave'
  PROVE  MicInv'
<1>1. MediaTypes'
  BY DEF MediaTypes, Shifted
<1>2. \A s \in DOMAIN starters : s \in DOMAIN starters' /\ starters'[s] = starters[s]
  BY DEF StartersGrow
<1>3. \A s \in DOMAIN starters' \ DOMAIN starters : starters'[s].a = a
  BY DEF StartersGrow
<1>4. \A s \in DOMAIN starters : starters[s].a \in DOMAIN acts
  BY DEF MicInv, MediaRefs
<1>5. MediaRefs'
  <2>1. \A s \in DOMAIN starters' : starters'[s].a \in DOMAIN acts'
    BY <1>2, <1>3, <1>4
  <2>2. ASSUME NEW t, TaskOK(t) PROVE TaskOK(t)'
    BY <2>2, <1>2 DEF TaskOK
  <2>3. ASSUME NEW i \in DOMAIN looper', NEW t, t = looper'[i] PROVE TaskOK(t)'
    <3>1. \/ \E k \in DOMAIN looper : t = looper[k]
          \/ \E j \in DOMAIN tasks : t = tasks[j]
      BY <2>3 DEF Shifted
    <3>2. ASSUME NEW k \in DOMAIN looper, t = looper[k] PROVE TaskOK(t)'
      BY <3>2, <2>2 DEF MicInv, MediaRefs
    <3>3. ASSUME NEW j \in DOMAIN tasks, t = tasks[j] PROVE TaskOK(t)'
      <4>1. t.kind \notin StartTasks /\ (t.kind \in ForActivity => t.a \in DOMAIN acts')
        BY <3>3 DEF Plain
      <4> QED BY <4>1 DEF TaskOK
    <3> QED BY <3>1, <3>2, <3>3
  <2> QED BY <2>1, <2>3 DEF MediaRefs, TaskOK
<1>6. ASSUME raced' = {} PROVE LooperOrder' /\ Sessions'
  <2>1. LooperOrder /\ Sessions /\ raced = {}
    BY <1>6 DEF MicInv
  <2>2. Taken(1) /\ Mail(tasks)
    BY PlainIsMail DEF Taken
  <2>3. GoneBeforeSound'
    BY <2>1, <2>2, GoneBeforeSoundKept DEF MicInv
  <2>4. SoundAskedOnce'
    BY <2>1, <2>2, SoundAskedOnceKept DEF MicInv, LooperOrder
  <2>5. LooperOrder'
    BY <2>1, <2>3, <2>4 DEF LooperOrder
  <2>6. ASSUME NEW s \in DOMAIN starters'
        PROVE  /\ s \in DOMAIN starters => (Unfinished(s)' => Unfinished(s))
               /\ Passed(s)' => s \in DOMAIN starters /\ Passed(s)
               /\ Soundless(s)' => s \in DOMAIN starters /\ Soundless(s)
    BY GrownFade
  <2>7. StartHasActivity'
    <3>1. ASSUME NEW s \in DOMAIN starters', Unfinished(s)' PROVE acts'[starters'[s].a].live
      <4>1. CASE s \in DOMAIN starters
        BY <4>1, <3>1, <2>1, <2>6, <1>2, <1>4 DEF Sessions, StartHasActivity
      <4>2. CASE s \notin DOMAIN starters
        BY <4>2, <1>3
      <4> QED BY <4>1, <4>2
    <3> QED BY <3>1 DEF StartHasActivity
  <2>8. SoundIsFirst'
    <3> SUFFICES ASSUME NEW k \in DOMAIN acts', acts'[k].audio # 0
                 PROVE  acts'[k].live /\ \A b \in DOMAIN acts' : b < k => ~acts'[b].live
      BY DEF SoundIsFirst
    <3>1. k \in DOMAIN acts
      OBVIOUS
    <3>2. ASSUME NEW b \in DOMAIN acts', b < k PROVE b \in DOMAIN acts
      <4>1. DOMAIN acts = 1 .. Len(acts) /\ Len(acts) \in Nat
        BY DEF MicInv, MediaTypes
      <4>2. b \in Nat /\ b >= 1
        OBVIOUS
      <4>3. k \in Nat /\ k <= Len(acts)
        BY <3>1, <4>1
      <4> QED BY <4>1, <4>2, <4>3, <3>2
    <3> QED BY <3>1, <3>2, <2>1 DEF Sessions, SoundIsFirst
  <2>9. OnePassed'
    <3> SUFFICES ASSUME NEW u \in DOMAIN starters', NEW q \in DOMAIN starters',
                        Passed(u)', Passed(q)', starters'[u].a = starters'[q].a
                 PROVE  u = q
      BY DEF OnePassed
    <3>1. u \in DOMAIN starters /\ q \in DOMAIN starters /\ Passed(u) /\ Passed(q)
      BY <2>6
    <3> QED BY <3>1, <1>2, <2>1 DEF Sessions, OnePassed
  <2>10. FieldIsFree'
    BY <2>1, <2>6, <1>2, <1>4 DEF Sessions, FieldIsFree
  <2>11. MicInField'
    BY <2>1, <1>2, <1>4 DEF Sessions, MicInField
  <2> QED BY <2>5, <2>7, <2>8, <2>9, <2>10, <2>11 DEF Sessions
<1> QED BY <1>1, <1>5, <1>6 DEF MicInv

(* A start begins, in an activity that lives. *)
LEMMA MicHandleStart ==
  ASSUME MicInv, HandleStart PROVE MicInv'
<1>1. PICK kind \in {"answer_call", "resume"} :
        /\ Now(kind) /\ Also(<<>>) /\ UNCHANGED <<acts, mics, raced>>
        /\ acts[Head(looper).a].live
        /\ starters' \in {starters, NewStarter(Head(looper).a)}
  BY DEF HandleStart
<1>2. PICK a : a = Head(looper).a
  OBVIOUS
<1>3. looper # <<>> /\ Head(looper).kind = kind /\ a \in DOMAIN acts /\ a \in Nat
  BY <1>1, <1>2, FirstTask DEF TaskOK, ForActivity
<1>4. starters' \in Seq(StarterRecs) /\ StartersGrow(a)
  BY <1>1, <1>2, <1>3, Starting DEF MicInv
<1>5. Shifted(1, <<>>) /\ Taken(1)
  BY <1>1, <1>3, NoTask, ShiftOne DEF MicInv, Taken
<1>6. acts' = acts /\ acts' \in Seq(Activities) /\ acts'[a].live
  BY <1>1, <1>2 DEF MicInv, MediaTypes
<1>7. raced = {} => OthersLeave'
  BY <1>5, <1>6, OthersLeaveKept DEF MicInv, LooperOrder
<1> QED BY <1>1, <1>3, <1>4, <1>5, <1>6, <1>7, NoTask, GrowStep

(* A launch: the new activity is the last, and every live one before it is  *)
(* given its destruction.                                                   *)
LEMMA MicHandleLaunch ==
  ASSUME MicInv, HandleLaunch PROVE MicInv'
<1> DEFINE n == Len(acts) + 1
<1>1. PICK start \in BOOLEAN :
        /\ acts' = Append(acts, NewActivity(start))
        /\ starters' \in {starters, NewStarter(Len(acts) + 1)}
  BY DEF HandleLaunch
<1>2. Now("launch") /\ Also(ForLive("destroy")) /\ UNCHANGED <<mics, raced>>
  BY DEF HandleLaunch
<1>3. looper # <<>> /\ Head(looper).kind = "launch"
  BY <1>2, FirstTask
<1>4. PICK tasks :
        /\ tasks = ForLive("destroy") /\ tasks \in Seq(Tasks)
        /\ \A j \in DOMAIN tasks : tasks[j].kind = "destroy" /\ tasks[j].a \in Live
        /\ \A b \in Live : \E j \in DOMAIN tasks : tasks[j].a = b
  <2>1. "destroy" \in Kinds
    BY DEF Kinds, ForActivity
  <2> QED BY <2>1, ForLiveTasks DEF MicInv
<1>5. Plain(tasks)
  <2>1. Live \subseteq DOMAIN acts
    BY DEF Live
  <2> QED BY <1>4, <2>1 DEF Plain, StartTasks
<1>6. Shifted(1, tasks)
  BY <1>2, <1>3, <1>4, ShiftOne DEF MicInv
<1>7. acts \in Seq(Activities) /\ Len(acts) \in Nat /\ DOMAIN acts = 1 .. Len(acts)
  BY DEF MicInv, MediaTypes
<1>8. /\ acts' \in Seq(Activities) /\ Len(acts') = n
      /\ \A i \in 1 .. Len(acts) : acts'[i] = acts[i]
      /\ acts'[n].live /\ acts'[n].audio = 0
  <2> DEFINE e == NewActivity(start)
  <2>1. e \in Activities /\ e.live /\ e.audio = 0
    BY DEF NewActivity, Activities
  <2>2. acts' = Append(acts, e)
    BY <1>1
  <2> HIDE DEF e
  <2>3. acts'[n] = e
    BY <1>7, <2>1, <2>2, AppendProperties
  <2> QED BY <1>7, <2>1, <2>2, <2>3, AppendProperties
<1>9. DOMAIN acts' = 1 .. n
  BY <1>8
<1>10. n \in Nat /\ DOMAIN acts' = DOMAIN acts \cup {n} /\ n \in DOMAIN acts'
  BY <1>7, <1>9
<1>11. starters' \in Seq(StarterRecs) /\ StartersGrow(n)
  BY <1>1, <1>10, Starting DEF MicInv
<1>12. OthersLeave'
  <2> SUFFICES ASSUME NEW b \in DOMAIN acts', acts'[b].live, b < Len(acts')
               PROVE  \E i \in DOMAIN looper' : looper'[i].kind = "destroy" /\ looper'[i].a = b
    BY DEF OthersLeave, Leaving
  <2>1. b \in DOMAIN acts
    <3>1. b # n
      BY <1>8, <1>10
    <3> QED BY <3>1, <1>10
  <2>2. b \in Live
    BY <2>1, <1>7, <1>8 DEF Live
  <2>3. PICK j \in DOMAIN tasks : tasks[j].kind = "destroy" /\ tasks[j].a = b
    BY <2>2, <1>4
  <2> QED BY <2>3, <1>6 DEF Shifted
<1> HIDE DEF n
<1> QED BY <1>2, <1>3, <1>5, <1>6, <1>7, <1>8, <1>10, <1>11, <1>12, GrowStep

(* MicInv holds at first. *)
LEMMA MicInitial == PhoneInit => MicInv
<1> SUFFICES ASSUME PhoneInit PROVE MicInv
  OBVIOUS
<1>1. looper = <<>> /\ starters = <<>> /\ mics = {} /\ acts \in {<<>>, <<NewActivity(FALSE)>>}
  BY DEF PhoneInit
<1>2. NewActivity(FALSE) \in Activities /\ NewActivity(FALSE).audio = 0
  BY DEF NewActivity, Activities
<1>3. PICK e \in Activities : e.audio = 0 /\ (acts = <<>> \/ acts = <<e>>)
  BY <1>1, <1>2
<1>4. /\ acts \in Seq(Activities) /\ Len(acts) \in {0, 1}
      /\ \A k \in DOMAIN acts : k = 1 /\ acts[k].audio = 0
  <2>1. CASE acts = <<>>
    BY <2>1
  <2>2. CASE acts = <<e>>
    <3>1. acts \in Seq(Activities) /\ Len(acts) = 1 /\ DOMAIN acts = {1} /\ acts[1] = e
      BY <2>2
    <3> QED BY <3>1, <1>3
  <2> QED BY <1>3, <2>1, <2>2
<1>5. MediaTypes
  BY <1>1, <1>4 DEF MediaTypes
<1>6. MediaRefs
  BY <1>1 DEF MediaRefs
<1>7. LooperOrder
  BY <1>1, <1>4 DEF LooperOrder, OthersLeave, GoneBeforeSound, SoundAskedOnce
<1>8. Sessions
  BY <1>1, <1>4 DEF Sessions, StartHasActivity, SoundIsFirst, OnePassed, FieldIsFree, MicInField
<1> QED BY <1>5, <1>6, <1>7, <1>8 DEF MicInv

(* Every step keeps MicInv. *)
LEMMA MicNext ==
  ASSUME MicInv, [PhoneNext]_sessionVars PROVE MicInv'
<1>1. CASE UNCHANGED sessionVars
  <2>1. UNCHANGED <<acts, starters, looper, mics, raced>>
    BY <1>1 DEF sessionVars
  <2> QED BY <2>1, SameLooperStep
<1>2. ASSUME NEW g \in DOMAIN login, Login(g) \/ Listen(g) \/ ListenHangUp(g) \/ ListenEnds(g)
      PROVE  MicInv'
  BY <1>2, MicListener
<1>3. ASSUME NEW s \in DOMAIN starters, Starter(s) \/ GetSetting(s) PROVE MicInv'
  BY <1>3, MicTakeLock, MicCheckIdle, MicWaitInit, MicCameraAnswers, MicGetSetting DEF Starter
<1>4. CASE MainThread
  BY <1>4, MicHandleAudio, MicHandleOpened, MicHandleVideo, MicOtherTasks, MicHandleEnd,
     MicHandleStart, MicHandleLaunch, MicHandleDestroy, MicRestart DEF MainThread
<1>5. CASE UserActs
  BY <1>5, MicUserActs
<1>6. CASE RememberedPick \/ RememberedRestart
  <2>1. UNCHANGED <<acts, starters, looper, mics, raced>>
    BY <1>6 DEF RememberedPick, RememberedRestart, mediaVars
  <2> QED BY <2>1, SameLooperStep
<1> QED BY <1>1, <1>2, <1>3, <1>4, <1>5, <1>6 DEF PhoneNext

(* MicInv leaves room for one microphone. *)
LEMMA MicOne == MicInv => OneMicrophone
<1> SUFFICES ASSUME MicInv, raced = {}, NEW s \in mics, NEW t \in mics PROVE s = t
  BY DEF OneMicrophone
<1> DEFINE a == starters[s].a
<1> DEFINE b == starters[t].a
<1>1. Sessions
  BY DEF MicInv
<1>2. s \in DOMAIN starters /\ acts[a].audio = s /\ t \in DOMAIN starters /\ acts[b].audio = t
  BY <1>1 DEF Sessions, MicInField
<1>3. a \in DOMAIN acts /\ b \in DOMAIN acts /\ a \in Nat /\ b \in Nat
  BY <1>2, StarterTyped
<1>4. s # 0 /\ t # 0
  BY <1>2 DEF MicInv, MediaTypes
<1> HIDE DEF a, b
<1>5. /\ acts[a].live /\ \A k \in DOMAIN acts : k < a => ~acts[k].live
      /\ acts[b].live /\ \A k \in DOMAIN acts : k < b => ~acts[k].live
  BY <1>1, <1>2, <1>3, <1>4 DEF Sessions, SoundIsFirst
<1>6. ~(a < b) /\ ~(b < a)
  BY <1>3, <1>5
<1>7. a = b
  BY <1>3, <1>6
<1> QED BY <1>2, <1>7

(* One microphone: a second start of a call finds the session of the first  *)
(* (the test in StartCommuication.run()), for any number of calls, screens  *)
(* and restarts, unless starting and ending raced.                          *)
THEOREM PhoneOneMicrophone == PhoneSpec => []OneMicrophone
<1>1. PhoneInit => MicInv
  BY MicInitial
<1>2. MicInv /\ [PhoneNext]_sessionVars => MicInv'
  BY MicNext
<1>3. MicInv => OneMicrophone
  BY MicOne
<1> QED BY <1>1, <1>2, <1>3, PTL DEF PhoneSpec
=============================================================================
