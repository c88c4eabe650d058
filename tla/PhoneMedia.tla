----------------------------- MODULE PhoneMedia -----------------------------
(***************************************************************************)
(* Starting and stopping microphone, camera and display on the phone:       *)
(* MainActivity.java with its StartCommuication threads, Audio.java and     *)
(* VideoThread.java, under the listener of PhoneAnswerListener.java, which  *)
(* other screens restart for another contact.                               *)
(*                                                                         *)
(* One main thread takes tasks from the looper, first in first out: user    *)
(* input, broadcasts of the listener, messages to MyHandler, callbacks of   *)
(* the camera, launches and destructions of activities.  StartCommuication  *)
(* runs beside it and holds the audioLock of its activity all the while.    *)
(*                                                                         *)
(* The robot is any sequence of messages, and a turn of the listener is one *)
(* step; CallSignalling has both in detail.                                 *)
(***************************************************************************)
EXTENDS Integers, Sequences, FiniteSets

CONSTANTS MaxUser,    \* user actions in a behaviour
          MaxRobot    \* messages of the robot in a behaviour

ASSUME PhoneMediaAssumption == MaxUser \in Nat /\ MaxRobot \in Nat

VARIABLES
  looper,         \* tasks of the main thread
  main,           \* "free", "restarting", "stuck" in a request, or "dead": the app crashed
  acts,           \* every MainActivity made so far
  ringing,        \* OnPhoneCallActivity is on top
  starters,       \* every StartCommuication thread made so far
  mics, cams,     \* numbers of the threads whose Audio, and whose camera session, run
  f,              \* flags of the listener
  login,          \* every ServiceMainThread made so far; only the last should go on
  initFinish, passwordError,
  remembered,     \* the first MainActivity's thread, which restarts the listener for
                  \* the contact stored last: "waiting", "restarting" or "done"
  events,         \* user actions and messages of the robot so far
  overtaken,      \* history: a login ended inside a restart or after it
  raced           \* history: what has raced with starting or ending:
                  \* "early" an end during a start, "twice" a start during a start,
                  \* "left" an activity destroyed with either, "stale" a start
                  \* after the call, "unheard" an answer without an activity

listenVars == <<login, initFinish, passwordError, remembered, overtaken>>
mediaVars == <<acts, starters, mics, cams, raced>>
sessionVars == <<looper, main, acts, ringing, starters, mics, cams, f, listenVars, events, raced>>

Task(kind, a, s) == [kind |-> kind, a |-> a, s |-> s]

(* start: the extra "startCommunication" of the intent. *)
NewActivity(start) ==
  [live |-> TRUE, audio |-> 0, video |-> 0, lock |-> 0, surface |-> FALSE, start |-> start]

NoCall == [isCalling |-> FALSE, haveCall |-> FALSE, answerCall |-> FALSE, hangUpCall |-> FALSE]

(* The listener service with a stored password, and without one; contacts   *)
(* on the screen, or the MainActivity of the contact stored last, whose     *)
(* thread finds the service with another password (opening the app is then  *)
(* the first user action) or with the same.                                 *)
PhoneInit ==
  /\ looper = <<>> /\ main = "free"
  /\ \/ acts = <<>> /\ remembered = "done"
     \/ acts = <<NewActivity(FALSE)>> /\ remembered \in {"waiting", "done"}
  /\ ringing = FALSE
  /\ starters = <<>> /\ mics = {} /\ cams = {}
  /\ f = NoCall
  /\ \E stored \in BOOLEAN :
       /\ login = <<IF stored THEN "running" ELSE "failed">>
       /\ initFinish = ~stored /\ passwordError = ~stored
  /\ events = [user |-> IF remembered = "waiting" THEN 1 ELSE 0, robot |-> 0] /\ overtaken = FALSE /\ raced = {}

Live == {a \in DOMAIN acts : acts[a].live}

(* A task for each live activity, in the order they came. *)
ForLive(kind) ==
  [i \in 1 .. Cardinality(Live) |->
     Task(kind, CHOOSE a \in Live : Cardinality({b \in Live : b <= a}) = i, 0)]

(* A start of activity a that has not come to its end: a thread, a camera   *)
(* being opened, or a task of the thread in the looper.                     *)
StartTasks == {"audio", "opened", "video", "configured"}
Pending(a, but) ==
  \/ \E s \in DOMAIN starters \ but : starters[s].a = a /\ starters[s].pc # "done"
  \/ \E i \in DOMAIN looper : looper[i].kind \in StartTasks /\ looper[i].a = a /\ looper[i].s \notin but

(* sendBroadcast() to the registered receivers. *)
Broadcast(kind) ==
  ForLive(kind) \o IF kind = "hang_up" /\ ringing THEN <<Task("ringEnd", 0, 0)>> ELSE <<>>

Flags(kinds) == [k \in DOMAIN f |-> IF k \in kinds THEN TRUE ELSE f[k]]

(* isCalling() and answerPhoneCall(false).  A login and the socket that     *)
(* follows it are one step.                                                 *)
Calling == f.isCalling \/ f.answerCall
HaveSocket == \E g \in DOMAIN login : login[g] \in {"listening", "ended"}
HangUpFlags(asked) ==
  IF asked /\ HaveSocket /\ (f.haveCall \/ Calling) THEN Flags({"hangUpCall"}) ELSE f

-----------------------------------------------------------------------------
(* The listener *)

(* Somebody is inside restartListening(), which is synchronized. *)
Restarting == main = "restarting" \/ remembered = "restarting"

(* The login of a listener thread, reported in flags of the service. *)
Login(g) ==
  /\ login[g] = "running"
  /\ \E ok \in BOOLEAN :
       /\ initFinish' = TRUE
       /\ passwordError' = IF ok THEN passwordError ELSE TRUE
       /\ login' = [login EXCEPT ![g] = IF ok THEN "listening" ELSE "failed"]
  /\ overtaken' = (overtaken \/ g # Len(login) \/ Restarting)
  /\ UNCHANGED <<looper, main, mediaVars, ringing, f, remembered, events>>

(* The listener's branches: f' and the broadcast for message m of the robot *)
(* ("lost" for the third alive message without an answer).                  *)
Gets(m) ==
  \/ /\ f.isCalling
     /\ \/ m = "HANG_UP_CALL" /\ f' = Flags({"hangUpCall"}) /\ UNCHANGED looper
        \/ /\ m \in {"ALIVE_CALL", "ON_PHONE_CALL"}
           /\ f' = [f EXCEPT !.isCalling = FALSE, !.answerCall = TRUE]
           /\ looper' = looper \o Broadcast("answer_call")
  \/ /\ ~f.isCalling /\ f.answerCall
     /\ \/ m = "HANG_UP_CALL" /\ f' = Flags({"hangUpCall"}) /\ UNCHANGED looper
        \/ /\ m = "lost"
           /\ f' = [f EXCEPT !.hangUpCall = TRUE, !.answerCall = FALSE]
           /\ looper' = looper \o Broadcast("miss_connection")
  \/ /\ ~Calling
     /\ \/ m = "ALIVE_CALL" /\ f' = Flags({"hangUpCall"}) /\ UNCHANGED looper
        \/ /\ m = "ON_PHONE_CALL" /\ ~f.haveCall
           /\ f' = Flags({"haveCall"})
           /\ looper' = Append(looper, Task("on_phone_call", 0, 0))
        \/ m = "HANG_UP_CALL" /\ looper' = looper \o Broadcast("hang_up") /\ UNCHANGED f

(* A stopped listener ends after the turn it is in. *)
AfterTurn(g) == login' = [login EXCEPT ![g] = IF g = Len(login) THEN @ ELSE "ended"]

Listen(g) ==
  /\ login[g] = "listening" /\ ~f.hangUpCall
  /\ events.robot < MaxRobot /\ events' = [events EXCEPT !.robot = @ + 1]
  /\ \E m \in {"HANG_UP_CALL", "ALIVE_CALL", "ON_PHONE_CALL", "lost"} : Gets(m)
  /\ raced' = raced \cup IF f.isCalling /\ ~f'.isCalling /\ Live = {} THEN {"unheard"} ELSE {}
  /\ AfterTurn(g)
  /\ UNCHANGED <<main, acts, starters, mics, cams, ringing, initFinish, passwordError, remembered, overtaken>>

(* The branch of hangUpCall: all flags are cleared and everyone is told. *)
ListenHangUp(g) ==
  /\ login[g] = "listening" /\ f.hangUpCall
  /\ f' = NoCall
  /\ looper' = looper \o Broadcast("hang_up")
  /\ AfterTurn(g)
  /\ UNCHANGED <<main, mediaVars, ringing, initFinish, passwordError, remembered, overtaken, events>>

ListenEnds(g) ==
  /\ login[g] = "listening" /\ g # Len(login)
  /\ login' = [login EXCEPT ![g] = "ended"]
  /\ UNCHANGED <<looper, main, mediaVars, ringing, f, initFinish, passwordError, remembered, overtaken, events>>

(* restartListeningWithCheck() of the first MainActivity, on a thread of its *)
(* own: a new listener thread, unless somebody has entered the password      *)
(* already ...                                                               *)
RememberedPick ==
  /\ remembered = "waiting" /\ main # "restarting"
  /\ \/ remembered' = "restarting" /\ login' = Append(login, "running")
     \/ Len(login) > 1 /\ remembered' = "done" /\ UNCHANGED login
  /\ UNCHANGED <<looper, main, mediaVars, ringing, f, initFinish, passwordError, overtaken, events>>

(* ... and the flags.                                                        *)
RememberedRestart ==
  /\ remembered = "restarting" /\ remembered' = "done"
  /\ initFinish' = FALSE /\ passwordError' = FALSE
  /\ UNCHANGED <<looper, main, mediaVars, ringing, f, login, overtaken, events>>

-----------------------------------------------------------------------------
(* StartCommuication.run() of thread s *)

Goto(s, pc) == [starters EXCEPT ![s].pc = pc]

TakeLock(s) ==
  /\ starters[s].pc = "lock" /\ acts[starters[s].a].lock = 0
  /\ starters' = Goto(s, "check")
  /\ acts' = [acts EXCEPT ![starters[s].a].lock = s]
  /\ UNCHANGED <<looper, main, ringing, mics, cams, f, listenVars, events, raced>>

(* Mutant: a start does not look whether there is a session. *)
IdleActivityAny(a) == TRUE

(* "audio == null && video == null" *)
IdleActivity(a) == acts[a].audio = 0 /\ acts[a].video = 0

(* After the second of sleep: only an activity without a session goes on. *)
CheckIdle(s) ==
  LET a == starters[s].a
      go == IdleActivity(a)
  IN  /\ starters[s].pc = "check"
      /\ starters' = Goto(s, IF go THEN "init" ELSE "done")
      /\ acts' = IF go THEN acts ELSE [acts EXCEPT ![a].lock = 0]
      /\ raced' = raced \cup IF go /\ \E t \in DOMAIN starters : t # s /\ starters[t].a = a
                                        /\ starters[t].pc # "lock" /\ Pending(a, DOMAIN starters \ {t})
                             THEN {"twice"} ELSE {}
      /\ UNCHANGED <<looper, main, ringing, mics, cams, f, listenVars, events>>

(* It spins until the listener has logged in. *)
WaitInit(s) ==
  /\ starters[s].pc = "init" /\ initFinish
  /\ starters' = Goto(s, IF passwordError THEN "done" ELSE "setting")
  /\ acts' = IF passwordError THEN [acts EXCEPT ![starters[s].a].lock = 0] ELSE acts
  /\ UNCHANGED <<looper, main, ringing, mics, cams, f, listenVars, events, raced>>

(* Mutant: the lock is not given back before the session has been made. *)
GetSettingKeepsLock(s) ==
  /\ starters[s].pc = "setting"
  /\ looper' = Append(looper, Task("audio", starters[s].a, s))
  /\ starters' = Goto(s, "opening")
  /\ UNCHANGED <<main, acts, ringing, mics, cams, f, listenVars, events, raced>>

(* getSetting() has found the robot's address, which may never come: the    *)
(* sound is asked for, the camera is being opened, and the lock is free.    *)
GetSetting(s) ==
  /\ starters[s].pc = "setting"
  /\ looper' = Append(looper, Task("audio", starters[s].a, s))
  /\ starters' = Goto(s, "opening")
  /\ acts' = [acts EXCEPT ![starters[s].a].lock = 0]
  /\ raced' = raced \cup IF f = NoCall THEN {"stale"} ELSE {}
  /\ UNCHANGED <<main, ringing, mics, cams, f, listenVars, events>>

(* The camera answers with onOpened(), or with an error nobody handles. *)
CameraAnswers(s) ==
  /\ starters[s].pc = "opening"
  /\ starters' = Goto(s, "done")
  /\ \/ looper' = Append(looper, Task("opened", starters[s].a, s))
     \/ UNCHANGED looper
  /\ UNCHANGED <<main, acts, ringing, mics, cams, f, listenVars, events, raced>>

Starter(s) == TakeLock(s) \/ CheckIdle(s) \/ WaitInit(s) \/ CameraAnswers(s)

-----------------------------------------------------------------------------
(* The main thread: what it does with the first task *)

Now(kind) == main = "free" /\ looper # <<>> /\ Head(looper).kind = kind
Also(tasks) == looper' = Tail(looper) \o tasks

NewStarter(a) == Append(starters, [a |-> a, pc |-> "lock"])

(* Whether the WeakReference of MyHandler still leads to the activity. *)
Outer(a) == IF acts[a].live THEN {TRUE} ELSE BOOLEAN

(* ON_AUDIO_START: a new Audio, whatever was in the field. *)
HandleAudio ==
  /\ Now("audio") /\ Also(<<>>)
  /\ LET a == Head(looper).a
         s == Head(looper).s
     IN  \E outer \in Outer(a) :
           /\ mics' = IF outer THEN mics \cup {s} ELSE mics
           /\ acts' = IF outer THEN [acts EXCEPT ![a].audio = s] ELSE acts
  /\ UNCHANGED <<main, ringing, starters, cams, f, listenVars, events, raced>>

(* onOpened() spins on surfaceIsCreated.  The surface is there by then, or  *)
(* the spinning keeps the main thread from ever announcing it.              *)
HandleOpened ==
  /\ Now("opened")
  /\ LET a == Head(looper).a
     IN  \/ /\ acts' = [acts EXCEPT ![a].surface = TRUE]
            /\ Also(<<Task("video", a, Head(looper).s)>>)
            /\ UNCHANGED main
         \/ /\ ~acts[a].surface
            /\ main' = "stuck" /\ Also(<<>>)
            /\ UNCHANGED acts
  /\ UNCHANGED <<ringing, starters, mics, cams, f, listenVars, events, raced>>

(* ON_VIDEO_START: the constructor of VideoThread asks the relay.  Without  *)
(* an answer to getUdpSocket() it goes on with null and the app crashes;    *)
(* without one to getSlidingIp_Port() it waits for ever.                    *)
HandleVideo ==
  /\ Now("video")
  /\ LET a == Head(looper).a
         s == Head(looper).s
     IN  \E outer \in Outer(a) :
           \/ /\ outer
              /\ acts' = [acts EXCEPT ![a].video = s]
              /\ Also(<<Task("configured", a, s)>>)
              /\ UNCHANGED <<main, mics, cams>>
           \/ /\ outer
              /\ main' = "dead" /\ mics' = {} /\ cams' = {} /\ Also(<<>>)
              /\ UNCHANGED acts
           \/ main' = (IF outer THEN "stuck" ELSE main) /\ Also(<<>>) /\ UNCHANGED <<acts, mics, cams>>
  /\ UNCHANGED <<ringing, starters, f, listenVars, events, raced>>

(* onConfigured() of the encoder: the camera's repeating request begins. *)
HandleConfigured ==
  /\ Now("configured") /\ Also(<<>>)
  /\ cams' = cams \cup {Head(looper).s}
  /\ UNCHANGED <<main, acts, ringing, starters, mics, f, listenVars, events, raced>>

(* Mutant: click_call_end() stops the sound only. *)
CloseAudioOnly(a) ==
  /\ mics' = mics \ {acts[a].audio} /\ UNCHANGED cams
  /\ acts' = [acts EXCEPT ![a].audio = 0, ![a].video = 0]

(* close() and stopRunning() of the sessions in the fields. *)
Close(a) ==
  /\ mics' = mics \ {acts[a].audio} /\ cams' = cams \ {acts[a].video}
  /\ acts' = [acts EXCEPT ![a].audio = 0, ![a].video = 0]

(* click_call_end(), by the button or by a broadcast: it waits for the lock *)
(* of the activity.  hang_up also starts a new activity.                    *)
HandleEnd ==
  \E kind \in {"click_end", "miss_connection", "hang_up"} :
    /\ Now(kind) /\ acts[Head(looper).a].live
    /\ LET a == Head(looper).a
       IN  /\ acts[a].lock = 0
           /\ f' = HangUpFlags(Calling)
           /\ Close(a)
           /\ raced' = raced \cup IF Pending(a, {}) THEN {"early"} ELSE {}
    /\ Also(IF kind = "hang_up" THEN <<Task("launch", 0, 0)>> ELSE <<>>)
    /\ UNCHANGED <<main, ringing, starters, listenVars, events>>

(* Mutant: the extra is asked for also when the robot has answered. *)
WantsExtra(kind, a) == acts[a].start

(* answer_call always, onResume() only with the extra. *)
Wants(kind, a) == kind = "answer_call" \/ acts[a].start

(* A start is a thread of its own. *)
HandleStart ==
  \E kind \in {"answer_call", "resume"} :
    /\ Now(kind) /\ Also(<<>>)
    /\ LET a == Head(looper).a
       IN  /\ acts[a].live
           /\ starters' = IF Wants(kind, a) THEN NewStarter(a) ELSE starters
    /\ UNCHANGED <<main, acts, ringing, mics, cams, f, listenVars, events, raced>>

(* Input and broadcasts for an activity that is gone. *)
HandleGone ==
  /\ \E kind \in {"click_end", "click_start", "miss_connection", "hang_up", "answer_call", "resume"} : Now(kind)
  /\ ~acts[Head(looper).a].live
  /\ Also(<<>>)
  /\ raced' = raced \cup IF Now("answer_call") THEN {"unheard"} ELSE {}
  /\ UNCHANGED <<main, acts, starters, mics, cams, ringing, f, listenVars, events>>

(* click_call_start() *)
HandleDial ==
  /\ Now("click_start") /\ acts[Head(looper).a].live
  /\ f' = IF initFinish /\ ~passwordError THEN Flags({"isCalling"}) ELSE f
  /\ Also(IF initFinish /\ passwordError THEN <<Task("destroy", Head(looper).a, 0)>> ELSE <<>>)
  /\ UNCHANGED <<main, mediaVars, ringing, listenVars, events>>

(* PhoneBroadCastListener opens OnPhoneCallActivity. *)
HandleRing ==
  /\ Now("on_phone_call") /\ Also(<<>>)
  /\ ringing' = TRUE
  /\ UNCHANGED <<main, mediaVars, f, listenVars, events>>

(* answerCall() and hangUp() of OnPhoneCallActivity; s = 1 for an answer. *)
HandleRingEnd ==
  /\ Now("ringEnd")
  /\ Also(IF ringing THEN <<Task("launch", 0, Head(looper).s)>> ELSE <<>>)
  /\ f' = CASE ~ringing -> f
            [] Head(looper).s = 0 -> HangUpFlags(TRUE)
            [] OTHER -> IF HaveSocket /\ (f.haveCall \/ Calling) THEN Flags({"answerCall"}) ELSE f
  /\ UNCHANGED <<main, mediaVars, ringing, listenVars, events>>

(* startActivity() with FLAG_ACTIVITY_CLEAR_TASK: onCreate() and onResume() *)
(* of the new MainActivity; the others are destroyed later.                 *)
HandleLaunch ==
  /\ Now("launch")
  /\ Also(ForLive("destroy"))
  /\ LET start == Head(looper).s = 1
     IN  /\ acts' = Append(acts, NewActivity(start))
         /\ starters' = IF start THEN NewStarter(Len(acts) + 1) ELSE starters
  /\ ringing' = FALSE
  /\ UNCHANGED <<main, mics, cams, f, listenVars, events, raced>>

(* onDestroy() unregisters the receiver, and stops nothing. *)
HandleDestroy ==
  /\ Now("destroy") /\ Also(<<>>)
  /\ LET a == Head(looper).a
     IN  /\ acts' = [acts EXCEPT ![a].live = FALSE]
         /\ raced' = raced \cup IF Pending(a, {}) \/ ~IdleActivity(a) THEN {"left"} ELSE {}
  /\ UNCHANGED <<main, ringing, starters, mics, cams, f, listenVars, events>>

(* restartListening() starts the new thread ... *)
HandlePick ==
  /\ Now("pick") /\ Also(<<>>) /\ remembered # "restarting"
  /\ login' = Append(login, "running")
  /\ main' = "restarting"
  /\ UNCHANGED <<mediaVars, ringing, f, initFinish, passwordError, remembered, overtaken, events>>

(* Mutant: the verdict on the last password is kept. *)
RestartKeepsVerdict ==
  /\ main = "restarting" /\ main' = "free"
  /\ initFinish' = FALSE
  /\ looper' = Append(looper, Task("launch", 0, 0))
  /\ UNCHANGED <<mediaVars, ringing, f, login, passwordError, remembered, overtaken, events>>

(* ... and resets the flags that thread reports with; then MainActivity.    *)
Restart ==
  /\ main = "restarting" /\ main' = "free"
  /\ initFinish' = FALSE /\ passwordError' = FALSE
  /\ looper' = Append(looper, Task("launch", 0, 0))
  /\ UNCHANGED <<mediaVars, ringing, f, login, remembered, overtaken, events>>

MainThread ==
  \/ HandleAudio \/ HandleOpened \/ HandleVideo \/ HandleConfigured \/ HandleEnd \/ HandleStart
  \/ HandleGone \/ HandleDial \/ HandleRing \/ HandleRingEnd \/ HandleLaunch \/ HandleDestroy
  \/ HandlePick \/ Restart

-----------------------------------------------------------------------------
(* The user *)

(* On MainActivity: the two buttons, which its thread enables when it has   *)
(* restarted the listener, leaving the screen and coming back, and the      *)
(* back key.  On OnPhoneCallActivity: two buttons.  Among contacts: one.    *)
UserActs ==
  /\ events.user < MaxUser /\ events' = [events EXCEPT !.user = @ + 1]
  /\ LET a == Len(acts)
         onMain == a > 0 /\ acts[a].live /\ ~ringing
         buttons == IF a > 1 \/ remembered = "done" THEN {"click_start", "click_end"} ELSE {}
     IN  \E t \in (IF onMain THEN {Task(k, a, 0) : k \in buttons \cup {"resume", "destroy"}} ELSE {})
              \cup (IF ringing THEN {Task("ringEnd", 0, s) : s \in {0, 1}} ELSE {})
              \cup (IF Live = {} /\ ~ringing THEN {Task("pick", 0, 0)} ELSE {}) :
           looper' = Append(looper, t)
  /\ UNCHANGED <<main, mediaVars, ringing, f, listenVars>>

PhoneNext ==
  /\ main # "dead"
  /\ \/ \E g \in DOMAIN login : Login(g) \/ Listen(g) \/ ListenHangUp(g) \/ ListenEnds(g)
     \/ RememberedPick \/ RememberedRestart
     \/ \E s \in DOMAIN starters : Starter(s) \/ GetSetting(s)
     \/ MainThread \/ UserActs

PhoneSpec == PhoneInit /\ [][PhoneNext]_sessionVars

(* Threads run; a login ends, by its timeout if need be; the window system  *)
(* and the camera answer.  Neither user, robot nor relay owes anything.     *)
PhoneFairSpec ==
  /\ PhoneSpec
  /\ WF_sessionVars(main # "dead" /\ MainThread)
  /\ WF_sessionVars(main # "dead" /\ RememberedRestart)
  /\ WF_sessionVars(main # "dead" /\ \E g \in DOMAIN login : Login(g))
  /\ WF_sessionVars(main # "dead" /\ \E g \in DOMAIN login : ListenHangUp(g) \/ ListenEnds(g))
  /\ WF_sessionVars(main # "dead" /\ \E s \in DOMAIN starters : Starter(s))

-----------------------------------------------------------------------------
(* One microphone: a second start finds the first one's session, unless it  *)
(* passes its test before the main thread has made that session, or the     *)
(* first one was left behind with its activity or its end.                  *)
OneMicrophone == raced = {} => \A s, t \in mics : s = t

(* The verdict MainActivity shows is that on the password entered last,     *)
(* unless a login overtook the restart.                                     *)
VerdictIsOurs ==
  ~Restarting /\ (\A g \in DOMAIN login : login[g] # "running") /\ ~overtaken
    => initFinish /\ passwordError = (login[Len(login)] = "failed")

(* The main thread waits for something that need not come: the surface it   *)
(* would have to announce itself, an answer of the relay, the lock of a     *)
(* start that waits for the robot or for a login it has missed.             *)
Stuck ==
  \/ main \in {"stuck", "dead"}
  \/ /\ looper # <<>> /\ main = "free"
     /\ LET t == Head(looper)
        IN  /\ t.kind \in {"click_end", "miss_connection", "hang_up"}
            /\ \E s \in DOMAIN starters :
                 /\ acts[t.a].lock = s
                 /\ starters[s].pc = "setting" \/ (starters[s].pc = "init" /\ overtaken)

(* Everything the main thread is given to do gets done, or it is stuck for  *)
(* one of the reasons above: ending a call waits for a start under way, and *)
(* the start never waits for the main thread.                               *)
MainGetsOn == <>[](looper = <<>> \/ Stuck)

(* When the call is over, microphone and camera are off, unless starting    *)
(* and ending raced: the call ended while it was being started, or its      *)
(* activity went away, or two starts were under way.                        *)
MediaStops ==
  <>[]((\E k \in DOMAIN f : f[k]) \/ raced # {} \/ Stuck \/ mics \cup cams = {})

(* An answered call gets its microphone, on whichever screen it was         *)
(* answered, unless starting and ending raced, the start waits for the      *)
(* robot, the listener was restarted under the call, or MainActivity was    *)
(* left while dialling and nobody heard of the answer.                      *)
MediaStarts ==
  <>[]( \/ ~f.answerCall \/ f.hangUpCall \/ raced # {} \/ Stuck
        \/ Len(login) > 1
        \/ \E s \in DOMAIN starters : starters[s].pc = "setting"
        \/ mics # {} )
=============================================================================
