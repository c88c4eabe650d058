----------------------------- MODULE RobotMedia -----------------------------
(***************************************************************************)
(* The robot's microphone, speaker and camera over several calls:           *)
(* Audio_Capture of python/audio.py and Video_Capture of python/camera.py   *)
(* as Call_GUI of python/gui.py opens and stops them.                       *)
(*                                                                         *)
(* Threads of a call: PyAudio's callback, the receiver of sound, the sender *)
(* of sound; send_stream, decode_stream, and the receive thread of          *)
(* Sliding_Window, which frees slots of the window as acknowledgements      *)
(* arrive.  They share Python lists and no lock.  A Video_Capture keeps the *)
(* camera device open as long as something refers to it: the interface or   *)
(* one of its threads.                                                      *)
(***************************************************************************)
EXTENDS Integers, Sequences, FiniteSets

CONSTANTS WindowSize,   \* slots of Sliding_Window
          SendCap,      \* limit of sendBuffer, 50 in the code
          RecvCap,      \* limit of recieveBuffer, 60 in the code
          MaxCalls,     \* calls in a behaviour
          MaxSound      \* pieces of sound the phone sends in a call

ASSUME MediaAssumption ==
  /\ {WindowSize, SendCap, MaxCalls, MaxSound} \subseteq Nat \ {0}
  /\ RecvCap \in Nat /\ RecvCap > 3

Calls == 1 .. MaxCalls

VARIABLES calls,     \* calls answered so far
          camera,    \* the call whose Video_Capture the interface refers to, or 0
          audio,     \* "none", "running", or "broken": made but never started
          cap,       \* per call, its Video_Capture
          sendBuffer,     \* pieces waiting to be sent, counted
          recieveBuffer,  \* numbers of the pieces waiting to be played
          flag,      \* playing has begun
          deleted,   \* the callback has deleted the first piece and will play
          ear,       \* where recv_data() is: "test", "take", "refuse", "raise", "lower"
          arrived,   \* number of the last piece the phone sent
          heard,     \* history: number of the last piece played, 0 for none
          missed     \* history: pieces refused by a full buffer

soundVars == <<sendBuffer, recieveBuffer, flag, deleted, ear, arrived, heard, missed>>
captureVars == <<calls, camera, audio, cap, soundVars>>

(* A Video_Capture: is_active, its two threads, the idle slots of its       *)
(* window and whether the window's receive thread still runs.               *)
NoCapture == [active |-> FALSE, sender |-> "ended", decoder |-> FALSE,
              idle_count |-> WindowSize, receiver |-> FALSE]
NewCapture == [active |-> TRUE, sender |-> "loop", decoder |-> TRUE,
               idle_count |-> WindowSize, receiver |-> TRUE]

CaptureInit ==
  /\ calls = 0 /\ camera = 0 /\ audio = "none"
  /\ cap = [c \in Calls |-> NoCapture]
  /\ sendBuffer = 0 /\ recieveBuffer = <<>>
  /\ flag = FALSE /\ deleted = FALSE /\ ear = "test"
  /\ arrived = 0 /\ heard = 0 /\ missed = {}

(* Something still refers to the Video_Capture of call c. *)
Alive(c) == camera = c \/ cap[c].sender # "ended" \/ cap[c].decoder

Silence ==
  /\ sendBuffer' = 0 /\ recieveBuffer' = <<>>
  /\ flag' = FALSE /\ deleted' = FALSE /\ ear' = "test"
  /\ arrived' = 0 /\ heard' = 0 /\ missed' = {}

-----------------------------------------------------------------------------
(* Mutant: transfer_stop() leaves is_active as it is. *)
TransferStopWindow(c) == [cap[c] EXCEPT !.active = @]

(* transfer_stop(): is_active and isStop are set; threads look at them      *)
(* when they come round.                                                    *)
TransferStop(c) == [cap[c] EXCEPT !.active = FALSE]

(* action_answer_call(): stop what there is, open the microphone, open the  *)
(* camera.  The new Video_Capture is made while the interface still refers  *)
(* to the old one; it fails if the device is open, and then audio is left   *)
(* without a stream.                                                        *)
Answer ==
  /\ calls < MaxCalls /\ audio # "broken"
  /\ calls' = calls + 1
  /\ LET stopped == IF camera = 0 THEN cap
                    ELSE [cap EXCEPT ![camera] = TransferStop(camera)]
     IN  IF \E c \in Calls : Alive(c)
         THEN /\ cap' = stopped
              /\ audio' = "broken"
              /\ UNCHANGED camera
         ELSE /\ cap' = [stopped EXCEPT ![calls + 1] = NewCapture]
              /\ camera' = calls + 1
              /\ audio' = "running"
  /\ Silence

(* The hang-up branch of listening_icmp(): stop() of an audio without a     *)
(* stream raises, and the camera is not reached.                            *)
HangUp ==
  /\ audio # "none" \/ camera # 0
  /\ audio # "broken"
  /\ cap' = [cap EXCEPT ![camera] = TransferStop(camera)]
  /\ camera' = 0 /\ audio' = "none"
  /\ Silence
  /\ UNCHANGED calls

-----------------------------------------------------------------------------
(* send_stream(): with is_active, one more send_frame(), which takes a slot *)
(* or begins to insist; without it, the end.                                *)
SendStream(c) ==
  /\ cap[c].sender = "loop"
  /\ cap' = [cap EXCEPT ![c] =
       IF ~@.active THEN [@ EXCEPT !.sender = "ended"]
       ELSE IF @.idle_count > 0 THEN [@ EXCEPT !.idle_count = @ - 1]
       ELSE [@ EXCEPT !.sender = "insisting"]]
  /\ UNCHANGED <<calls, camera, audio, soundVars>>

(* The while loop of send_frame(), which looks at nothing but the window. *)
Insist(c) ==
  /\ cap[c].sender = "insisting"
  /\ cap[c].idle_count > 0
  /\ cap' = [cap EXCEPT ![c].idle_count = @ - 1, ![c].sender = "loop"]
  /\ UNCHANGED <<calls, camera, audio, soundVars>>

(* decode_stream() ends when it sees is_active false. *)
DecoderEnds(c) ==
  /\ cap[c].decoder /\ ~cap[c].active
  /\ cap' = [cap EXCEPT ![c].decoder = FALSE]
  /\ UNCHANGED <<calls, camera, audio, soundVars>>

(* thread_recv(): acknowledgements free slots.  After stop() the thread     *)
(* takes at most the datagram its recv() was waiting for.                   *)
RecvATK(c) ==
  /\ cap[c].receiver
  /\ \E freed \in 0 .. WindowSize - cap[c].idle_count :
       cap' = [cap EXCEPT ![c].idle_count = @ + freed, ![c].receiver = cap[c].active]
  /\ UNCHANGED <<calls, camera, audio, soundVars>>

-----------------------------------------------------------------------------
(* recv_data() of the sound looks at the length of the buffer ...           *)
TestBuffer ==
  /\ audio = "running" /\ ear = "test"
  /\ ear' = IF Len(recieveBuffer) < RecvCap THEN "take" ELSE "refuse"
  /\ UNCHANGED <<calls, camera, audio, cap, sendBuffer, recieveBuffer, flag, deleted,
                 arrived, heard, missed>>

(* ... waits for a piece, which it keeps or throws away as the buffer was   *)
(* then ...                                                                 *)
RecvData ==
  /\ ear \in {"take", "refuse"} /\ arrived < MaxSound
  /\ arrived' = arrived + 1
  /\ recieveBuffer' = IF ear = "take" THEN Append(recieveBuffer, arrived + 1) ELSE recieveBuffer
  /\ missed' = IF ear = "take" THEN missed ELSE missed \cup {arrived + 1}
  /\ ear' = "raise"
  /\ UNCHANGED <<calls, camera, audio, cap, sendBuffer, flag, deleted, heard>>

(* ... for a second at most ...                                             *)
RecvTimesOut ==
  /\ ear \in {"take", "refuse"}
  /\ ear' = "raise"
  /\ UNCHANGED <<calls, camera, audio, cap, sendBuffer, recieveBuffer, flag, deleted,
                 arrived, heard, missed>>

(* ... and sets the flag by the length, in two tests.  A test and its       *)
(* assignment are one step: the length changes between them only if the     *)
(* flag is up already, and never below two.                                 *)
SetFlag ==
  /\ \/ /\ ear = "raise"
        /\ flag' = (flag \/ Len(recieveBuffer) > 3)
        /\ ear' = "lower"
     \/ /\ ear = "lower"
        /\ flag' = (flag /\ Len(recieveBuffer) >= 1)
        /\ ear' = "test"
  /\ UNCHANGED <<calls, camera, audio, cap, sendBuffer, recieveBuffer, deleted,
                 arrived, heard, missed>>

(* Mutant: the callback takes a piece whenever there is one. *)
CallbackGreedy ==
  /\ audio = "running" /\ ~deleted
  /\ sendBuffer' = IF sendBuffer < SendCap THEN sendBuffer + 1 ELSE sendBuffer
  /\ IF flag /\ Len(recieveBuffer) > 0
     THEN recieveBuffer' = Tail(recieveBuffer) /\ deleted' = TRUE
     ELSE UNCHANGED <<recieveBuffer, deleted>>
  /\ UNCHANGED <<calls, camera, audio, cap, flag, ear, arrived, heard, missed>>

(* callback(): keep what the microphone heard, if there is room; delete the *)
(* first piece, if there are enough ...                                     *)
Callback ==
  /\ audio = "running" /\ ~deleted
  /\ sendBuffer' = IF sendBuffer < SendCap THEN sendBuffer + 1 ELSE sendBuffer
  /\ IF flag /\ Len(recieveBuffer) > 2
     THEN recieveBuffer' = Tail(recieveBuffer) /\ deleted' = TRUE
     ELSE UNCHANGED <<recieveBuffer, deleted>>
  /\ UNCHANGED <<calls, camera, audio, cap, flag, ear, arrived, heard, missed>>

(* Mutant: the callback plays the first piece that is left. *)
CallbackPlaysFirst ==
  /\ deleted
  /\ heard' = recieveBuffer[1]
  /\ recieveBuffer' = Tail(recieveBuffer)
  /\ deleted' = FALSE
  /\ UNCHANGED <<calls, camera, audio, cap, sendBuffer, flag, ear, arrived, missed>>

(* ... and play the second one of those that are left.                      *)
CallbackPlays ==
  /\ deleted
  /\ heard' = recieveBuffer[2]
  /\ deleted' = FALSE
  /\ UNCHANGED <<calls, camera, audio, cap, sendBuffer, recieveBuffer, flag, ear, arrived, missed>>

(* sent_data() sends the oldest piece and deletes it. *)
SentData ==
  /\ audio = "running" /\ sendBuffer > 0
  /\ sendBuffer' = sendBuffer - 1
  /\ UNCHANGED <<calls, camera, audio, cap, recieveBuffer, flag, deleted, ear, arrived, heard, missed>>

Thread(c) == SendStream(c) \/ Insist(c)

CaptureNext ==
  \/ Answer \/ HangUp
  \/ \E c \in Calls : Thread(c) \/ DecoderEnds(c) \/ RecvATK(c)
  \/ TestBuffer \/ RecvData \/ RecvTimesOut \/ SetFlag
  \/ Callback \/ CallbackPlays \/ SentData

CaptureSpec == CaptureInit /\ [][CaptureNext]_captureVars

(* The last turn of the receive thread after stop(). *)
LastRecv(c) == ~cap[c].active /\ RecvATK(c)

(* Threads run, and recv() of a stopped window returns, if only by its      *)
(* timeout of a second.  The phone owes no acknowledgement and nobody has   *)
(* to hang up.                                                              *)
CaptureFairSpec ==
  /\ CaptureSpec
  /\ \A c \in Calls : WF_captureVars(Thread(c)) /\ WF_captureVars(DecoderEnds(c)) /\ WF_captureVars(LastRecv(c))
  /\ WF_captureVars(Callback) /\ WF_captureVars(CallbackPlays) /\ WF_captureVars(SentData)

-----------------------------------------------------------------------------
(* The first two pieces of a call are never played: callback() deletes [0]  *)
(* and plays [1].  From the third on the speaker repeats no piece and       *)
(* leaves out none but those a full buffer refused, through running dry     *)
(* and filling up.                                                          *)
SoundInOrder ==
  [][heard' \notin {heard, 0} =>
       IF heard = 0 THEN heard' = 3
       ELSE /\ heard < heard' /\ heard' \notin missed
            /\ heard + 1 .. heard' - 1 \subseteq missed]_captureVars

(* There is always a second piece to play once the first has been deleted.  *)
CallbackSafe == deleted => Len(recieveBuffer) >= 2

(* The send thread insists on a frame and nobody is left to free a slot. *)
Leaked(c) == cap[c].sender = "insisting" /\ cap[c].idle_count = 0 /\ ~cap[c].receiver

(* A stopped camera is released, so that the next call can open it: its     *)
(* threads end unless the window was full when the call ended and the last  *)
(* acknowledgement did not come.                                            *)
CameraReleased ==
  \A c \in Calls : (c <= calls /\ camera # c) ~> (~Alive(c) \/ Leaked(c))
=============================================================================
