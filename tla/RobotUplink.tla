---------------------------- MODULE RobotUplink ----------------------------
(***************************************************************************)
(* The hop from the robot to the relay: Sliding_Window of                  *)
(* python/sliding_window.py as the sender, the relay's Window as the       *)
(* receiver.  The robot keeps, next to its list of slots, a counter        *)
(* idle_count that decides whether a frame may be sent.  Its methods run   *)
(* under one lock, so each is one action.  The relay side is UnpktData of  *)
(* SlidingLink; `buffer' holds the frames the relay has yet to forward.    *)
(***************************************************************************)
EXTENDS SlidingLink

VARIABLE idle_count

upVars == <<vars, idle_count>>

UpInit == Init /\ idle_count = WindowSize

(* The slot on which the for loop of send() stops: the first idle one, the  *)
(* last one of the list when it finds none.                                 *)
LoopSlot(w) == IF HaveIdle(w) THEN FirstIdle(w) ELSE WindowSize - 1

(* send(): False when idle_count is 0, and camera.py asks again later. *)
Send ==
  /\ produced < MaxFrame
  /\ idle_count # 0
  /\ LET i == LoopSlot(windows)
         data == [stamp |-> Advance(stamp, i), data |-> produced]
     IN  /\ frames' = frames \cup {data}
         /\ windowsPacket' = [windowsPacket EXCEPT ![i] = data]
         /\ windows' = [windows EXCEPT ![i] = WAIT_FOR_RES]
  /\ idle_count' = idle_count - 1
  /\ produced' = produced + 1
  /\ UNCHANGED <<stamp, base, acks, dead, receiverVars>>

(* check_timeout() for slot i, the loop's lock taken once per slot. *)
CheckTimeout(i) == Update(i) /\ UNCHANGED idle_count

(* Mutant: the slots the window moves over are not given back. *)
PyRecvATKFreesNone(a) ==
  /\ Acknowledge(PyConfirmBorder(stamp, a.stamp))
  /\ UNCHANGED idle_count

(* Mutant: every acknowledgement that finds its slot frees one. *)
PyRecvATKFreesAtOnce(a) ==
  /\ Acknowledge(PyConfirmBorder(stamp, a.stamp))
  /\ idle_count' = idle_count + (IF windows' = windows THEN 0 ELSE 1)

(* recvATK(): idle_count grows by as many slots as the window moves. *)
PyRecvATK(a) ==
  /\ Acknowledge(PyConfirmBorder(stamp, a.stamp))
  /\ idle_count' = idle_count + (base' - base)

UpNext ==
  \/ Send
  \/ \E i \in Slots : CheckTimeout(i)
  \/ \E p \in frames : UnpktData(p) /\ UNCHANGED idle_count
  \/ \E a \in acks : PyRecvATK(a)
  \/ GetData /\ UNCHANGED idle_count
  \/ \E p \in frames : LoseFrame(p) /\ UNCHANGED idle_count
  \/ \E a \in acks : LoseAck(a) /\ UNCHANGED idle_count

UpSpec == UpInit /\ [][UpNext]_upVars

(* The same fairness as for SlidingLink: the robot's two threads run, the   *)
(* network is fair-lossy; the camera loop keeps asking send() for the frame *)
(* it holds.                                                                *)
UpFairness ==
  /\ WF_upVars(Send)
  /\ \A i \in Slots : WF_upVars(CheckTimeout(i))
  /\ WF_upVars(GetData /\ UNCHANGED idle_count)
  /\ SF_upVars(UnpktOldest /\ UNCHANGED idle_count)
  /\ SF_upVars(\E a \in acks : a.data = base /\ PyRecvATK(a))

UpFairSpec == UpSpec /\ UpFairness

-----------------------------------------------------------------------------
(* idle_count always equals the number of idle slots, so send() never       *)
(* overwrites the last slot, whose frame would never be sent again, and     *)
(* never refuses a frame there is room for.                                 *)
IdleCountExact == idle_count = Cardinality({i \in Slots : windows[i] = IDLE})

(* The robot's confirm_border(), exact at its wrap test, takes no           *)
(* acknowledgement for another frame's and stays inside its lists.          *)
UplinkNoAliasing ==
  \A a \in acks :
    LET index == PyConfirmBorder(stamp, a.stamp)
    IN  /\ index \in Slots \cup {-1}
        /\ index # -1 => a.data = base + index

(* The robot's video gets through: camera.py, which insists on each frame,  *)
(* has all of them accepted, received by the relay and forwarded.           *)
CameraNeverStuck == <>[](produced = MaxFrame /\ base = MaxFrame /\ buffer = <<>>)
=============================================================================
