--------------------------- MODULE RobotDownlink ---------------------------
(***************************************************************************)
(* The hop from the relay to the robot: the relay's Window as the sender,  *)
(* recv() of python/sliding_window.py as the receiver.  The robot's loop    *)
(* over its receive window deletes the head of the list it is indexing:     *)
(* after k deletions it looks at what was slot 2k.  It therefore stops      *)
(* early after a run of received slots, and jumps over a slot that was not  *)
(* received when every second one was.                                      *)
(***************************************************************************)
EXTENDS SlidingLink

ASSUME DownlinkAssumption == WindowSize >= 2   \* the loop ends in its break

VARIABLE overtaken   \* history: a frame arrived before an earlier one of its window

downVars == <<vars, overtaken>>

DownInit == Init /\ overtaken = FALSE

(* Mutant: the loop goes on over slots that were not received. *)
PrunedSlotsNoBreak(w) == WindowSize - 1

(* Where the pruning loop stops: the number of heads it deletes and the     *)
(* amount it adds to recv_stamp.                                            *)
PrunedSlots(w) ==
  CHOOSE k \in 0 .. WindowSize :
    /\ \A j \in 0 .. k - 1 : 2 * j \in Slots /\ w[2 * j] = END
    /\ 2 * k \in Slots => w[2 * k] # END

(* recv() on a frame.  An index past the list raises IndexError, which      *)
(* thread_recv() does not catch: the receive thread ends.                   *)
Recv(p) ==
  /\ "receiver" \notin dead
  /\ acks' = acks \cup {p}
  /\ LET index == PyConfirmBorder(recvStamp, p.stamp) IN
     \/ /\ AlreadyReceived(index)
        /\ UNCHANGED <<dead, overtaken, receiverVars>>
     \/ /\ index \in Slots
        /\ ~AlreadyReceived(index)
        /\ LET marked == [recvWindows EXCEPT ![index] = END]
               i == PrunedSlots(marked)
           IN  /\ recvWindows' = Slide(marked, i, IDLE)
               /\ recvStamp' = Advance(recvStamp, i)
               /\ recvBase' = recvBase + i
        /\ buffer' = Append(buffer, p.data)
        /\ delivered' = delivered \cup {p.data}
        /\ overtaken' = (overtaken \/ \E n \in 0 .. p.data - 1 : n \notin delivered)
        /\ UNCHANGED dead
     \/ /\ index \notin Slots \cup {-1}
        /\ dead' = dead \cup {"receiver"}
        /\ UNCHANGED <<overtaken, receiverVars>>
  /\ UNCHANGED <<frames, senderVars>>

DownNext ==
  \/ PktData /\ UNCHANGED overtaken
  \/ \E i \in Slots : Update(i) /\ UNCHANGED overtaken
  \/ \E p \in frames : Recv(p)
  \/ \E a \in acks : RecvATK(a) /\ UNCHANGED overtaken
  \/ GetData /\ UNCHANGED overtaken
  \/ \E p \in frames : LoseFrame(p) /\ UNCHANGED overtaken
  \/ \E a \in acks : LoseAck(a) /\ UNCHANGED overtaken

DownSpec == DownInit /\ [][DownNext]_downVars

-----------------------------------------------------------------------------
(* As long as no frame has overtaken another the robot loses nothing, in    *)
(* spite of its pruning loop: what the relay forgot was received, and the   *)
(* receive thread lives.                                                    *)
InOrderIsLossless ==
  ~overtaken => /\ \A n \in 0 .. base - 1 : n \in delivered
                /\ dead = {}
                /\ base <= recvBase

(* Whatever the order of arrival, recv() puts no frame into recvBuffer      *)
(* twice, although its window may lag behind or run ahead of the relay's.   *)
RobotAtMostOnce ==
  [][\A n \in 0 .. MaxFrame - 1 :
       buffer' = Append(buffer, n) => n \notin delivered]_downVars
=============================================================================
