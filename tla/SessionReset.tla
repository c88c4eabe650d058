---------------------------- MODULE SessionReset ----------------------------
(***************************************************************************)
(* One direction of the link between an endpoint and the relay over many    *)
(* sessions.  The endpoint makes a new SlidingWindow for every call and     *)
(* says so with one datagram, the byte 0xFF, which is not acknowledged and  *)
(* not repeated.  The relay keeps its Window for ever: init() sets its two  *)
(* stamps to 0 and its windows to IDLE, and leaves recvWindows alone.       *)
(*                                                                         *)
(* In role "up" the endpoint sends and the relay receives, in role "down"   *)
(* the other way round; role is chosen once.  Frames have no numbers here,  *)
(* so that a behaviour may go round the stamps for ever: seen[i] says what  *)
(* became of the frame in the sender's slot i.  As update() repeats a frame *)
(* until it is acknowledged and each copy is acknowledged, the frame of a   *)
(* slot may arrive at any time, and its acknowledgement at any time after   *)
(* that; what losses and late copies do within a session is the subject of  *)
(* SlidingLink.  Of a session that is over one datagram may be left.        *)
(*                                                                         *)
(* The relay ignores the frames of an endpoint while its window back to     *)
(* this endpoint has no idle slot.  In role "up" that window is `back`, of  *)
(* which it matters whether there is room and whether a slot waits for an   *)
(* acknowledgement of the endpoint's old socket.                            *)
(***************************************************************************)
EXTENDS WindowOps

CONSTANTS MaxRestarts,   \* restarts of the endpoint
          MaxSpurious    \* resets that arrive twice or are another pair's

ASSUME ResetAssumption == {MaxRestarts, MaxSpurious} \subseteq Nat

VARIABLES role,          \* "up" or "down"
          stamp, windows,          \* the sender's window
          address,       \* per slot, "old" if sent to the socket before the restart
          seen,          \* per slot, "no", "acked" (and ignored) or "got" (and delivered)
          recvStamp, recvWindows,  \* the receiver's window
          left,          \* the datagram in flight that no slot stands for, or None
          back,          \* role "up": the relay's window back to the endpoint
          reset,         \* the reset of this session: "pending", "handled", "lost"
          dead,          \* receive threads ended by an uncaught exception
          phase,         \* history: "restarted", "clean" or "spoiled"
          harm,          \* history: a clean session lost a frame or got a wrong one
          restarts, spurious       \* restarts and spurious resets so far

senderVars == <<stamp, windows, address, seen>>
receiverVars == <<recvStamp, recvWindows>>
vars == <<role, senderVars, receiverVars, left, back, reset, dead, phase, harm, restarts, spurious>>

None == [kind |-> "none", stamp |-> 0]
Leftover(kind, s) == [kind |-> kind, stamp |-> s]
Receiver == IF role = "up" THEN "relay" ELSE "endpoint"
Sender == IF role = "up" THEN "endpoint" ELSE "relay"

(* The window back as made by the constructor or by init(). *)
Emptied == [room |-> TRUE, orphan |-> FALSE]

Init ==
  /\ role \in {"up", "down"}
  /\ stamp = 0 /\ recvStamp = 0
  /\ windows = Fresh(IDLE) /\ recvWindows = Fresh(IDLE)
  /\ address = Fresh("new") /\ seen = Fresh("no")
  /\ left = None /\ back = Emptied
  /\ reset = "pending" /\ dead = {}
  /\ phase = "restarted" /\ harm = FALSE
  /\ restarts = 0 /\ spurious = 0

-----------------------------------------------------------------------------
(* pktData(): a frame goes into the first idle slot and out, to the address *)
(* the endpoint has registered by now.                                      *)
PktData ==
  /\ role = "down" => "relay" \notin dead
  /\ HaveIdle(windows)
  /\ LET i == FirstIdle(windows) IN
       /\ windows' = [windows EXCEPT ![i] = WAIT_FOR_RES]
       /\ address' = [address EXCEPT ![i] = "new"]
       /\ seen' = [seen EXCEPT ![i] = "no"]
  /\ phase' = IF role = "down" /\ phase = "restarted" THEN "spoiled" ELSE phase
  /\ UNCHANGED <<role, stamp, receiverVars, left, back, reset, dead, harm, restarts, spurious>>

(* What unpktData() does with stamp d once it has acknowledged it: ignore   *)
(* it, take it, or throw.                                                   *)
Placed(d) ==
  LET index == ConfirmBorder(recvStamp, d) IN
  CASE index = -1 -> "ignored"
    [] index \in Slots -> IF recvWindows[index] = END THEN "ignored" ELSE "taken"
    [] OTHER -> "thrown"

Place(d) ==
  LET index == ConfirmBorder(recvStamp, d) IN
  \/ /\ Placed(d) = "ignored"
     /\ UNCHANGED <<receiverVars, dead>>
  \/ /\ Placed(d) = "taken"
     /\ LET marked == [recvWindows EXCEPT ![index] = END]
            counter == EndPrefix(marked)
        IN  /\ recvWindows' = Slide(marked, counter, IDLE)
            /\ recvStamp' = Advance(recvStamp, counter)
     /\ UNCHANGED dead
  \/ /\ Placed(d) = "thrown"
     /\ dead' = dead \cup {Receiver}
     /\ UNCHANGED receiverVars

(* The gate of the relay's loop before unpktData(): haveIdle() of the window *)
(* back to the endpoint.  The endpoint's own loop has none.                  *)
Gate == role = "up" => back.room

(* The frame of slot i arrives, not for the first time perhaps. *)
UnpktData(i) ==
  /\ Receiver \notin dead /\ Gate
  /\ windows[i] # IDLE /\ address[i] = "new"
  /\ LET d == Advance(stamp, i) IN
       /\ Place(d)
       /\ seen' = [seen EXCEPT ![i] =
                     IF Placed(d) = "taken" \/ @ = "got" THEN "got" ELSE "acked"]
       /\ harm' = (harm \/ (phase = "clean" /\ Placed(d) = "taken" /\ seen[i] = "got"))
  /\ phase' = IF role = "up" /\ phase = "restarted" THEN "spoiled" ELSE phase
  /\ UNCHANGED <<role, stamp, windows, address, left, back, reset, restarts, spurious>>

(* A frame arrives that the sender no longer has.  In role "up" it came     *)
(* from the old socket, to which the acknowledgement goes back.             *)
UnpktLeftover ==
  /\ Receiver \notin dead /\ Gate
  /\ left.kind = "frame"
  /\ Place(left.stamp)
  /\ harm' = (harm \/ (phase = "clean" /\ Placed(left.stamp) = "taken"))
  /\ left' \in {left, IF role = "up" THEN None ELSE Leftover("ack", left.stamp)}
  /\ UNCHANGED <<role, senderVars, back, reset, phase, restarts, spurious>>

(* recvATK() on stamp d. *)
Acknowledge(d) ==
  /\ Sender \notin dead
  /\ LET index == ConfirmBorder(stamp, d) IN
     \/ /\ index = -1 \/ (index \in Slots /\ windows[index] # WAIT_FOR_RES)
        /\ UNCHANGED <<senderVars, harm, dead>>
     \/ /\ index \in Slots
        /\ windows[index] = WAIT_FOR_RES
        /\ LET marked == [windows EXCEPT ![index] = END]
               counter == EndPrefix(marked)
           IN  /\ windows' = Slide(marked, counter, IDLE)
               /\ address' = Slide(address, counter, "new")
               /\ seen' = Slide(seen, counter, "no")
               /\ stamp' = Advance(stamp, counter)
               /\ harm' = (harm \/ (phase = "clean" /\
                                    \E i \in Slots : i < counter /\ seen[i] # "got"))
        /\ UNCHANGED dead
     \/ /\ index \notin Slots \cup {-1}
        /\ dead' = dead \cup {Sender}
        /\ UNCHANGED <<senderVars, harm>>
  /\ UNCHANGED <<role, receiverVars, back, reset, phase, restarts, spurious>>

(* The acknowledgement of slot i arrives, or one left over.  The relay does *)
(* not look at the address an acknowledgement comes from.                   *)
RecvATK(i) ==
  /\ windows[i] = WAIT_FOR_RES /\ seen[i] # "no" /\ address[i] = "new"
  /\ Acknowledge(Advance(stamp, i))
  /\ UNCHANGED left

RecvLeftover ==
  /\ left.kind = "ack"
  /\ Acknowledge(left.stamp)
  /\ left' \in {left, None}

LoseLeftover ==
  /\ left # None
  /\ left' = None
  /\ UNCHANGED <<role, senderVars, receiverVars, back, reset, dead, phase, harm, restarts, spurious>>

-----------------------------------------------------------------------------
(* A frame for the endpoint takes the last idle slot of the window back.    *)
BackFills ==
  /\ back.room
  /\ back' = [back EXCEPT !.room = FALSE]

(* The endpoint's acknowledgements make room again, but never past a slot   *)
(* that waits for the old socket.                                           *)
BackDrains ==
  /\ ~back.room /\ ~back.orphan /\ "endpoint" \notin dead
  /\ back' = [back EXCEPT !.room = TRUE]

(* The last acknowledgement of the old socket, for the oldest slot. *)
BackOldAck ==
  /\ back.orphan
  /\ back' \in [room : {TRUE}, orphan : BOOLEAN]

Back ==
  /\ role = "up" /\ "relay" \notin dead
  /\ BackFills \/ BackDrains \/ BackOldAck
  /\ UNCHANGED <<role, senderVars, receiverVars, left, reset, dead, phase, harm, restarts, spurious>>

-----------------------------------------------------------------------------
(* The datagrams of the slots in S. *)
DatagramsOf(kind, S) == {Leftover(kind, Advance(stamp, i)) : i \in S}
InUse == {i \in Slots : windows[i] # IDLE}

(* What may be in flight to and from the endpoint's socket when init()      *)
(* empties the slots.                                                       *)
Stray == LET S == {i \in InUse : address[i] = "new"} IN
  DatagramsOf("frame", S) \cup DatagramsOf("ack", {i \in S : seen[i] # "no"})

(* Mutant: init() does not touch the receiving side. *)
InitSenderOnly ==
  IF role = "up"
  THEN back' = Emptied /\ UNCHANGED <<senderVars, receiverVars, left>>
  ELSE /\ stamp' = 0 /\ windows' = Fresh(IDLE)
       /\ address' = Fresh("new") /\ seen' = Fresh("no")
       /\ left' \in {None, left} \cup Stray
       /\ UNCHANGED <<receiverVars, back>>

(* Mutant: init() forgets to make the slots idle. *)
InitKeepsSlots ==
  IF role = "up"
  THEN recvStamp' = 0 /\ UNCHANGED <<senderVars, recvWindows, left, back>>
  ELSE stamp' = 0 /\ UNCHANGED <<windows, address, seen, receiverVars, left, back>>

(* Window.init() of the relay, seen from the direction of the role. *)
WindowInit ==
  IF role = "up"
  THEN /\ recvStamp' = 0 /\ back' = Emptied
       /\ UNCHANGED <<senderVars, recvWindows, left>>
  ELSE /\ stamp' = 0 /\ windows' = Fresh(IDLE)
       /\ address' = Fresh("new") /\ seen' = Fresh("no")
       /\ left' \in {None, left} \cup Stray
       /\ UNCHANGED <<receiverVars, back>>

(* The restart is clean if the reset comes before any frame of the session, *)
(* nothing of the last session is in flight and no gap was left in the      *)
(* relay's recvWindows.                                                     *)
CleanRestart ==
  /\ phase = "restarted"
  /\ left' = None
  /\ role = "up" => recvWindows = Fresh(IDLE)

(* recvATK() of the relay on the reset datagram of the endpoint. *)
HandleReset ==
  /\ reset = "pending" /\ "relay" \notin dead
  /\ reset' = "handled"
  /\ WindowInit
  /\ phase' = IF CleanRestart THEN "clean" ELSE "spoiled"
  /\ UNCHANGED <<role, dead, harm, restarts, spurious>>

(* A reset nobody needs: a copy UDP made of the datagram, or that of another *)
(* pair, since windowMap is keyed by the names of the two ends, which all    *)
(* pairs share.                                                              *)
SpuriousReset ==
  /\ spurious < MaxSpurious /\ "relay" \notin dead
  /\ spurious' = spurious + 1
  /\ WindowInit
  /\ phase' = "spoiled"
  /\ UNCHANGED <<role, reset, dead, harm, restarts>>

LoseReset ==
  /\ reset = "pending"
  /\ reset' = "lost"
  /\ UNCHANGED <<role, senderVars, receiverVars, left, back, dead, phase, harm, restarts, spurious>>

(* The endpoint stops its SlidingWindow and makes a new one on a new        *)
(* socket: both its windows are fresh, and the reset is on its way.  The    *)
(* relay's slots keep the address of the old socket, where the old receive  *)
(* thread, in receive() when it was stopped, takes one more frame,          *)
(* acknowledges it and ends.                                                *)
Restart ==
  /\ restarts < MaxRestarts
  /\ restarts' = restarts + 1
  /\ IF role = "up"
     THEN /\ stamp' = 0 /\ windows' = Fresh(IDLE)
          /\ address' = Fresh("new") /\ seen' = Fresh("no")
          /\ left' \in {None, left} \cup DatagramsOf("frame", InUse)
          /\ back' \in {[back EXCEPT !.orphan = o] :
                         o \in IF back.room THEN {back.orphan, TRUE} ELSE {TRUE}}
          /\ UNCHANGED receiverVars
     ELSE /\ recvStamp' = 0 /\ recvWindows' = Fresh(IDLE)
          /\ address' = [i \in Slots |-> IF windows[i] = IDLE THEN "new" ELSE "old"]
          /\ left' \in {None} \cup DatagramsOf("ack", InUse)
                      \cup {l \in {left} : l.kind = "ack"}
          /\ UNCHANGED <<stamp, windows, seen, back>>
  /\ reset' = "pending"
  /\ dead' = dead \ {"endpoint"}
  /\ phase' = "restarted" /\ harm' = FALSE
  /\ UNCHANGED <<role, spurious>>

Next ==
  \/ PktData
  \/ \E i \in Slots : UnpktData(i) \/ RecvATK(i)
  \/ UnpktLeftover \/ RecvLeftover \/ LoseLeftover
  \/ HandleReset \/ SpuriousReset \/ LoseReset
  \/ Restart \/ Back

Spec == Init /\ [][Next]_vars

(* Cameras and threads keep running; frames that are repeated get through,  *)
(* which is what SlidingLink shows, also when they must meet an open gate   *)
(* (strong fairness); the network keeps nothing for ever.                   *)
FairSpec ==
  /\ Spec
  /\ WF_vars(PktData)
  /\ SF_vars(UnpktData(0)) /\ WF_vars(RecvATK(0))
  /\ WF_vars(BackDrains /\ Back)
  /\ WF_vars(LoseLeftover) /\ WF_vars(HandleReset \/ LoseReset)

-----------------------------------------------------------------------------
(* After a clean restart a session is as good as the first one: no frame is *)
(* forgotten undelivered or delivered twice, none of the last session is    *)
(* taken for one of this, and no receive thread meets an impossible stamp.  *)
CleanIsLossless == phase = "clean" => ~harm /\ dead = {}

(* A frame reaches the other side for the first time. *)
Deliver == \E i \in Slots : UnpktData(i) /\ seen[i] # "got" /\ seen'[i] = "got"

(* A slot of the relay's window to the endpoint waits for an               *)
(* acknowledgement of the old socket.                                       *)
Orphaned == back.orphan \/ \E i \in Slots : windows[i] = WAIT_FOR_RES /\ address[i] = "old"

(* However the reset was lost, late, repeated or somebody else's, the video *)
(* comes back: frames that do not fit the receiver's window are acknowledged *)
(* all the same, so the stamps go round until they fit.  The exceptions are *)
(* a thread that has died of a stamp it cannot place and, with the reset    *)
(* lost, a slot of the relay that waits for the endpoint's old socket: it   *)
(* holds up what the relay sends and, once the window is full, shuts the    *)
(* gate for what the endpoint sends.                                        *)
VideoComesBack ==
  <>[](dead = {} /\ (reset = "lost" => ~Orphaned)) => []<><<Deliver>>_vars
=============================================================================
