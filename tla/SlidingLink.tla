---------------------------- MODULE SlidingLink ----------------------------
(***************************************************************************)
(* One hop of the video path between two resets: the relay's Window as the *)
(* sender (javaServer/Server.java) and the phone's SlidingWindow as the    *)
(* receiver (network/SlidingWindow.java), over UDP.                        *)
(*                                                                         *)
(* Threads and their atomic steps.  Every method of Window is one           *)
(* `synchronized' block, so it is one action: PktData is run by the         *)
(* relay's receive loop, Update by its resend thread (one slot per          *)
(* action), RecvATK by its receive loop, UnpktData by the phone's receive   *)
(* thread, GetData by the phone's decoder.                                  *)
(*                                                                         *)
(* The payload of a frame is its number in the order of acceptance.  UDP    *)
(* may lose, duplicate and reorder: the datagrams in flight are a set,      *)
(* receiving one does not remove it, Lose does.  No datagram survives       *)
(* while the sender's window moves by more than Lifetime frames.            *)
(***************************************************************************)
EXTENDS WindowOps, Sequences

CONSTANTS Lifetime,   \* how far the window may move while a datagram is in flight
          MaxFrame    \* frames offered in the life of the hop

ASSUME LinkAssumption ==
  /\ Lifetime \in Nat
  /\ MaxFrame \in Nat
  /\ Lifetime + 2 * WindowSize < StampMod

VARIABLES stamp,          \* sender: stamp of slot 0
          windows,        \* sender: state of each slot
          windowsPacket,  \* sender: datagram of each slot, for update()
          recvStamp,      \* receiver: stamp of slot 0
          recvWindows,    \* receiver: state of each slot
          buffer,         \* receiver: frames waiting for getData()
          frames,         \* network: frame datagrams in flight
          acks,           \* network: acknowledgements in flight
          dead,           \* receive threads ended by an uncaught exception
          produced,       \* history: frames pktData() accepted
          base,           \* history: frames that left the sender's window
          recvBase,       \* history: frames that left the receiver's window
          delivered       \* history: frames unpktData() returned

senderVars == <<stamp, windows, windowsPacket, produced, base>>
receiverVars == <<recvStamp, recvWindows, buffer, recvBase, delivered>>
vars == <<stamp, windows, windowsPacket, recvStamp, recvWindows, buffer,
          frames, acks, dead, produced, base, recvBase, delivered>>

NoPacket == [stamp |-> -1, data |-> -1]
Packet == [stamp : Stamps, data : Nat]
Ends == {"sender", "receiver"}

Init ==
  /\ stamp = 0
  /\ windows = Fresh(IDLE)
  /\ windowsPacket = Fresh(NoPacket)
  /\ recvStamp = 0
  /\ recvWindows = Fresh(IDLE)
  /\ buffer = <<>>
  /\ frames = {}
  /\ acks = {}
  /\ dead = {}
  /\ produced = 0
  /\ base = 0
  /\ recvBase = 0
  /\ delivered = {}

(* pktData() and the send() of its result.  With no idle slot it returns    *)
(* null and the frame is silently dropped by the caller.                    *)
PktData ==
  /\ produced < MaxFrame
  /\ \/ /\ HaveIdle(windows)
        /\ LET rawCount == FirstIdle(windows)
               dp == [stamp |-> Advance(stamp, rawCount), data |-> produced]
           IN  /\ windowsPacket' = [windowsPacket EXCEPT ![rawCount] = dp]
               /\ windows' = [windows EXCEPT ![rawCount] = WAIT_FOR_RES]
               /\ frames' = frames \cup {dp}
        /\ produced' = produced + 1
        /\ UNCHANGED <<stamp, base, acks, dead, receiverVars>>
     \/ /\ ~HaveIdle(windows)
        /\ UNCHANGED vars

(* Mutant: the resend loop starts at the second slot. *)
UpdateFromOne(i) ==
  /\ i > 0
  /\ windows[i] = WAIT_FOR_RES
  /\ frames' = frames \cup {windowsPacket[i]}
  /\ UNCHANGED <<acks, dead, senderVars, receiverVars>>

(* update() for slot i once its timeout has expired: send it again. *)
Update(i) ==
  /\ windows[i] = WAIT_FOR_RES
  /\ frames' = frames \cup {windowsPacket[i]}
  /\ UNCHANGED <<acks, dead, senderVars, receiverVars>>

(* Mutant: a slot already received is not looked at. *)
AlreadyReceivedNoSlot(index) == index = -1

(* The early returns of unpktData(): no slot, or a slot already received. *)
AlreadyReceived(index) ==
  index = -1 \/ (index \in Slots /\ recvWindows[index] = END)

(* unpktData() on datagram p.  The acknowledgement leaves before anything   *)
(* is checked.  A frame in an open slot is handed to the buffer at once and *)
(* the window moves over its leading END slots; get(index) past the last    *)
(* slot throws and ends the receive thread.                                 *)
UnpktData(p) ==
  /\ "receiver" \notin dead
  /\ acks' = acks \cup {p}
  /\ LET index == ConfirmBorder(recvStamp, p.stamp) IN
     \/ /\ AlreadyReceived(index)
        /\ UNCHANGED <<dead, receiverVars>>
     \/ /\ index \in Slots
        /\ ~AlreadyReceived(index)
        /\ LET marked == [recvWindows EXCEPT ![index] = END]
               counter == EndPrefix(marked)
           IN  /\ recvWindows' = Slide(marked, counter, IDLE)
               /\ recvStamp' = Advance(recvStamp, counter)
               /\ recvBase' = recvBase + counter
        /\ buffer' = Append(buffer, p.data)
        /\ delivered' = delivered \cup {p.data}
        /\ UNCHANGED dead
     \/ /\ index \notin Slots \cup {-1}
        /\ dead' = dead \cup {"receiver"}
        /\ UNCHANGED receiverVars
  /\ UNCHANGED <<frames, senderVars>>

(* Datagrams that outlived the window's move to frame b. *)
Expired(net, b) == {p \in net : p.data < b - Lifetime}

(* recvATK() after confirmBorder() has placed the acknowledgement at index: *)
(* mark the slot, move the window over its leading END slots.               *)
Acknowledge(index) ==
  /\ "sender" \notin dead
  /\ \/ /\ index = -1 \/ (index \in Slots /\ windows[index] # WAIT_FOR_RES)
        /\ UNCHANGED vars
     \/ /\ index \in Slots
        /\ windows[index] = WAIT_FOR_RES
        /\ LET marked == [windows EXCEPT ![index] = END]
               counter == EndPrefix(marked)
           IN  /\ windows' = Slide(marked, counter, IDLE)
               /\ windowsPacket' = Slide(windowsPacket, counter, NoPacket)
               /\ stamp' = Advance(stamp, counter)
               /\ base' = base + counter
        /\ frames' = frames \ Expired(frames, base')
        /\ acks' = acks \ Expired(acks, base')
        /\ UNCHANGED <<dead, produced, receiverVars>>
     \/ /\ index \notin Slots \cup {-1}
        /\ dead' = dead \cup {"sender"}
        /\ UNCHANGED <<frames, acks, senderVars, receiverVars>>

(* recvATK() on acknowledgement a (the reset byte is not sent here). *)
RecvATK(a) == Acknowledge(ConfirmBorder(stamp, a.stamp))

(* getData(): the decoder takes the oldest buffered frame. *)
GetData ==
  /\ buffer # <<>>
  /\ buffer' = Tail(buffer)
  /\ UNCHANGED <<recvStamp, recvWindows, recvBase, delivered, frames, acks,
                 dead, senderVars>>

(* The network drops a datagram. *)
LoseFrame(p) ==
  /\ frames' = frames \ {p}
  /\ UNCHANGED <<acks, dead, senderVars, receiverVars>>

LoseAck(a) ==
  /\ acks' = acks \ {a}
  /\ UNCHANGED <<frames, dead, senderVars, receiverVars>>

Next ==
  \/ PktData
  \/ \E i \in Slots : Update(i)
  \/ \E p \in frames : UnpktData(p)
  \/ \E a \in acks : RecvATK(a)
  \/ GetData
  \/ \E p \in frames : LoseFrame(p)
  \/ \E a \in acks : LoseAck(a)

Spec == Init /\ [][Next]_vars

(* The steps that handle the datagrams of the oldest frame outstanding. *)
UnpktOldest == \E p \in frames : p.data = base /\ UnpktData(p)
AckOldest == \E a \in acks : a.data = base /\ RecvATK(a)

(* The resend thread and the decoder keep running; the network is           *)
(* fair-lossy: of infinitely many copies of a datagram one arrives, which   *)
(* is needed of the oldest frame only.  The encoder (PktData) and the       *)
(* losses are under no obligation.                                          *)
Fairness ==
  /\ \A i \in Slots : WF_vars(Update(i))
  /\ WF_vars(GetData)
  /\ SF_vars(UnpktOldest)
  /\ SF_vars(AckOldest)

FairSpec == Spec /\ Fairness

-----------------------------------------------------------------------------
(* Type invariant of the hop. *)
TypeOK ==
  /\ stamp \in Stamps
  /\ recvStamp \in Stamps
  /\ windows \in [Slots -> {IDLE, WAIT_FOR_RES, END}]
  /\ recvWindows \in [Slots -> {IDLE, END}]
  /\ windowsPacket \in [Slots -> Packet \cup {NoPacket}]
  /\ buffer \in Seq(Nat)
  /\ frames \subseteq Packet
  /\ acks \subseteq Packet
  /\ dead \subseteq Ends
  /\ produced \in Nat
  /\ base \in Nat
  /\ recvBase \in Nat
  /\ delivered \subseteq Nat

(* The sender's window is the frames base .. produced - 1: a used prefix of *)
(* slots, each holding the datagram update() has to send again.             *)
SenderInv ==
  /\ stamp = base % StampMod
  /\ base <= produced
  /\ produced <= base + WindowSize
  /\ \A i \in Slots :
       /\ windows[i] = IDLE <=> produced <= base + i
       /\ windows[i] # IDLE =>
            windowsPacket[i] = [stamp |-> (base + i) % StampMod, data |-> base + i]
       /\ windows[i] = END => base + i \in delivered

(* The receiver's window starts at the first frame it has not received, and *)
(* its END slots are exactly the frames received beyond that one.           *)
ReceiverInv ==
  /\ recvStamp = recvBase % StampMod
  /\ base <= recvBase
  /\ recvBase <= produced
  /\ recvWindows[0] # END
  /\ delivered = (0 .. recvBase - 1) \cup
                 {recvBase + i : i \in {j \in Slots : recvWindows[j] = END}}
  /\ \A n \in delivered : n < produced

(* What is in flight is recent, carries the stamp of its frame, and an      *)
(* acknowledgement is only in flight for a frame that was received.         *)
NetworkInv ==
  /\ \A p \in frames \cup acks :
       /\ base - Lifetime <= p.data
       /\ p.data < produced
       /\ p.stamp = p.data % StampMod
  /\ \A a \in acks : a.data \in delivered

(* Inductive invariant of the hop; every safety property below follows.     *)
LinkInv == TypeOK /\ SenderInv /\ ReceiverInv /\ NetworkInv /\ dead = {}

(* A frame the sender has forgotten (slid out of its window by recvATK(),   *)
(* never to be sent again by update()) has reached the receiver, although   *)
(* unpktData() acknowledges before it looks at the stamp.                   *)
ForgottenIsDelivered == \A n \in 0 .. base - 1 : n \in delivered

(* The 7-bit stamps never alias: whatever confirmBorder() finds a slot for, *)
(* on either side, is the frame that slot stands for.                       *)
NoAliasing ==
  /\ \A p \in frames :
       LET index == ConfirmBorder(recvStamp, p.stamp)
       IN  index \in Slots => p.data = recvBase + index
  /\ \A a \in acks :
       LET index == ConfirmBorder(stamp, a.stamp)
       IN  index \in Slots => a.data = base + index

(* Neither receive loop meets the index confirmBorder() can compute one     *)
(* past the last slot, which would end the thread by an exception.          *)
ThreadsSurvive == dead = {}

(* The receiver's window never moves past a frame it has not received, and  *)
(* is never behind the sender's: every frame that can still arrive has a    *)
(* slot or was received before.                                             *)
NoFrameSkipped ==
  /\ \A n \in 0 .. recvBase - 1 : n \in delivered
  /\ \A n \in base .. produced - 1 : n \in delivered \/ n - recvBase \in Slots

(* unpktData() returns a frame for the decoder only the first time it is    *)
(* received, however often update() resends it or UDP duplicates it.        *)
AtMostOnce ==
  [][\A n \in 0 .. MaxFrame - 1 :
       buffer' = Append(buffer, n) => n \notin delivered]_vars

(* The hop implements the abstract frame delivery.                          *)
Abstract == INSTANCE FrameDelivery
              WITH produced <- produced, base <- base,
                   delivered <- delivered, buffer <- buffer
Delivery == Abstract!Spec

(* Every frame pktData() accepted is received, leaves the sender's window   *)
(* and is taken by the decoder: resends outlast the losses.                 *)
EveryFrameArrives ==
  <>[](base = produced /\ delivered = 0 .. produced - 1 /\ buffer = <<>>)
=============================================================================
