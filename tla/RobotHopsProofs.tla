-------------------------- MODULE RobotHopsProofs --------------------------
(***************************************************************************)
(* The robot's own ends of the two video hops.  As a sender               *)
(* (RobotUplink) its counter idle_count is exact, so every step it makes is *)
(* a step of SlidingLink and all that is proved of that hop holds of it.    *)
(* As a receiver (RobotDownlink) its pruning loop does what unpktData()     *)
(* does as long as no frame overtakes another, and whatever overtakes what  *)
(* it takes no frame twice.                                                 *)
(***************************************************************************)
EXTENDS RobotUplink, RobotDownlink, SlidingLinkProofs, FiniteSetTheorems

(* The inductive invariant of the sending hop: that of SlidingLink, and the *)
(* counter agrees with the frames outstanding.                              *)
UpInv == LinkInv /\ idle_count = base + WindowSize - produced

(* The robot's confirm_border() on an acknowledgement gives what the Java   *)
(* one would: the frame's slot, or -1 when the window has moved past it.    *)
LEMMA PyAckIndex ==
  ASSUME LinkInv, NEW a \in acks
  PROVE  /\ a.data \in Nat
         /\ PyConfirmBorder(stamp, a.stamp) =
              IF base <= a.data THEN a.data - base ELSE -1
         /\ a.data < base + WindowSize
<1>1. /\ a.data \in Nat /\ base \in Nat /\ produced \in Nat
      /\ a.stamp = a.data % StampMod /\ stamp = base % StampMod
      /\ base - Lifetime <= a.data /\ a.data < produced
      /\ produced <= base + WindowSize
  BY DEF LinkInv, TypeOK, SenderInv, NetworkInv, Packet
<1>2. base + WindowSize < a.data + StampMod /\ a.data < base + WindowSize
  BY <1>1, Constants
<1> QED
  BY <1>1, <1>2, PyConfirmBorderExact

(* With an exact counter send() finds an idle slot whenever it goes on, and *)
(* does what pktData() does.                                                *)
LEMMA SendIsPktData ==
  ASSUME UpInv, Send
  PROVE  PktData /\ UpInv'
<1>1. base \in Nat /\ produced \in Nat /\ base <= produced
  BY DEF UpInv, LinkInv, TypeOK, SenderInv
<1>2. produced < base + WindowSize
  BY <1>1, Constants DEF UpInv, LinkInv, SenderInv, Send
<1> DEFINE i == produced - base
<1>3. i \in Slots /\ produced <= base + i
  BY <1>1, <1>2, Constants DEF Slots
<1> HIDE DEF i
<1>4. HaveIdle(windows)
  BY <1>3 DEF HaveIdle, UpInv, LinkInv, SenderInv
<1>5. PktData
  BY <1>4 DEF Send, PktData, LoopSlot
<1>6. LinkInv'
  BY <1>5, PktDataInv DEF UpInv
<1>7. idle_count' = idle_count - 1 /\ produced' = produced + 1 /\ base' = base
  BY DEF Send
<1>8. idle_count' = base' + WindowSize - produced'
  BY <1>1, <1>7, Constants DEF UpInv
<1> QED
  BY <1>5, <1>6, <1>8 DEF UpInv

(* recvATK() of the robot does what that of the relay does. *)
LEMMA PyRecvATKIsRecvATK ==
  ASSUME UpInv, NEW a \in acks, PyRecvATK(a)
  PROVE  RecvATK(a) /\ UpInv'
<1>1. PyConfirmBorder(stamp, a.stamp) = ConfirmBorder(stamp, a.stamp)
  BY PyAckIndex, AckIndex DEF UpInv
<1>2. RecvATK(a)
  BY <1>1 DEF PyRecvATK, RecvATK
<1>3. LinkInv'
  BY <1>2, RecvATKInv DEF UpInv
<1>4. produced' = produced
  BY <1>2 DEF RecvATK, Acknowledge, vars, senderVars
<1>5. /\ base \in Nat /\ base' \in Nat /\ produced \in Nat
      /\ idle_count' = idle_count + (base' - base)
  BY <1>3 DEF UpInv, LinkInv, TypeOK, PyRecvATK
<1>6. idle_count' = base' + WindowSize - produced'
  BY <1>4, <1>5, Constants DEF UpInv
<1> QED
  BY <1>2, <1>3, <1>6 DEF UpInv

(* Every step of the robot's hop is a step of SlidingLink. *)
LEMMA UpStep == UpInv /\ [UpNext]_upVars => UpInv' /\ [Next]_vars
<1> SUFFICES ASSUME UpInv, [UpNext]_upVars PROVE UpInv' /\ [Next]_vars
  OBVIOUS
<1>1. CASE Send
  BY <1>1, SendIsPktData DEF Next
<1>2. CASE \E a \in acks : PyRecvATK(a)
  BY <1>2, PyRecvATKIsRecvATK DEF Next
<1>3. ASSUME [Next]_vars, UNCHANGED <<base, produced, idle_count>>
      PROVE  UpInv' /\ [Next]_vars
  BY <1>3, LinkStep DEF UpInv
<1>4. ASSUME NEW i \in Slots, CheckTimeout(i)
      PROVE  Next /\ UNCHANGED <<base, produced, idle_count>>
  BY <1>4 DEF CheckTimeout, Next, Update, senderVars
<1>5. ASSUME NEW p \in frames, UnpktData(p), UNCHANGED idle_count
      PROVE  Next /\ UNCHANGED <<base, produced, idle_count>>
  BY <1>5 DEF Next, UnpktData, senderVars
<1>6. ASSUME GetData, UNCHANGED idle_count
      PROVE  Next /\ UNCHANGED <<base, produced, idle_count>>
  BY <1>6 DEF Next, GetData, senderVars
<1>7. ASSUME NEW p \in frames, LoseFrame(p), UNCHANGED idle_count
      PROVE  Next /\ UNCHANGED <<base, produced, idle_count>>
  BY <1>7 DEF Next, LoseFrame, senderVars
<1>8. ASSUME NEW a \in acks, LoseAck(a), UNCHANGED idle_count
      PROVE  Next /\ UNCHANGED <<base, produced, idle_count>>
  BY <1>8 DEF Next, LoseAck, senderVars
<1>9. CASE UNCHANGED upVars
  <2>1. UNCHANGED vars /\ UNCHANGED <<base, produced, idle_count>>
    BY <1>9 DEF upVars, vars
  <2> QED
    BY <2>1, <1>3
<1> QED
  BY <1>1, <1>2, <1>3, <1>4, <1>5, <1>6, <1>7, <1>8, <1>9 DEF UpNext

(* The invariant of the sending hop, for all constants. *)
THEOREM UplinkInvariant == UpSpec => []UpInv
<1>1. UpInit => UpInv
  <2> SUFFICES ASSUME UpInit PROVE UpInv
    OBVIOUS
  <2>1. LinkInv
    BY LinkInit DEF UpInit
  <2>2. idle_count = base + WindowSize - produced
    BY Constants DEF UpInit, Init
  <2> QED
    BY <2>1, <2>2 DEF UpInv
<1>2. UpInv /\ [UpNext]_upVars => UpInv'
  BY UpStep
<1> QED
  BY <1>1, <1>2, PTL DEF UpSpec

(* The robot's hop implements the hop of the Java classes, send() by        *)
(* pktData() and recvATK() by recvATK().                                    *)
THEOREM UplinkImplementsLink == UpSpec => Spec
<1>1. UpInit => Init
  BY DEF UpInit
<1>2. UpInv /\ [UpNext]_upVars => [Next]_vars
  BY UpStep
<1> QED
  BY <1>1, <1>2, UplinkInvariant, PTL DEF UpSpec, Spec

(* And so the frames of the robot's camera are delivered as FrameDelivery   *)
(* says: none twice, none forgotten before it has arrived.                  *)
THEOREM UplinkImplementsDelivery == UpSpec => Delivery
  BY UplinkImplementsLink, LinkImplementsDelivery, PTL

(* idle_count of sliding_window.py is the number of idle slots.             *)
THEOREM UplinkIdleCountExact == UpSpec => []IdleCountExact
<1>1. UpInv => IdleCountExact
  <2> SUFFICES ASSUME UpInv PROVE IdleCountExact
    OBVIOUS
  <2> DEFINE first == produced - base
  <2>1. /\ base \in Nat /\ produced \in Nat
        /\ base <= produced /\ produced <= base + WindowSize
    BY DEF UpInv, LinkInv, TypeOK, SenderInv
  <2>2. {i \in Slots : windows[i] = IDLE} = first .. WindowSize - 1
    <3>1. \A i \in Slots : windows[i] = IDLE <=> produced <= base + i
      BY DEF UpInv, LinkInv, SenderInv
    <3>2. \A i \in Slots : windows[i] = IDLE <=> first <= i
      BY <2>1, <3>1, Constants DEF Slots
    <3>3. first \in Nat
      BY <2>1
    <3> HIDE DEF first
    <3> QED
      BY <3>2, <3>3, Constants DEF Slots
  <2>3. Cardinality(first .. WindowSize - 1) = WindowSize - first
    <3>1. first \in Int /\ WindowSize - 1 \in Int /\ ~(first > WindowSize)
      BY <2>1, Constants
    <3> HIDE DEF first
    <3>2. Cardinality(first .. WindowSize - 1) =
            IF first > WindowSize - 1 THEN 0 ELSE (WindowSize - 1) - first + 1
      BY <3>1, FS_Interval
    <3> QED
      BY <3>1, <3>2, Constants
  <2>4. idle_count = WindowSize - first
    BY <2>1, Constants DEF UpInv
  <2> HIDE DEF first
  <2> QED
    BY <2>2, <2>3, <2>4 DEF IdleCountExact
<1> QED
  BY <1>1, UplinkInvariant, PTL

(* confirm_border() of the robot takes no acknowledgement for another       *)
(* frame's and never indexes past its lists.                                *)
THEOREM UplinkStampsExact == UpSpec => []UplinkNoAliasing
<1>1. UpInv => UplinkNoAliasing
  <2> SUFFICES ASSUME UpInv, NEW a \in acks
               PROVE  LET index == PyConfirmBorder(stamp, a.stamp)
                      IN  /\ index \in Slots \cup {-1}
                          /\ index # -1 => a.data = base + index
    BY DEF UplinkNoAliasing
  <2>1. base \in Nat
    BY DEF UpInv, LinkInv, TypeOK
  <2> QED
    BY <2>1, PyAckIndex, Constants DEF UpInv, Slots
<1> QED
  BY <1>1, UplinkInvariant, PTL

-----------------------------------------------------------------------------
(* The inductive invariant of the receiving hop: until a frame overtakes    *)
(* another the hop is in a state of SlidingLink, with no slot marked.       *)
DownInv ==
  ~overtaken => LinkInv /\ \A i \in Slots : recvWindows[i] = IDLE

(* The robot's confirm_border() on a frame, like FrameIndex.                *)
LEMMA PyFrameIndex ==
  ASSUME LinkInv, NEW p \in frames
  PROVE  /\ p.data \in Nat
         /\ PyConfirmBorder(recvStamp, p.stamp) =
              IF recvBase <= p.data THEN p.data - recvBase ELSE -1
         /\ p.data < recvBase + WindowSize
<1>1. /\ p.data \in Nat /\ base \in Nat /\ recvBase \in Nat /\ produced \in Nat
      /\ p.stamp = p.data % StampMod /\ recvStamp = recvBase % StampMod
      /\ base - Lifetime <= p.data /\ p.data < produced
      /\ base <= recvBase /\ recvBase <= produced /\ produced <= base + WindowSize
  BY DEF LinkInv, TypeOK, SenderInv, ReceiverInv, NetworkInv, Packet
<1>2. recvBase + WindowSize < p.data + StampMod /\ p.data < recvBase + WindowSize
  BY <1>1, Constants
<1> QED
  BY <1>1, <1>2, PyConfirmBorderExact

(* With one mark, on the head, the pruning loop deletes that head only, as  *)
(* the loop of unpktData() does.                                            *)
LEMMA PruneOne ==
  ASSUME NEW w, w[0] = END, \A i \in Slots : i # 0 => w[i] # END
  PROVE  PrunedSlots(w) = 1 /\ EndPrefix(w) = 1
<1>1. WindowSize \in Nat /\ WindowSize >= 2 /\ 0 \in Slots /\ 1 \in Slots
  BY Constants, DownlinkAssumption DEF Slots
<1>2. EndPrefix(w) = 1
  <2>1. /\ EndPrefix(w) \in 0 .. WindowSize
        /\ \A i \in Slots : i < EndPrefix(w) => w[i] = END
        /\ EndPrefix(w) \in Slots => w[EndPrefix(w)] # END
    BY EndPrefixRun
  <2> QED
    BY <1>1, <2>1 DEF Slots
<1>3. PrunedSlots(w) = 1
  <2> DEFINE Stops(k) == /\ \A j \in 0 .. k - 1 : 2 * j \in Slots /\ w[2 * j] = END
                         /\ 2 * k \in Slots => w[2 * k] # END
  <2>1. Stops(1) /\ 1 \in 0 .. WindowSize
    BY <1>1 DEF Slots
  <2>2. ASSUME NEW k \in 0 .. WindowSize, Stops(k) PROVE k = 1
    <3>1. k # 0
      BY <1>1, <2>2
    <3>2. ~(k > 1)
      <4> SUFFICES ASSUME k > 1 PROVE FALSE
        OBVIOUS
      <4>1. 1 \in 0 .. k - 1
        OBVIOUS
      <4>2. 2 * 1 \in Slots /\ w[2 * 1] = END
        BY <2>2, <4>1
      <4> QED
        BY <4>2
    <3> QED
      BY <3>1, <3>2
  <2> HIDE DEF Stops
  <2>3. (CHOOSE k \in 0 .. WindowSize : Stops(k)) = 1
    BY <2>1, <2>2
  <2> QED
    BY <2>3 DEF PrunedSlots, Stops
<1> QED
  BY <1>2, <1>3

(* recv() on a frame that overtakes none does what unpktData() does and     *)
(* leaves no slot marked.                                                   *)
LEMMA RecvIsUnpktData ==
  ASSUME DownInv, ~overtaken, NEW p \in frames, Recv(p), ~overtaken'
  PROVE  UnpktData(p) /\ \A i \in Slots : recvWindows'[i] = IDLE
<1> DEFINE index == PyConfirmBorder(recvStamp, p.stamp)
           marked == [recvWindows EXCEPT ![index] = END]
<1>1. LinkInv /\ \A i \in Slots : recvWindows[i] = IDLE
  BY DEF DownInv
<1>2. /\ p.data \in Nat /\ recvBase \in Nat
      /\ index = IF recvBase <= p.data THEN p.data - recvBase ELSE -1
      /\ p.data < recvBase + WindowSize
  BY <1>1, PyFrameIndex DEF LinkInv, TypeOK
<1>3. ConfirmBorder(recvStamp, p.stamp) = index
  BY <1>1, FrameIndex, PyFrameIndex
<1> HIDE DEF index
<1>4. index \in Slots \cup {-1}
  BY <1>2, Constants DEF Slots
<1>5. CASE AlreadyReceived(index)
  <2>1. UNCHANGED <<dead, overtaken, receiverVars>>
    BY <1>4, <1>5 DEF Recv, index
  <2> QED
    BY <1>1, <1>3, <1>5, <2>1 DEF Recv, UnpktData, receiverVars
<1>6. CASE ~AlreadyReceived(index)
  <2>1. index \in Slots /\ recvBase <= p.data
    BY <1>2, <1>4, <1>6, Constants DEF AlreadyReceived, Slots
  <2>2. recvBase \notin delivered
    <3> SUFFICES ASSUME recvBase \in delivered PROVE FALSE
      OBVIOUS
    <3>1. recvBase \notin 0 .. recvBase - 1
      BY <1>2
    <3>2. PICK j \in Slots : recvWindows[j] = END
      BY <1>1, <3>1 DEF LinkInv, ReceiverInv
    <3> QED
      BY <1>1, <3>2 DEF IDLE, END
  <2>3. \A n \in 0 .. p.data - 1 : n \in delivered
    BY <1>4, <1>6, <2>1 DEF Recv, index
  <2>4. index = 0
    BY <1>2, <2>1, <2>2, <2>3
  <2>5. recvWindows \in [Slots -> {IDLE, END}] /\ 0 \in Slots
    BY <1>1, Constants DEF LinkInv, TypeOK
  <2>6. marked[0] = END /\ \A i \in Slots : i # 0 => marked[i] = IDLE
    BY <1>1, <2>4, <2>5
  <2>7. PrunedSlots(marked) = 1 /\ EndPrefix(marked) = 1
    <3> HIDE DEF marked
    <3> QED
      BY <2>6, PruneOne DEF IDLE, END
  <2>8. UnpktData(p)
    BY <1>3, <1>6, <2>1, <2>7 DEF Recv, UnpktData, index, marked
  <2>9. recvWindows' = Slide(marked, 1, IDLE)
    BY <1>6, <2>1, <2>7 DEF Recv, index, marked
  <2>10. \A i \in Slots : recvWindows'[i] = IDLE
    <3> HIDE DEF marked
    <3> QED
      BY <2>6, <2>9, Constants DEF Slide, Slots
  <2> QED
    BY <2>8, <2>10
<1> QED
  BY <1>5, <1>6

(* Until a frame overtakes another, every step of the hop is one of         *)
(* SlidingLink.                                                             *)
LEMMA DownStep ==
  DownInv /\ [DownNext]_downVars => DownInv' /\ (~overtaken' => [Next]_vars)
<1> SUFFICES ASSUME DownInv, [DownNext]_downVars, ~overtaken'
             PROVE  LinkInv' /\ (\A i \in Slots : recvWindows'[i] = IDLE) /\ [Next]_vars
  BY DEF DownInv
<1>1. ~overtaken
  BY DEF DownNext, downVars, Recv
<1>2. LinkInv /\ \A i \in Slots : recvWindows[i] = IDLE
  BY <1>1 DEF DownInv
<1>3. ASSUME [Next]_vars, \A i \in Slots : recvWindows'[i] = IDLE
      PROVE  LinkInv' /\ (\A i \in Slots : recvWindows'[i] = IDLE) /\ [Next]_vars
  BY <1>2, <1>3, LinkStep
<1>4. CASE \E p \in frames : Recv(p)
  <2>1. PICK p \in frames : Recv(p)
    BY <1>4
  <2>2. UnpktData(p) /\ \A i \in Slots : recvWindows'[i] = IDLE
    BY <1>1, <2>1, RecvIsUnpktData
  <2> QED
    BY <1>3, <2>2 DEF Next
<1>5. CASE PktData
  BY <1>2, <1>3, <1>5 DEF Next, PktData, receiverVars, vars
<1>6. ASSUME NEW i \in Slots, Update(i)
      PROVE  Next /\ UNCHANGED recvWindows
  BY <1>6 DEF Next, Update, receiverVars
<1>7. ASSUME NEW a \in acks, RecvATK(a)
      PROVE  Next /\ UNCHANGED recvWindows
  BY <1>7 DEF Next, RecvATK, Acknowledge, receiverVars, vars
<1>8. CASE GetData
  BY <1>2, <1>3, <1>8 DEF Next, GetData
<1>9. ASSUME \/ \E p \in frames : LoseFrame(p)
             \/ \E a \in acks : LoseAck(a)
      PROVE  Next /\ UNCHANGED recvWindows
  BY <1>9 DEF Next, LoseFrame, LoseAck, receiverVars
<1>10. CASE UNCHANGED downVars
  BY <1>2, <1>3, <1>10 DEF downVars, vars
<1> QED
  BY <1>2, <1>3, <1>4, <1>5, <1>6, <1>7, <1>8, <1>9, <1>10 DEF DownNext

(* As long as no frame overtakes another, recv() loses nothing, although    *)
(* its loop deletes from the list it walks over: what the relay forgot was  *)
(* received and the receive thread lives.                                   *)
THEOREM DownlinkInOrderIsLossless == DownSpec => []InOrderIsLossless
<1>1. DownInit => DownInv
  BY LinkInit DEF DownInit, DownInv, Init, Fresh
<1>2. DownInv /\ [DownNext]_downVars => DownInv'
  BY DownStep
<1>3. DownInv => InOrderIsLossless
  <2> SUFFICES ASSUME LinkInv PROVE ForgottenIsDelivered /\ dead = {} /\ base <= recvBase
    BY DEF DownInv, InOrderIsLossless, ForgottenIsDelivered
  <2>1. ForgottenIsDelivered
    BY DEF LinkInv, TypeOK, ReceiverInv, ForgottenIsDelivered
  <2> QED
    BY <2>1 DEF LinkInv, ReceiverInv
<1> QED
  BY <1>1, <1>2, <1>3, PTL DEF DownSpec
-----------------------------------------------------------------------------
(* RobotAtMostOnce.  Once a frame has overtaken another the robot's window  *)
(* may be laps behind the relay's, and recvBase + i is no longer the frame   *)
(* slot i stands for.  What remains true is that every frame in flight that *)
(* was received still has a place q, a number with its stamp, which the     *)
(* window covers with a mark or has moved past, and not by so much that     *)
(* the stamp comes round again.                                             *)

(* The relay's end of the hop and the network, whatever the robot does. *)
RelayEndInv ==
  /\ TypeOK
  /\ stamp = base % StampMod
  /\ base <= produced
  /\ produced <= base + WindowSize
  /\ \A i \in Slots :
       /\ windows[i] = IDLE <=> produced <= base + i
       /\ windows[i] # IDLE =>
            windowsPacket[i] = [stamp |-> (base + i) % StampMod, data |-> base + i]
  /\ \A p \in frames \cup acks :
       /\ base - Lifetime <= p.data
       /\ p.data < produced
       /\ p.stamp = p.data % StampMod

(* Where the windows agree Lifetime + 2 * WindowSize < StampMod is enough;   *)
(* here a window of stale marks may lie between.  With the numbers of the   *)
(* code a datagram may live for 99 frames instead of 107.                   *)
WideStamps == Lifetime + 3 * WindowSize <= StampMod + 1

(* How far marks may lie beyond the place of frame n: marks older than n    *)
(* are in the same window, younger ones are of younger frames.              *)
Reach(n) == IF produced - n > WindowSize THEN produced - n ELSE WindowSize

(* Frame n was received as number q. *)
PlacedAt(n, q) ==
  /\ q % StampMod = n % StampMod
  /\ recvBase <= q + Reach(n)
  /\ q < recvBase + WindowSize
  /\ q >= recvBase => recvWindows[q - recvBase] = END
  /\ \A i \in Slots : recvWindows[i] = END => recvBase + i < q + Reach(n)

RobotEndInv ==
  /\ recvStamp = recvBase % StampMod
  /\ \A n \in delivered : n < produced
  /\ \A n \in delivered : base - Lifetime <= n => \E q \in Nat : PlacedAt(n, q)

PlaceInv == RelayEndInv /\ RobotEndInv

(* The loop deletes k heads: the even slots up to 2 * (k - 1) are marked. *)
LEMMA PrunedRun ==
  ASSUME NEW w
  PROVE  /\ PrunedSlots(w) \in 0 .. WindowSize
         /\ \A j \in 0 .. PrunedSlots(w) - 1 : 2 * j \in Slots /\ w[2 * j] = END
<1> DEFINE S == {k \in 0 .. WindowSize : ~(2 * k \in Slots /\ w[2 * k] = END)}
<1>1. S \in SUBSET Nat /\ WindowSize \in S
  BY Constants DEF Slots
<1>2. PICK x \in S : \A y \in S : x <= y
  BY <1>1, LeastNatural
<1>3. x \in 0 .. WindowSize /\ \A j \in 0 .. x - 1 : j \notin S /\ j \in 0 .. WindowSize
  BY <1>1, <1>2, Constants
<1>4. \E k \in 0 .. WindowSize :
         /\ \A j \in 0 .. k - 1 : 2 * j \in Slots /\ w[2 * j] = END
         /\ 2 * k \in Slots => w[2 * k] # END
  BY <1>2, <1>3
<1> QED
  BY <1>4 DEF PrunedSlots

(* Two pairs of numbers with the same stamps are equally far apart, or by a *)
(* whole lap differently.                                                   *)
LEMMA SameStamps ==
  ASSUME NEW a \in Nat, NEW b \in Nat, NEW c \in Nat, NEW d \in Nat,
         a % StampMod = b % StampMod, c % StampMod = d % StampMod,
         a - c < b - d + StampMod
  PROVE  a - c <= b - d
<1> DEFINE qa == a \div StampMod
           qb == b \div StampMod
           qc == c \div StampMod
           qd == d \div StampMod
           r == a % StampMod
           s == c % StampMod
           x == qa + qd
           y == qb + qc
<1>1. /\ qa \in Nat /\ qb \in Nat /\ qc \in Nat /\ qd \in Nat /\ r \in Nat /\ s \in Nat
      /\ a = StampMod * qa + r /\ b = StampMod * qb + r
      /\ c = StampMod * qc + s /\ d = StampMod * qd + s
  <2>0. qa \in Nat /\ r \in 0 .. StampMod - 1 /\ a = StampMod * qa + r
    BY Constants, DivMod
  <2>1. qc \in Nat /\ s \in 0 .. StampMod - 1 /\ c = StampMod * qc + s
    BY Constants, DivMod
  <2>2. qb \in Nat /\ b = StampMod * qb + (b % StampMod)
    BY Constants, DivMod
  <2>3. qd \in Nat /\ d = StampMod * qd + (d % StampMod)
    BY Constants, DivMod
  <2>4. a % StampMod = r /\ b % StampMod = r /\ c % StampMod = s /\ d % StampMod = s
    OBVIOUS
  <2> HIDE DEF qa, qb, qc, qd, r, s
  <2> QED
    BY <2>0, <2>1, <2>2, <2>3, <2>4, Constants
<1> HIDE DEF qa, qb, qc, qd, r, s
<1>2. StampMod * x = StampMod * qa + StampMod * qd /\ StampMod * y = StampMod * qb + StampMod * qc
  BY <1>1, Constants, Z3
<1>3. x \in Int /\ y \in Int /\ StampMod * x \in Int /\ StampMod * y \in Int
  BY <1>1, Constants
<1>4. a - c = b - d + (StampMod * x - StampMod * y)
  <2>1. StampMod * qa \in Int /\ StampMod * qb \in Int /\ StampMod * qc \in Int /\ StampMod * qd \in Int
    BY <1>1, Constants
  <2> HIDE DEF x, y
  <2> QED
    BY <1>1, <1>2, <1>3, <2>1
<1> HIDE DEF x, y
<1>5. ~(x > y)
  <2> SUFFICES ASSUME x > y PROVE FALSE
    OBVIOUS
  <2>1. StampMod * x >= StampMod * y + StampMod
    BY <1>3, Constants, TimesMonotonic
  <2> QED
    BY <1>3, <1>4, <2>1, Constants
<1>6. StampMod * x <= StampMod * y
  <2>1. CASE x = y
    BY <1>3, <2>1
  <2>2. CASE y > x
    <3>1. StampMod * y >= StampMod * x + StampMod
      BY <1>3, <2>2, Constants, TimesMonotonic
    <3> QED
      BY <1>3, <3>1, Constants
  <2> QED
    BY <1>3, <1>5, <2>1, <2>2
<1> QED
  BY <1>3, <1>4, <1>6

(* A slot confirm_border() finds has the stamp of the frame, if not the     *)
(* number.                                                                  *)
LEMMA PyIndexStamp ==
  ASSUME NEW r \in Nat, NEW n \in Nat,
         PyConfirmBorder(r % StampMod, n % StampMod) \in Slots
  PROVE  (r + PyConfirmBorder(r % StampMod, n % StampMod)) % StampMod = n % StampMod
<1> DEFINE s == r % StampMod
           d == n % StampMod
           i == PyConfirmBorder(s, d)
<1>1. s \in Stamps /\ d \in Stamps
  BY StampType
<1> HIDE DEF s, d
<1>2. s + i = d \/ s + i = d + StampMod
  <2>1. s \in Int /\ d \in Int /\ StampMod \in Int /\ i # -1
    BY <1>1, Constants DEF Stamps, Slots, i, s, d
  <2>2. i = -1 \/ i = d - s \/ i = d + (StampMod - s)
    BY Z3 DEF i, PyConfirmBorder, WrappedIndex, StraightIndex
  <2> HIDE DEF i
  <2> QED
    BY <2>1, <2>2
<1>3. i \in 0 .. WindowSize
  BY Constants DEF Slots, i, s, d
<1> HIDE DEF i
<1>4. Advance(s, i) = (r + i) % StampMod
  BY <1>3, AdvanceStamp DEF s
<1>5. (s + i) % StampMod = d
  <2> DEFINE x == s + i
  <2>1. x \in Nat /\ x < StampMod + StampMod
    BY <1>1, <1>3, Constants DEF Stamps
  <2>2. x = d \/ x = d + StampMod
    BY <1>2
  <2> HIDE DEF x
  <2>3. x % StampMod = IF x < StampMod THEN x ELSE x - StampMod
    BY <2>1, Constants, SmallMod
  <2>4. x % StampMod = d
    BY <1>1, <2>2, <2>3, Constants DEF Stamps
  <2> QED
    BY <2>4 DEF x
<1> QED
  BY <1>4, <1>5 DEF Advance, i, s, d

(* pktData() at the relay. *)
LEMMA PktDataRelay ==
  ASSUME RelayEndInv, PktData
  PROVE  /\ RelayEndInv'
         /\ UNCHANGED <<base, receiverVars>>
         /\ produced' \in {produced, produced + 1}
<1>1. CASE ~HaveIdle(windows)
  <2>1. UNCHANGED vars
    BY <1>1 DEF PktData
  <2> QED
    BY <2>1 DEF vars, RelayEndInv, TypeOK, receiverVars
<1>2. CASE HaveIdle(windows)
  <2> DEFINE k == FirstIdle(windows)
             dp == [stamp |-> Advance(stamp, k), data |-> produced]
  <2>1. /\ windowsPacket' = [windowsPacket EXCEPT ![k] = dp]
        /\ windows' = [windows EXCEPT ![k] = WAIT_FOR_RES]
        /\ frames' = frames \cup {dp}
        /\ produced' = produced + 1
        /\ UNCHANGED <<stamp, base, acks, dead, receiverVars>>
    BY <1>2 DEF PktData, vars
  <2>2. /\ k \in Slots /\ windows[k] = IDLE
        /\ \A j \in Slots : windows[j] = IDLE => k <= j
    BY <1>2, FirstIdleSlot
  <2> HIDE DEF k
  <2>3. k = produced - base
    <3> DEFINE m == produced - base
    <3>1. produced <= base + k
      BY <2>2 DEF RelayEndInv
    <3>2. m \in Slots /\ m <= k
      BY <2>2, <3>1, Constants DEF RelayEndInv, TypeOK, Slots
    <3>3. windows[m] = IDLE
      BY <3>2 DEF RelayEndInv, TypeOK
    <3> QED
      BY <2>2, <3>2, <3>3, Constants DEF Slots, RelayEndInv, TypeOK
  <2>4. dp = [stamp |-> produced % StampMod, data |-> produced]
    <3>1. k \in 0 .. WindowSize /\ base \in Nat /\ stamp = base % StampMod
          /\ base + k = produced
      BY <2>2, <2>3, Constants DEF RelayEndInv, TypeOK, Slots
    <3> QED
      BY <3>1, AdvanceStamp
  <2> HIDE DEF dp
  <2>5. produced \in Nat /\ dp \in Packet
    BY <2>4, StampType DEF Packet, RelayEndInv, TypeOK
  <2>6. TypeOK'
    BY <2>1, <2>2, <2>5 DEF TypeOK, RelayEndInv, receiverVars, IDLE, WAIT_FOR_RES, END
  <2>7. /\ stamp' = base' % StampMod
        /\ base' <= produced' /\ produced' <= base' + WindowSize
    BY <2>1, <2>2, <2>3, Constants DEF RelayEndInv, TypeOK, Slots
  <2>8. ASSUME NEW i \in Slots
        PROVE  /\ windows'[i] = IDLE <=> produced' <= base' + i
               /\ windows'[i] # IDLE => windowsPacket'[i] =
                    [stamp |-> (base' + i) % StampMod, data |-> base' + i]
    <3>0. i \in Nat /\ k \in Nat /\ base \in Nat /\ base + k = produced
      BY <2>2, <2>3, Constants DEF RelayEndInv, TypeOK, Slots
    <3>1. CASE i = k
      <4>1. windows'[i] = WAIT_FOR_RES /\ windowsPacket'[i] = dp
        BY <2>1, <2>2, <3>1 DEF RelayEndInv, TypeOK
      <4>2. base' + i = produced /\ produced' = produced + 1
        BY <2>1, <3>0, <3>1
      <4> QED
        BY <2>4, <2>5, <4>1, <4>2 DEF IDLE, WAIT_FOR_RES
    <3>2. CASE i # k
      <4>1. windows'[i] = windows[i] /\ windowsPacket'[i] = windowsPacket[i]
        BY <2>1, <2>2, <3>2 DEF RelayEndInv, TypeOK
      <4>2. produced <= base + i <=> produced + 1 <= base + i
        BY <3>0, <3>2
      <4> QED
        BY <2>1, <4>1, <4>2 DEF RelayEndInv
    <3> QED
      BY <3>1, <3>2
  <2>9. \A p \in frames' \cup acks' : /\ base' - Lifetime <= p.data
                                      /\ p.data < produced'
                                      /\ p.stamp = p.data % StampMod
    BY <2>1, <2>4, Constants DEF RelayEndInv, TypeOK, Packet
  <2> QED
    BY <2>1, <2>6, <2>7, <2>8, <2>9 DEF RelayEndInv
<1> QED
  BY <1>1, <1>2

(* update() at the relay. *)
LEMMA UpdateRelay ==
  ASSUME RelayEndInv, NEW i \in Slots, Update(i)
  PROVE  RelayEndInv'
<1>1. /\ windowsPacket[i] = [stamp |-> (base + i) % StampMod, data |-> base + i]
      /\ base + i < produced /\ base + i \in Nat /\ i \in Nat
  BY Constants DEF RelayEndInv, TypeOK, Update, Slots, IDLE, WAIT_FOR_RES
<1>2. windowsPacket[i] \in Packet
  BY <1>1, StampType DEF Packet
<1>3. TypeOK'
  BY <1>2 DEF Update, RelayEndInv, TypeOK, senderVars, receiverVars
<1> DEFINE q == windowsPacket[i]
<1>4. /\ q.stamp = q.data % StampMod
      /\ base - Lifetime <= q.data /\ q.data < produced
  BY <1>1, Constants DEF RelayEndInv, TypeOK
<1> HIDE DEF q
<1>5. /\ frames' = frames \cup {q}
      /\ UNCHANGED <<acks, stamp, windows, windowsPacket, produced, base>>
  BY DEF Update, q, senderVars, receiverVars
<1> QED
  BY <1>3, <1>4, <1>5 DEF RelayEndInv

(* recvATK() at the relay. *)
LEMMA RecvATKRelay ==
  ASSUME RelayEndInv, NEW a \in acks, RecvATK(a)
  PROVE  /\ RelayEndInv'
         /\ UNCHANGED <<produced, receiverVars>>
         /\ base <= base'
<1> DEFINE index == ConfirmBorder(stamp, a.stamp)
<1>1. /\ base \in Nat /\ produced \in Nat
      /\ windows \in [Slots -> {IDLE, WAIT_FOR_RES, END}]
      /\ windowsPacket \in [Slots -> Packet \cup {NoPacket}]
  BY DEF RelayEndInv, TypeOK
<1> HIDE DEF index
<1>2. CASE UNCHANGED <<frames, acks, senderVars, receiverVars>> /\ dead' \subseteq Ends
  BY <1>1, <1>2 DEF RelayEndInv, TypeOK, senderVars, receiverVars
<1>3. CASE index \in Slots /\ windows[index] = WAIT_FOR_RES
  <2> DEFINE marked == [windows EXCEPT ![index] = END]
             counter == EndPrefix(marked)
  <2>1. /\ windows' = Slide(marked, counter, IDLE)
        /\ windowsPacket' = Slide(windowsPacket, counter, NoPacket)
        /\ stamp' = Advance(stamp, counter)
        /\ base' = base + counter
        /\ frames' = frames \ Expired(frames, base')
        /\ acks' = acks \ Expired(acks, base')
        /\ UNCHANGED <<dead, produced, receiverVars>>
    BY <1>3, Constants DEF RecvATK, Acknowledge, index, Slots
  <2>2. /\ counter \in 0 .. WindowSize
        /\ \A i \in Slots : i < counter => marked[i] = END
    BY EndPrefixRun
  <2>3. /\ \A i \in Slots : marked[i] = IF i = index THEN END ELSE windows[i]
        /\ marked \in [Slots -> {IDLE, WAIT_FOR_RES, END}]
    BY <1>1, <1>3
  <2> HIDE DEF marked, counter
  <2>4. /\ windows' \in [Slots -> {IDLE, WAIT_FOR_RES, END}]
        /\ windowsPacket' \in [Slots -> Packet \cup {NoPacket}]
    BY <1>1, <2>1, <2>2, <2>3, Constants DEF Slide, Slots
  <2>5. stamp' = base' % StampMod /\ stamp' \in Stamps
    <3>1. stamp = base % StampMod
      BY DEF RelayEndInv
    <3> QED
      BY <1>1, <2>1, <2>2, <3>1, AdvanceStamp
  <2>6. base' \in Nat /\ base <= base'
    BY <1>1, <2>1, <2>2
  <2>7. TypeOK'
    BY <2>1, <2>4, <2>5, <2>6 DEF RelayEndInv, TypeOK, receiverVars
  <2>8. \A i \in Slots :
          /\ marked[i] = IDLE <=> produced <= base + i
          /\ marked[i] # IDLE => windowsPacket[i] =
                [stamp |-> (base + i) % StampMod, data |-> base + i]
    BY <1>3, <2>3 DEF RelayEndInv, IDLE, WAIT_FOR_RES, END
  <2>9. base' <= produced
    <3>1. CASE counter = 0
      BY <1>1, <2>1, <3>1 DEF RelayEndInv
    <3>2. CASE counter > 0
      <4> DEFINE k == counter - 1
      <4>1. k \in Slots /\ k < counter /\ k \in Int /\ counter = k + 1
        BY <2>2, <3>2, Constants DEF Slots
      <4> HIDE DEF k
      <4>2. marked[k] # IDLE
        BY <2>2, <4>1 DEF IDLE, END
      <4>3. ~(produced <= base + k)
        BY <2>8, <4>1, <4>2
      <4> QED
        BY <1>1, <2>1, <4>1, <4>3
    <3> QED
      BY <2>2, <3>1, <3>2
  <2>10. produced' <= base' + WindowSize
    BY <1>1, <2>1, <2>2, Constants DEF RelayEndInv
  <2>11. ASSUME NEW i \in Slots
         PROVE  /\ windows'[i] = IDLE <=> produced' <= base' + i
                /\ windows'[i] # IDLE => windowsPacket'[i] =
                     [stamp |-> (base' + i) % StampMod, data |-> base' + i]
    <3>1. base' + i = base + (i + counter) /\ i \in Nat /\ i < WindowSize
          /\ counter \in Nat
      BY <1>1, <2>1, <2>2, Constants DEF Slots
    <3>2. CASE i + counter < WindowSize
      <4>1. /\ i + counter \in Slots /\ windows'[i] = marked[i + counter]
            /\ windowsPacket'[i] = windowsPacket[i + counter]
        BY <2>1, <2>2, <3>1, <3>2, Constants DEF Slots, Slide
      <4> QED
        BY <2>1, <2>8, <3>1, <4>1
    <3>3. CASE ~(i + counter < WindowSize)
      <4>1. windows'[i] = IDLE
        BY <2>1, <3>3 DEF Slide
      <4>2. produced' <= base' + i
        BY <1>1, <2>1, <3>1, <3>3, Constants DEF RelayEndInv
      <4> QED
        BY <4>1, <4>2
    <3> QED
      BY <3>2, <3>3
  <2>12. ASSUME NEW q \in frames' \cup acks'
         PROVE  /\ base' - Lifetime <= q.data
                /\ q.data < produced'
                /\ q.stamp = q.data % StampMod
    <3>1. q.data \in Nat
      BY <2>7 DEF TypeOK, Packet
    <3>2. ~(q.data < base' - Lifetime) /\ q \in frames \cup acks
      BY <2>1 DEF Expired
    <3> QED
      BY <2>1, <2>6, <3>1, <3>2, Constants DEF RelayEndInv
  <2> QED
    BY <2>1, <2>5, <2>6, <2>7, <2>9, <2>10, <2>11, <2>12 DEF RelayEndInv
<1> QED
  BY <1>2, <1>3 DEF RecvATK, Acknowledge, index, RelayEndInv, TypeOK, Ends, vars, senderVars, receiverVars

(* A frame in flight that was received is found received: recv() ignores it. *)
LEMMA PlacedIsReceived ==
  ASSUME PlaceInv, NEW p \in frames, p.data \in delivered,
         PyConfirmBorder(recvStamp, p.stamp) \in Slots
  PROVE  AlreadyReceived(PyConfirmBorder(recvStamp, p.stamp))
<1> DEFINE index == PyConfirmBorder(recvStamp, p.stamp)
           n == p.data
           x == recvBase + index
<1>1. /\ n \in Nat /\ base \in Nat /\ produced \in Nat /\ recvBase \in Nat
      /\ base - Lifetime <= n /\ n < produced /\ produced <= base + WindowSize
      /\ p.stamp = n % StampMod /\ recvStamp = recvBase % StampMod
  BY DEF PlaceInv, RelayEndInv, RobotEndInv, TypeOK, Packet
<1>2. PICK q \in Nat : PlacedAt(n, q)
  BY <1>1 DEF PlaceInv, RobotEndInv
<1>3. x % StampMod = n % StampMod
  BY <1>1, PyIndexStamp
<1>4. index \in 0 .. WindowSize - 1
  BY DEF Slots
<1> HIDE DEF index
<1>5. x \in Nat /\ recvBase <= x /\ x < recvBase + WindowSize
  BY <1>1, <1>4, Constants
<1> HIDE DEF x, n
<1>6. /\ q % StampMod = n % StampMod
      /\ q < recvBase + WindowSize
      /\ q >= recvBase => recvWindows[q - recvBase] = END
      /\ recvBase <= q + Reach(n)
  BY <1>2 DEF PlacedAt
<1>7. Reach(n) \in Nat /\ Reach(n) <= Lifetime + WindowSize
  BY <1>1, Constants DEF Reach
<1>8. x <= q
  <2>1. x - q < StampMod
    BY <1>1, <1>5, <1>6, <1>7, Constants
  <2>2. x - q < n - n + StampMod
    BY <1>1, <2>1, Constants
  <2>3. x - q <= n - n
    BY <1>1, <1>3, <1>5, <1>6, <2>2, SameStamps
  <2> QED
    BY <1>1, <1>5, <2>3
<1>9. q <= x
  <2>1. q - x < n - n + StampMod
    BY <1>1, <1>5, <1>6, Constants
  <2>2. q - x <= n - n
    BY <1>1, <1>3, <1>5, <1>6, <2>1, SameStamps
  <2> QED
    BY <1>1, <1>5, <2>2
<1>10. q - recvBase = index /\ q >= recvBase
  BY <1>1, <1>4, <1>5, <1>8, <1>9, Constants DEF x
<1>11. AlreadyReceived(index)
  BY <1>4, <1>6, <1>10 DEF AlreadyReceived, Slots
<1> QED
  BY <1>11 DEF index

(* recv() on a frame: the frame is a new one, and gets its place. *)
LEMMA RecvPlaces ==
  ASSUME PlaceInv, WideStamps,
         NEW p \in frames, Recv(p)
  PROVE  /\ PlaceInv'
         /\ buffer' # buffer => buffer' = Append(buffer, p.data) /\ p.data \notin delivered
<1> DEFINE index == PyConfirmBorder(recvStamp, p.stamp)
           m == p.data
           x == recvBase + index
<1>0. /\ m \in Nat /\ base \in Nat /\ produced \in Nat /\ recvBase \in Nat
      /\ base - Lifetime <= m /\ m < produced /\ produced <= base + WindowSize
  BY DEF PlaceInv, RelayEndInv, TypeOK, Packet
<1>1. /\ p \in Packet /\ p.stamp = m % StampMod /\ recvStamp = recvBase % StampMod
      /\ recvWindows \in [Slots -> {IDLE, END}]
      /\ delivered \subseteq Nat /\ buffer \in Seq(Nat)
      /\ acks' = acks \cup {p} /\ UNCHANGED <<frames, senderVars>>
  BY DEF PlaceInv, RelayEndInv, RobotEndInv, TypeOK, Packet, Recv
<1>2. ASSUME TypeOK' PROVE RelayEndInv'
  BY <1>1, <1>2 DEF PlaceInv, RelayEndInv, senderVars
<1>3. CASE UNCHANGED receiverVars /\ dead' \subseteq Ends
  <2>1. TypeOK'
    BY <1>1, <1>3 DEF PlaceInv, RelayEndInv, TypeOK, senderVars, receiverVars
  <2>2. RobotEndInv'
    BY <1>1, <1>3 DEF PlaceInv, RobotEndInv, PlacedAt, Reach, senderVars, receiverVars
  <2> QED
    BY <1>2, <1>3, <2>1, <2>2 DEF PlaceInv, receiverVars
<1>4. CASE index \in Slots /\ ~AlreadyReceived(index)
  <2> DEFINE marked == [recvWindows EXCEPT ![index] = END]
             k == PrunedSlots(marked)
  <2>1. /\ recvWindows' = Slide(marked, k, IDLE)
        /\ recvStamp' = Advance(recvStamp, k)
        /\ recvBase' = recvBase + k
        /\ buffer' = Append(buffer, m)
        /\ delivered' = delivered \cup {m}
        /\ UNCHANGED dead
    BY <1>4 DEF Recv, AlreadyReceived
  <2>0. recvBase' = recvBase + k
    BY <2>1
  <2>2. m \notin delivered
    BY <1>4, PlacedIsReceived
  <2>3. x % StampMod = m % StampMod
    BY <1>0, <1>1, <1>4, PyIndexStamp
  <2>4. /\ k \in 0 .. WindowSize
        /\ \A j \in 0 .. k - 1 : 2 * j \in Slots /\ marked[2 * j] = END
    BY PrunedRun
  <2> HIDE DEF index
  <2>5. /\ index \in Nat /\ index < WindowSize
        /\ x \in Nat /\ recvBase <= x /\ x < recvBase + WindowSize
    BY <1>0, <1>4, Constants DEF Slots
  <2>6. /\ \A i \in Slots : marked[i] = IF i = index THEN END ELSE recvWindows[i]
        /\ marked \in [Slots -> {IDLE, END}]
    BY <1>1, <1>4
  <2> HIDE DEF marked, k
  <2>7. recvStamp' = recvBase' % StampMod /\ recvStamp' \in Stamps /\ recvBase' \in Nat
    BY <1>0, <1>1, <2>1, <2>4, AdvanceStamp
  <2>8. recvWindows' \in [Slots -> {IDLE, END}]
    BY <2>1, <2>4, <2>6, Constants DEF Slide, Slots
  <2>9. TypeOK'
    <3>0. buffer' \in Seq(Nat)
      <4>1. buffer \in Seq(Nat) /\ m \in Nat /\ buffer' = Append(buffer, m)
        BY <1>0, <1>1, <2>1
      <4> HIDE DEF m
      <4> QED
        BY <4>1
    <3>1. delivered' \subseteq Nat
      BY <1>0, <1>1, <2>1
    <3>2. acks' \subseteq Packet
      BY <1>1 DEF PlaceInv, RelayEndInv, TypeOK
    <3> QED
      BY <1>1, <2>1, <2>7, <2>8, <3>0, <3>1, <3>2 DEF PlaceInv, RelayEndInv, TypeOK, senderVars
  <2>10. /\ produced' = produced /\ base' = base
         /\ \A n : Reach(n)' = Reach(n)
    BY <1>1 DEF Reach, senderVars
  <2>11. ASSUME NEW n \in Nat, n < produced, NEW q \in Nat, q % StampMod = n % StampMod,
                recvBase <= q + Reach(n), q < recvBase + WindowSize,
                q >= recvBase => marked[q - recvBase] = END,
                \A i \in Slots : marked[i] = END => recvBase + i < q + Reach(n)
         PROVE  PlacedAt(n, q)'
    <3> DEFINE reach == Reach(n)
    <3>0. reach \in Nat /\ reach >= WindowSize /\ k \in Nat /\ k <= WindowSize
      BY <1>0, <2>4, <2>11, Constants DEF Reach
    <3>9. recvBase <= q + reach /\ q < recvBase + WindowSize /\ q \in Nat
      BY <2>11
    <3> HIDE DEF reach
    <3>1. recvBase' <= q + Reach(n)
      <4>1. CASE k = 0
        BY <1>0, <2>0, <3>0, <3>9, <4>1 DEF reach
      <4>2. CASE k > 0
        <5> DEFINE j == 2 * (k - 1)
        <5>1. j \in Slots /\ marked[j] = END
          BY <2>4, <3>0, <4>2
        <5>2. recvBase + j < q + reach
          BY <2>11, <5>1 DEF reach
        <5>3. recvBase + k <= q + reach
          BY <1>0, <3>0, <3>9, <4>2, <5>2
        <5> QED
          BY <2>0, <5>3 DEF reach
      <4> QED
        BY <3>0, <4>1, <4>2
    <3>2. q < recvBase' + WindowSize
      BY <1>0, <2>0, <3>0, <3>9, Constants
    <3>3. ASSUME q >= recvBase' PROVE recvWindows'[q - recvBase'] = END
      <4> DEFINE i == q - recvBase'
      <4>1. i \in Slots /\ i + k = q - recvBase /\ i + k < WindowSize /\ q >= recvBase
        BY <1>0, <2>0, <3>0, <3>3, <3>9, Constants DEF Slots
      <4> HIDE DEF i
      <4>2. recvWindows'[i] = marked[i + k]
        BY <2>1, <4>1 DEF Slide
      <4> QED
        BY <2>11, <4>1, <4>2 DEF i
    <3>4. ASSUME NEW i \in Slots, recvWindows'[i] = END
          PROVE  recvBase' + i < q + Reach(n)
      <4>1. i + k < WindowSize
        BY <2>1, <3>4 DEF Slide, IDLE, END
      <4>2. i + k \in Slots /\ marked[i + k] = END
        BY <2>1, <3>0, <3>4, <4>1, Constants DEF Slide, Slots
      <4>3. recvBase + (i + k) < q + Reach(n)
        BY <2>11, <4>2
      <4> QED
        BY <1>0, <2>0, <3>0, <4>3, Constants DEF Slots
    <3> QED
      BY <2>10, <2>11, <3>1, <3>2, <3>3, <3>4 DEF PlacedAt
  <2>12. ASSUME NEW y \in Nat, y = x PROVE PlacedAt(p.data, y)'
    <3>1. Reach(m) \in Nat /\ Reach(m) >= WindowSize
      BY <1>0, Constants DEF Reach
    <3>2. x - recvBase = index /\ marked[index] = END
      BY <1>0, <1>4, <2>5, <2>6
    <3> HIDE DEF x, m
    <3>3. \A i \in Slots : recvBase + i < x + Reach(m)
      BY <1>0, <2>5, <3>1, Constants DEF Slots
    <3>4. recvBase <= x + Reach(m) /\ m < produced
      BY <1>0, <2>5, <3>1
    <3> QED
      BY <1>0, <2>3, <2>5, <2>11, <2>12, <3>2, <3>3, <3>4 DEF m
  <2>13. ASSUME NEW n \in delivered, base - Lifetime <= n
         PROVE  \E q \in Nat : PlacedAt(n, q)'
    <3>1. n \in Nat /\ n < produced
      BY <1>1 DEF PlaceInv, RobotEndInv
    <3>2. PICK q \in Nat : PlacedAt(n, q)
      BY <2>13 DEF PlaceInv, RobotEndInv
    <3>3. /\ q % StampMod = n % StampMod
          /\ recvBase <= q + Reach(n)
          /\ q < recvBase + WindowSize
          /\ q >= recvBase => recvWindows[q - recvBase] = END
          /\ \A i \in Slots : recvWindows[i] = END => recvBase + i < q + Reach(n)
      BY <3>2 DEF PlacedAt
    <3> DEFINE reach == Reach(n)
    <3>4. reach \in Nat /\ (reach = WindowSize \/ reach = produced - n) /\ reach >= produced - n
      BY <1>0, <3>1, Constants DEF Reach
    <3>9. recvBase <= q + reach /\ q < recvBase + WindowSize /\ q \in Nat
      BY <3>3
    <3> HIDE DEF x, m, reach
    <3>5. x < q + reach
      <4>1. x - q < m - n + StampMod
        <5>1. x - q <= WindowSize - 1 + reach
          BY <1>0, <2>5, <3>4, <3>9, Constants
        <5>2. CASE reach = produced - n
          BY <1>0, <2>5, <3>1, <3>9, <5>1, <5>2, Constants
        <5>3. CASE reach = WindowSize
          BY <1>0, <2>5, <3>1, <3>9, <5>1, <5>3, Constants DEF WideStamps
        <5> QED
          BY <3>4, <5>2, <5>3
      <4>2. x - q <= m - n
        BY <1>0, <2>3, <2>5, <3>1, <3>3, <4>1, SameStamps
      <4> QED
        BY <1>0, <2>5, <3>1, <3>4, <3>9, <4>2
    <3>6. \A i \in Slots : marked[i] = END => recvBase + i < q + Reach(n)
      BY <2>6, <3>3, <3>5 DEF x, reach
    <3>7. q >= recvBase => marked[q - recvBase] = END
      <4>1. q >= recvBase => q - recvBase \in Slots
        BY <1>0, <3>9, Constants DEF Slots
      <4> QED
        BY <2>6, <3>3, <4>1
    <3> QED
      BY <2>11, <3>1, <3>3, <3>6, <3>7
  <2>14. RobotEndInv'
    <3> HIDE DEF m
    <3>1. ASSUME NEW n \in delivered', base' - Lifetime <= n
          PROVE  \E q \in Nat : PlacedAt(n, q)'
      <4>1. CASE n \in delivered
        BY <2>10, <2>13, <3>1, <4>1
      <4>2. CASE n = m
        BY <2>5, <2>12, <4>2 DEF m
      <4> QED
        BY <2>1, <3>1, <4>1, <4>2
    <3> QED
      BY <1>0, <1>1, <2>1, <2>7, <2>10, <3>1 DEF PlaceInv, RobotEndInv
  <2> QED
    BY <1>2, <2>1, <2>2, <2>9, <2>14 DEF PlaceInv
<1> QED
  BY <1>3, <1>4 DEF Recv, PlaceInv, RelayEndInv, TypeOK, Ends

(* Reach(n) grows with what was produced. *)
LEMMA ReachGrows ==
  ASSUME NEW n \in Nat, NEW a \in Nat, NEW b \in Nat, n < a, a <= b
  PROVE  LET reach(c) == IF c - n > WindowSize THEN c - n ELSE WindowSize
         IN  reach(a) \in Nat /\ reach(b) \in Nat /\ reach(a) <= reach(b)
  BY Constants

(* Every step of the hop keeps the places; a frame appended to recvBuffer   *)
(* was not there before.                                                    *)
LEMMA PlaceStep ==
  ASSUME PlaceInv, WideStamps, [DownNext]_downVars
  PROVE  /\ PlaceInv'
         /\ \A n \in Nat : buffer' = Append(buffer, n) => n \notin delivered
<1>1. /\ base \in Nat /\ produced \in Nat /\ delivered \subseteq Nat /\ buffer \in Seq(Nat)
  BY DEF PlaceInv, RelayEndInv, TypeOK
<1>2. \A n \in Nat : Append(buffer, n) # buffer /\ (buffer # <<>> => Append(buffer, n) # Tail(buffer))
  <2> SUFFICES ASSUME NEW n \in Nat
               PROVE  Append(buffer, n) # buffer /\ (buffer # <<>> => Append(buffer, n) # Tail(buffer))
    OBVIOUS
  <2>1. Len(Append(buffer, n)) = Len(buffer) + 1 /\ Len(buffer) \in Nat
    BY <1>1
  <2>2. buffer # <<>> => Len(Tail(buffer)) = Len(buffer) - 1
    BY <1>1
  <2> QED
    BY <2>1, <2>2
<1>3. ASSUME RelayEndInv', UNCHANGED <<recvStamp, recvWindows, recvBase, delivered>>,
             base <= base', produced' \in {produced, produced + 1}
      PROVE  PlaceInv'
  <2>1. base' \in Nat /\ produced' \in Nat /\ produced <= produced'
    BY <1>1, <1>3 DEF RelayEndInv, TypeOK
  <2>2. ASSUME NEW n \in Nat, n < produced, NEW q \in Nat, PlacedAt(n, q)
        PROVE  PlacedAt(n, q)'
    <3>0. produced \in Nat /\ produced' \in Nat /\ produced <= produced'
      BY <1>1, <2>1
    <3>1. Reach(n) \in Nat /\ Reach(n)' \in Nat /\ Reach(n) <= Reach(n)'
      BY <2>2, <3>0, ReachGrows DEF Reach
    <3>2. recvBase \in Nat
      BY DEF PlaceInv, RelayEndInv, TypeOK
    <3>3. recvBase <= q + Reach(n)'
      BY <2>2, <3>1, <3>2 DEF PlacedAt
    <3>4. ASSUME NEW i \in Slots, recvWindows[i] = END
          PROVE  recvBase + i < q + Reach(n)'
      <4>1. recvBase + i < q + Reach(n) /\ i \in Nat
        BY <2>2, <3>4, Constants DEF PlacedAt, Slots
      <4> QED
        BY <3>1, <3>2, <4>1
    <3> QED
      BY <1>3, <2>2, <3>3, <3>4 DEF PlacedAt
  <2>3. ASSUME NEW n \in Nat, n \in delivered', base' - Lifetime <= n
        PROVE  \E q \in Nat : PlacedAt(n, q)'
    <3>1. n \in delivered /\ n \in Nat /\ n < produced /\ base - Lifetime <= n
      <4>1. n \in delivered /\ n \in Nat /\ n < produced
        BY <1>1, <1>3, <2>3 DEF PlaceInv, RobotEndInv
      <4>2. base \in Nat /\ base' \in Nat /\ base <= base' /\ base' - Lifetime <= n
        BY <1>1, <1>3, <2>1, <2>3
      <4>3. base - Lifetime <= n
        <5>1. \A b, c, l \in Nat : b <= c /\ c - l <= n => b - l <= n
          OBVIOUS
        <5> QED
          BY <4>2, <5>1, Constants
      <4> QED
        BY <4>1, <4>3
    <3> QED
      BY <2>2, <3>1 DEF PlaceInv, RobotEndInv
  <2>4. \A n \in delivered' : n < produced'
    BY <1>1, <1>3, <2>1 DEF PlaceInv, RobotEndInv
  <2> QED
    BY <1>1, <1>3, <2>3, <2>4 DEF PlaceInv, RobotEndInv
<1>4. CASE PktData
  BY <1>1, <1>2, <1>3, <1>4, PktDataRelay DEF PlaceInv, receiverVars
<1>5. ASSUME NEW i \in Slots, Update(i)
      PROVE  PlaceInv' /\ buffer' = buffer
  BY <1>1, <1>3, <1>5, UpdateRelay DEF Update, PlaceInv, senderVars, receiverVars
<1>6. ASSUME NEW a \in acks, RecvATK(a)
      PROVE  PlaceInv' /\ buffer' = buffer
  BY <1>1, <1>3, <1>6, RecvATKRelay DEF PlaceInv, receiverVars
<1>7. ASSUME NEW p \in frames, Recv(p), NEW n \in Nat, buffer' = Append(buffer, n)
      PROVE  n \notin delivered
  <2>1. buffer' = Append(buffer, p.data) /\ p.data \notin delivered
    BY <1>2, <1>7, RecvPlaces
  <2>2. p.data \in Nat
    BY DEF PlaceInv, RelayEndInv, TypeOK, Packet
  <2>3. n = p.data
    <3> DEFINE d == p.data
    <3>1. d \in Nat /\ Append(buffer, n) = Append(buffer, d)
      BY <1>7, <2>1, <2>2
    <3> HIDE DEF d
    <3>2. Append(buffer, d)[Len(buffer) + 1] = d /\ Append(buffer, n)[Len(buffer) + 1] = n
      BY <1>1, <3>1
    <3>3. n = d
      BY <3>1, <3>2
    <3> QED
      BY <3>3 DEF d
  <2> QED
    BY <2>1, <2>3
<1>8. CASE GetData
  <2>1. /\ buffer # <<>> /\ buffer' = Tail(buffer)
        /\ UNCHANGED <<recvStamp, recvWindows, recvBase, delivered, frames, acks, dead, senderVars>>
    BY <1>8 DEF GetData
  <2>2. buffer' \in Seq(Nat)
    BY <1>1, <2>1
  <2>3. RelayEndInv'
    BY <2>1, <2>2 DEF PlaceInv, RelayEndInv, TypeOK, senderVars
  <2> QED
    BY <1>1, <1>2, <1>3, <2>1, <2>3 DEF senderVars
<1>9. ASSUME \/ \E p \in frames : LoseFrame(p)
             \/ \E a \in acks : LoseAck(a)
      PROVE  PlaceInv' /\ buffer' = buffer
  <2>1. /\ frames' \subseteq frames /\ acks' \subseteq acks
        /\ UNCHANGED <<dead, senderVars, receiverVars>>
    BY <1>9 DEF LoseFrame, LoseAck
  <2>2. RelayEndInv'
    BY <2>1 DEF PlaceInv, RelayEndInv, TypeOK, senderVars, receiverVars
  <2> QED
    BY <1>1, <1>3, <2>1, <2>2 DEF senderVars, receiverVars
<1>10. CASE UNCHANGED downVars
  <2>1. RelayEndInv'
    BY <1>10 DEF PlaceInv, RelayEndInv, TypeOK, downVars, vars
  <2> QED
    BY <1>1, <1>2, <1>3, <1>10, <2>1 DEF downVars, vars
<1>11. ASSUME NEW p \in frames, Recv(p) PROVE PlaceInv'
  BY <1>11, RecvPlaces
<1> QED
  BY <1>2, <1>4, <1>5, <1>6, <1>7, <1>8, <1>9, <1>10, <1>11 DEF DownNext

(* Whatever overtakes whatever, recv() puts no frame into recvBuffer twice, *)
(* although its loop may leave the window laps behind the relay's.          *)
THEOREM DownlinkAtMostOnce == WideStamps => (DownSpec => RobotAtMostOnce)
<1> SUFFICES ASSUME WideStamps
             PROVE  DownSpec => RobotAtMostOnce
  OBVIOUS
<1> DEFINE Once == \A n \in 0 .. MaxFrame - 1 :
                     buffer' = Append(buffer, n) => n \notin delivered
<1>1. DownInit => PlaceInv
  <2> SUFFICES ASSUME DownInit PROVE PlaceInv
    OBVIOUS
  <2>1. LinkInv /\ delivered = {}
    BY LinkInit DEF DownInit, Init
  <2> QED
    BY <2>1 DEF LinkInv, SenderInv, ReceiverInv, NetworkInv, PlaceInv, RelayEndInv, RobotEndInv
<1>2. PlaceInv /\ [DownNext]_downVars => PlaceInv'
  BY PlaceStep
<1>3. PlaceInv /\ [DownNext]_downVars => [Once]_downVars
  <2> SUFFICES ASSUME PlaceInv, [DownNext]_downVars, NEW n \in 0 .. MaxFrame - 1,
                      buffer' = Append(buffer, n)
               PROVE  n \notin delivered
    BY DEF Once
  <2>1. n \in Nat
    BY Constants
  <2> QED
    BY <2>1, PlaceStep
<1> QED
  BY <1>1, <1>2, <1>3, PTL DEF DownSpec, RobotAtMostOnce
=============================================================================
