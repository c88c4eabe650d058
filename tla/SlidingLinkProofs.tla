------------------------- MODULE SlidingLinkProofs -------------------------
(***************************************************************************)
(* The hop of SlidingLink keeps LinkInv for every window size, stamp       *)
(* modulus, datagram lifetime and number of frames with                    *)
(* Lifetime + 2 * WindowSize < StampMod, and therefore never aliases a      *)
(* stamp, never forgets an undelivered frame, never loses a receive thread  *)
(* and implements FrameDelivery.                                            *)
(***************************************************************************)
EXTENDS SlidingLink, WindowOpsProofs

(* The constants, in the form the steps below use them. *)
LEMMA Constants ==
  /\ WindowSize \in Nat /\ WindowSize > 0
  /\ StampMod \in Nat \ {0}
  /\ Lifetime \in Nat
  /\ MaxFrame \in Nat
  /\ Lifetime + 2 * WindowSize < StampMod
  /\ 0 \in Slots
  BY WindowAssumption, LinkAssumption DEF Slots

(* The stamp of a frame is a stamp. *)
LEMMA StampType ==
  ASSUME NEW n \in Nat
  PROVE  n % StampMod \in Stamps
  BY Constants, DivMod DEF Stamps

(* What a datagram in flight means at the receiver: confirmBorder() gives   *)
(* its slot, or -1 when the window has moved past it.                       *)
LEMMA FrameIndex ==
  ASSUME LinkInv, NEW p \in frames
  PROVE  /\ p.data \in Nat
         /\ ConfirmBorder(recvStamp, p.stamp) =
              IF recvBase <= p.data THEN p.data - recvBase ELSE -1
         /\ p.data < recvBase + WindowSize
<1>1. /\ p.data \in Nat /\ base \in Nat /\ recvBase \in Nat /\ produced \in Nat
      /\ p.stamp = p.data % StampMod /\ recvStamp = recvBase % StampMod
      /\ base - Lifetime <= p.data /\ p.data < produced
      /\ base <= recvBase /\ recvBase <= produced /\ produced <= base + WindowSize
  BY DEF LinkInv, TypeOK, SenderInv, ReceiverInv, NetworkInv, Packet
<1>2. recvBase + WindowSize < p.data + StampMod /\ p.data < recvBase + WindowSize
  BY <1>1, Constants
<1> QED
  BY <1>1, <1>2, ConfirmBorderExact

(* The same for an acknowledgement at the sender. *)
LEMMA AckIndex ==
  ASSUME LinkInv, NEW a \in acks
  PROVE  /\ a.data \in Nat
         /\ ConfirmBorder(stamp, a.stamp) =
              IF base <= a.data THEN a.data - base ELSE -1
         /\ a.data < base + WindowSize
<1>1. /\ a.data \in Nat /\ base \in Nat /\ produced \in Nat
      /\ a.stamp = a.data % StampMod /\ stamp = base % StampMod
      /\ base - Lifetime <= a.data /\ a.data < produced
      /\ produced <= base + WindowSize
  BY DEF LinkInv, TypeOK, SenderInv, NetworkInv, Packet
<1>2. base + WindowSize < a.data + StampMod /\ a.data < base + WindowSize
  BY <1>1, Constants
<1> QED
  BY <1>1, <1>2, ConfirmBorderExact

(* The initial state satisfies the inductive invariant. *)
LEMMA LinkInit == Init => LinkInv
<1> SUFFICES ASSUME Init PROVE LinkInv
  OBVIOUS
<1>1. 0 % StampMod = 0
  BY Constants, SmallMod
<1>2. TypeOK
  BY Constants DEF Init, TypeOK, Fresh, Stamps, IDLE, WAIT_FOR_RES, END
<1>3. SenderInv
  BY Constants, <1>1 DEF Init, SenderInv, Fresh, Slots, IDLE, END
<1>4. ReceiverInv
  BY Constants, <1>1 DEF Init, ReceiverInv, Fresh, IDLE, END
<1>5. NetworkInv
  BY DEF Init, NetworkInv
<1> QED
  BY <1>2, <1>3, <1>4, <1>5 DEF LinkInv, Init

(* pktData() preserves the invariant. *)
LEMMA PktDataInv == LinkInv /\ PktData => LinkInv'
<1> SUFFICES ASSUME LinkInv, PktData PROVE LinkInv'
  OBVIOUS
<1>1. CASE ~HaveIdle(windows)
  <2>1. UNCHANGED vars
    BY <1>1 DEF PktData
  <2> QED
    BY <2>1 DEF vars, LinkInv, TypeOK, SenderInv, ReceiverInv, NetworkInv
<1>2. CASE HaveIdle(windows)
  <2> DEFINE k == FirstIdle(windows)
             dp == [stamp |-> Advance(stamp, k), data |-> produced]
  <2>1. /\ windowsPacket' = [windowsPacket EXCEPT ![k] = dp]
        /\ windows' = [windows EXCEPT ![k] = WAIT_FOR_RES]
        /\ frames' = frames \cup {dp}
        /\ produced' = produced + 1
        /\ UNCHANGED <<stamp, base, acks, dead, receiverVars>>
    BY <1>2 DEF PktData, vars
  <2>2. /\ k \in Slots /\ windows[k] = IDLE
        /\ \A j \in Slots : windows[j] = IDLE => k <= j
    BY <1>2, FirstIdleSlot
  <2> HIDE DEF k
  <2>3. k = produced - base
    <3> DEFINE m == produced - base
    <3>1. produced <= base + k
      BY <2>2 DEF LinkInv, SenderInv
    <3>2. m \in Slots /\ m <= k
      BY <2>2, <3>1, Constants DEF LinkInv, SenderInv, TypeOK, Slots
    <3>3. windows[m] = IDLE
      BY <3>2 DEF LinkInv, SenderInv, TypeOK
    <3> QED
      BY <2>2, <3>2, <3>3, Constants DEF Slots, LinkInv, TypeOK
  <2>4. dp = [stamp |-> produced % StampMod, data |-> produced]
    <3>1. k \in 0 .. WindowSize /\ base \in Nat /\ stamp = base % StampMod
          /\ base + k = produced
      BY <2>2, <2>3, Constants DEF LinkInv, SenderInv, TypeOK, Slots
    <3> QED
      BY <3>1, AdvanceStamp
  <2> HIDE DEF dp
  <2>5. produced \in Nat /\ dp \in Packet
    BY <2>4, StampType DEF Packet, LinkInv, TypeOK
  <2>6. TypeOK'
    BY <2>1, <2>2, <2>5 DEF TypeOK, LinkInv, receiverVars, IDLE, WAIT_FOR_RES, END
  <2>7. SenderInv'
    <3>1. /\ stamp' = base' % StampMod
          /\ base' <= produced' /\ produced' <= base' + WindowSize
      BY <2>1, <2>2, <2>3, Constants DEF SenderInv, LinkInv, TypeOK, Slots
    <3>2. ASSUME NEW i \in Slots
          PROVE  /\ windows'[i] = IDLE <=> produced' <= base' + i
                 /\ windows'[i] # IDLE => windowsPacket'[i] =
                      [stamp |-> (base' + i) % StampMod, data |-> base' + i]
                 /\ windows'[i] = END => base' + i \in delivered'
      <4>0. i \in Nat /\ k \in Nat /\ base \in Nat /\ base + k = produced
        BY <2>2, <2>3, Constants DEF LinkInv, TypeOK, Slots
      <4>1. CASE i = k
        <5>1. windows'[i] = WAIT_FOR_RES /\ windowsPacket'[i] = dp
          BY <2>1, <2>2, <4>1 DEF LinkInv, TypeOK
        <5>2. base' + i = produced /\ produced' = produced + 1
          BY <2>1, <4>0, <4>1
        <5> QED
          BY <2>4, <2>5, <5>1, <5>2 DEF IDLE, WAIT_FOR_RES, END
      <4>2. CASE i # k
        <5>1. windows'[i] = windows[i] /\ windowsPacket'[i] = windowsPacket[i]
          BY <2>1, <2>2, <4>2 DEF LinkInv, TypeOK
        <5>2. produced <= base + i <=> produced + 1 <= base + i
          BY <4>0, <4>2
        <5> QED
          BY <2>1, <5>1, <5>2 DEF LinkInv, SenderInv, receiverVars
      <4> QED
        BY <4>1, <4>2
    <3> QED
      BY <3>1, <3>2 DEF SenderInv
  <2>8. ReceiverInv'
    BY <2>1 DEF ReceiverInv, LinkInv, TypeOK, receiverVars
  <2>9. NetworkInv'
    BY <2>1, <2>4, Constants
       DEF NetworkInv, SenderInv, LinkInv, TypeOK, Packet, receiverVars
  <2> QED
    BY <2>1, <2>6, <2>7, <2>8, <2>9 DEF LinkInv
<1> QED
  BY <1>1, <1>2

(* update() preserves the invariant. *)
LEMMA UpdateInv ==
  ASSUME LinkInv, NEW i \in Slots, Update(i)
  PROVE  LinkInv'
<1>1. /\ windowsPacket[i] = [stamp |-> (base + i) % StampMod, data |-> base + i]
      /\ base + i < produced /\ base + i \in Nat /\ i \in Nat
  BY Constants DEF LinkInv, SenderInv, TypeOK, Update, Slots, IDLE, WAIT_FOR_RES
<1>2. windowsPacket[i] \in Packet
  BY <1>1, StampType DEF Packet
<1>3. TypeOK'
  BY <1>2 DEF Update, LinkInv, TypeOK, senderVars, receiverVars
<1>4. SenderInv' /\ ReceiverInv'
  BY DEF Update, LinkInv, SenderInv, ReceiverInv, senderVars, receiverVars
<1> DEFINE q == windowsPacket[i]
<1>5. /\ q.stamp = q.data % StampMod
      /\ base - Lifetime <= q.data /\ q.data < produced
  BY <1>1, Constants DEF LinkInv, TypeOK
<1> HIDE DEF q
<1>6. frames' = frames \cup {q} /\ UNCHANGED <<acks, produced, base, delivered>>
  BY DEF Update, q, senderVars, receiverVars
<1>7. NetworkInv'
  BY <1>5, <1>6 DEF LinkInv, NetworkInv
<1> QED
  BY <1>3, <1>4, <1>7 DEF LinkInv, Update

(* The frames received by a receiver whose window w starts at frame r. *)
Received(r, w) ==
  (0 .. r - 1) \cup {r + i : i \in {j \in Slots : w[j] = END}}

LEMMA ReceivedSet ==
  ASSUME NEW r \in Nat, NEW w
  PROVE  /\ Received(r, w) \subseteq Nat
         /\ \A n \in Nat : n \in Received(r, w) <=>
              n < r \/ \E i \in Slots : n = r + i /\ w[i] = END
<1>1. Slots \subseteq Nat
  BY Constants DEF Slots
<1>2. Received(r, w) \subseteq Nat
  <2>1. \A i \in Slots : r + i \in Nat
    BY <1>1
  <2>2. 0 .. r - 1 \subseteq Nat
    OBVIOUS
  <2> QED
    BY <2>1, <2>2, Zenon DEF Received
<1>3. ASSUME NEW n \in Nat
      PROVE  n \in 0 .. r - 1 <=> n < r
  OBVIOUS
<1>4. ASSUME NEW n \in Nat
      PROVE  n \in {r + i : i \in {j \in Slots : w[j] = END}} <=>
               \E i \in Slots : n = r + i /\ w[i] = END
  BY Zenon
<1> QED
  BY <1>2, <1>3, <1>4, Zenon DEF Received

(* unpktData() preserves the invariant; the exception is never thrown. *)
LEMMA UnpktDataInv ==
  ASSUME LinkInv, NEW p \in frames, UnpktData(p)
  PROVE  LinkInv'
<1> DEFINE index == ConfirmBorder(recvStamp, p.stamp)
<1>1. /\ p.data \in Nat
      /\ index = IF recvBase <= p.data THEN p.data - recvBase ELSE -1
      /\ p.data < recvBase + WindowSize
  BY FrameIndex
<1>2. /\ frames' = frames /\ acks' = acks \cup {p}
      /\ UNCHANGED senderVars
  BY DEF UnpktData
<1>3. /\ p \in Packet /\ p.stamp = p.data % StampMod
      /\ base - Lifetime <= p.data /\ p.data < produced
  BY DEF LinkInv, TypeOK, NetworkInv
<1>4. /\ recvBase \in Nat /\ base \in Nat /\ produced \in Nat /\ dead = {}
      /\ recvWindows \in [Slots -> {IDLE, END}]
      /\ delivered \subseteq Nat
  BY DEF LinkInv, TypeOK
<1>5. index \in Slots \cup {-1}
  BY <1>1, <1>4, Constants DEF Slots
<1> HIDE DEF index
<1>6. CASE index = -1 \/ (index \in Slots /\ recvWindows[index] = END)
  <2>1. UNCHANGED <<dead, receiverVars>>
    BY <1>4, <1>5, <1>6, Constants DEF UnpktData, AlreadyReceived, index, Slots
  <2>2. p.data \in delivered
    <3>1. CASE index = -1
      BY <1>1, <1>4, <3>1, Constants DEF LinkInv, ReceiverInv
    <3>2. CASE index \in Slots /\ recvWindows[index] = END
      <4>1. p.data = recvBase + index
        BY <1>1, <1>4, <3>2, Constants DEF Slots
      <4> QED
        BY <3>2, <4>1 DEF LinkInv, ReceiverInv
    <3> QED
      BY <1>6, <3>1, <3>2
  <2>3. TypeOK'
    BY <1>2, <1>3, <2>1 DEF LinkInv, TypeOK, senderVars, receiverVars
  <2>4. SenderInv' /\ ReceiverInv'
    BY <1>2, <2>1 DEF LinkInv, SenderInv, ReceiverInv, senderVars, receiverVars
  <2>5. NetworkInv'
    BY <1>2, <1>3, <2>1, <2>2 DEF LinkInv, NetworkInv, senderVars, receiverVars
  <2> QED
    BY <1>4, <2>1, <2>3, <2>4, <2>5 DEF LinkInv
<1>7. CASE index \in Slots /\ recvWindows[index] # END
  <2> DEFINE marked == [recvWindows EXCEPT ![index] = END]
             counter == EndPrefix(marked)
  <2>1. /\ recvWindows' = Slide(marked, counter, IDLE)
        /\ recvStamp' = Advance(recvStamp, counter)
        /\ recvBase' = recvBase + counter
        /\ buffer' = Append(buffer, p.data)
        /\ delivered' = delivered \cup {p.data}
        /\ UNCHANGED dead
    BY <1>7, Constants DEF UnpktData, AlreadyReceived, index, Slots
  <2>2. /\ counter \in 0 .. WindowSize
        /\ \A i \in Slots : i < counter => marked[i] = END
        /\ counter \in Slots => marked[counter] # END
    BY EndPrefixRun
  <2>3. /\ \A i \in Slots : marked[i] = IF i = index THEN END ELSE recvWindows[i]
        /\ marked \in [Slots -> {IDLE, END}]
    BY <1>4, <1>7
  <2> HIDE DEF marked, counter
  <2>4. p.data = recvBase + index
    BY <1>1, <1>4, <1>7, Constants DEF Slots
  <2>5. recvWindows' \in [Slots -> {IDLE, END}]
    BY <2>1, <2>2, <2>3, Constants DEF Slide, Slots
  <2>6. recvStamp' = recvBase' % StampMod /\ recvStamp' \in Stamps
    <3>1. recvStamp = recvBase % StampMod
      BY DEF LinkInv, ReceiverInv
    <3> QED
      BY <1>4, <2>1, <2>2, <3>1, AdvanceStamp
  <2>7. TypeOK'
    <3>1. buffer' \in Seq(Nat)
      <4>1. buffer \in Seq(Nat)
        BY DEF LinkInv, TypeOK
      <4> QED
        BY <1>1, <2>1, <4>1
    <3>2. delivered' \subseteq Nat
      BY <1>1, <1>4, <2>1
    <3>3. recvBase' \in Nat
      BY <1>4, <2>1, <2>2
    <3>4. acks' \subseteq Packet /\ dead' \subseteq Ends
      BY <1>2, <1>3, <2>1 DEF LinkInv, TypeOK
    <3> QED
      BY <1>2, <2>5, <2>6, <3>1, <3>2, <3>3, <3>4 DEF LinkInv, TypeOK, senderVars
  <2>8. recvWindows'[0] # END
    BY <2>1, <2>2, <2>3, Constants DEF Slide, Slots, IDLE, END
  <2>9. \A n \in Nat : n \in delivered' <=>
           n < recvBase' \/ \E i \in Slots : n = recvBase' + i /\ recvWindows'[i] = END
    <3> SUFFICES ASSUME NEW n \in Nat
                 PROVE  n \in delivered' <=>
                          \/ n < recvBase'
                          \/ \E i \in Slots : n = recvBase' + i /\ recvWindows'[i] = END
      OBVIOUS
    <3>1. n \in delivered' <=>
             n < recvBase \/ \E j \in Slots : n = recvBase + j /\ marked[j] = END
      <4>1. n \in delivered <=>
              n < recvBase \/ \E j \in Slots : n = recvBase + j /\ recvWindows[j] = END
        BY <1>4 DEF LinkInv, ReceiverInv
      <4> QED
        BY <1>4, <1>7, <2>1, <2>3, <2>4, <4>1 DEF Slots
    <3>2. (\E j \in Slots : n = recvBase + j /\ marked[j] = END)
            => \/ n < recvBase'
               \/ \E i \in Slots : n = recvBase' + i /\ recvWindows'[i] = END
      <4> SUFFICES ASSUME NEW j \in Slots, n = recvBase + j, marked[j] = END,
                          ~(n < recvBase')
                   PROVE  \E i \in Slots : n = recvBase' + i /\ recvWindows'[i] = END
        OBVIOUS
      <4>0. recvBase' = recvBase + counter /\ counter \in Int /\ j \in Int
        BY <2>1, <2>2, Constants DEF Slots
      <4>1. /\ j - counter \in Slots /\ n = recvBase' + (j - counter)
            /\ (j - counter) + counter = j
        BY <1>4, <2>2, <4>0, Constants DEF Slots
      <4>2. recvWindows'[j - counter] = END
        BY <2>1, <4>1, Constants DEF Slide, Slots
      <4> QED
        BY <4>1, <4>2
    <3>3. n < recvBase' =>
            n < recvBase \/ \E j \in Slots : n = recvBase + j /\ marked[j] = END
      <4> SUFFICES ASSUME n < recvBase', ~(n < recvBase)
                   PROVE  \E j \in Slots : n = recvBase + j /\ marked[j] = END
        OBVIOUS
      <4>1. /\ n - recvBase \in Slots /\ n - recvBase < counter
            /\ n = recvBase + (n - recvBase)
        BY <1>4, <2>1, <2>2, Constants DEF Slots
      <4> QED
        BY <2>2, <4>1
    <3>4. (\E i \in Slots : n = recvBase' + i /\ recvWindows'[i] = END) =>
            n < recvBase \/ \E j \in Slots : n = recvBase + j /\ marked[j] = END
      <4> SUFFICES ASSUME NEW i \in Slots, n = recvBase' + i, recvWindows'[i] = END
                   PROVE  \E j \in Slots : n = recvBase + j /\ marked[j] = END
        OBVIOUS
      <4>1. i + counter \in Slots /\ marked[i + counter] = END
        BY <2>1, <2>2, Constants DEF Slide, Slots, IDLE, END
      <4>2. n = recvBase + (i + counter)
        BY <1>4, <2>1, <2>2, <4>1, Constants DEF Slots
      <4> QED
        BY <4>1, <4>2
    <3>5. n < recvBase => n < recvBase'
      BY <1>4, <2>1, <2>2
    <3> QED
      BY <3>1, <3>2, <3>3, <3>4, <3>5
  <2>10. delivered' = (0 .. recvBase' - 1) \cup
                 {recvBase' + i : i \in {j \in Slots : recvWindows'[j] = END}}
    <3>1. delivered' \subseteq Nat /\ recvBase' \in Nat /\ Slots \subseteq Nat
      BY <2>7, Constants DEF TypeOK, Slots
    <3> DEFINE R == Received(recvBase', recvWindows')
    <3>2. /\ R \subseteq Nat
          /\ \A n \in Nat : n \in R <=>
               n < recvBase' \/ \E i \in Slots : n = recvBase' + i /\ recvWindows'[i] = END
      BY <3>1, ReceivedSet, Zenon
    <3> HIDE DEF R
    <3>3. delivered' = R
      BY <2>9, <3>1, <3>2, Zenon
    <3> QED
      BY <3>3 DEF R, Received
  <2>11. \A n \in delivered' : n < produced'
    BY <1>2, <1>3, <2>1 DEF LinkInv, ReceiverInv, senderVars
  <2>12. base' <= recvBase' /\ recvBase' <= produced'
    <3>1. recvBase <= recvBase' /\ base <= recvBase /\ recvBase <= produced
      BY <1>4, <2>1, <2>2 DEF LinkInv, ReceiverInv
    <3>2. CASE counter = 0
      BY <1>2, <1>4, <2>1, <3>1, <3>2 DEF senderVars
    <3>3. CASE counter > 0
      <4>1. recvBase' - 1 \in Nat /\ recvBase' - 1 < recvBase'
        BY <1>4, <2>1, <2>2, <3>3
      <4>2. recvBase' - 1 < produced'
        BY <2>9, <2>11, <4>1
      <4> QED
        BY <1>2, <1>4, <2>1, <2>2, <3>1, <4>2 DEF senderVars
    <3> QED
      BY <2>2, <3>2, <3>3
  <2>13. ReceiverInv'
    BY <2>6, <2>8, <2>10, <2>11, <2>12 DEF ReceiverInv
  <2>14. SenderInv'
    BY <1>2, <2>1 DEF LinkInv, SenderInv, senderVars
  <2>15. NetworkInv'
    BY <1>2, <1>3, <2>1 DEF LinkInv, NetworkInv, senderVars
  <2> QED
    BY <1>4, <2>1, <2>7, <2>13, <2>14, <2>15 DEF LinkInv
<1> QED
  BY <1>5, <1>6, <1>7

(* recvATK() preserves the invariant; the exception is never thrown. *)
LEMMA RecvATKInv ==
  ASSUME LinkInv, NEW a \in acks, RecvATK(a)
  PROVE  LinkInv'
<1> DEFINE index == ConfirmBorder(stamp, a.stamp)
<1>1. /\ a.data \in Nat
      /\ index = IF base <= a.data THEN a.data - base ELSE -1
      /\ a.data < base + WindowSize
  BY AckIndex
<1>2. /\ recvBase \in Nat /\ base \in Nat /\ produced \in Nat /\ dead = {}
      /\ windows \in [Slots -> {IDLE, WAIT_FOR_RES, END}]
      /\ windowsPacket \in [Slots -> Packet \cup {NoPacket}]
      /\ delivered \subseteq Nat
  BY DEF LinkInv, TypeOK
<1>3. index \in Slots \cup {-1}
  BY <1>1, <1>2, Constants DEF Slots
<1>4. a.data \in delivered
  BY DEF LinkInv, NetworkInv
<1> HIDE DEF index
<1>5. CASE index = -1 \/ (index \in Slots /\ windows[index] # WAIT_FOR_RES)
  <2>1. UNCHANGED vars
    BY <1>3, <1>5, Constants DEF RecvATK, Acknowledge, index, Slots
  <2> QED
    BY <2>1 DEF vars, LinkInv, TypeOK, SenderInv, ReceiverInv, NetworkInv
<1>6. CASE index \in Slots /\ windows[index] = WAIT_FOR_RES
  <2> DEFINE marked == [windows EXCEPT ![index] = END]
             counter == EndPrefix(marked)
  <2>1. /\ windows' = Slide(marked, counter, IDLE)
        /\ windowsPacket' = Slide(windowsPacket, counter, NoPacket)
        /\ stamp' = Advance(stamp, counter)
        /\ base' = base + counter
        /\ frames' = frames \ Expired(frames, base')
        /\ acks' = acks \ Expired(acks, base')
        /\ UNCHANGED <<dead, produced, receiverVars>>
    BY <1>6, Constants DEF RecvATK, Acknowledge, index, Slots
  <2>2. /\ counter \in 0 .. WindowSize
        /\ \A i \in Slots : i < counter => marked[i] = END
        /\ counter \in Slots => marked[counter] # END
    BY EndPrefixRun
  <2>3. /\ \A i \in Slots : marked[i] = IF i = index THEN END ELSE windows[i]
        /\ marked \in [Slots -> {IDLE, WAIT_FOR_RES, END}]
    BY <1>2, <1>6
  <2> HIDE DEF marked, counter
  <2>4. a.data = base + index
    BY <1>1, <1>2, <1>6, Constants DEF Slots
  <2>5. /\ windows' \in [Slots -> {IDLE, WAIT_FOR_RES, END}]
        /\ windowsPacket' \in [Slots -> Packet \cup {NoPacket}]
    BY <1>2, <2>1, <2>2, <2>3, Constants DEF Slide, Slots
  <2>6. stamp' = base' % StampMod /\ stamp' \in Stamps
    <3>1. stamp = base % StampMod
      BY DEF LinkInv, SenderInv
    <3> QED
      BY <1>2, <2>1, <2>2, <3>1, AdvanceStamp
  <2>7. base' \in Nat
    BY <1>2, <2>1, <2>2
  <2>8. TypeOK'
    BY <2>1, <2>5, <2>6, <2>7 DEF LinkInv, TypeOK, receiverVars
  <2>9. \A i \in Slots :
          /\ marked[i] = IDLE <=> produced <= base + i
          /\ marked[i] # IDLE => windowsPacket[i] =
                [stamp |-> (base + i) % StampMod, data |-> base + i]
          /\ marked[i] = END => base + i \in delivered
    BY <1>4, <1>6, <2>3, <2>4
       DEF LinkInv, SenderInv, IDLE, WAIT_FOR_RES, END
  <2>10. base' <= produced
    <3>1. CASE counter = 0
      BY <1>2, <2>1, <3>1 DEF LinkInv, SenderInv
    <3>2. CASE counter > 0
      <4> DEFINE k == counter - 1
      <4>1. k \in Slots /\ k < counter /\ k \in Int /\ counter = k + 1
        BY <2>2, <3>2, Constants DEF Slots
      <4> HIDE DEF k
      <4>2. marked[k] # IDLE
        BY <2>2, <4>1 DEF IDLE, END
      <4>3. ~(produced <= base + k)
        BY <2>9, <4>1, <4>2
      <4> QED
        BY <1>2, <2>1, <4>1, <4>3
    <3> QED
      BY <2>2, <3>1, <3>2
  <2>11. SenderInv'
    <3>1. produced' <= base' + WindowSize
      BY <1>2, <2>1, <2>2, Constants DEF LinkInv, SenderInv
    <3>2. ASSUME NEW i \in Slots
          PROVE  /\ windows'[i] = IDLE <=> produced' <= base' + i
                 /\ windows'[i] # IDLE => windowsPacket'[i] =
                      [stamp |-> (base' + i) % StampMod, data |-> base' + i]
                 /\ windows'[i] = END => base' + i \in delivered'
      <4>1. base' + i = base + (i + counter) /\ i \in Nat /\ i < WindowSize
            /\ counter \in Nat
        BY <1>2, <2>1, <2>2, Constants DEF Slots
      <4>2. CASE i + counter < WindowSize
        <5>1. /\ i + counter \in Slots /\ windows'[i] = marked[i + counter]
              /\ windowsPacket'[i] = windowsPacket[i + counter]
          BY <2>1, <2>2, <4>1, <4>2, Constants DEF Slots, Slide
        <5> QED
          BY <2>1, <2>9, <4>1, <5>1 DEF receiverVars
      <4>3. CASE ~(i + counter < WindowSize)
        <5>1. windows'[i] = IDLE
          BY <2>1, <4>3 DEF Slide
        <5>2. produced' <= base' + i
          BY <1>2, <2>1, <4>1, <4>3, Constants DEF LinkInv, SenderInv
        <5> QED
          BY <5>1, <5>2 DEF IDLE, END
      <4> QED
        BY <4>2, <4>3
    <3> QED
      BY <2>1, <2>6, <2>10, <3>1, <3>2 DEF SenderInv
  <2>12. base' <= recvBase
    <3> SUFFICES ASSUME recvBase < base' PROVE FALSE
      BY <1>2, <2>7
    <3> DEFINE k == recvBase - base
    <3>0. base' = base + counter /\ counter \in Int /\ base <= recvBase
      BY <2>1, <2>2 DEF LinkInv, ReceiverInv
    <3>1. k \in Slots /\ k < counter /\ base + k = recvBase
      <4>1. /\ base \in Int /\ recvBase \in Int /\ counter <= WindowSize
            /\ recvBase < base + counter
        BY <1>2, <2>2, <3>0
      <4> QED
        BY <3>0, <4>1, Constants DEF Slots
    <3> HIDE DEF k
    <3>2. recvBase \in delivered
      BY <2>2, <2>9, <3>1
    <3>3. \E j \in Slots : recvBase = recvBase + j /\ recvWindows[j] = END
      BY <1>2, <3>2 DEF LinkInv, ReceiverInv
    <3> QED
      BY <1>2, <3>3, Constants DEF LinkInv, ReceiverInv, Slots
  <2>13. ReceiverInv'
    BY <2>1, <2>12 DEF LinkInv, ReceiverInv, receiverVars
  <2>14. NetworkInv'
    <3>1. ASSUME NEW q \in frames' \cup acks'
          PROVE  base' - Lifetime <= q.data
      <4>1. q.data \in Nat
        BY <2>8 DEF TypeOK, Packet
      <4>2. ~(q.data < base' - Lifetime)
        BY <2>1 DEF Expired
      <4> QED
        BY <2>7, <4>1, <4>2, Constants
    <3>2. frames' \cup acks' \subseteq frames \cup acks /\ acks' \subseteq acks
      BY <2>1
    <3> QED
      BY <2>1, <3>1, <3>2 DEF LinkInv, NetworkInv, receiverVars
  <2> QED
    BY <1>2, <2>1, <2>8, <2>11, <2>13, <2>14 DEF LinkInv
<1> QED
  BY <1>3, <1>5, <1>6

(* getData() and the network's losses preserve the invariant. *)
LEMMA GetDataInv == LinkInv /\ GetData => LinkInv'
<1> SUFFICES ASSUME LinkInv, GetData PROVE LinkInv'
  OBVIOUS
<1>1. buffer' \in Seq(Nat)
  BY DEF LinkInv, TypeOK, GetData
<1>2. TypeOK'
  BY <1>1 DEF LinkInv, TypeOK, GetData, senderVars
<1> QED
  BY <1>2 DEF LinkInv, SenderInv, ReceiverInv, NetworkInv, GetData, senderVars

LEMMA LoseInv ==
  ASSUME LinkInv,
         \/ \E p \in frames : LoseFrame(p)
         \/ \E a \in acks : LoseAck(a)
  PROVE  LinkInv'
<1>1. /\ frames' \subseteq frames /\ acks' \subseteq acks
      /\ UNCHANGED <<dead, senderVars, receiverVars>>
  BY DEF LoseFrame, LoseAck
<1>2. TypeOK'
  BY <1>1 DEF LinkInv, TypeOK, senderVars, receiverVars
<1>3. SenderInv' /\ ReceiverInv' /\ NetworkInv'
  BY <1>1 DEF LinkInv, SenderInv, ReceiverInv, NetworkInv, senderVars, receiverVars
<1> QED
  BY <1>1, <1>2, <1>3 DEF LinkInv

(* Every step of the hop preserves the invariant. *)
LEMMA LinkStep == LinkInv /\ [Next]_vars => LinkInv'
<1> SUFFICES ASSUME LinkInv, [Next]_vars PROVE LinkInv'
  OBVIOUS
<1>1. CASE PktData
  BY <1>1, PktDataInv
<1>2. CASE \E i \in Slots : Update(i)
  BY <1>2, UpdateInv
<1>3. CASE \E p \in frames : UnpktData(p)
  BY <1>3, UnpktDataInv
<1>4. CASE \E a \in acks : RecvATK(a)
  BY <1>4, RecvATKInv
<1>5. CASE GetData
  BY <1>5, GetDataInv
<1>6. CASE (\E p \in frames : LoseFrame(p)) \/ (\E a \in acks : LoseAck(a))
  BY <1>6, LoseInv
<1>7. CASE UNCHANGED vars
  BY <1>7 DEF vars, LinkInv, TypeOK, SenderInv, ReceiverInv, NetworkInv
<1> QED
  BY <1>1, <1>2, <1>3, <1>4, <1>5, <1>6, <1>7 DEF Next

(* The inductive invariant of the hop, for every window size, modulus,      *)
(* lifetime and number of frames the assumptions allow.                     *)
THEOREM LinkInvariant == Spec => []LinkInv
<1>1. Init => LinkInv
  BY LinkInit
<1>2. LinkInv /\ [Next]_vars => LinkInv'
  BY LinkStep
<1> QED
  BY <1>1, <1>2, PTL DEF Spec

(* Types are kept. *)
THEOREM LinkType == Spec => []TypeOK
<1>1. LinkInv => TypeOK
  BY DEF LinkInv
<1> QED
  BY <1>1, LinkInvariant, PTL

(* recvATK() forgets a frame only after unpktData() has returned it. *)
THEOREM LinkForgottenIsDelivered == Spec => []ForgottenIsDelivered
<1>1. LinkInv => ForgottenIsDelivered
  BY DEF LinkInv, TypeOK, ReceiverInv, ForgottenIsDelivered
<1> QED
  BY <1>1, LinkInvariant, PTL

(* confirmBorder() never takes one frame for another, at either end. *)
THEOREM LinkNoAliasing == Spec => []NoAliasing
<1>1. LinkInv => NoAliasing
  <2> SUFFICES ASSUME LinkInv PROVE NoAliasing
    OBVIOUS
  <2>1. recvBase \in Nat /\ base \in Nat
    BY DEF LinkInv, TypeOK
  <2>2. ASSUME NEW p \in frames, ConfirmBorder(recvStamp, p.stamp) \in Slots
        PROVE  p.data = recvBase + ConfirmBorder(recvStamp, p.stamp)
    BY <2>1, <2>2, FrameIndex, Constants DEF Slots
  <2>3. ASSUME NEW a \in acks, ConfirmBorder(stamp, a.stamp) \in Slots
        PROVE  a.data = base + ConfirmBorder(stamp, a.stamp)
    BY <2>1, <2>3, AckIndex, Constants DEF Slots
  <2> QED
    BY <2>2, <2>3 DEF NoAliasing
<1> QED
  BY <1>1, LinkInvariant, PTL

(* No receive thread dies of the index one past the window. *)
THEOREM LinkThreadsSurvive == Spec => []ThreadsSurvive
<1>1. LinkInv => ThreadsSurvive
  BY DEF LinkInv, ThreadsSurvive
<1> QED
  BY <1>1, LinkInvariant, PTL

(* The receiver never moves past a frame it has not received. *)
THEOREM LinkNoFrameSkipped == Spec => []NoFrameSkipped
<1>1. LinkInv => NoFrameSkipped
  BY Constants
     DEF LinkInv, TypeOK, SenderInv, ReceiverInv, NoFrameSkipped, Slots
<1> QED
  BY <1>1, LinkInvariant, PTL

(* A frame unpktData() returns was never returned before: in an open slot   *)
(* there is no delivered frame.                                             *)
LEMMA FreshFrame ==
  ASSUME LinkInv, NEW p \in frames, UnpktData(p),
         <<buffer, delivered>>' # <<buffer, delivered>>
  PROVE  /\ p.data \in (0 .. produced - 1) \ delivered
         /\ delivered' = delivered \cup {p.data}
         /\ buffer' = Append(buffer, p.data)
<1> DEFINE index == ConfirmBorder(recvStamp, p.stamp)
<1>1. /\ p.data \in Nat /\ recvBase \in Nat /\ produced \in Nat
      /\ index = IF recvBase <= p.data THEN p.data - recvBase ELSE -1
      /\ p.data < produced
  BY FrameIndex DEF LinkInv, TypeOK, NetworkInv
<1>2. /\ index \in Slots /\ recvWindows[index] # END
      /\ delivered' = delivered \cup {p.data}
      /\ buffer' = Append(buffer, p.data)
  BY DEF UnpktData, AlreadyReceived, receiverVars
<1> HIDE DEF index
<1>3. p.data = recvBase + index /\ index \in Nat
  BY <1>1, <1>2, Constants DEF Slots
<1>4. p.data \notin delivered
  <2> SUFFICES ASSUME p.data \in delivered PROVE FALSE
    OBVIOUS
  <2>1. PICK j \in Slots : p.data = recvBase + j /\ recvWindows[j] = END
    BY <1>1, <1>3 DEF LinkInv, ReceiverInv
  <2> QED
    BY <1>1, <1>2, <1>3, <2>1, Constants DEF Slots
<1> QED
  BY <1>1, <1>2, <1>4

(* An interval of naturals below r. *)
LEMMA SubInterval ==
  ASSUME NEW b \in Nat, NEW c \in Nat, NEW r \in Nat, c <= r
  PROVE  b .. c - 1 \subseteq 0 .. r - 1
  OBVIOUS

(* Every step of the hop is a step of the abstract delivery or leaves its   *)
(* state alone.                                                             *)
LEMMA DeliveryStep ==
  LinkInv /\ [Next]_vars => [Abstract!Next]_(Abstract!vars)
<1> SUFFICES ASSUME LinkInv, [Next]_vars, UNCHANGED Abstract!vars => FALSE
             PROVE  Abstract!Next
  OBVIOUS
<1> USE DEF Abstract!Next, Abstract!vars
<1>0. LinkInv'
  BY LinkStep
<1>1. CASE PktData
  <2>1. HaveIdle(windows) /\ produced < MaxFrame /\ produced' = produced + 1
        /\ UNCHANGED <<base, delivered, buffer>>
    BY <1>1 DEF PktData, vars, receiverVars
  <2>2. PICK k \in Slots : windows[k] = IDLE
    BY <2>1 DEF HaveIdle
  <2>3. produced < base + WindowSize
    BY <2>2, Constants DEF LinkInv, TypeOK, SenderInv, Slots
  <2> QED
    BY <2>1, <2>3 DEF Abstract!Offer
<1>2. CASE \E i \in Slots : Update(i)
  BY <1>2 DEF Update, senderVars, receiverVars
<1>3. CASE \E p \in frames : UnpktData(p)
  <2>1. PICK p \in frames : UnpktData(p)
    BY <1>3
  <2>2. UNCHANGED <<produced, base>>
    BY <2>1 DEF UnpktData, senderVars
  <2>3. <<buffer, delivered>>' # <<buffer, delivered>>
    BY <2>2
  <2> QED
    BY <2>1, <2>2, <2>3, FreshFrame DEF Abstract!Deliver
<1>4. CASE \E a \in acks : RecvATK(a)
  <2>1. PICK a \in acks : RecvATK(a)
    BY <1>4
  <2>2. UNCHANGED <<produced, delivered, buffer>>
    BY <2>1 DEF RecvATK, Acknowledge, vars, senderVars, receiverVars
  <2>3. base' # base
    BY <2>2
  <2>4. base' = base + EndPrefix([windows EXCEPT ![ConfirmBorder(stamp, a.stamp)] = END])
    BY <2>1, <2>3 DEF RecvATK, Acknowledge, vars, senderVars
  <2>5. base' >= base /\ base \in Nat /\ base' \in Nat /\ produced \in Nat
    BY <1>0, <2>4, EndPrefixRun DEF LinkInv, TypeOK
  <2>6. base' \in base + 1 .. produced
    BY <1>0, <2>2, <2>3, <2>5 DEF LinkInv, SenderInv
  <2>7. \A n \in base .. base' - 1 : n \in delivered
    <3>1. base' <= recvBase' /\ recvBase' \in Nat
      BY <1>0 DEF LinkInv, ReceiverInv, TypeOK
    <3>2. 0 .. recvBase' - 1 \subseteq delivered'
      BY <1>0 DEF LinkInv, ReceiverInv
    <3>3. delivered' = delivered
      BY <2>2
    <3>4. base .. base' - 1 \subseteq 0 .. recvBase' - 1
      BY <2>5, <3>1, SubInterval
    <3> QED
      BY <3>2, <3>3, <3>4
  <2> QED
    BY <2>2, <2>6, <2>7 DEF Abstract!Release
<1>5. CASE GetData
  BY <1>5 DEF GetData, senderVars, Abstract!Take
<1>6. CASE (\E p \in frames : LoseFrame(p)) \/ (\E a \in acks : LoseAck(a))
  BY <1>6 DEF LoseFrame, LoseAck, senderVars, receiverVars
<1>7. CASE UNCHANGED vars
  BY <1>7 DEF vars
<1> QED
  BY <1>1, <1>2, <1>3, <1>4, <1>5, <1>6, <1>7 DEF Next

(* Seen through frame numbers alone, the stamped windows over a lossy,      *)
(* duplicating, reordering network are the abstract frame delivery.         *)
THEOREM LinkImplementsDelivery == Spec => Delivery
<1>1. Init => Abstract!Init
  BY DEF Init, Abstract!Init
<1>2. LinkInv /\ [Next]_vars => [Abstract!Next]_(Abstract!vars)
  BY DeliveryStep
<1> QED
  BY <1>1, <1>2, LinkInvariant, PTL DEF Spec, Delivery, Abstract!Spec

(* unpktData() hands a frame to the decoder's buffer at most once, for any  *)
(* number of resends, duplicates and late datagrams.                        *)
THEOREM LinkAtMostOnce == Spec => AtMostOnce
<1> DEFINE Once == \A n \in 0 .. MaxFrame - 1 :
                     buffer' = Append(buffer, n) => n \notin delivered
<1>1. LinkInv /\ [Next]_vars => [Once]_vars
  <2> SUFFICES ASSUME LinkInv, [Next]_vars, NEW n \in 0 .. MaxFrame - 1,
                      buffer' = Append(buffer, n)
               PROVE  n \notin delivered
    BY DEF Once
  <2>1. buffer \in Seq(Nat) /\ n \in Nat
    BY Constants DEF LinkInv, TypeOK
  <2>2. Len(buffer') = Len(buffer) + 1 /\ buffer'[Len(buffer) + 1] = n
    BY <2>1
  <2>3. buffer' # buffer /\ ~GetData
    BY <2>1, <2>2 DEF GetData
  <2>4. PICK p \in frames : UnpktData(p)
    BY <2>3 DEF Next, vars, PktData, Update, RecvATK, Acknowledge, LoseFrame, LoseAck,
                senderVars, receiverVars
  <2>5. p.data \notin delivered /\ buffer' = Append(buffer, p.data)
    BY <2>3, <2>4, FreshFrame
  <2>6. p.data = n
    BY <2>1, <2>2, <2>4, <2>5 DEF LinkInv, TypeOK, Packet
  <2> QED
    BY <2>5, <2>6
<1> QED
  BY <1>1, LinkInvariant, PTL DEF Spec, AtMostOnce
=============================================================================
