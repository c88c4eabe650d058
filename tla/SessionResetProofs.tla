------------------------- MODULE SessionResetProofs -------------------------
(***************************************************************************)
(* A session that begins with a clean restart is lossless for every window  *)
(* size, stamp modulus, number of restarts and number of spurious resets.   *)
(***************************************************************************)
EXTENDS SessionReset, WindowOpsProofs

(* What holds in every phase. *)
ResetType ==
  /\ role \in {"up", "down"}
  /\ windows \in [Slots -> {IDLE, WAIT_FOR_RES, END}]
  /\ recvWindows \in [Slots -> {IDLE, END}]
  /\ address \in [Slots -> {"new", "old"}]
  /\ seen \in [Slots -> {"no", "acked", "got"}]
  /\ dead \subseteq {"relay", "endpoint"}
  /\ phase \in {"restarted", "clean", "spoiled"}
  /\ role = "up" => left.kind # "ack"

(* The new session has begun and the reset is on its way: the endpoint's    *)
(* side is as its constructor made it, but for frames it has sent.          *)
RestartedUp ==
  /\ stamp = 0 /\ seen = Fresh("no") /\ address = Fresh("new")
  /\ \A i \in Slots : windows[i] # END

RestartedDown ==
  /\ recvStamp = 0 /\ recvWindows = Fresh(IDLE)
  /\ \A i \in Slots : windows[i] # IDLE => address[i] = "old"
  /\ left.kind # "frame"

Restarted ==
  /\ harm = FALSE /\ "endpoint" \notin dead
  /\ role = "up" => RestartedUp
  /\ role = "down" => RestartedDown

(* A clean session in which the receiver's window is r frames ahead of the  *)
(* sender's: the two agree on which frames of the sender have been          *)
(* delivered, and the receiver holds nothing else.                          *)
InStep(r) ==
  /\ recvStamp = Advance(stamp, r)
  /\ \A i \in Slots : seen[i] = IF i < r \/ recvWindows[i - r] = END THEN "got" ELSE "no"
  /\ \A j \in Slots : recvWindows[j] = END => j > 0 /\ j + r < WindowSize

Clean ==
  /\ harm = FALSE /\ dead = {} /\ left = None
  /\ stamp \in Stamps
  /\ address = Fresh("new")
  /\ \A i \in Slots : /\ windows[i] = IDLE => seen[i] = "no"
                      /\ windows[i] = END => seen[i] = "got"
  /\ \E r \in 0 .. WindowSize : InStep(r)

(* The inductive invariant. *)
ResetInv ==
  /\ ResetType
  /\ phase = "restarted" => Restarted
  /\ phase = "clean" => Clean

-----------------------------------------------------------------------------
(* Windows and stamps *)

LEMMA Sizes ==
  /\ WindowSize \in Nat \ {0} /\ StampMod \in Nat \ {0}
  /\ 2 * WindowSize < StampMod
  /\ 0 \in Slots /\ 0 \in Stamps
  BY WindowAssumption DEF Slots, Stamps

LEMMA SlideSlot ==
  ASSUME NEW c \in 0 .. WindowSize, NEW i \in Slots, i + c < WindowSize
  PROVE  i + c \in Slots
BY Sizes DEF Slots

LEMMA SlideIs ==
  ASSUME NEW T, NEW w \in [Slots -> T], NEW c \in 0 .. WindowSize, NEW v \in T
  PROVE  Slide(w, c, v) \in [Slots -> T]
<1>1. \A i \in Slots : i + c < WindowSize => i + c \in Slots
  BY Sizes DEF Slots
<1> QED
  BY <1>1 DEF Slide

(* Windows in step read each other's stamps as they are meant: the receiver *)
(* that is r frames ahead finds frame i in its slot i - r, or knows that it *)
(* is past it, and the sender finds an acknowledgement in slot i.           *)
LEMMA StampsInStep ==
  ASSUME stamp \in Stamps, NEW r \in 0 .. WindowSize, NEW i \in Slots,
         recvStamp = Advance(stamp, r)
  PROVE  /\ ConfirmBorder(recvStamp, Advance(stamp, i)) = IF r <= i THEN i - r ELSE -1
         /\ ConfirmBorder(stamp, Advance(stamp, i)) = i
<1>1. /\ stamp \in Nat /\ stamp < StampMod
      /\ stamp + r \in Nat /\ stamp + i \in Nat /\ i \in Nat /\ i < WindowSize
  BY Sizes DEF Stamps, Slots
<1>2. stamp = stamp % StampMod
  <2>1. stamp < StampMod + StampMod
    BY <1>1, Sizes
  <2>2. stamp % StampMod = IF stamp < StampMod THEN stamp ELSE stamp - StampMod
    BY <1>1, <2>1, Sizes, SmallMod
  <2> QED
    BY <1>1, <2>2
<1>3. /\ (stamp + r) + WindowSize < (stamp + i) + StampMod
      /\ stamp + i < (stamp + r) + WindowSize
      /\ stamp + WindowSize < (stamp + i) + StampMod
      /\ stamp + i < stamp + WindowSize
  BY <1>1, Sizes
<1>4. ConfirmBorder((stamp + r) % StampMod, (stamp + i) % StampMod) =
        IF stamp + r <= stamp + i THEN (stamp + i) - (stamp + r) ELSE -1
  BY <1>1, <1>3, ConfirmBorderExact
<1>5. ConfirmBorder(stamp % StampMod, (stamp + i) % StampMod) =
        IF stamp <= stamp + i THEN (stamp + i) - stamp ELSE -1
  BY <1>1, <1>3, ConfirmBorderExact
<1>6. ConfirmBorder(recvStamp, Advance(stamp, i)) =
        IF stamp + r <= stamp + i THEN (stamp + i) - (stamp + r) ELSE -1
  BY <1>4 DEF Advance
<1>7. ConfirmBorder(stamp, Advance(stamp, i)) =
        IF stamp <= stamp + i THEN (stamp + i) - stamp ELSE -1
  BY <1>2, <1>5 DEF Advance
<1>8. /\ (stamp + r <= stamp + i) <=> r <= i
      /\ (stamp + i) - (stamp + r) = i - r
      /\ stamp <= stamp + i /\ (stamp + i) - stamp = i
  BY <1>1
<1> QED
  BY <1>6, <1>7, <1>8

(* Stamps advance by the sum of two steps. *)
LEMMA AdvanceTwice ==
  ASSUME NEW s \in Nat, NEW c \in 0 .. WindowSize, NEW k \in 0 .. WindowSize
  PROVE  /\ Advance(Advance(s, c), k) = Advance(s, c + k)
         /\ Advance(s, c) \in Stamps
<1>1. s + c \in Nat /\ (s + c) + k = s + (c + k)
  BY Sizes
<1>2. Advance((s + c) % StampMod, k) = ((s + c) + k) % StampMod
  BY <1>1, AdvanceStamp
<1>3. (s + c) % StampMod \in Stamps
  BY AdvanceStamp
<1> QED
  BY <1>1, <1>2, <1>3 DEF Advance

-----------------------------------------------------------------------------
(* Types *)

(* The receiver's window keeps its type whatever stamp comes. *)
LEMMA PlaceType ==
  ASSUME ResetType, NEW d, Place(d)
  PROVE  recvWindows' \in [Slots -> {IDLE, END}] /\ dead' \subseteq {"relay", "endpoint"}
<1> DEFINE index == ConfirmBorder(recvStamp, d)
           marked == [recvWindows EXCEPT ![index] = END]
           counter == EndPrefix(marked)
<1>1. marked \in [Slots -> {IDLE, END}] /\ IDLE \in {IDLE, END}
  BY DEF ResetType
<1>2. counter \in 0 .. WindowSize
  BY EndPrefixRun
<1> HIDE DEF marked, counter
<1>3. Slide(marked, counter, IDLE) \in [Slots -> {IDLE, END}]
  BY <1>1, <1>2, SlideIs
<1>4. \/ recvWindows' = recvWindows /\ dead' = dead
      \/ recvWindows' = Slide(marked, counter, IDLE) /\ dead' = dead
      \/ recvWindows' = recvWindows /\ dead' = dead \cup {Receiver}
  BY DEF Place, receiverVars, marked, counter
<1> QED
  BY <1>3, <1>4 DEF ResetType, Receiver

(* And the sender's. *)
LEMMA AcknowledgeType ==
  ASSUME ResetType, NEW d, Acknowledge(d)
  PROVE  /\ windows' \in [Slots -> {IDLE, WAIT_FOR_RES, END}]
         /\ address' \in [Slots -> {"new", "old"}]
         /\ seen' \in [Slots -> {"no", "acked", "got"}]
         /\ dead' \subseteq {"relay", "endpoint"}
<1> DEFINE index == ConfirmBorder(stamp, d)
           marked == [windows EXCEPT ![index] = END]
           counter == EndPrefix(marked)
<1>1. marked \in [Slots -> {IDLE, WAIT_FOR_RES, END}]
  BY DEF ResetType
<1>2. counter \in 0 .. WindowSize
  BY EndPrefixRun
<1> HIDE DEF marked, counter
<1>3. /\ Slide(marked, counter, IDLE) \in [Slots -> {IDLE, WAIT_FOR_RES, END}]
      /\ Slide(address, counter, "new") \in [Slots -> {"new", "old"}]
      /\ Slide(seen, counter, "no") \in [Slots -> {"no", "acked", "got"}]
  BY <1>1, <1>2, SlideIs DEF ResetType
<1>4. \/ UNCHANGED <<windows, address, seen, dead>>
      \/ /\ windows' = Slide(marked, counter, IDLE)
         /\ address' = Slide(address, counter, "new")
         /\ seen' = Slide(seen, counter, "no")
         /\ dead' = dead
      \/ UNCHANGED <<windows, address, seen>> /\ dead' = dead \cup {Sender}
  BY DEF Acknowledge, senderVars, marked, counter
<1> QED
  BY <1>3, <1>4 DEF ResetType, Sender

(* What a fresh window is. *)
LEMMA FreshIs ==
  ASSUME NEW T, NEW v \in T
  PROVE  Fresh(v) \in [Slots -> T] /\ \A i \in Slots : Fresh(v)[i] = v
BY DEF Fresh

LEMMA WindowInitType ==
  ASSUME ResetType, WindowInit, UNCHANGED <<role, dead>>,
         phase' \in {"restarted", "clean", "spoiled"}
  PROVE  ResetType'
<1>1. CASE role = "up"
  <2>1. UNCHANGED <<windows, address, seen, recvWindows, left>>
    BY <1>1 DEF WindowInit, senderVars
  <2> QED
    BY <2>1 DEF ResetType
<1>2. CASE role = "down"
  <2>1. /\ windows' = Fresh(IDLE) /\ address' = Fresh("new") /\ seen' = Fresh("no")
        /\ recvWindows' = recvWindows
    BY <1>2 DEF WindowInit, receiverVars
  <2>2. /\ windows' \in [Slots -> {IDLE, WAIT_FOR_RES, END}]
        /\ address' \in [Slots -> {"new", "old"}]
        /\ seen' \in [Slots -> {"no", "acked", "got"}]
    BY <2>1, FreshIs
  <2> QED
    BY <1>2, <2>1, <2>2 DEF ResetType
<1> QED
  BY <1>1, <1>2 DEF ResetType

LEMMA TypeStep == ResetType /\ [Next]_vars => ResetType'
<1> SUFFICES ASSUME ResetType, [Next]_vars PROVE ResetType'
  OBVIOUS
<1>1. CASE PktData
  <2> DEFINE k == FirstIdle(windows)
  <2>1. /\ windows' = [windows EXCEPT ![k] = WAIT_FOR_RES]
        /\ address' = [address EXCEPT ![k] = "new"]
        /\ seen' = [seen EXCEPT ![k] = "no"]
        /\ UNCHANGED <<role, recvWindows, left, dead>> /\ phase' \in {phase, "spoiled"}
    BY <1>1 DEF PktData, receiverVars
  <2> HIDE DEF k
  <2> QED
    BY <2>1 DEF ResetType
<1>2. ASSUME NEW i \in Slots, UnpktData(i) PROVE ResetType'
  <2> DEFINE d == Advance(stamp, i)
  <2>1. /\ Place(d) /\ UNCHANGED <<role, windows, address, left>> /\ phase' \in {phase, "spoiled"}
        /\ seen' = [seen EXCEPT ![i] = IF Placed(d) = "taken" \/ @ = "got" THEN "got" ELSE "acked"]
    BY <1>2 DEF UnpktData
  <2>2. recvWindows' \in [Slots -> {IDLE, END}] /\ dead' \subseteq {"relay", "endpoint"}
    BY <2>1, PlaceType
  <2>3. seen' \in [Slots -> {"no", "acked", "got"}]
    BY <2>1 DEF ResetType
  <2> QED
    BY <2>1, <2>2, <2>3 DEF ResetType
<1>3. ASSUME NEW i \in Slots, RecvATK(i) PROVE ResetType'
  <2>1. Acknowledge(Advance(stamp, i)) /\ left' = left
    BY <1>3 DEF RecvATK
  <2>2. UNCHANGED <<role, recvWindows, phase>>
    BY <2>1 DEF Acknowledge, receiverVars
  <2> QED
    BY <2>1, <2>2, AcknowledgeType DEF ResetType
<1>4. CASE UnpktLeftover
  <2>1. Place(left.stamp) /\ UNCHANGED <<role, windows, address, seen, phase>>
    BY <1>4 DEF UnpktLeftover, senderVars
  <2>2. role = "up" => left' \in {left, None}
    BY <1>4 DEF UnpktLeftover
  <2>3. role = "up" => left'.kind # "ack"
    BY <2>2 DEF ResetType, None
  <2>4. recvWindows' \in [Slots -> {IDLE, END}] /\ dead' \subseteq {"relay", "endpoint"}
    BY <2>1, PlaceType
  <2> QED
    BY <2>1, <2>3, <2>4 DEF ResetType
<1>5. CASE RecvLeftover
  <2>1. Acknowledge(left.stamp) /\ left' \in {left, None}
    BY <1>5 DEF RecvLeftover
  <2>2. UNCHANGED <<role, recvWindows, phase>>
    BY <2>1 DEF Acknowledge, receiverVars
  <2>3. role = "up" => left'.kind # "ack"
    BY <2>1 DEF ResetType, None
  <2> QED
    BY <2>1, <2>2, <2>3, AcknowledgeType DEF ResetType
<1>6. CASE LoseLeftover
  BY <1>6 DEF LoseLeftover, ResetType, None, senderVars, receiverVars
<1>7. CASE HandleReset
  BY <1>7, WindowInitType DEF HandleReset
<1>8. CASE SpuriousReset
  BY <1>8, WindowInitType DEF SpuriousReset
<1>9. CASE LoseReset
  BY <1>9 DEF LoseReset, ResetType, senderVars, receiverVars
<1>10. CASE Restart
  <2>0. role' = role /\ dead' = dead \ {"endpoint"} /\ phase' = "restarted"
    BY <1>10 DEF Restart
  <2>1. CASE role = "up"
    <3>1. /\ windows' = Fresh(IDLE) /\ address' = Fresh("new") /\ seen' = Fresh("no")
          /\ recvWindows' = recvWindows
          /\ left' \in {None, left} \cup DatagramsOf("frame", InUse)
      BY <1>10, <2>1 DEF Restart, receiverVars
    <3>2. left'.kind # "ack"
      BY <2>1, <3>1 DEF ResetType, DatagramsOf, Leftover, None
    <3>3. /\ windows' \in [Slots -> {IDLE, WAIT_FOR_RES, END}]
          /\ address' \in [Slots -> {"new", "old"}]
          /\ seen' \in [Slots -> {"no", "acked", "got"}]
      BY <3>1, FreshIs
    <3> QED
      BY <2>0, <3>1, <3>2, <3>3 DEF ResetType
  <2>2. CASE role = "down"
    <3>1. /\ recvWindows' = Fresh(IDLE) /\ UNCHANGED <<windows, seen>>
          /\ address' = [i \in Slots |-> IF windows[i] = IDLE THEN "new" ELSE "old"]
      BY <1>10, <2>2 DEF Restart
    <3>2. recvWindows' \in [Slots -> {IDLE, END}]
      BY <3>1, FreshIs
    <3> QED
      BY <2>0, <2>2, <3>1, <3>2 DEF ResetType
  <2> QED
    BY <2>1, <2>2 DEF ResetType
<1>11. CASE Back \/ UNCHANGED vars
  BY <1>11 DEF Back, vars, senderVars, receiverVars, ResetType
<1> QED
  BY <1>1, <1>2, <1>3, <1>4, <1>5, <1>6, <1>7, <1>8, <1>9, <1>10, <1>11 DEF Next

-----------------------------------------------------------------------------
(* The phase between a restart and its reset *)

LEMMA RestartMakesRestarted ==
  ASSUME ResetType, Restart
  PROVE  Restarted'
<1>0. harm' = FALSE /\ "endpoint" \notin dead' /\ role' = role /\ IDLE # END
  BY DEF Restart, IDLE, END
<1>1. CASE role = "up"
  <2>1. /\ stamp' = 0 /\ seen' = Fresh("no") /\ address' = Fresh("new")
        /\ windows' = Fresh(IDLE)
    BY <1>1 DEF Restart
  <2>2. \A i \in Slots : windows'[i] = IDLE
    BY <2>1, FreshIs
  <2>3. RestartedUp'
    BY <1>0, <2>1, <2>2 DEF RestartedUp
  <2> QED
    BY <1>0, <1>1, <2>3 DEF Restarted
<1>2. CASE role = "down"
  <2>1. /\ recvStamp' = 0 /\ recvWindows' = Fresh(IDLE) /\ windows' = windows
        /\ address' = [i \in Slots |-> IF windows[i] = IDLE THEN "new" ELSE "old"]
        /\ left' \in {None} \cup DatagramsOf("ack", InUse) \cup {l \in {left} : l.kind = "ack"}
    BY <1>2 DEF Restart
  <2>2. left'.kind # "frame"
    BY <2>1 DEF DatagramsOf, Leftover, None
  <2>3. \A i \in Slots : windows'[i] # IDLE => address'[i] = "old"
    BY <2>1
  <2>4. RestartedDown'
    BY <2>1, <2>2, <2>3 DEF RestartedDown
  <2> QED
    BY <1>0, <1>2, <2>4 DEF Restarted
<1> QED
  BY <1>1, <1>2 DEF ResetType

(* In role "up" the endpoint may send; the relay may die of a frame of the  *)
(* last session, but then it does not handle the reset.                     *)
LEMMA RestartedUpStep ==
  ASSUME ResetType, phase = "restarted", Restarted, role = "up",
         Next, ~Restart, phase' = "restarted"
  PROVE  Restarted'
<1>0. RestartedUp /\ harm = FALSE /\ "endpoint" \notin dead
  BY DEF Restarted
<1>1. CASE PktData
  <2> DEFINE k == FirstIdle(windows)
  <2>1. /\ windows' = [windows EXCEPT ![k] = WAIT_FOR_RES]
        /\ address' = [address EXCEPT ![k] = "new"]
        /\ seen' = [seen EXCEPT ![k] = "no"]
        /\ UNCHANGED <<role, stamp, dead, harm>>
    BY <1>1 DEF PktData
  <2> HIDE DEF k
  <2>2. address' = Fresh("new") /\ seen' = Fresh("no")
    BY <1>0, <2>1 DEF RestartedUp, Fresh
  <2>3. \A i \in Slots : windows'[i] # END
    BY <1>0, <2>1 DEF RestartedUp, ResetType, WAIT_FOR_RES, END
  <2> QED
    BY <1>0, <2>1, <2>2, <2>3 DEF Restarted, RestartedUp
<1>2. ASSUME NEW i \in Slots PROVE ~UnpktData(i)
  BY DEF UnpktData
<1>3. ASSUME NEW i \in Slots PROVE ~RecvATK(i)
  BY <1>0 DEF RecvATK, RestartedUp, Fresh
<1>4. CASE UnpktLeftover
  <2>1. UNCHANGED <<role, senderVars>> /\ Place(left.stamp)
    BY <1>4 DEF UnpktLeftover
  <2>2. harm' = FALSE
    BY <1>0, <1>4 DEF UnpktLeftover
  <2>3. dead' = dead \/ dead' = dead \cup {"relay"}
    BY <2>1 DEF Place, Receiver
  <2> QED
    BY <1>0, <2>1, <2>2, <2>3 DEF Restarted, RestartedUp, senderVars
<1>5. ~RecvLeftover
  BY DEF RecvLeftover, ResetType
<1>6. CASE LoseLeftover \/ LoseReset \/ Back
  <2>1. UNCHANGED <<role, senderVars, harm, dead>>
    BY <1>6 DEF LoseLeftover, LoseReset, Back
  <2> QED
    BY <1>0, <2>1 DEF Restarted, RestartedUp, senderVars
<1>7. ~HandleReset /\ ~SpuriousReset
  BY DEF HandleReset, SpuriousReset
<1> QED
  BY <1>1, <1>2, <1>3, <1>4, <1>5, <1>6, <1>7 DEF Next

(* In role "down" nothing but a late acknowledgement reaches either window. *)
LEMMA RestartedDownStep ==
  ASSUME ResetType, phase = "restarted", Restarted, role = "down",
         Next, ~Restart, phase' = "restarted"
  PROVE  Restarted'
<1>0. RestartedDown /\ harm = FALSE /\ "endpoint" \notin dead /\ IDLE # WAIT_FOR_RES
  BY DEF Restarted, IDLE, WAIT_FOR_RES
<1>1. ~PktData
  BY DEF PktData
<1>2. ASSUME NEW i \in Slots PROVE ~UnpktData(i)
  BY <1>0 DEF UnpktData, RestartedDown
<1>3. ASSUME NEW i \in Slots PROVE ~RecvATK(i)
  BY <1>0 DEF RecvATK, RestartedDown
<1>4. ~UnpktLeftover
  BY <1>0 DEF UnpktLeftover, RestartedDown
<1>5. CASE RecvLeftover
  <2> DEFINE index == ConfirmBorder(stamp, left.stamp)
             marked == [windows EXCEPT ![index] = END]
             counter == EndPrefix(marked)
  <2>1. UNCHANGED <<role, receiverVars>> /\ left' \in {left, None}
    BY <1>5 DEF RecvLeftover, Acknowledge
  <2>2. left'.kind # "frame"
    BY <1>0, <2>1 DEF RestartedDown, None
  <2>3. harm' = FALSE
    BY <1>0, <1>5 DEF RecvLeftover, Acknowledge
  <2>4. dead' = dead \/ dead' = dead \cup {"relay"}
    BY <1>5 DEF RecvLeftover, Acknowledge, Sender
  <2>5. \/ UNCHANGED senderVars
        \/ /\ index \in Slots /\ windows[index] = WAIT_FOR_RES
           /\ windows' = Slide(marked, counter, IDLE)
           /\ address' = Slide(address, counter, "new")
    BY <1>5 DEF RecvLeftover, Acknowledge
  <2>6. \A i \in Slots : windows'[i] # IDLE => address'[i] = "old"
    <3>1. CASE UNCHANGED senderVars
      BY <1>0, <3>1 DEF RestartedDown, senderVars
    <3>2. CASE /\ index \in Slots /\ windows[index] = WAIT_FOR_RES
               /\ windows' = Slide(marked, counter, IDLE)
               /\ address' = Slide(address, counter, "new")
      <4>1. /\ marked \in [Slots -> {IDLE, WAIT_FOR_RES, END}]
            /\ \A k \in Slots : marked[k] # IDLE => address[k] = "old"
        BY <1>0, <3>2 DEF ResetType, RestartedDown
      <4>2. counter \in 0 .. WindowSize
        BY EndPrefixRun
      <4> HIDE DEF marked, counter
      <4>3. ASSUME NEW i \in Slots, windows'[i] # IDLE PROVE address'[i] = "old"
        <5>0. windows'[i] = IF i + counter < WindowSize THEN marked[i + counter] ELSE IDLE
          <6>1. Slide(marked, counter, IDLE)[i] =
                  IF i + counter < WindowSize THEN marked[i + counter] ELSE IDLE
            BY DEF Slide
          <6> QED
            BY <3>2, <6>1
        <5>1. i + counter < WindowSize /\ i + counter \in Slots
          BY <4>2, <4>3, <5>0, SlideSlot
        <5>2. windows'[i] = marked[i + counter] /\ address'[i] = address[i + counter]
          <6>1. Slide(address, counter, "new")[i] =
                  IF i + counter < WindowSize THEN address[i + counter] ELSE "new"
            BY DEF Slide
          <6> QED
            BY <3>2, <5>0, <5>1, <6>1
        <5> QED
          BY <4>1, <4>3, <5>1, <5>2
      <4> QED
        BY <4>3
    <3> QED
      BY <2>5, <3>1, <3>2
  <2> QED
    BY <1>0, <2>1, <2>2, <2>3, <2>4, <2>6 DEF Restarted, RestartedDown, receiverVars
<1>6. CASE LoseLeftover \/ LoseReset \/ Back
  <2>1. UNCHANGED <<role, windows, address, recvWindows, recvStamp, harm, dead>>
    BY <1>6 DEF LoseLeftover, LoseReset, Back, senderVars, receiverVars
  <2>2. left'.kind # "frame"
    BY <1>0, <1>6 DEF LoseLeftover, LoseReset, Back, RestartedDown, None
  <2> QED
    BY <1>0, <2>1, <2>2 DEF Restarted, RestartedDown
<1>7. ~HandleReset /\ ~SpuriousReset
  BY DEF HandleReset, SpuriousReset
<1> QED
  BY <1>1, <1>2, <1>3, <1>4, <1>5, <1>6, <1>7 DEF Next

LEMMA RestartedStep ==
  ASSUME ResetInv, [Next]_vars, phase' = "restarted"
  PROVE  Restarted'
<1>1. CASE Restart
  BY <1>1, RestartMakesRestarted DEF ResetInv
<1>2. CASE Next /\ ~Restart
  <2>1. phase = "restarted"
    BY <1>2 DEF Next, PktData, UnpktData, RecvATK, UnpktLeftover, RecvLeftover, Acknowledge,
                LoseLeftover, HandleReset, SpuriousReset, LoseReset, Back
  <2> QED
    BY <1>2, <2>1, RestartedUpStep, RestartedDownStep DEF ResetInv, ResetType
<1>3. CASE UNCHANGED vars
  BY <1>3 DEF vars, senderVars, receiverVars, ResetInv, Restarted, RestartedUp, RestartedDown
<1> QED
  BY <1>1, <1>2, <1>3

-----------------------------------------------------------------------------
(* The clean session *)

(* It begins when the reset finds the new session untouched. *)
LEMMA ResetMakesClean ==
  ASSUME ResetType, phase = "restarted", Restarted, HandleReset, phase' = "clean"
  PROVE  Clean'
<1>0. WindowInit /\ left' = None /\ (role = "up" => recvWindows = Fresh(IDLE))
  BY DEF HandleReset, CleanRestart
<1>1. harm' = FALSE /\ dead' = {}
  BY DEF HandleReset, Restarted, ResetType
<1>2. /\ stamp' = 0 /\ recvStamp' = 0 /\ recvWindows' = Fresh(IDLE)
      /\ address' = Fresh("new") /\ seen' = Fresh("no")
      /\ \A i \in Slots : windows'[i] # END
  <2>1. CASE role = "up"
    BY <1>0, <2>1 DEF WindowInit, Restarted, RestartedUp, senderVars
  <2>2. CASE role = "down"
    BY <1>0, <2>2 DEF WindowInit, Restarted, RestartedDown, receiverVars, Fresh, IDLE, END
  <2> QED
    BY <2>1, <2>2 DEF ResetType
<1>3. \A i \in Slots : seen'[i] = "no" /\ recvWindows'[i] = IDLE
  BY <1>2 DEF Fresh
<1>4. InStep(0)'
  <2>1. recvStamp' = Advance(stamp', 0)
    BY <1>2, Sizes, SmallMod DEF Advance
  <2>2. \A i \in Slots : ~(i < 0) /\ i - 0 = i
    BY Sizes DEF Slots
  <2>3. IDLE # END
    BY DEF IDLE, END
  <2> QED
    BY <1>3, <2>1, <2>2, <2>3 DEF InStep
<1>5. 0 \in 0 .. WindowSize
  BY Sizes
<1>6. \E r \in 0 .. WindowSize : InStep(r)'
  BY <1>4, <1>5
<1> QED
  BY <1>0, <1>1, <1>2, <1>3, <1>6, Sizes DEF Clean

LEMMA PktDataClean ==
  ASSUME ResetType, Clean, PktData
  PROVE  Clean'
<1> DEFINE k == FirstIdle(windows)
<1>1. /\ windows' = [windows EXCEPT ![k] = WAIT_FOR_RES]
      /\ address' = [address EXCEPT ![k] = "new"]
      /\ seen' = [seen EXCEPT ![k] = "no"]
      /\ UNCHANGED <<stamp, recvStamp, recvWindows, left, dead, harm>>
  BY DEF PktData, receiverVars
<1>2. k \in Slots /\ windows[k] = IDLE
  BY FirstIdleSlot DEF PktData
<1> HIDE DEF k
<1>3. address' = address
  BY <1>1 DEF Clean, Fresh
<1>4. seen[k] = "no"
  BY <1>2 DEF Clean
<1>5. seen' = seen
  BY <1>1, <1>2, <1>4 DEF ResetType
<1>6. \A i \in Slots : /\ windows'[i] = IDLE => windows[i] = IDLE
                       /\ windows'[i] = END => windows[i] = END
  BY <1>1, <1>2 DEF ResetType, IDLE, WAIT_FOR_RES, END
<1>7. \A r \in 0 .. WindowSize : InStep(r) => InStep(r)'
  BY <1>1, <1>5 DEF InStep
<1> QED
  BY <1>1, <1>3, <1>5, <1>6, <1>7 DEF Clean

(* A frame that the receiver has is ignored, any other one is taken and    *)
(* moves the receiver's window over what is complete.                       *)
LEMMA UnpktDataClean ==
  ASSUME ResetType, Clean, NEW i \in Slots, UnpktData(i), phase = "clean"
  PROVE  Clean'
<1> DEFINE d == Advance(stamp, i)
<1>0. PICK r \in 0 .. WindowSize : InStep(r)
  BY DEF Clean
<1>1. /\ UNCHANGED <<stamp, windows, address, left>> /\ Place(d)
      /\ seen' = [seen EXCEPT ![i] = IF Placed(d) = "taken" \/ @ = "got" THEN "got" ELSE "acked"]
      /\ harm' = (harm \/ (phase = "clean" /\ Placed(d) = "taken" /\ seen[i] = "got"))
  BY DEF UnpktData
<1>2. /\ r \in Nat /\ i \in Nat /\ i < WindowSize /\ r <= WindowSize
      /\ i < r => ~(r <= i)
      /\ r <= i => i - r \in Slots /\ i - r \in Nat
      /\ -1 \notin Slots
  BY Sizes DEF Slots
<1>3. ConfirmBorder(recvStamp, d) = IF r <= i THEN i - r ELSE -1
  BY <1>0, StampsInStep DEF InStep, Clean
<1> HIDE DEF d
<1>4. CASE i < r \/ (r <= i /\ recvWindows[i - r] = END)
  <2>1. Placed(d) = "ignored" /\ seen[i] = "got"
    <3>1. CASE i < r
      BY <1>0, <1>2, <1>3, <3>1 DEF Placed, InStep
    <3>2. CASE r <= i /\ recvWindows[i - r] = END
      <4>1. seen[i] = "got"
        BY <1>0, <3>2 DEF InStep
      <4>2. ConfirmBorder(recvStamp, d) # -1 /\ ConfirmBorder(recvStamp, d) = i - r
        BY <1>2, <1>3, <3>2
      <4> QED
        BY <1>2, <3>2, <4>1, <4>2 DEF Placed
    <3> QED
      BY <1>4, <3>1, <3>2
  <2>2. UNCHANGED <<recvStamp, recvWindows, dead>>
    BY <1>1, <2>1 DEF Place, receiverVars
  <2>3. seen' = seen
    BY <1>1, <2>1 DEF ResetType
  <2>4. harm' = FALSE
    BY <1>1, <2>1 DEF Clean
  <2>5. \A k \in 0 .. WindowSize : InStep(k) => InStep(k)'
    BY <1>1, <2>2, <2>3 DEF InStep
  <2> QED
    BY <1>1, <2>2, <2>3, <2>4, <2>5 DEF Clean
<1>5. CASE r <= i /\ recvWindows[i - r] # END
  <2> DEFINE marked == [recvWindows EXCEPT ![i - r] = END]
             counter == EndPrefix(marked)
  <2>1. ConfirmBorder(recvStamp, d) = i - r /\ i - r # -1 /\ i - r \in Slots
    BY <1>2, <1>3, <1>5
  <2>2. Placed(d) = "taken"
    BY <1>5, <2>1 DEF Placed
  <2>3. /\ recvWindows' = Slide(marked, counter, IDLE)
        /\ recvStamp' = Advance(recvStamp, counter) /\ dead' = dead
    BY <1>1, <2>1, <2>2 DEF Place
  <2>4. seen[i] = "no" /\ seen' = [seen EXCEPT ![i] = "got"]
    <3>1. ~(i < r) /\ ~(i < r \/ recvWindows[i - r] = END)
      BY <1>2, <1>5
    <3>2. seen[i] = "no"
      BY <1>0, <3>1 DEF InStep
    <3> QED
      BY <1>1, <2>2, <3>2
  <2>5. harm' = FALSE
    BY <1>1, <2>4 DEF Clean
  <2>6. PICK c \in 0 .. WindowSize :
          /\ c = counter
          /\ \A j \in Slots : j < c => marked[j] = END
          /\ c \in Slots => marked[c] # END
    BY EndPrefixRun
  <2>7. \A j \in Slots : marked[j] = IF j = i - r THEN END ELSE recvWindows[j]
    BY DEF ResetType
  <2> HIDE DEF marked, counter
  (* The two sides agree on the window before it moves. *)
  <2>8. \A k \in Slots : seen'[k] = IF k < r \/ marked[k - r] = END THEN "got" ELSE "no"
    <3> SUFFICES ASSUME NEW k \in Slots
                 PROVE  seen'[k] = IF k < r \/ marked[k - r] = END THEN "got" ELSE "no"
      OBVIOUS
    <3>1. CASE k = i
      BY <1>2, <2>1, <2>4, <2>7, <3>1 DEF ResetType
    <3>2. CASE k # i
      <4>1. seen'[k] = seen[k]
        BY <2>4, <3>2 DEF ResetType
      <4>2. ~(k < r) => k - r \in Slots /\ k - r # i - r
        BY <1>2, <3>2, Sizes DEF Slots
      <4>3. ~(k < r) => marked[k - r] = recvWindows[k - r]
        BY <2>7, <4>2
      <4> QED
        BY <1>0, <4>1, <4>3 DEF InStep
    <3> QED
      BY <3>1, <3>2
  <2>9. \A j \in Slots : marked[j] = END => j + r < WindowSize
    <3> SUFFICES ASSUME NEW j \in Slots, marked[j] = END PROVE j + r < WindowSize
      OBVIOUS
    <3>1. CASE j = i - r
      BY <1>2, <3>1
    <3>2. CASE j # i - r
      BY <1>0, <2>7, <3>2 DEF InStep
    <3> QED
      BY <3>1, <3>2
  <2>10. r + c \in 0 .. WindowSize
    <3>1. CASE c = 0
      BY <1>2, <3>1
    <3>2. CASE c # 0
      <4>1. c - 1 \in Slots /\ c - 1 < c
        BY <2>6, <3>2, Sizes DEF Slots
      <4>2. (c - 1) + r < WindowSize
        BY <2>6, <2>9, <4>1
      <4> QED
        BY <1>2, <2>6, <4>2, Sizes
    <3> QED
      BY <3>1, <3>2
  <2>11. recvStamp' = Advance(stamp', r + c)
    <3>1. stamp \in Nat
      BY Sizes DEF Clean, Stamps
    <3>2. Advance(Advance(stamp, r), c) = Advance(stamp, r + c)
      BY <2>6, <3>1, AdvanceTwice
    <3> QED
      BY <1>0, <1>1, <2>3, <2>6, <3>2 DEF InStep
  <2>12. ASSUME NEW k \in Slots
         PROVE  seen'[k] = IF k < r + c \/ recvWindows'[k - (r + c)] = END THEN "got" ELSE "no"
    <3>1. CASE k < r
      <4>1. k < r + c
        BY <1>2, <2>6, <3>1 DEF Slots
      <4> QED
        BY <2>8, <3>1, <4>1
    <3>2. CASE ~(k < r) /\ k < r + c
      <4>1. k - r \in Slots /\ k - r < c
        BY <1>2, <2>6, <3>2, Sizes DEF Slots
      <4>2. marked[k - r] = END
        BY <2>6, <4>1
      <4> QED
        BY <2>8, <3>2, <4>2
    <3>3. CASE ~(k < r + c)
      <4> DEFINE j == k - (r + c)
      <4>1. j \in Slots /\ j + c < WindowSize /\ j + c = k - r /\ ~(k < r)
        BY <1>2, <2>6, <3>3, Sizes DEF Slots
      <4> HIDE DEF j
      <4>2. recvWindows'[j] = marked[j + c]
        <5>1. recvWindows' = Slide(marked, c, IDLE)
          BY <2>3, <2>6
        <5>2. Slide(marked, c, IDLE)[j] = IF j + c < WindowSize THEN marked[j + c] ELSE IDLE
          BY <4>1 DEF Slide
        <5> QED
          BY <4>1, <5>1, <5>2
      <4>3. recvWindows'[j] = marked[k - r]
        BY <4>1, <4>2
      <4> QED
        BY <2>8, <3>3, <4>1, <4>3 DEF j
    <3> QED
      BY <3>1, <3>2, <3>3
  <2>13. ASSUME NEW j \in Slots, recvWindows'[j] = END
         PROVE  j > 0 /\ j + (r + c) < WindowSize
    <3>0. recvWindows'[j] = IF j + c < WindowSize THEN marked[j + c] ELSE IDLE
      <4>1. recvWindows' = Slide(marked, c, IDLE)
        BY <2>3, <2>6
      <4>2. Slide(marked, c, IDLE)[j] = IF j + c < WindowSize THEN marked[j + c] ELSE IDLE
        BY DEF Slide
      <4> QED
        BY <4>1, <4>2
    <3>1. j + c < WindowSize
      BY <2>13, <3>0 DEF IDLE, END
    <3>2. j + c \in Slots /\ recvWindows'[j] = marked[j + c]
      BY <3>0, <3>1, SlideSlot
    <3>3. (j + c) + r < WindowSize
      BY <2>9, <2>13, <3>2
    <3>4. j # 0
      <4> SUFFICES ASSUME j = 0 PROVE FALSE
        OBVIOUS
      <4>1. j + c = c
        BY <2>6
      <4> QED
        BY <2>6, <2>13, <3>2, <4>1
    <3> QED
      BY <1>2, <2>6, <3>3, <3>4 DEF Slots
  <2>14. InStep(r + c)'
    BY <2>11, <2>12, <2>13 DEF InStep
  <2>15. \E k \in 0 .. WindowSize : InStep(k)'
    BY <2>10, <2>14
  <2>16. \A k \in Slots : /\ windows'[k] = IDLE => seen'[k] = "no"
                          /\ windows'[k] = END => seen'[k] = "got"
    <3> SUFFICES ASSUME NEW k \in Slots
                 PROVE  /\ windows'[k] = IDLE => seen'[k] = "no"
                        /\ windows'[k] = END => seen'[k] = "got"
      OBVIOUS
    <3>1. windows[i] # IDLE
      BY DEF UnpktData
    <3>2. seen'[k] = IF k = i THEN "got" ELSE seen[k]
      BY <2>4 DEF ResetType
    <3> QED
      BY <1>1, <3>1, <3>2 DEF Clean
  <2> QED
    BY <1>1, <2>3, <2>5, <2>15, <2>16 DEF Clean
<1> QED
  BY <1>2, <1>4, <1>5

(* An acknowledgement is taken for the slot it is for, and the sender's     *)
(* window moves over frames that the receiver has moved past.               *)
LEMMA RecvATKClean ==
  ASSUME ResetType, Clean, NEW i \in Slots, RecvATK(i), phase = "clean"
  PROVE  Clean'
<1> DEFINE marked == [windows EXCEPT ![i] = END]
           counter == EndPrefix(marked)
<1>0. PICK r \in 0 .. WindowSize : InStep(r)
  BY DEF Clean
<1>1. /\ windows[i] = WAIT_FOR_RES /\ seen[i] # "no" /\ left' = left
      /\ Acknowledge(Advance(stamp, i))
  BY DEF RecvATK
<1>2. ConfirmBorder(stamp, Advance(stamp, i)) = i
  BY <1>0, StampsInStep DEF InStep, Clean
<1>3. i # -1 /\ i \in Slots
  BY Sizes DEF Slots
<1>4. /\ windows' = Slide(marked, counter, IDLE)
      /\ address' = Slide(address, counter, "new")
      /\ seen' = Slide(seen, counter, "no")
      /\ stamp' = Advance(stamp, counter)
      /\ harm' = (harm \/ (phase = "clean" /\ \E k \in Slots : k < counter /\ seen[k] # "got"))
      /\ UNCHANGED <<dead, recvStamp, recvWindows>>
  BY <1>1, <1>2, <1>3 DEF Acknowledge, receiverVars
<1>5. PICK c \in 0 .. WindowSize :
        /\ c = counter
        /\ \A j \in Slots : j < c => marked[j] = END
        /\ c \in Slots => marked[c] # END
  BY EndPrefixRun
<1>6. /\ \A k \in Slots : marked[k] = IF k = i THEN END ELSE windows[k]
      /\ IDLE # END
  BY DEF ResetType, IDLE, END
<1> HIDE DEF marked, counter
<1>7. \A k \in Slots : seen[k] \in {"no", "got"}
  BY <1>0 DEF InStep
<1>8. \A k \in Slots : /\ marked[k] = END => seen[k] = "got"
                       /\ marked[k] = IDLE => seen[k] = "no"
  BY <1>1, <1>6, <1>7 DEF Clean
<1>9. harm' = FALSE
  BY <1>4, <1>5, <1>8 DEF Clean
(* Slot r is the first the receiver still waits for: the window stops there. *)
<1>10. c <= r
  <2> SUFFICES ASSUME r < c PROVE FALSE
    BY Sizes
  <2>1. r \in Slots /\ r - r = 0 /\ ~(r < r)
    BY Sizes DEF Slots
  <2>2. seen[r] = "got"
    BY <1>5, <1>8, <2>1
  <2>3. seen[r] = IF r < r \/ recvWindows[r - r] = END THEN "got" ELSE "no"
    BY <1>0, <2>1 DEF InStep
  <2>4. recvWindows[0] = END
    BY <2>1, <2>2, <2>3
  <2> QED
    BY <1>0, <2>4, Sizes DEF InStep
<1>11. PICK n \in 0 .. WindowSize : n = r - c
  BY <1>10, Sizes
<1>12. r = c + n /\ c \in Nat /\ n \in Nat /\ c + n <= WindowSize
  BY <1>10, <1>11, Sizes
<1>13. stamp' \in Stamps /\ recvStamp' = Advance(stamp', n)
  <2>1. stamp \in Nat
    BY Sizes DEF Clean, Stamps
  <2>2. Advance(Advance(stamp, c), n) = Advance(stamp, c + n) /\ Advance(stamp, c) \in Stamps
    BY <2>1, AdvanceTwice
  <2> QED
    BY <1>0, <1>4, <1>5, <1>12, <2>2 DEF InStep
<1>14. \A k \in Slots :
         /\ seen'[k] = IF k + c < WindowSize THEN seen[k + c] ELSE "no"
         /\ windows'[k] = IF k + c < WindowSize THEN marked[k + c] ELSE IDLE
         /\ address'[k] = IF k + c < WindowSize THEN address[k + c] ELSE "new"
         /\ k + c < WindowSize => k + c \in Slots
  <2> SUFFICES ASSUME NEW k \in Slots
               PROVE  /\ seen'[k] = IF k + c < WindowSize THEN seen[k + c] ELSE "no"
                      /\ windows'[k] = IF k + c < WindowSize THEN marked[k + c] ELSE IDLE
                      /\ address'[k] = IF k + c < WindowSize THEN address[k + c] ELSE "new"
                      /\ k + c < WindowSize => k + c \in Slots
    OBVIOUS
  <2>1. k + c < WindowSize => k + c \in Slots
    BY SlideSlot
  <2>2. seen'[k] = IF k + c < WindowSize THEN seen[k + c] ELSE "no"
    <3>1. seen' = Slide(seen, c, "no")
      BY <1>4, <1>5
    <3>2. Slide(seen, c, "no")[k] = IF k + c < WindowSize THEN seen[k + c] ELSE "no"
      BY DEF Slide
    <3> QED
      BY <3>1, <3>2
  <2>3. windows'[k] = IF k + c < WindowSize THEN marked[k + c] ELSE IDLE
    <3>1. windows' = Slide(marked, c, IDLE)
      BY <1>4, <1>5
    <3>2. Slide(marked, c, IDLE)[k] = IF k + c < WindowSize THEN marked[k + c] ELSE IDLE
      BY DEF Slide
    <3> QED
      BY <3>1, <3>2
  <2>4. address'[k] = IF k + c < WindowSize THEN address[k + c] ELSE "new"
    <3>1. address' = Slide(address, c, "new")
      BY <1>4, <1>5
    <3>2. Slide(address, c, "new")[k] = IF k + c < WindowSize THEN address[k + c] ELSE "new"
      BY DEF Slide
    <3> QED
      BY <3>1, <3>2
  <2> QED
    BY <2>1, <2>2, <2>3, <2>4
<1>15. ASSUME NEW k \in Slots
       PROVE  seen'[k] = IF k < n \/ recvWindows'[k - n] = END THEN "got" ELSE "no"
  <2>1. k \in Nat /\ k < WindowSize
    BY Sizes DEF Slots
  <2>2. CASE k + c < WindowSize
    <3>1. (k + c < r <=> k < n) /\ (k + c) - r = k - n
      BY <1>12, <2>1
    <3>2. seen[k + c] = IF k + c < r \/ recvWindows[(k + c) - r] = END THEN "got" ELSE "no"
      BY <1>0, <1>14, <2>2 DEF InStep
    <3>3. seen'[k] = seen[k + c] /\ recvWindows' = recvWindows
      BY <1>4, <1>14, <2>2
    <3> QED
      BY <3>1, <3>2, <3>3
  <2>3. CASE ~(k + c < WindowSize)
    <3>1. ~(k < n) /\ k - n \in Slots /\ ~((k - n) + r < WindowSize)
      BY <1>12, <2>1, <2>3, Sizes DEF Slots
    <3>2. recvWindows[k - n] # END
      BY <1>0, <3>1 DEF InStep
    <3>3. seen'[k] = "no" /\ recvWindows' = recvWindows
      BY <1>4, <1>14, <2>3
    <3> QED
      BY <3>1, <3>2, <3>3
  <2> QED
    BY <2>2, <2>3
<1>16. ASSUME NEW j \in Slots, recvWindows'[j] = END
       PROVE  j > 0 /\ j + n < WindowSize
  <2>1. j > 0 /\ j + r < WindowSize
    BY <1>0, <1>4, <1>16 DEF InStep
  <2> QED
    BY <1>12, <2>1, Sizes DEF Slots
<1>17. InStep(n)'
  BY <1>13, <1>15, <1>16 DEF InStep
<1>18. \E k \in 0 .. WindowSize : InStep(k)'
  BY <1>17
<1>19. \A k \in Slots : /\ windows'[k] = IDLE => seen'[k] = "no"
                        /\ windows'[k] = END => seen'[k] = "got"
  BY <1>6, <1>8, <1>14
<1>20. address' = Fresh("new")
  <2>1. \A k \in Slots : address[k] = "new"
    BY DEF Clean, Fresh
  <2>2. \A k \in Slots : address'[k] = "new"
    BY <1>14, <2>1
  <2>3. address' = [k \in Slots |-> address'[k]]
    BY <1>4 DEF Slide
  <2> QED
    BY <2>2, <2>3 DEF Fresh
<1> QED
  BY <1>1, <1>4, <1>9, <1>13, <1>18, <1>19, <1>20 DEF Clean

LEMMA CleanStep ==
  ASSUME ResetInv, [Next]_vars, phase' = "clean"
  PROVE  Clean'
<1>1. CASE phase = "clean"
  <2>0. Clean /\ ResetType
    BY <1>1 DEF ResetInv
  <2>1. CASE PktData
    BY <2>0, <2>1, PktDataClean
  <2>2. ASSUME NEW i \in Slots, UnpktData(i) \/ RecvATK(i) PROVE Clean'
    BY <1>1, <2>0, <2>2, UnpktDataClean, RecvATKClean
  <2>3. ~(UnpktLeftover \/ RecvLeftover \/ LoseLeftover)
    BY <2>0 DEF Clean, None, UnpktLeftover, RecvLeftover, LoseLeftover
  <2>4. ~(HandleReset \/ SpuriousReset \/ Restart)
    BY <1>1 DEF HandleReset, CleanRestart, SpuriousReset, Restart
  <2>5. CASE LoseReset \/ Back \/ UNCHANGED vars
    <3>1. UNCHANGED <<stamp, windows, address, seen, recvStamp, recvWindows, left, dead, harm>>
      BY <2>5 DEF LoseReset, Back, vars, senderVars, receiverVars
    <3>2. \A r \in 0 .. WindowSize : InStep(r) => InStep(r)'
      BY <3>1 DEF InStep
    <3> QED
      BY <2>0, <3>1, <3>2 DEF Clean
  <2> QED
    BY <2>1, <2>2, <2>3, <2>4, <2>5 DEF Next
<1>2. CASE phase # "clean"
  <2>1. HandleReset
    BY <1>2 DEF Next, vars, PktData, UnpktData, RecvATK, UnpktLeftover, RecvLeftover,
                Acknowledge, LoseLeftover, SpuriousReset, LoseReset, Restart, Back
  <2>2. phase = "restarted"
    BY <2>1 DEF HandleReset, CleanRestart
  <2> QED
    BY <2>1, <2>2, ResetMakesClean DEF ResetInv
<1> QED
  BY <1>1, <1>2

-----------------------------------------------------------------------------
LEMMA ResetInit == Init => ResetInv
<1> SUFFICES ASSUME Init PROVE ResetInv
  OBVIOUS
<1>1. ResetType
  <2>1. /\ windows \in [Slots -> {IDLE, WAIT_FOR_RES, END}]
        /\ recvWindows \in [Slots -> {IDLE, END}]
        /\ address \in [Slots -> {"new", "old"}]
        /\ seen \in [Slots -> {"no", "acked", "got"}]
    BY FreshIs DEF Init
  <2> QED
    BY <2>1 DEF Init, ResetType, None
<1>2. \A i \in Slots : windows[i] = IDLE
  BY DEF Init, Fresh
<1>3. Restarted
  BY <1>2 DEF Init, Restarted, RestartedUp, RestartedDown, None, IDLE, END
<1> QED
  BY <1>1, <1>3 DEF Init, ResetInv

(* Through any number of restarts, lost, late and spurious resets.          *)
THEOREM ResetInvariant == Spec => []ResetInv
<1>1. ResetInv /\ [Next]_vars => ResetInv'
  BY TypeStep, RestartedStep, CleanStep DEF ResetInv
<1> QED
  BY <1>1, ResetInit, PTL DEF Spec

(* Window.init() of the relay makes a session as good as the first when the *)
(* reset comes before any frame of the session, nothing of the last one is  *)
(* in flight and the relay holds no frame out of order: nothing is lost,    *)
(* doubled or mistaken and no thread meets a stamp it cannot place.         *)
THEOREM ResetCleanIsLossless == Spec => []CleanIsLossless
<1>1. ResetInv => CleanIsLossless
  BY DEF ResetInv, Clean, CleanIsLossless
<1> QED
  BY <1>1, ResetInvariant, PTL
=============================================================================
