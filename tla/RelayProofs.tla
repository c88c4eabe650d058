----------------------------- MODULE RelayProofs -----------------------------
(***************************************************************************)
(* What the relay does with the frames between its two hops, for any window *)
(* size and any number of frames: none is lost but those pktData() refused  *)
(* after unpktData() had acknowledged them, and those a robot gone astray   *)
(* acknowledged.                                                            *)
(***************************************************************************)
EXTENDS VideoRelay, TLAPS

RelayType ==
  /\ produced \in [Keys -> Nat]
  /\ base \in [Keys -> Nat]
  /\ delivered \in [Keys -> SUBSET Nat]
  /\ sent \in [Keys -> Seq(Nat)]
  /\ relayBase \in [Keys -> Nat]
  /\ arrived \in [Keys -> SUBSET Nat]
  /\ acked \in [Keys -> SUBSET Nat]
  /\ dropped \in [Keys -> SUBSET Nat]

(* Every frame the relay took was forwarded, once, or dropped, not both. *)
Sorted(took, out, gone) ==
  /\ \A n \in took : n \in gone \/ \E i \in 1 .. Len(out) : out[i] = n
  /\ gone \subseteq took
  /\ \A i \in 1 .. Len(out) : out[i] \in took /\ out[i] \notin gone
  /\ \A i, j \in 1 .. Len(out) : out[i] = out[j] => i = j

(* What an endpoint has forgotten the relay has taken. *)
Taken(took, b) == \A n \in 0 .. b - 1 : n \in took

(* What the relay has forgotten was acknowledged. *)
ForgotAcked(out, b, confirmed) ==
  /\ b <= Len(out)
  /\ \A i \in 1 .. b : i \in confirmed

(* What was acknowledged was taken, but for a robot gone astray. *)
AckedTaken(k, confirmed, got) ==
  \A i \in confirmed : i \in got \/ (k = "VideoPhone" /\ robot # "in order")

(* Inductive invariant of one direction, and of the relay. *)
DirectionInv(k) ==
  /\ Sorted(delivered[k], sent[k], dropped[k])
  /\ Taken(delivered[k], base[k])
  /\ ForgotAcked(sent[k], relayBase[k], acked[k])
  /\ AckedTaken(k, acked[k], arrived[k])

RelayInv == RelayType /\ \A k \in Keys : DirectionInv(k)

LEMMA RelayInit == Init => RelayInv
<1> SUFFICES ASSUME Init PROVE RelayInv
  OBVIOUS
<1>1. RelayType
  <2>1. {} \in SUBSET Nat /\ <<>> \in Seq(Nat) /\ 0 \in Nat
    OBVIOUS
  <2> QED
    BY <2>1, Zenon DEF Init, RelayType
<1>2. ASSUME NEW k \in Keys PROVE DirectionInv(k)
  <2>1. /\ delivered[k] = {} /\ sent[k] = <<>> /\ dropped[k] = {}
        /\ base[k] = 0 /\ relayBase[k] = 0 /\ acked[k] = {}
    BY DEF Init
  <2>2. Sorted(delivered[k], sent[k], dropped[k]) /\ Taken(delivered[k], base[k])
    BY <2>1 DEF Sorted, Taken
  <2>3. ForgotAcked(sent[k], relayBase[k], acked[k]) /\ AckedTaken(k, acked[k], arrived[k])
    BY <2>1 DEF ForgotAcked, AckedTaken
  <2> QED
    BY <2>2, <2>3 DEF DirectionInv
<1> QED
  BY <1>1, <1>2 DEF RelayInv

(* unpktData() of a new frame and pktData() with room for it. *)
LEMMA SortedForwards ==
  ASSUME NEW took \in SUBSET Nat, NEW out \in Seq(Nat), NEW gone \in SUBSET Nat,
         NEW n \in Nat, n \notin took, Sorted(took, out, gone)
  PROVE  Sorted(took \cup {n}, Append(out, n), gone)
<1> DEFINE longer == Append(out, n)
<1>1. /\ Len(longer) = Len(out) + 1 /\ Len(out) \in Nat
      /\ \A i \in 1 .. Len(out) : longer[i] = out[i]
      /\ longer[Len(out) + 1] = n
  OBVIOUS
<1> HIDE DEF longer
<1>2. \A i \in 1 .. Len(longer) : i \in 1 .. Len(out) \/ i = Len(out) + 1
  BY <1>1
<1>3. 1 .. Len(out) \subseteq 1 .. Len(longer) /\ Len(out) + 1 \in 1 .. Len(longer)
  BY <1>1
<1>4. n \notin gone /\ \A i \in 1 .. Len(out) : out[i] # n
  BY DEF Sorted
<1>5. \A m \in took \cup {n} : m \in gone \/ \E i \in 1 .. Len(longer) : longer[i] = m
  BY <1>1, <1>3 DEF Sorted
<1>6. \A i \in 1 .. Len(longer) : longer[i] \in took \cup {n} /\ longer[i] \notin gone
  BY <1>1, <1>2, <1>4 DEF Sorted
<1>7. \A i, j \in 1 .. Len(longer) : longer[i] = longer[j] => i = j
  BY <1>1, <1>2, <1>4 DEF Sorted
<1> QED
  BY <1>5, <1>6, <1>7 DEF Sorted, longer

(* The same with no room: the frame is dropped. *)
LEMMA SortedDrops ==
  ASSUME NEW took, NEW out, NEW gone, NEW n, n \notin took, Sorted(took, out, gone)
  PROVE  Sorted(took \cup {n}, out, gone \cup {n})
  BY DEF Sorted

(* A step that leaves direction j alone keeps its part of the invariant. *)
LEMMA OtherDirection ==
  ASSUME NEW j \in Keys, DirectionInv(j),
         base'[j] = base[j], delivered'[j] = delivered[j], sent'[j] = sent[j],
         relayBase'[j] = relayBase[j], arrived'[j] = arrived[j], dropped'[j] = dropped[j],
         acked'[j] = acked[j], j = "VideoPhone" /\ robot # "in order" => robot' # "in order"
  PROVE  DirectionInv(j)'
  BY DEF DirectionInv, AckedTaken

LEMMA ForwardInv ==
  ASSUME RelayInv, NEW k \in Keys, NEW n \in 0 .. MaxFrame[k] - 1, Forward(k, n)
  PROVE  RelayInv'
<1>1. /\ n \in Nat /\ n \notin delivered[k]
      /\ delivered' = [delivered EXCEPT ![k] = @ \cup {n}]
      /\ UNCHANGED <<produced, base, relayBase, arrived, acked, robot>>
  BY RelayAssumption DEF Forward, upVars, downVars
<1>2. \/ sent' = [sent EXCEPT ![k] = Append(@, n)] /\ dropped' = dropped
      \/ dropped' = [dropped EXCEPT ![k] = @ \cup {n}] /\ sent' = sent
  BY DEF Forward
<1>3. RelayType'
  <2>1. delivered' \in [Keys -> SUBSET Nat]
    BY <1>1 DEF RelayInv, RelayType
  <2>2. Append(sent[k], n) \in Seq(Nat)
    BY <1>1 DEF RelayInv, RelayType
  <2>3. sent' \in [Keys -> Seq(Nat)]
    BY <1>2, <2>2 DEF RelayInv, RelayType
  <2>4. dropped' \in [Keys -> SUBSET Nat]
    <3>1. dropped[k] \cup {n} \in SUBSET Nat /\ dropped \in [Keys -> SUBSET Nat]
      BY <1>1 DEF RelayInv, RelayType
    <3> QED
      BY <1>2, <3>1, Zenon
  <2> QED
    BY <1>1, <2>1, <2>3, <2>4 DEF RelayInv, RelayType
<1>4. ASSUME NEW j \in Keys PROVE DirectionInv(j)'
  <2>1. CASE j # k
    BY <1>1, <1>2, <2>1, OtherDirection DEF RelayInv, RelayType
  <2>2. CASE j = k
    <3> DEFINE took == delivered[k]
               out == sent[k]
               gone == dropped[k]
    <3>1. /\ took \in SUBSET Nat /\ out \in Seq(Nat) /\ gone \in SUBSET Nat
          /\ Sorted(took, out, gone) /\ Taken(took, base[k])
          /\ ForgotAcked(out, relayBase[k], acked[k])
          /\ AckedTaken(k, acked[k], arrived[k])
          /\ relayBase[k] \in Nat
      BY DEF RelayInv, RelayType, DirectionInv
    <3>2. /\ delivered'[k] = took \cup {n}
          /\ base'[k] = base[k] /\ relayBase'[k] = relayBase[k]
          /\ arrived'[k] = arrived[k] /\ acked'[k] = acked[k] /\ robot' = robot
      BY <1>1 DEF RelayInv, RelayType
    <3>3. \/ sent'[k] = Append(out, n) /\ dropped'[k] = gone
          \/ sent'[k] = out /\ dropped'[k] = gone \cup {n}
      BY <1>2 DEF RelayInv, RelayType
    <3> HIDE DEF took, out, gone
    <3>4. Sorted(delivered'[k], sent'[k], dropped'[k])
      <4>1. n \notin took
        BY <1>1 DEF took
      <4>2. Sorted(took \cup {n}, Append(out, n), gone)
        BY <1>1, <3>1, <4>1, SortedForwards
      <4>3. Sorted(took \cup {n}, out, gone \cup {n})
        BY <3>1, <4>1, SortedDrops
      <4> QED
        BY <3>2, <3>3, <4>2, <4>3
    <3>5. Taken(delivered'[k], base'[k])
      BY <3>1, <3>2 DEF Taken
    <3>6. ForgotAcked(sent'[k], relayBase'[k], acked'[k])
      <4>1. Len(out) \in Nat /\ Len(out) <= Len(Append(out, n))
        BY <1>1, <3>1
      <4>2. Len(sent'[k]) \in {Len(out), Len(Append(out, n))}
        BY <3>3
      <4>3. relayBase'[k] <= Len(sent'[k])
        BY <3>1, <3>2, <3>3, <4>1 DEF ForgotAcked
      <4> QED
        BY <3>1, <3>2, <4>3 DEF ForgotAcked
    <3>7. AckedTaken(k, acked[k], arrived[k])'
      BY <3>1, <3>2 DEF AckedTaken
    <3> QED
      BY <2>2, <3>4, <3>5, <3>6, <3>7 DEF DirectionInv
  <2> QED
    BY <2>1, <2>2
<1> QED
  BY <1>3, <1>4 DEF RelayInv

LEMMA AcknowledgedInv ==
  ASSUME RelayInv, NEW k \in Keys, NEW b \in 1 .. MaxFrame[k], Acknowledged(k, b)
  PROVE  RelayInv'
<1>1. /\ b \in Nat /\ base' = [base EXCEPT ![k] = b]
      /\ \A n \in base[k] .. b - 1 : n \in delivered[k]
      /\ UNCHANGED <<produced, delivered, sent, relayBase, arrived, acked, robot, dropped>>
  BY RelayAssumption DEF Acknowledged, downVars
<1>2. RelayType'
  BY <1>1 DEF RelayInv, RelayType
<1>3. ASSUME NEW j \in Keys PROVE DirectionInv(j)'
  <2>1. CASE j # k
    BY <1>1, <2>1, OtherDirection DEF RelayInv, RelayType
  <2>2. CASE j = k
    <3>1. base'[k] = b /\ base[k] \in Nat
      BY <1>1 DEF RelayInv, RelayType
    <3>2. Taken(delivered[k], b)
      BY <1>1, <3>1 DEF RelayInv, DirectionInv, Taken
    <3> QED
      BY <1>1, <2>2, <3>1, <3>2 DEF RelayInv, DirectionInv, AckedTaken
  <2> QED
    BY <2>1, <2>2
<1> QED
  BY <1>2, <1>3 DEF RelayInv

(* A frame reaches the phone, or the robot: it is acknowledged, and taken   *)
(* unless the robot has gone astray.                                        *)
LEMMA ArriveInv ==
  ASSUME RelayInv, NEW k \in Keys, NEW i \in Nat,
         acked' = [acked EXCEPT ![k] = @ \cup {i}],
         arrived' \in {arrived, [arrived EXCEPT ![k] = @ \cup {i}]},
         arrived' = arrived => k = "VideoPhone" /\ robot # "in order",
         robot # "in order" => robot' # "in order",
         UNCHANGED <<produced, base, delivered, sent, relayBase, dropped>>
  PROVE  RelayInv'
<1>1. arrived' \in [Keys -> SUBSET Nat] /\ acked' \in [Keys -> SUBSET Nat]
  BY DEF RelayInv, RelayType
<1>2. RelayType'
  BY <1>1 DEF RelayInv, RelayType
<1>3. ASSUME NEW j \in Keys PROVE DirectionInv(j)'
  <2>1. arrived[j] \subseteq arrived'[j] /\ acked[j] \subseteq acked'[j]
    BY DEF RelayInv, RelayType
  <2>2. AckedTaken(j, acked[j], arrived[j])'
    <3> SUFFICES ASSUME NEW a \in acked'[j]
                 PROVE  a \in arrived'[j] \/ (j = "VideoPhone" /\ robot' # "in order")
      BY DEF AckedTaken
    <3>1. CASE a \in acked[j]
      BY <2>1, <3>1 DEF RelayInv, DirectionInv, AckedTaken
    <3>2. CASE a \notin acked[j]
      <4>1. j = k /\ a = i
        BY <3>2 DEF RelayInv, RelayType
      <4> QED
        BY <4>1 DEF RelayInv, RelayType
    <3> QED
      BY <3>1, <3>2
  <2> QED
    BY <2>1, <2>2 DEF RelayInv, DirectionInv, ForgotAcked
<1> QED
  BY <1>2, <1>3 DEF RelayInv

LEMMA PhoneArrivalInv ==
  ASSUME RelayInv, NEW i \in 1 .. MaxFrame["VideoRaspberry"], ArriveAtPhone(i)
  PROVE  RelayInv'
<1>1. "VideoRaspberry" \in Keys /\ i \in Nat
  BY RelayAssumption DEF Keys
<1>2. i \notin arrived["VideoRaspberry"]
  BY DEF ArriveAtPhone
<1>3. /\ acked' = [acked EXCEPT !["VideoRaspberry"] = @ \cup {i}]
      /\ arrived' = [arrived EXCEPT !["VideoRaspberry"] = @ \cup {i}]
      /\ UNCHANGED <<produced, base, delivered, sent, relayBase, dropped, robot>>
  BY DEF ArriveAtPhone, upVars
<1>4. arrived' # arrived
  BY <1>1, <1>2, <1>3 DEF RelayInv, RelayType
<1> QED
  BY <1>1, <1>3, <1>4, ArriveInv

LEMMA RobotArrivalInv ==
  ASSUME RelayInv, NEW i \in 1 .. MaxFrame["VideoPhone"], ArriveAtRobot(i)
  PROVE  RelayInv'
<1>1. "VideoPhone" \in Keys /\ i \in Nat
  BY RelayAssumption DEF Keys
<1>2. /\ acked' = [acked EXCEPT !["VideoPhone"] = @ \cup {i}]
      /\ UNCHANGED <<produced, base, delivered, sent, relayBase, dropped>>
      /\ i \notin arrived["VideoPhone"]
  BY DEF ArriveAtRobot, upVars
<1>3. CASE /\ arrived' = [arrived EXCEPT !["VideoPhone"] = @ \cup {i}]
           /\ robot' \in {"astray", robot}
  <2>1. arrived' # arrived
    BY <1>1, <1>2, <1>3 DEF RelayInv, RelayType
  <2> QED
    BY <1>1, <1>2, <1>3, <2>1, ArriveInv
<1>4. CASE arrived' = arrived /\ robot = "astray" /\ robot' \in {"astray", "ended"}
  BY <1>1, <1>2, <1>4, ArriveInv
<1> QED
  BY <1>3, <1>4 DEF ArriveAtRobot

LEMMA RecvATKInv ==
  ASSUME RelayInv, NEW k \in Keys, NEW b \in 1 .. MaxFrame[k], RecvATK(k, b)
  PROVE  RelayInv'
<1>1. /\ b \in Nat /\ relayBase' = [relayBase EXCEPT ![k] = b]
      /\ b \in relayBase[k] + 1 .. Len(sent[k])
      /\ \A i \in relayBase[k] + 1 .. b : i \in acked[k]
      /\ UNCHANGED <<produced, base, delivered, sent, arrived, acked, robot, dropped>>
  BY RelayAssumption DEF RecvATK, upVars
<1>2. RelayType'
  BY <1>1 DEF RelayInv, RelayType
<1>3. ASSUME NEW j \in Keys PROVE DirectionInv(j)'
  <2>1. CASE j # k
    BY <1>1, <2>1, OtherDirection DEF RelayInv, RelayType
  <2>2. CASE j = k
    <3>1. relayBase'[k] = b /\ relayBase[k] \in Nat /\ Len(sent[k]) \in Nat
      BY <1>1 DEF RelayInv, RelayType
    <3>2. ForgotAcked(sent[k], b, acked[k])
      BY <1>1, <3>1 DEF RelayInv, DirectionInv, ForgotAcked
    <3> QED
      BY <1>1, <2>2, <3>1, <3>2 DEF RelayInv, DirectionInv, AckedTaken
  <2> QED
    BY <2>1, <2>2
<1> QED
  BY <1>2, <1>3 DEF RelayInv

LEMMA RelayStep == RelayInv /\ [Next]_vars => RelayInv'
<1> SUFFICES ASSUME RelayInv, [Next]_vars PROVE RelayInv'
  OBVIOUS
<1> DEFINE rest == <<base, delivered, sent, relayBase, arrived, acked, robot, dropped>>
<1>1. ASSUME RelayType', UNCHANGED rest PROVE RelayInv'
  BY <1>1 DEF RelayInv, DirectionInv, AckedTaken
<1>2. CASE \E k \in Keys : Offer(k)
  <2>1. PICK k \in Keys : Offer(k)
    BY <1>2
  <2>2. RelayType' /\ UNCHANGED rest
    BY <2>1 DEF Offer, downVars, RelayInv, RelayType
  <2> QED
    BY <1>1, <2>2
<1>3. CASE UNCHANGED <<produced, rest>>
  BY <1>1, <1>3 DEF RelayInv, RelayType
<1>4. PutWindow \/ BeginWalk \/ NextEntry \/ UNCHANGED vars => UNCHANGED <<produced, rest>>
  BY DEF PutWindow, BeginWalk, NextEntry, vars, upVars, downVars
<1> HIDE DEF rest
<1> QED
  BY <1>2, <1>3, <1>4, ForwardInv, AcknowledgedInv, PhoneArrivalInv, RobotArrivalInv, RecvATKInv
  DEF Next

(* The inductive invariant of the relay. *)
THEOREM RelayInvariant == Spec => []RelayInv
  BY RelayInit, RelayStep, PTL DEF Spec

(* A frame its endpoint has forgotten reached the other one, is held by the *)
(* relay for resending, or was refused by pktData() after unpktData() had   *)
(* acknowledged it; the only others are those that recv() of the robot      *)
(* acknowledged and did not take, after a frame had overtaken another.      *)
THEOREM RelayForgottenIsAccountedFor == Spec => []ForgottenIsAccountedFor
<1>1. RelayInv => ForgottenIsAccountedFor
  <2> SUFFICES ASSUME RelayInv, NEW k \in Keys, NEW n \in 0 .. base[k] - 1,
                      n \notin dropped[k], n \notin Held(k)
               PROVE  \/ n \in Reached(k)
                      \/ k = "VideoPhone" /\ robot # "in order" /\ n \in Astray(k)
    BY DEF ForgottenIsAccountedFor
  <2>1. PICK i \in 1 .. Len(sent[k]) : sent[k][i] = n
    BY DEF RelayInv, DirectionInv, Taken, Sorted
  <2>2. relayBase[k] \in Nat /\ Len(sent[k]) \in Nat
    BY DEF RelayInv, RelayType
  <2>3. CASE i <= relayBase[k]
    <3>1. i \in acked[k]
      BY <2>2, <2>3 DEF RelayInv, DirectionInv, ForgotAcked
    <3>2. i \in arrived[k] \/ (k = "VideoPhone" /\ robot # "in order")
      BY <3>1 DEF RelayInv, DirectionInv, AckedTaken
    <3>3. CASE i \in arrived[k]
      BY <2>1, <3>3 DEF Reached
    <3>4. CASE i \notin arrived[k]
      <4>1. n \in Astray(k)
        BY <2>1, <3>1, <3>4 DEF Astray
      <4> QED
        BY <3>2, <3>4, <4>1
    <3> QED
      BY <3>3, <3>4
  <2>4. CASE i > relayBase[k]
    <3>1. i \in relayBase[k] + 1 .. Len(sent[k])
      BY <2>2, <2>4
    <3> QED
      BY <2>1, <3>1 DEF Held
  <2>5. i <= relayBase[k] \/ i > relayBase[k]
    BY <2>2
  <2> QED
    BY <2>3, <2>4, <2>5
<1> QED
  BY <1>1, RelayInvariant, PTL
=============================================================================
