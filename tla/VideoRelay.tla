----------------------------- MODULE VideoRelay -----------------------------
(***************************************************************************)
(* The relay between robot and phone: the receive loop of SlidingWindow in *)
(* javaServer/Server.java with its two Windows, composed with the two hops *)
(* of each direction.  Three of the hops are the abstract one of           *)
(* FrameDelivery, which SlidingLink and RobotUplink implement.  The hop to  *)
(* the robot promises less: by RobotDownlink its receiver takes what it     *)
(* acknowledges only until a frame overtakes another; from then on it may   *)
(* acknowledge frames it does not take, and its thread may end, which also  *)
(* handles the acknowledgements for what the robot sends.  What is modelled *)
(* in detail is what the loop does between the hops.                        *)
(*                                                                         *)
(* windowMap.get(key) is one object per link: for traffic from src to dst   *)
(* the loop takes window = windowMap.get(dst), whose recvWindows receive    *)
(* from src and whose windows send to src, and srcwindow =                  *)
(* windowMap.get(src), whose windows send to dst.  It tests haveIdle() of   *)
(* the window that sends back to src, acknowledges the frame, and only then *)
(* finds out whether the window towards dst has room.                       *)
(*                                                                         *)
(* The two Windows are made when the first datagram arrives, while the      *)
(* resend thread walks over windowMap, a TreeMap nobody locks.              *)
(***************************************************************************)
EXTENDS Integers, Sequences, FiniteSets

CONSTANTS WindowSize,   \* slots of every window
          MaxFrame      \* MaxFrame[k]: frames the camera of endpoint k offers

Keys == {"VideoRaspberry", "VideoPhone"}

ASSUME RelayAssumption == WindowSize \in Nat \ {0} /\ MaxFrame \in [Keys -> Nat]

Other(k) == CHOOSE j \in Keys : j # k

VARIABLES produced,    \* produced[k]: frames accepted by the window of endpoint k
          base,        \* base[k]: frames endpoint k has forgotten
          delivered,   \* delivered[k]: frames of k that unpktData() of the relay took
          sent,        \* sent[k]: the frames of k in the order srcwindow.pktData() took them
          relayBase,   \* relayBase[k]: how many of sent[k] recvATK() of the relay forgot
          arrived,     \* arrived[k]: positions of sent[k] that the other endpoint took
          acked,       \* acked[k]: positions of sent[k] that it has acknowledged
          robot,       \* the robot's receiver: "in order", "astray" or "ended"
          dropped,     \* history: frames acknowledged and then refused by pktData()
          mapped,      \* Windows in windowMap
          walk,        \* Windows there were when the resend thread began its walk, or 0
          resending    \* the resend thread is alive

mapVars == <<mapped, walk, resending>>
vars == <<produced, base, delivered, sent, relayBase, arrived, acked, robot, dropped, mapVars>>
upVars == <<produced, base>>
downVars == <<relayBase, arrived, acked, robot>>

Init ==
  /\ produced = [k \in Keys |-> 0]
  /\ base = [k \in Keys |-> 0]
  /\ delivered = [k \in Keys |-> {}]
  /\ sent = [k \in Keys |-> <<>>]
  /\ relayBase = [k \in Keys |-> 0]
  /\ arrived = [k \in Keys |-> {}]
  /\ acked = [k \in Keys |-> {}]
  /\ robot = "in order"
  /\ dropped = [k \in Keys |-> {}]
  /\ mapped = 0 /\ walk = 0 /\ resending = TRUE

(* haveIdle() of the relay's window that holds the frames of k. *)
HaveIdle(k) == Len(sent[k]) < relayBase[k] + WindowSize

(* Endpoint k takes a frame from its camera into its window. *)
Offer(k) ==
  /\ produced[k] < MaxFrame[k]
  /\ produced[k] < base[k] + WindowSize
  /\ produced' = [produced EXCEPT ![k] = @ + 1]
  /\ UNCHANGED <<base, delivered, sent, downVars, dropped, mapVars>>

(* The receive loop on a frame n of endpoint k that is new to it: gate on   *)
(* the opposite direction, acknowledge, forward or drop.                    *)
Forward(k, n) ==
  /\ n \in (0 .. produced[k] - 1) \ delivered[k]
  /\ mapped = Cardinality(Keys)
  /\ HaveIdle(Other(k))
  /\ delivered' = [delivered EXCEPT ![k] = @ \cup {n}]
  /\ \/ /\ HaveIdle(k)
        /\ sent' = [sent EXCEPT ![k] = Append(@, n)]
        /\ UNCHANGED dropped
     \/ /\ ~HaveIdle(k)
        /\ dropped' = [dropped EXCEPT ![k] = @ \cup {n}]
        /\ UNCHANGED sent
  /\ UNCHANGED <<upVars, downVars, mapVars>>

(* Endpoint k handles the relay's acknowledgements up to frame b - 1, on    *)
(* the robot in the thread that receives frames too.                        *)
Acknowledged(k, b) ==
  /\ k = "VideoRaspberry" => robot # "ended"
  /\ b \in base[k] + 1 .. produced[k]
  /\ \A n \in base[k] .. b - 1 : n \in delivered[k]
  /\ base' = [base EXCEPT ![k] = b]
  /\ UNCHANGED <<produced, delivered, sent, downVars, dropped, mapVars>>

(* The i-th frame forwarded to the phone reaches it: unpktData() of the     *)
(* phone acknowledges and takes it.                                         *)
ArriveAtPhone(i) ==
  LET k == "VideoRaspberry" IN
  /\ i \in (1 .. Len(sent[k])) \ arrived[k]
  /\ acked' = [acked EXCEPT ![k] = @ \cup {i}]
  /\ arrived' = [arrived EXCEPT ![k] = @ \cup {i}]
  /\ UNCHANGED <<upVars, delivered, sent, relayBase, robot, dropped, mapVars>>

(* The i-th frame forwarded to the robot reaches it: recv() acknowledges    *)
(* first.  Then it takes the frame; or, once a frame has overtaken another, *)
(* finds no place for it, or an index past its list, which ends the thread. *)
ArriveAtRobot(i) ==
  LET k == "VideoPhone" IN
  /\ robot # "ended"
  /\ i \in (1 .. Len(sent[k])) \ arrived[k]
  /\ acked' = [acked EXCEPT ![k] = @ \cup {i}]
  /\ \/ /\ arrived' = [arrived EXCEPT ![k] = @ \cup {i}]
        /\ robot' = IF \E j \in 1 .. i - 1 : j \notin arrived[k] THEN "astray" ELSE robot
     \/ /\ robot = "astray"
        /\ robot' \in {"astray", "ended"}
        /\ UNCHANGED arrived
  /\ UNCHANGED <<upVars, delivered, sent, relayBase, dropped, mapVars>>

(* Mutant: haveIdle() is tested before the acknowledgement branch.          *)
RecvATKGated(k, b) ==
  /\ HaveIdle(k)
  /\ b \in relayBase[k] + 1 .. Len(sent[k])
  /\ \A i \in relayBase[k] + 1 .. b : i \in acked[k]
  /\ relayBase' = [relayBase EXCEPT ![k] = b]
  /\ UNCHANGED <<upVars, delivered, sent, arrived, acked, robot, dropped, mapVars>>

(* Mutant: the relay's window moves over frames still unacknowledged.       *)
RecvATKSkips(k, b) ==
  /\ b \in relayBase[k] + 1 .. Len(sent[k])
  /\ b \in acked[k]
  /\ relayBase' = [relayBase EXCEPT ![k] = b]
  /\ UNCHANGED <<upVars, delivered, sent, arrived, acked, robot, dropped, mapVars>>

(* The receive loop on acknowledgements for the frames of k: recvATK() runs *)
(* before haveIdle() is tested.                                             *)
RecvATK(k, b) ==
  /\ b \in relayBase[k] + 1 .. Len(sent[k])
  /\ \A i \in relayBase[k] + 1 .. b : i \in acked[k]
  /\ relayBase' = [relayBase EXCEPT ![k] = b]
  /\ UNCHANGED <<upVars, delivered, sent, arrived, acked, robot, dropped, mapVars>>

(* Mutant: the loop drops a Window to make it anew.                         *)
PutWindowAnew ==
  /\ mapped' = IF mapped < Cardinality(Keys) THEN mapped + 1 ELSE 1
  /\ UNCHANGED <<upVars, delivered, sent, downVars, dropped, walk, resending>>

(* The receive loop finds a key without a Window and puts one into the map. *)
PutWindow ==
  /\ mapped < Cardinality(Keys)
  /\ mapped' = mapped + 1
  /\ UNCHANGED <<upVars, delivered, sent, downVars, dropped, walk, resending>>

(* The resend thread gets an iterator; that of an empty map has no entry.   *)
BeginWalk ==
  /\ resending /\ walk = 0
  /\ walk' = mapped
  /\ UNCHANGED <<upVars, delivered, sent, downVars, dropped, mapped, resending>>

(* next() of the iterator throws if the map has grown since, which ends the *)
(* thread: nothing is sent again from then on.                              *)
NextEntry ==
  /\ resending /\ walk # 0
  /\ walk' = 0
  /\ resending' = (walk = mapped)
  /\ UNCHANGED <<upVars, delivered, sent, downVars, dropped, mapped>>

Next ==
  \/ \E k \in Keys :
       \/ Offer(k)
       \/ \E n \in 0 .. MaxFrame[k] - 1 : Forward(k, n)
       \/ \E b \in 1 .. MaxFrame[k] : Acknowledged(k, b)
       \/ \E b \in 1 .. MaxFrame[k] : RecvATK(k, b)
  \/ \E i \in 1 .. MaxFrame["VideoRaspberry"] : ArriveAtPhone(i)
  \/ \E i \in 1 .. MaxFrame["VideoPhone"] : ArriveAtRobot(i)
  \/ PutWindow \/ BeginWalk \/ NextEntry

Spec == Init /\ [][Next]_vars

(* Resends make a frame arrive, and be acknowledged anew, as long as the    *)
(* thread that resends and the one that receives are alive; a frame the     *)
(* closed gate ignored is resent until it is open at the right moment,      *)
(* which is strong fairness.  The relay resends to the robot what the robot *)
(* has not acknowledged, taken or not, and the acknowledgements of a robot  *)
(* whose thread has ended may be lost.  Cameras owe nothing.                *)
Fairness ==
  /\ WF_vars(PutWindow) /\ WF_vars(BeginWalk) /\ WF_vars(NextEntry)
  /\ WF_vars(resending /\ \E i \in 1 .. MaxFrame["VideoRaspberry"] : ArriveAtPhone(i))
  /\ WF_vars(resending /\ \E i \in (1 .. MaxFrame["VideoPhone"]) \ acked["VideoPhone"] : ArriveAtRobot(i))
  /\ WF_vars(\E b \in 1 .. MaxFrame["VideoRaspberry"] : RecvATK("VideoRaspberry", b))
  /\ WF_vars(robot # "ended" /\ \E b \in 1 .. MaxFrame["VideoPhone"] : RecvATK("VideoPhone", b))
  /\ \A k \in Keys :
       /\ SF_vars(\E n \in 0 .. MaxFrame[k] - 1 : Forward(k, n))
       /\ WF_vars(\E b \in 1 .. MaxFrame[k] : Acknowledged(k, b))

FairSpec == Spec /\ Fairness

-----------------------------------------------------------------------------
(* The frames of k the other endpoint has got. *)
Reached(k) == {sent[k][i] : i \in arrived[k]}
(* Those it has acknowledged and not taken, as the robot does when astray. *)
Astray(k) == {sent[k][i] : i \in acked[k] \ arrived[k]}
(* The frames of k the relay will still send again. *)
Held(k) == {sent[k][i] : i \in relayBase[k] + 1 .. Len(sent[k])}

(* A frame its endpoint has forgotten has reached the other endpoint, is    *)
(* held by the relay for resending, or was refused by the relay's window    *)
(* after its acknowledgement.  There is one other way to lose one: the      *)
(* robot acknowledged it and did not take it, and by then a frame must have *)
(* overtaken another on the way to the robot.                               *)
ForgottenIsAccountedFor ==
  \A k \in Keys : \A n \in 0 .. base[k] - 1 :
    \/ n \in Reached(k) \cup Held(k) \cup dropped[k]
    \/ k = "VideoPhone" /\ robot # "in order" /\ n \in Astray(k)

(* The gate couples the two directions but does not block them for good:    *)
(* every frame an endpoint accepts reaches the other side, or is dropped by *)
(* the relay, or by a robot gone astray.  The exceptions are a resend       *)
(* thread of the relay and a receive thread of the robot that have ended:   *)
(* without the latter nobody empties the relay's window to the robot, and   *)
(* the gate shuts out what the robot sends.                                 *)
EveryFrameResolved ==
  <>[](resending /\ robot # "ended" =>
         \A k \in Keys : \A n \in 0 .. produced[k] - 1 :
           n \in Reached(k) \cup dropped[k] \cup Astray(k))

(* Once the resend thread has begun a walk over both Windows it goes on for *)
(* ever: only the first datagrams the relay ever sees can end it.           *)
ResendNeverStops ==
  <>(walk = Cardinality(Keys)) => []<>(walk = Cardinality(Keys))
=============================================================================
