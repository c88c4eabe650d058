----------------------------- MODULE Forwarding -----------------------------
(***************************************************************************)
(* How the relay passes call messages and sound on: UDP_Server receives     *)
(* every datagram into one and the same DatagramPacket and hands this       *)
(* packet to a new Transfer_UDP thread, which reads it while UDP_Server     *)
(* receives the next one (javaServer/Server.java).                          *)
(*                                                                         *)
(* Datagrams are numbered as they arrive.  The shared packet is described   *)
(* by whose bytes it holds: a short datagram overwrites the head of the     *)
(* array only, a long one all of it.  A thread makes four steps that other  *)
(* threads may come between: it reads the length, it parses token and key   *)
(* and looks up the address, it prints where the packet came from, it sends *)
(* the bytes there are by then.                                             *)
(*                                                                         *)
(* receive(pk) keeps the monitor of pk while it waits for a datagram, and    *)
(* getLength() and getAddress() need it: the first and the third step have  *)
(* to be made while UDP_Server is between two calls of receive().           *)
(***************************************************************************)
EXTENDS Integers, FiniteSets

CONSTANTS MaxDatagrams   \* datagrams that arrive in a behaviour

ASSUME ForwardingAssumption == MaxDatagrams \in Nat

VARIABLES count,      \* datagrams received so far
          kind,       \* kind[d]: key and size of datagram d
          head,       \* packet: datagram whose bytes its first part holds
          tail,       \* packet: the last long datagram, whose bytes the rest holds
          receiving,  \* UDP_Server is in receive() and holds the packet's monitor
          thread,     \* thread[d]: the Transfer_UDP thread started for datagram d
          forwarded,  \* messages sent
          rushed      \* history: datagrams followed by another before their thread ended

packetVars == <<count, kind, head, tail, receiving>>
udpVars == <<packetVars, thread, forwarded, rushed>>

Sides == {"phone", "robot"}
(* "s" stands for the requests UDP_Server answers itself; no socket is set  *)
(* under such a key.                                                        *)
Kinds == [key : Sides, size : {"short", "long"}] \cup [key : {"s"}, size : {"short"}]

NoThread == [at |-> "none", sized |-> 0, parsed |-> 0]

UdpInit ==
  /\ count = 0
  /\ kind = [d \in {} |-> {}]
  /\ head = 0 /\ tail = 0 /\ receiving = TRUE
  /\ thread = [d \in 1 .. MaxDatagrams |-> NoThread]
  /\ forwarded = {}
  /\ rushed = {}

Running == {d \in 1 .. count : thread[d].at \notin {"none", "done"}}

(* Mutant: no thread is started while another one is at work. *)
ReceiveBusy(k) ==
  /\ receiving /\ count < MaxDatagrams
  /\ receiving' = FALSE
  /\ count' = count + 1
  /\ kind' = [d \in 1 .. count + 1 |-> IF d <= count THEN kind[d] ELSE k]
  /\ head' = count + 1
  /\ tail' = IF k.size = "long" THEN count + 1 ELSE tail
  /\ thread' = IF k.key = "s" \/ Running # {} THEN thread
               ELSE [thread EXCEPT ![count + 1].at = "new"]
  /\ rushed' = rushed \cup Running
  /\ UNCHANGED forwarded

(* UDP_Server receives a datagram into the packet; for a request it answers *)
(* itself no thread is started.                                             *)
Receive(k) ==
  /\ receiving /\ count < MaxDatagrams
  /\ receiving' = FALSE
  /\ count' = count + 1
  /\ kind' = [d \in 1 .. count + 1 |-> IF d <= count THEN kind[d] ELSE k]
  /\ head' = count + 1
  /\ tail' = IF k.size = "long" THEN count + 1 ELSE tail
  /\ thread' = IF k.key = "s" THEN thread
               ELSE [thread EXCEPT ![count + 1].at = "new"]
  /\ rushed' = rushed \cup Running
  /\ UNCHANGED forwarded

(* UDP_Server has started the thread, or answered, and waits for the next   *)
(* datagram.                                                                *)
ReceiveAgain ==
  /\ ~receiving
  /\ receiving' = TRUE
  /\ UNCHANGED <<count, kind, head, tail, thread, forwarded, rushed>>

(* pk.getData() and pk.getLength(): the array, which is always the same,    *)
(* and the length of the datagram in the packet by now.                     *)
ReadLength(d) ==
  /\ thread[d].at = "new" /\ ~receiving
  /\ thread' = [thread EXCEPT ![d].at = "sized", ![d].sized = head]
  /\ UNCHANGED <<packetVars, forwarded, rushed>>

(* Token and key are parsed and the address is looked up; without one the   *)
(* thread returns.                                                          *)
ParseKey(d) ==
  /\ thread[d].at = "sized"
  /\ thread' = [thread EXCEPT ![d] =
                  IF kind[head].key \in Sides
                  THEN [@ EXCEPT !.at = "parsed", !.parsed = head]
                  ELSE [@ EXCEPT !.at = "done"]]
  /\ UNCHANGED <<packetVars, forwarded, rushed>>

(* The line for the log, with pk.getAddress() and pk.getPort(). *)
PrintAddress(d) ==
  /\ thread[d].at = "parsed" /\ ~receiving
  /\ thread' = [thread EXCEPT ![d].at = "printed"]
  /\ UNCHANGED <<packetVars, forwarded, rushed>>

(* send(): as many bytes as were counted, from the array as it is now.      *)
Send(d) ==
  /\ thread[d].at = "printed"
  /\ thread' = [thread EXCEPT ![d].at = "done"]
  /\ forwarded' = forwarded \cup
       {[thread |-> d, sized |-> thread[d].sized, parsed |-> thread[d].parsed,
         head |-> head, tail |-> tail]}
  /\ UNCHANGED <<packetVars, rushed>>

Step(d) == ReadLength(d) \/ ParseKey(d) \/ PrintAddress(d) \/ Send(d)

UdpNext ==
  \/ (\E k \in Kinds : Receive(k)) \/ ReceiveAgain
  \/ \E d \in 1 .. MaxDatagrams : Step(d)

UdpSpec == UdpInit /\ [][UdpNext]_udpVars

(* Threads run, UDP_Server too: a thread that waits for the monitor may     *)
(* lose it to the next receive() every time.  Nobody has to send a datagram. *)
UdpFairSpec ==
  /\ UdpSpec
  /\ WF_udpVars(ReceiveAgain)
  /\ \A d \in 1 .. MaxDatagrams : WF_udpVars(Step(d))

-----------------------------------------------------------------------------
(* Message f is datagram d, whole and at its destination. *)
IsExactly(f, d) ==
  /\ f.sized = d /\ f.parsed = d /\ f.head = d
  /\ kind[d].size = "long" => f.tail = d

(* The thread of datagram d waits for the monitor that receive() holds. *)
Waiting(d) == receiving /\ thread[d].at \in {"new", "parsed"}

(* A datagram that no other one follows before its thread ends, such as the *)
(* last one of a burst, is passed on as it was, to where it was meant to go *)
(* - or its thread waits until another one comes, since UDP_Server was back *)
(* in receive() before the thread could look at the packet.                 *)
PassedOnOrWaiting ==
  <>[](\A d \in 1 .. count :
         kind[d].key \in Sides /\ d \notin rushed =>
           Waiting(d) \/ \E f \in forwarded : IsExactly(f, d))
=============================================================================
