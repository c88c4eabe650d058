------------------------------ MODULE Registry ------------------------------
(***************************************************************************)
(* Coming up: how the phone (service/PhoneAnswerListener.java with         *)
(* network/TCP_Connect.java) and the robot (python/gui.py with             *)
(* python/tcp_client.py) log in with their common password, get a token,   *)
(* and register under it the UDP socket on which they can be reached, at   *)
(* SocketProcess, TimeLimitMap and UDP_Server of javaServer/Server.java.   *)
(*                                                                         *)
(* The server has one SocketProcess thread per login and shares between    *)
(* them, without locks, the MessageDigest and the two maps.  UDP_Server is *)
(* one thread.  UDP may lose and reorder; every try of the phone to        *)
(* register has a socket, and so an address, of its own.                   *)
(***************************************************************************)
EXTENDS Integers, FiniteSets

CONSTANTS Tokens,    \* what digest() of the password and the clock may yield
          MaxTries   \* tries to register; the network loses none of the last

ASSUME RegistryAssumption == Tokens # {} /\ MaxTries \in Nat \ {0} /\ 0 \notin Tokens

Clients == {"phone", "robot"}
None == 0

VARIABLES tokenMap,    \* TimeLimitMap: the token of the password, or None
          portMap,     \* TimeLimitMap: for the filed tokens, the try each key is set to
          process,     \* per client, where its SocketProcess thread is
          filing,      \* per client, the token that thread has made
          clash,       \* per client, another thread used the MessageDigest meanwhile
          pc,          \* per client, where it is
          token,       \* per client, its token or None
          try,         \* per client, the socket it registers, counted
          requests,    \* UDP datagrams to the server
          replies,     \* UDP datagrams back
          raced,       \* history: a login was looked up while another made its token
          slow,        \* history: the network lost a datagram or was too late with one
          late         \* history: an older registration overwrote a newer one

serverVars == <<tokenMap, portMap, process, filing, clash, raced>>
clientVars == <<pc, token, try>>
netVars == <<requests, replies, slow, late>>
vars == <<serverVars, clientVars, netVars>>

Init ==
  /\ tokenMap = None
  /\ portMap = [t \in {} |-> None]
  /\ process = [c \in Clients |-> "none"]
  /\ filing = [c \in Clients |-> None]
  /\ clash = [c \in Clients |-> FALSE]
  /\ pc = [c \in Clients |-> "start"]
  /\ token = [c \in Clients |-> None]
  /\ try = [c \in Clients |-> 0]
  /\ requests = {} /\ replies = {}
  /\ raced = FALSE /\ slow = FALSE /\ late = FALSE

Other(c) == CHOOSE d \in Clients : d # c
Datagram(c, n, kind) == [client |-> c, try |-> n, kind |-> kind]

-----------------------------------------------------------------------------
(* The client connects and sends its password; the new thread hashes it     *)
(* with the MessageDigest all threads share.                                *)
Connect(c) ==
  /\ pc[c] = "start"
  /\ pc' = [pc EXCEPT ![c] = "login"]
  /\ process' = [process EXCEPT ![c] = "hashing"]
  /\ clash' = [d \in Clients |-> clash[d] \/ process[Other(c)] \in {"hashing", "creating"}]
  /\ UNCHANGED <<tokenMap, portMap, filing, raced, token, try, netVars>>

(* The hash is in passwordSet, unless two threads mixed up theirs: then the *)
(* client may be told "password error".                                     *)
Hashed(c) ==
  /\ process[c] = "hashing"
  /\ \/ /\ process' = [process EXCEPT ![c] = "lookup"]
        /\ UNCHANGED pc
     \/ /\ clash[c]
        /\ process' = [process EXCEPT ![c] = "done"]
        /\ pc' = [pc EXCEPT ![c] = "rejected"]
  /\ UNCHANGED <<tokenMap, portMap, filing, clash, raced, token, try, netVars>>

(* What the client does once it has read its token: the phone asks for the  *)
(* relay's address first, the robot registers first.                        *)
FirstStep(c) == IF c = "phone" THEN "ask" ELSE "register"

(* The token is written to the client, who may have given up waiting.       *)
Welcome(c, t) ==
  /\ process' = [process EXCEPT ![c] = "done"]
  /\ token' = IF pc[c] = "login" THEN [token EXCEPT ![c] = t] ELSE token
  /\ pc' = IF pc[c] = "login" THEN [pc EXCEPT ![c] = FirstStep(c)] ELSE pc

(* Mutant: a token is made whether or not there is one. *)
LookupBlind(c) ==
  /\ process[c] = "lookup"
  /\ process' = [process EXCEPT ![c] = "creating"]
  /\ UNCHANGED <<pc, token>>
  /\ raced' = (raced \/ process[Other(c)] \in {"creating", "filing"})
  /\ UNCHANGED <<tokenMap, portMap, filing, clash, try, netVars>>

(* getToken(): the token there is, or the decision to make one. *)
Lookup(c) ==
  /\ process[c] = "lookup"
  /\ \/ tokenMap # None /\ Welcome(c, tokenMap)
     \/ /\ tokenMap = None
        /\ process' = [process EXCEPT ![c] = "creating"]
        /\ UNCHANGED <<pc, token>>
  /\ raced' = (raced \/ process[Other(c)] \in {"creating", "filing"})
  /\ UNCHANGED <<tokenMap, portMap, filing, clash, try, netVars>>

(* A token is digested from the password and the clock, two in the same      *)
(* millisecond being equal, and TimeLimitMap(hex, tokenHex) puts it into     *)
(* tokenMap ...                                                              *)
Create(c) ==
  /\ process[c] = "creating"
  /\ \E t \in Tokens :
       /\ filing' = [filing EXCEPT ![c] = t]
       /\ tokenMap' = t
  /\ process' = [process EXCEPT ![c] = "filing"]
  /\ clash' = [d \in Clients |-> clash[d] \/ process[Other(c)] = "hashing"]
  /\ UNCHANGED <<portMap, raced, clientVars, netVars>>

(* ... and then a new map for it into portMap. *)
File(c) ==
  /\ process[c] = "filing"
  /\ portMap' = [t \in DOMAIN portMap \cup {filing[c]} |->
                   IF t = filing[c] THEN [d \in Clients |-> None] ELSE portMap[t]]
  /\ Welcome(c, filing[c])
  /\ UNCHANGED <<tokenMap, filing, clash, raced, try, netVars>>

(* The client's read times out after a second; its thread at the server     *)
(* goes on.                                                                 *)
GiveUp(c) ==
  /\ pc[c] = "login"
  /\ pc' = [pc EXCEPT ![c] = "rejected"]
  /\ slow' = TRUE
  /\ UNCHANGED <<serverVars, token, try, requests, replies, late>>

-----------------------------------------------------------------------------
(* "g": where is the relay?  *)
Ask(c) ==
  /\ pc[c] = "ask"
  /\ pc' = [pc EXCEPT ![c] = "asked"]
  /\ requests' = requests \cup {Datagram(c, 0, "g")}
  /\ UNCHANGED <<serverVars, token, try, replies, slow, late>>

(* "s": register a new socket under the client's key. *)
Register(c) ==
  /\ pc[c] = "register" /\ try[c] < MaxTries
  /\ try' = [try EXCEPT ![c] = @ + 1]
  /\ pc' = [pc EXCEPT ![c] = "registering"]
  /\ requests' = requests \cup {Datagram(c, try[c] + 1, "s")}
  /\ UNCHANGED <<serverVars, token, replies, slow, late>>

(* Mutant: a key that is set is not set again. *)
ServeOnce(q) ==
  LET t == token[q.client] IN
  /\ requests' = requests \ {q}
  /\ portMap' = IF t \notin DOMAIN portMap \/ q.kind = "g" \/ portMap[t][q.client] # None
                THEN portMap ELSE [portMap EXCEPT ![t][q.client] = q.try]
  /\ replies' = IF t \notin DOMAIN portMap THEN replies ELSE replies \cup {q}
  /\ UNCHANGED <<late, tokenMap, process, filing, clash, raced, clientVars, slow>>

(* Mutant: registering is not answered. *)
ServeMute(q) ==
  LET t == token[q.client] IN
  /\ requests' = requests \ {q}
  /\ portMap' = IF t \notin DOMAIN portMap \/ q.kind = "g"
                THEN portMap ELSE [portMap EXCEPT ![t][q.client] = q.try]
  /\ replies' = IF t \notin DOMAIN portMap \/ q.kind = "s" THEN replies ELSE replies \cup {q}
  /\ UNCHANGED <<late, tokenMap, process, filing, clash, raced, clientVars, slow>>

(* UDP_Server on a request: a token without a map is ignored; "s" is        *)
(* recorded and acknowledged, "g" answered with the relay's own address.    *)
Serve(q) ==
  LET t == token[q.client] IN
  /\ requests' = requests \ {q}
  /\ \/ t \notin DOMAIN portMap /\ UNCHANGED <<portMap, replies, late>>
     \/ /\ t \in DOMAIN portMap /\ q.kind = "s"
        /\ portMap' = [portMap EXCEPT ![t][q.client] = q.try]
        /\ late' = (late \/ portMap[t][q.client] > q.try)
        /\ replies' = replies \cup {q}
     \/ /\ t \in DOMAIN portMap /\ q.kind = "g"
        /\ replies' = replies \cup {q}
        /\ UNCHANGED <<portMap, late>>
  /\ UNCHANGED <<tokenMap, process, filing, clash, raced, clientVars, slow>>

(* The reply to what the client is waiting for, on the socket it is waiting *)
(* at.  The phone asks, then registers; the robot the other way round.      *)
Replied(c) ==
  \E q \in replies :
    /\ q.client = c
    /\ \/ pc[c] = "asked" /\ q.kind = "g"
       \/ pc[c] = "registering" /\ q.kind = "s" /\ q.try = try[c]
    /\ replies' = replies \ {q}
    /\ pc' = [pc EXCEPT ![c] =
                CASE c = "phone" /\ q.kind = "g" -> "register"
                  [] c = "robot" /\ q.kind = "s" -> "ask"
                  [] OTHER -> "ready"]
    /\ UNCHANGED <<serverVars, token, try, requests, slow, late>>

(* The network still has a request of the client or its reply. *)
Underway(c) == \E q \in requests \cup replies : q.client = c

(* getUdpSocket() of the phone gives the socket up after a second and is    *)
(* called again.  Its "g" has no timeout.                                   *)
PhoneTimeout ==
  /\ pc["phone"] = "registering" /\ try["phone"] < MaxTries
  /\ pc' = [pc EXCEPT !["phone"] = "register"]
  /\ slow' = (slow \/ Underway("phone"))
  /\ UNCHANGED <<serverVars, token, try, requests, replies, late>>

(* The robot's requests give up after a second with the lock still taken:   *)
(* the next one waits for it for ever.                                      *)
RobotTimeout ==
  /\ pc["robot"] \in {"asked", "registering"}
  /\ pc' = [pc EXCEPT !["robot"] = "locked"]
  /\ slow' = (slow \/ Underway("robot"))
  /\ UNCHANGED <<serverVars, token, try, requests, replies, late>>

(* The network loses a datagram, of the last try of a client none. *)
Lose(q) ==
  /\ q.kind = "s" => q.try < MaxTries
  /\ q \in requests \cup replies
  /\ requests' = requests \ {q} /\ replies' = replies \ {q}
  /\ slow' = TRUE
  /\ UNCHANGED <<serverVars, clientVars, late>>

Client(c) == Ask(c) \/ Register(c) \/ Replied(c)
Process(c) == Hashed(c) \/ Lookup(c) \/ Create(c) \/ File(c)

Next ==
  \/ \E c \in Clients : Connect(c) \/ Process(c) \/ GiveUp(c) \/ Client(c)
  \/ \E q \in requests : Serve(q)
  \/ PhoneTimeout \/ RobotTimeout
  \/ \E q \in requests \cup replies : Lose(q)

Spec == Init /\ [][Next]_vars

(* Threads run, a receive with a timeout times out, and what is in flight   *)
(* and not lost arrives.                                                    *)
FairSpec ==
  /\ Spec
  /\ \A c \in Clients : WF_vars(Connect(c)) /\ WF_vars(Process(c)) /\ WF_vars(Client(c))
  /\ WF_vars(\E q \in requests : Serve(q))
  /\ WF_vars(PhoneTimeout) /\ WF_vars(RobotTimeout)

-----------------------------------------------------------------------------
(* Two clients with one password have one token, and so meet in one map,    *)
(* unless one logged in while the other's token was being made.             *)
SharedToken ==
  raced \/ \A c \in Clients :
    token[c] # None /\ token[Other(c)] # None => token[c] = token[Other(c)]

(* A client that is ready is registered with the socket it listens on,      *)
(* however many tries it needed, unless a try overtook a later one or two   *)
(* logins raced.                                                            *)
ReadyIsReachable ==
  \A c \in Clients :
    pc[c] = "ready" /\ ~late /\ ~raced => portMap[token[c]][c] = try[c]

(* A client that connects gets ready, unless something was lost or late,    *)
(* two logins raced for the token, or the MessageDigest was used by two      *)
(* threads at once while this client's was hashed.                           *)
ClientsGetReady ==
  \A c \in Clients :
    process[c] # "none" ~> (pc[c] = "ready" \/ slow \/ raced \/ clash[c])

(* The phone's second phase survives losses: it tries until it is           *)
(* registered.                                                              *)
PhoneRegisters ==
  pc["phone"] = "register" ~> (pc["phone"] = "ready" \/ raced)
=============================================================================
