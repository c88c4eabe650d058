--------------------------- MODULE RegistryProofs ---------------------------
(***************************************************************************)
(* Logging in and registering, for any set of tokens and any number of      *)
(* tries: unless two logins race for the token both clients get the same,   *)
(* and unless a registration overtakes a later one a client that is ready   *)
(* is registered with the socket it listens on.                             *)
(***************************************************************************)
EXTENDS Registry, TLAPS

ProcessStates == {"none", "hashing", "lookup", "creating", "filing", "done"}
ClientStates == {"start", "login", "rejected", "ask", "asked", "register",
                 "registering", "ready", "locked"}

RegistryType ==
  /\ tokenMap \in Tokens \cup {None}
  /\ process \in [Clients -> ProcessStates]
  /\ filing \in [Clients -> Tokens \cup {None}]
  /\ pc \in [Clients -> ClientStates]
  /\ token \in [Clients -> Tokens \cup {None}]
  /\ try \in [Clients -> Nat]
  /\ raced \in BOOLEAN /\ late \in BOOLEAN
  /\ \A c \in Clients : process[c] = "filing" => filing[c] \in Tokens

(* A client past its login has a token. *)
LoggedIn ==
  \A c \in Clients : pc[c] \notin {"start", "login", "rejected"} => token[c] # None

(* Unless logins raced: at most one thread makes the token, there is none   *)
(* before it has, and every client has that one, which portMap knows as     *)
(* soon as its maker has filed it.                                          *)
OneMaker ==
  \A c \in Clients :
    /\ process[c] \in {"creating", "filing"} =>
         process[Other(c)] \notin {"creating", "filing"}
    /\ process[c] = "creating" => tokenMap = None
    /\ process[c] = "filing" => filing[c] = tokenMap /\ tokenMap # None
    /\ token[c] # None => token[c] = tokenMap /\ \A d \in Clients : process[d] # "filing"
OneFiled ==
  \A t : t \in DOMAIN portMap <=>
    t = tokenMap /\ t # None /\ \A c \in Clients : process[c] # "filing"

(* Sockets recorded or on their way are sockets that were opened.           *)
Opened ==
  /\ portMap \in [DOMAIN portMap -> [Clients -> Nat]]
  /\ \A t \in DOMAIN portMap : \A c \in Clients : portMap[t][c] <= try[c]
  /\ requests \cup replies \subseteq [client : Clients, try : Nat, kind : {"g", "s"}]
  /\ \A q \in requests \cup replies :
       token[q.client] # None /\ (q.kind = "s" => q.try <= try[q.client])

(* Unless registrations overtook each other, what was acknowledged is       *)
(* recorded, and a client past its registration is recorded with the socket *)
(* it listens on.                                                           *)
Registered(c) == pc[c] = "ready" \/ (c = "robot" /\ pc[c] \in {"ask", "asked"})
Recorded ==
  /\ \A q \in replies : q.kind = "s" => q.try <= portMap[tokenMap][q.client]
  /\ \A c \in Clients : Registered(c) => portMap[tokenMap][c] = try[c]

(* Inductive invariants of logging in, and of the whole. *)
TokenInv == RegistryType /\ LoggedIn /\ (~raced => OneMaker)
RegistryInv == TokenInv /\ Opened /\ (~raced => OneFiled) /\ (~raced /\ ~late => Recorded)

LEMMA TheOther ==
  ASSUME NEW c \in Clients
  PROVE  /\ Other(c) \in Clients /\ Other(c) # c
         /\ \A d \in Clients : d = c \/ d = Other(c)
<1>1. \E d \in Clients : d # c
  BY DEF Clients
<1>2. Other(c) \in Clients /\ Other(c) # c
  BY <1>1 DEF Other
<1> QED
  BY <1>2 DEF Clients

LEMMA NoToken == None \notin Tokens
  BY RegistryAssumption DEF None

-----------------------------------------------------------------------------
(* Logging in *)

(* A thread that leaves the token alone and is not about to make one. *)
LEMMA ProcessMoves ==
  ASSUME TokenInv, NEW c \in Clients, NEW to \in {"hashing", "lookup", "done"},
         process' = [process EXCEPT ![c] = to],
         UNCHANGED <<tokenMap, filing, token, try, raced, late>>,
         pc' \in [Clients -> ClientStates], LoggedIn'
  PROVE  TokenInv'
<1>1. RegistryType'
  BY DEF TokenInv, RegistryType, ProcessStates
<1>2. \A d \in Clients : process'[d] = IF d = c THEN to ELSE process[d]
  BY DEF TokenInv, RegistryType
<1>3. ~raced => OneMaker'
  BY <1>2, TheOther DEF TokenInv, OneMaker
<1> QED
  BY <1>1, <1>3 DEF TokenInv

(* What the client does on its own does not touch the token. *)
LEMMA ClientMoves ==
  ASSUME TokenInv, UNCHANGED <<tokenMap, process, filing, token, raced>>,
         pc' \in [Clients -> ClientStates], try' \in [Clients -> Nat],
         late' \in BOOLEAN, LoggedIn'
  PROVE  TokenInv'
<1>1. RegistryType'
  BY DEF TokenInv, RegistryType
<1>2. ~raced => OneMaker'
  BY DEF TokenInv, OneMaker
<1> QED
  BY <1>1, <1>2 DEF TokenInv

(* The end of a login: the client, if it still waits, has its token. *)
LEMMA WelcomeType ==
  ASSUME RegistryType, LoggedIn, NEW c \in Clients, NEW t \in Tokens, Welcome(c, t)
  PROVE  /\ process' = [process EXCEPT ![c] = "done"]
         /\ process' \in [Clients -> ProcessStates]
         /\ token' \in [Clients -> Tokens \cup {None}]
         /\ pc' \in [Clients -> ClientStates]
         /\ LoggedIn'
         /\ token'[c] \in {token[c], t}
         /\ \A d \in Clients : d # c => token'[d] = token[d] /\ pc'[d] = pc[d]
         /\ pc'[c] \in {pc[c], FirstStep(c)}
<1>1. FirstStep(c) \in ClientStates
  BY DEF FirstStep, ClientStates
<1>2. CASE pc[c] = "login"
  <2>1. token' = [token EXCEPT ![c] = t] /\ pc' = [pc EXCEPT ![c] = FirstStep(c)]
    BY <1>2 DEF Welcome
  <2>2. LoggedIn'
    BY <2>1, NoToken DEF LoggedIn, RegistryType
  <2> QED
    BY <1>1, <2>1, <2>2 DEF Welcome, RegistryType, ProcessStates
<1>3. CASE pc[c] # "login"
  <2>1. token' = token /\ pc' = pc
    BY <1>3 DEF Welcome
  <2>2. LoggedIn'
    BY <2>1 DEF LoggedIn
  <2> QED
    BY <2>1, <2>2 DEF Welcome, RegistryType, ProcessStates
<1> QED
  BY <1>2, <1>3

(* getToken(): who finds a token made by somebody still filing it has raced. *)
LEMMA LookupInv ==
  ASSUME TokenInv, NEW c \in Clients, Lookup(c)
  PROVE  TokenInv'
<1>1. /\ process[c] = "lookup"
      /\ UNCHANGED <<tokenMap, filing, try, late>>
      /\ raced' \in BOOLEAN
      /\ ~raced' => ~raced /\ process[Other(c)] \notin {"creating", "filing"}
  BY DEF Lookup, netVars
<1>2. CASE tokenMap # None
  <2>1. tokenMap \in Tokens /\ Welcome(c, tokenMap)
    BY <1>2 DEF Lookup, TokenInv, RegistryType
  <2>2. /\ process' = [process EXCEPT ![c] = "done"]
        /\ process' \in [Clients -> ProcessStates]
        /\ token' \in [Clients -> Tokens \cup {None}]
        /\ pc' \in [Clients -> ClientStates]
        /\ LoggedIn'
        /\ token'[c] \in {token[c], tokenMap}
        /\ \A d \in Clients : d # c => token'[d] = token[d]
    BY <2>1, WelcomeType DEF TokenInv
  <2>3. RegistryType'
    BY <1>1, <2>2 DEF TokenInv, RegistryType
  <2>4. ~raced' => OneMaker'
    <3> SUFFICES ASSUME ~raced', NEW d \in Clients
                 PROVE  /\ process'[d] \notin {"creating", "filing"}
                        /\ token'[d] # None => token'[d] = tokenMap
      BY <1>1 DEF OneMaker
    <3>1. \A e \in Clients : process'[e] = IF e = c THEN "done" ELSE process[e]
      BY <2>2 DEF TokenInv, RegistryType
    <3>2. process'[d] \notin {"creating", "filing"}
      BY <1>1, <3>1, TheOther
    <3>3. token'[d] # None => token'[d] = tokenMap
      BY <1>1, <2>2 DEF TokenInv, OneMaker
    <3> QED
      BY <3>2, <3>3
  <2> QED
    BY <2>2, <2>3, <2>4 DEF TokenInv
<1>3. CASE tokenMap = None
  <2>1. process' = [process EXCEPT ![c] = "creating"] /\ UNCHANGED <<pc, token>>
    BY <1>3 DEF Lookup
  <2>2. RegistryType' /\ LoggedIn'
    BY <1>1, <2>1 DEF TokenInv, RegistryType, LoggedIn, ProcessStates
  <2>3. \A d \in Clients : process'[d] = IF d = c THEN "creating" ELSE process[d]
    BY <2>1 DEF TokenInv, RegistryType
  <2>4. ~raced' => OneMaker'
    <3> SUFFICES ASSUME ~raced', NEW d \in Clients
                 PROVE  /\ process'[d] # "filing"
                        /\ process'[d] = "creating" => process'[Other(d)] # "creating"
                        /\ token'[d] = None
      BY <1>1, <1>3, TheOther DEF OneMaker
    <3>1. process'[d] # "filing"
      BY <1>1, <2>3, TheOther
    <3>2. process'[d] = "creating" => process'[Other(d)] # "creating"
      BY <1>1, <2>3, TheOther
    <3>3. token'[d] = None
      BY <1>1, <1>3, <2>1 DEF TokenInv, OneMaker
    <3> QED
      BY <3>1, <3>2, <3>3
  <2> QED
    BY <2>2, <2>4 DEF TokenInv
<1> QED
  BY <1>2, <1>3

LEMMA CreateInv ==
  ASSUME TokenInv, NEW c \in Clients, Create(c)
  PROVE  TokenInv'
<1>1. PICK t \in Tokens : filing' = [filing EXCEPT ![c] = t] /\ tokenMap' = t
  BY DEF Create
<1>2. /\ process[c] = "creating" /\ process' = [process EXCEPT ![c] = "filing"]
      /\ UNCHANGED <<raced, pc, token, try, late>>
  BY DEF Create, clientVars, netVars
<1>3. RegistryType' /\ LoggedIn'
  BY <1>1, <1>2 DEF TokenInv, RegistryType, LoggedIn, ProcessStates
<1>4. \A d \in Clients : /\ process'[d] = IF d = c THEN "filing" ELSE process[d]
                         /\ filing'[d] = IF d = c THEN t ELSE filing[d]
  BY <1>1, <1>2 DEF TokenInv, RegistryType
<1>5. ~raced => OneMaker'
  <2> SUFFICES ASSUME ~raced, NEW d \in Clients
               PROVE  /\ process'[d] # "creating"
                      /\ process'[d] = "filing" =>
                           d = c /\ process'[Other(d)] # "filing"
                      /\ token'[d] = None
    BY <1>1, <1>4, NoToken, TheOther DEF OneMaker
  <2>1. process[Other(c)] \notin {"creating", "filing"} /\ token[d] = None
    BY <1>2 DEF TokenInv, OneMaker
  <2> QED
    BY <1>2, <1>4, <2>1, TheOther
<1> QED
  BY <1>2, <1>3, <1>5 DEF TokenInv


LEMMA FileInv ==
  ASSUME TokenInv, NEW c \in Clients, File(c)
  PROVE  TokenInv'
<1>1. /\ process[c] = "filing" /\ filing[c] \in Tokens /\ Welcome(c, filing[c])
      /\ UNCHANGED <<tokenMap, filing, raced, try, late>>
  BY DEF File, netVars, TokenInv, RegistryType
<1>2. /\ process' = [process EXCEPT ![c] = "done"]
      /\ process' \in [Clients -> ProcessStates]
      /\ token' \in [Clients -> Tokens \cup {None}]
      /\ pc' \in [Clients -> ClientStates]
      /\ LoggedIn'
      /\ token'[c] \in {token[c], filing[c]}
      /\ \A d \in Clients : d # c => token'[d] = token[d]
  BY <1>1, WelcomeType DEF TokenInv
<1>3. \A d \in Clients : process'[d] = IF d = c THEN "done" ELSE process[d]
  BY <1>2 DEF TokenInv, RegistryType
<1>4. RegistryType'
  BY <1>1, <1>2, <1>3 DEF TokenInv, RegistryType
<1>5. ~raced => OneMaker'
  <2> SUFFICES ASSUME ~raced, NEW d \in Clients
               PROVE  /\ process'[d] \notin {"creating", "filing"}
                      /\ token'[d] # None => token'[d] = tokenMap
    BY <1>1 DEF OneMaker
  <2>1. filing[c] = tokenMap /\ process[Other(c)] \notin {"creating", "filing"}
    BY <1>1 DEF TokenInv, OneMaker
  <2>2. token'[d] # None => token'[d] = tokenMap
    BY <1>2, <2>1 DEF TokenInv, OneMaker
  <2> QED
    BY <1>3, <2>1, <2>2, TheOther
<1> QED
  BY <1>1, <1>2, <1>4, <1>5 DEF TokenInv

LEMMA TokenStep == TokenInv /\ [Next]_vars => TokenInv'
<1> SUFFICES ASSUME TokenInv, [Next]_vars PROVE TokenInv'
  OBVIOUS
<1>0. RegistryType /\ LoggedIn
  BY DEF TokenInv
<1>1. ASSUME NEW c \in Clients, Connect(c) PROVE TokenInv'
  <2>1. /\ process' = [process EXCEPT ![c] = "hashing"]
        /\ pc[c] = "start" /\ pc' = [pc EXCEPT ![c] = "login"]
        /\ UNCHANGED <<tokenMap, filing, token, try, raced, late>>
    BY <1>1 DEF Connect, netVars
  <2>2. pc' \in [Clients -> ClientStates] /\ LoggedIn'
    BY <1>0, <2>1 DEF RegistryType, ClientStates, LoggedIn
  <2> QED
    BY <2>1, <2>2, ProcessMoves
<1>2. ASSUME NEW c \in Clients, Hashed(c) PROVE TokenInv'
  <2>1. UNCHANGED <<tokenMap, filing, token, try, raced, late>>
    BY <1>2 DEF Hashed, netVars
  <2>2. PICK to \in {"lookup", "done"} : process' = [process EXCEPT ![c] = to]
    BY <1>2 DEF Hashed
  <2>3. pc' \in {pc, [pc EXCEPT ![c] = "rejected"]}
    BY <1>2 DEF Hashed
  <2>4. pc' \in [Clients -> ClientStates] /\ LoggedIn'
    BY <1>0, <2>1, <2>3 DEF RegistryType, ClientStates, LoggedIn
  <2> QED
    BY <2>1, <2>2, <2>4, ProcessMoves
<1>3. ASSUME UNCHANGED <<tokenMap, process, filing, token, raced, late>>,
             pc' \in [Clients -> ClientStates], try' \in [Clients -> Nat],
             \A c \in Clients : pc'[c] # pc[c] => pc'[c] = "rejected" \/ token[c] # None
      PROVE  TokenInv'
  <2>1. LoggedIn'
    BY <1>0, <1>3 DEF LoggedIn
  <2>2. late' \in BOOLEAN
    BY <1>0, <1>3 DEF RegistryType
  <2> QED
    BY <1>3, <2>1, <2>2, ClientMoves
<1>4. ASSUME NEW c \in Clients, GiveUp(c) PROVE TokenInv'
  <2>1. /\ pc' = [pc EXCEPT ![c] = "rejected"]
        /\ UNCHANGED <<tokenMap, process, filing, token, raced, late, try>>
    BY <1>4 DEF GiveUp, serverVars
  <2>2. /\ pc' \in [Clients -> ClientStates] /\ try' \in [Clients -> Nat]
        /\ \A d \in Clients : pc'[d] # pc[d] => pc'[d] = "rejected"
    BY <1>0, <2>1 DEF RegistryType, ClientStates
  <2> QED
    BY <1>3, <2>1, <2>2
<1>5. ASSUME NEW c \in Clients, NEW to \in ClientStates,
             pc[c] \notin {"start", "login", "rejected"},
             pc' = [pc EXCEPT ![c] = to], try' \in [Clients -> Nat],
             UNCHANGED <<tokenMap, process, filing, token, raced, late>>
      PROVE  TokenInv'
  <2>1. /\ pc' \in [Clients -> ClientStates]
        /\ \A d \in Clients : pc'[d] # pc[d] => d = c
    BY <1>0, <1>5 DEF RegistryType
  <2>2. token[c] # None
    BY <1>0, <1>5 DEF LoggedIn
  <2> QED
    BY <1>3, <1>5, <2>1, <2>2
<1>6. ASSUME NEW c \in Clients, Client(c) PROVE TokenInv'
  <2>1. CASE Ask(c)
    <3>1. /\ pc[c] = "ask" /\ pc' = [pc EXCEPT ![c] = "asked"]
          /\ UNCHANGED <<tokenMap, process, filing, token, raced, late, try>>
      BY <2>1 DEF Ask, serverVars
    <3> QED
      BY <1>0, <1>5, <3>1 DEF ClientStates, RegistryType
  <2>2. CASE Register(c)
    <3>1. /\ pc[c] = "register" /\ pc' = [pc EXCEPT ![c] = "registering"]
          /\ try' = [try EXCEPT ![c] = @ + 1]
          /\ UNCHANGED <<tokenMap, process, filing, token, raced, late>>
      BY <2>2 DEF Register, serverVars
    <3>2. try' \in [Clients -> Nat]
      BY <1>0, <3>1 DEF RegistryType
    <3> QED
      BY <1>5, <3>1, <3>2 DEF ClientStates
  <2>3. CASE Replied(c)
    <3>1. /\ pc[c] \in {"asked", "registering"}
          /\ \E to \in {"register", "ask", "ready"} : pc' = [pc EXCEPT ![c] = to]
          /\ UNCHANGED <<tokenMap, process, filing, token, raced, late, try>>
      BY <2>3 DEF Replied, serverVars
    <3> QED
      BY <1>0, <1>5, <3>1 DEF ClientStates, RegistryType
  <2> QED
    BY <1>6, <2>1, <2>2, <2>3 DEF Client
<1>7. CASE PhoneTimeout \/ RobotTimeout
  <2>1. /\ UNCHANGED <<tokenMap, process, filing, token, raced, late, try>>
        /\ \E c \in Clients : \E to \in {"register", "locked"} :
             /\ pc[c] \in {"asked", "registering"}
             /\ pc' = [pc EXCEPT ![c] = to]
    BY <1>7 DEF PhoneTimeout, RobotTimeout, serverVars, Clients
  <2> QED
    BY <1>0, <1>5, <2>1 DEF ClientStates, RegistryType
<1>8. ASSUME NEW q \in requests, Serve(q) PROVE TokenInv'
  <2>1. UNCHANGED <<tokenMap, process, filing, token, raced, pc, try>>
    BY <1>8 DEF Serve, clientVars
  <2>2. late' \in BOOLEAN
    BY <1>0, <1>8 DEF Serve, RegistryType
  <2>3. LoggedIn' /\ pc' \in [Clients -> ClientStates] /\ try' \in [Clients -> Nat]
    BY <1>0, <2>1 DEF LoggedIn, RegistryType
  <2> QED
    BY <2>1, <2>2, <2>3, ClientMoves
<1>9. CASE UNCHANGED <<tokenMap, process, filing, token, raced, late, pc, try>>
  BY <1>0, <1>3, <1>9 DEF RegistryType
<1>10. (\E q \in requests \cup replies : Lose(q)) \/ UNCHANGED vars =>
         UNCHANGED <<tokenMap, process, filing, token, raced, late, pc, try>>
  BY DEF Lose, vars, serverVars, clientVars, netVars
<1> QED
  BY <1>1, <1>2, <1>4, <1>6, <1>7, <1>8, <1>9, <1>10, LookupInv, CreateInv, FileInv
     DEF Next, Process

LEMMA TokenInit == Init => TokenInv
<1> SUFFICES ASSUME Init PROVE TokenInv
  OBVIOUS
<1>1. RegistryType
  BY DEF Init, RegistryType, ProcessStates, ClientStates
<1>2. \A c \in Clients : process[c] = "none" /\ token[c] = None /\ pc[c] = "start"
  BY DEF Init
<1>3. LoggedIn /\ OneMaker
  BY <1>2 DEF LoggedIn, OneMaker
<1> QED
  BY <1>1, <1>3 DEF TokenInv

(* The inductive invariant of logging in. *)
THEOREM RegistryTokenInvariant == Spec => []TokenInv
  BY TokenInit, TokenStep, PTL DEF Spec

(* Phone and robot meet under one token, unless one logged in while the     *)
(* other's was being made by getToken() and TimeLimitMap().                 *)
THEOREM RegistrySharedToken == Spec => []SharedToken
<1>1. TokenInv => SharedToken
  BY TheOther DEF TokenInv, OneMaker, SharedToken
<1> QED
  BY <1>1, RegistryTokenInvariant, PTL

-----------------------------------------------------------------------------
(* Registering *)

(* With one token, a client that has it finds it in portMap. *)
LEMMA TokenIsFiled ==
  ASSUME TokenInv, ~raced, OneFiled, NEW c \in Clients, token[c] # None
  PROVE  token[c] = tokenMap /\ tokenMap \in DOMAIN portMap
  BY DEF TokenInv, OneMaker, OneFiled

(* Steps that leave the server's maps, the clients and the replies alone. *)
LEMMA LoginMoves ==
  ASSUME RegistryInv, TokenInv', UNCHANGED <<tokenMap, portMap, try, requests, replies, late>>,
         \A c \in Clients : token[c] # None => token'[c] # None,
         ~raced' => ~raced,
         ~raced' => \A c \in Clients : process'[c] = "filing" <=> process[c] = "filing",
         \A c \in Clients : Registered(c)' => Registered(c)
  PROVE  RegistryInv'
<1>1. Opened'
  BY DEF RegistryInv, Opened
<1>2. ~raced' => OneFiled'
  BY DEF RegistryInv, OneFiled
<1>3. ~raced' /\ ~late' => Recorded'
  BY DEF RegistryInv, Recorded
<1> QED
  BY <1>1, <1>2, <1>3 DEF RegistryInv

LEMMA CreateFiles ==
  ASSUME RegistryInv, TokenInv', NEW c \in Clients, Create(c)
  PROVE  RegistryInv'
<1>1. /\ process[c] = "creating" /\ process' = [process EXCEPT ![c] = "filing"]
      /\ UNCHANGED <<portMap, raced, pc, token, try, requests, replies, late>>
  BY DEF Create, clientVars, netVars
<1>2. Opened'
  BY <1>1 DEF RegistryInv, Opened
<1>3. ASSUME ~raced
      PROVE  /\ tokenMap = None /\ process'[c] = "filing"
             /\ \A d \in Clients : token[d] = None
  BY <1>1, <1>3 DEF RegistryInv, TokenInv, RegistryType, OneMaker
<1>4. ~raced => OneFiled'
  BY <1>1, <1>3 DEF RegistryInv, OneFiled
<1>5. ~raced => Recorded'
  <2> SUFFICES ASSUME ~raced PROVE Recorded'
    OBVIOUS
  <2>1. replies' = {}
    BY <1>1, <1>3 DEF RegistryInv, Opened
  <2>2. \A d \in Clients : ~Registered(d)'
    BY <1>1, <1>3 DEF RegistryInv, TokenInv, LoggedIn, Registered
  <2> QED
    BY <2>1, <2>2 DEF Recorded
<1> QED
  BY <1>1, <1>2, <1>4, <1>5 DEF RegistryInv

LEMMA FileFiles ==
  ASSUME RegistryInv, TokenInv', NEW c \in Clients, File(c)
  PROVE  RegistryInv'
<1> DEFINE empty == [d \in Clients |-> None]
<1>1. /\ process[c] = "filing" /\ filing[c] \in Tokens /\ Welcome(c, filing[c])
      /\ UNCHANGED <<tokenMap, filing, raced, try, requests, replies, late>>
      /\ portMap' = [t \in DOMAIN portMap \cup {filing[c]} |->
                       IF t = filing[c] THEN empty ELSE portMap[t]]
  BY DEF File, netVars, RegistryInv, TokenInv, RegistryType
<1>2. /\ process' = [process EXCEPT ![c] = "done"]
      /\ token'[c] \in {token[c], filing[c]}
      /\ \A d \in Clients : d # c => token'[d] = token[d] /\ pc'[d] = pc[d]
      /\ pc'[c] \in {pc[c], FirstStep(c)}
  BY <1>1, WelcomeType DEF RegistryInv, TokenInv
<1>3. /\ DOMAIN portMap' = DOMAIN portMap \cup {filing[c]}
      /\ \A t \in DOMAIN portMap' :
           portMap'[t] = IF t = filing[c] THEN empty ELSE portMap[t]
  BY <1>1
<1>4. Opened'
  <2>1. portMap \in [DOMAIN portMap -> [Clients -> Nat]]
        /\ \A t \in DOMAIN portMap : \A d \in Clients : portMap[t][d] <= try[d]
    BY DEF RegistryInv, Opened
  <2>2. empty \in [Clients -> Nat] /\ \A d \in Clients : empty[d] <= try[d]
    BY DEF None, RegistryInv, TokenInv, RegistryType
  <2> HIDE DEF empty
  <2>3. portMap' \in [DOMAIN portMap' -> [Clients -> Nat]]
    BY <1>1, <2>1, <2>2
  <2>4. \A t \in DOMAIN portMap' : \A d \in Clients : portMap'[t][d] <= try'[d]
    BY <1>1, <1>3, <2>1, <2>2
  <2>5. \A d \in Clients : token[d] # None => token'[d] # None
    BY <1>1, <1>2, NoToken
  <2>6. /\ requests' \cup replies' \subseteq [client : Clients, try : Nat, kind : {"g", "s"}]
        /\ \A q \in requests' \cup replies' :
             token'[q.client] # None /\ (q.kind = "s" => q.try <= try'[q.client])
    BY <1>1, <2>5 DEF RegistryInv, Opened
  <2> QED
    BY <2>3, <2>4, <2>6 DEF Opened
<1>5. ASSUME ~raced
      PROVE  /\ filing[c] = tokenMap /\ tokenMap # None /\ DOMAIN portMap = {}
             /\ \A d \in Clients : token[d] = None /\ process'[d] # "filing"
  <2>1. /\ filing[c] = tokenMap /\ tokenMap # None
        /\ process[Other(c)] # "filing" /\ \A d \in Clients : token[d] = None
    BY <1>1, <1>5 DEF RegistryInv, TokenInv, OneMaker
  <2>2. \A d \in Clients : process'[d] = IF d = c THEN "done" ELSE process[d]
    BY <1>2 DEF RegistryInv, TokenInv, RegistryType
  <2>3. \A d \in Clients : process'[d] # "filing"
    BY <2>1, <2>2, TheOther
  <2>4. DOMAIN portMap = {}
    BY <1>1, <1>5 DEF RegistryInv, OneFiled
  <2> QED
    BY <2>1, <2>3, <2>4
<1>6. ~raced => OneFiled'
  BY <1>1, <1>3, <1>5 DEF OneFiled
<1>7. ~raced => Recorded'
  <2> SUFFICES ASSUME ~raced PROVE Recorded'
    OBVIOUS
  <2>1. replies' = {}
    BY <1>1, <1>5 DEF RegistryInv, Opened
  <2>2. \A d \in Clients : ~Registered(d)
    BY <1>5 DEF RegistryInv, TokenInv, LoggedIn, Registered
  <2>3. \A d \in Clients : ~Registered(d)'
    BY <1>2, <2>2 DEF Registered, FirstStep
  <2> QED
    BY <2>1, <2>3 DEF Recorded
<1> QED
  BY <1>1, <1>4, <1>6, <1>7 DEF RegistryInv

(* UDP_Server records a registration, or answers a question. *)
LEMMA ServeFiles ==
  ASSUME RegistryInv, TokenInv', NEW q \in requests, Serve(q)
  PROVE  RegistryInv'
<1> DEFINE t == token[q.client]
<1>1. /\ q \in [client : Clients, try : Nat, kind : {"g", "s"}]
      /\ t # None /\ (q.kind = "s" => q.try <= try[q.client])
      /\ requests' \subseteq requests
      /\ replies' \subseteq replies \cup {q}
      /\ UNCHANGED <<tokenMap, process, filing, raced, pc, token, try>>
      /\ late => late'
  <2>1. /\ q \in [client : Clients, try : Nat, kind : {"g", "s"}]
        /\ t # None /\ (q.kind = "s" => q.try <= try[q.client])
    BY DEF RegistryInv, Opened
  <2>2. late => late'
    BY DEF Serve
  <2> QED
    BY <2>1, <2>2 DEF Serve, clientVars
<1>2. CASE portMap' = portMap /\ (q \in replies' => q.kind = "g" \/ q \in replies)
  <2>1. Opened'
    BY <1>1, <1>2 DEF RegistryInv, Opened
  <2>2. ~raced => OneFiled'
    BY <1>1, <1>2 DEF RegistryInv, OneFiled
  <2>3. ~raced /\ ~late' => Recorded'
    BY <1>1, <1>2 DEF RegistryInv, Recorded, Registered
  <2> QED
    BY <1>1, <2>1, <2>2, <2>3 DEF RegistryInv
<1>3. CASE /\ t \in DOMAIN portMap /\ q.kind = "s"
           /\ portMap' = [portMap EXCEPT ![t][q.client] = q.try]
           /\ late' = (late \/ portMap[t][q.client] > q.try)
  <2>1. /\ DOMAIN portMap' = DOMAIN portMap
        /\ \A u \in DOMAIN portMap : \A d \in Clients :
             portMap'[u][d] = IF u = t /\ d = q.client THEN q.try ELSE portMap[u][d]
        /\ portMap' \in [DOMAIN portMap -> [Clients -> Nat]]
    <3> HIDE DEF t
    <3> QED
      BY <1>1, <1>3 DEF RegistryInv, Opened
  <2>2. Opened'
    BY <1>1, <1>3, <2>1 DEF RegistryInv, Opened
  <2>3. ~raced => OneFiled'
    BY <1>1, <2>1 DEF RegistryInv, OneFiled
  <2>4. ~raced /\ ~late' => Recorded'
    <3> SUFFICES ASSUME ~raced, ~late' PROVE Recorded'
      OBVIOUS
    <3>1. Recorded /\ ~(portMap[t][q.client] > q.try)
      BY <1>3 DEF RegistryInv
    <3>2. t = tokenMap /\ tokenMap \in DOMAIN portMap
      BY <1>1, TokenIsFiled DEF RegistryInv
    <3>3. portMap[t][q.client] \in Nat /\ q.try \in Nat /\ try[q.client] \in Nat
          /\ q.client \in Clients
      BY <1>1, <1>3 DEF RegistryInv, Opened, TokenInv, RegistryType
    <3>4. ASSUME NEW s \in replies', s.kind = "s"
          PROVE  s.try <= portMap'[tokenMap][s.client]
      <4>1. CASE s = q
        BY <2>1, <3>2, <3>3, <4>1
      <4>2. CASE s # q
        <5>1. /\ s \in replies /\ s.client \in Clients /\ s.try \in Nat
              /\ s.try <= portMap[tokenMap][s.client]
          BY <1>1, <3>1, <3>4, <4>2 DEF RegistryInv, Opened, Recorded
        <5>2. CASE s.client = q.client
          BY <2>1, <3>1, <3>2, <3>3, <5>1, <5>2
        <5>3. CASE s.client # q.client
          BY <2>1, <3>2, <5>1, <5>3
        <5> QED
          BY <5>2, <5>3
      <4> QED
        BY <4>1, <4>2
    <3>5. ASSUME NEW d \in Clients, Registered(d)'
          PROVE  portMap'[tokenMap][d] = try[d]
      <4>1. portMap[tokenMap][d] = try[d]
        BY <1>1, <3>1, <3>5 DEF Recorded, Registered
      <4>2. CASE d = q.client
        <5>1. q.try <= try[d] /\ ~(try[d] > q.try) /\ portMap'[tokenMap][d] = q.try
          BY <1>1, <1>3, <2>1, <3>1, <3>2, <4>1, <4>2
        <5> QED
          BY <3>3, <4>2, <5>1
      <4>3. CASE d # q.client
        BY <2>1, <3>2, <4>1, <4>3
      <4> QED
        BY <4>2, <4>3
    <3> QED
      BY <1>1, <3>4, <3>5 DEF Recorded
  <2> QED
    BY <1>1, <2>2, <2>3, <2>4 DEF RegistryInv
<1> QED
  BY <1>2, <1>3 DEF Serve

(* A client asks, or opens a socket and registers it. *)
LEMMA RequestFiles ==
  ASSUME RegistryInv, TokenInv', NEW c \in Clients, Ask(c) \/ Register(c)
  PROVE  RegistryInv'
<1>1. /\ pc[c] \in {"ask", "register"} /\ token[c] # None
      /\ UNCHANGED <<tokenMap, portMap, process, raced, token, replies, late>>
  BY DEF Ask, Register, serverVars, RegistryInv, TokenInv, LoggedIn
<1>2. PICK q \in [client : Clients, try : Nat, kind : {"g", "s"}] :
        /\ q.client = c /\ requests' = requests \cup {q}
        /\ q.kind = "s" => q.try <= try'[c]
  <2>1. CASE Ask(c)
    <3> DEFINE q == [client |-> c, try |-> 0, kind |-> "g"]
    <3>1. q \in [client : Clients, try : Nat, kind : {"g", "s"}]
      OBVIOUS
    <3>2. requests' = requests \cup {q}
      BY <2>1 DEF Ask, Datagram
    <3> QED
      BY <3>1, <3>2
  <2>2. CASE Register(c)
    <3> DEFINE q == [client |-> c, try |-> try[c] + 1, kind |-> "s"]
    <3>1. try[c] + 1 \in Nat /\ try'[c] = try[c] + 1
      BY <2>2 DEF Register, RegistryInv, TokenInv, RegistryType
    <3>2. q \in [client : Clients, try : Nat, kind : {"g", "s"}]
      BY <3>1
    <3>3. requests' = requests \cup {q}
      BY <2>2 DEF Register, Datagram
    <3>4. q.client = c /\ q.try <= try'[c]
      BY <3>1
    <3> QED
      BY <3>2, <3>3, <3>4
  <2> QED
    BY <2>1, <2>2
<1>3. \A d \in Clients : /\ try[d] \in Nat /\ try'[d] \in Nat
                         /\ try[d] <= try'[d]
                         /\ Registered(d)' => Registered(d) /\ try'[d] = try[d]
  BY DEF Ask, Register, RegistryInv, TokenInv, RegistryType, Registered
<1>4. Opened'
  <2>1. \A u \in DOMAIN portMap : \A d \in Clients : portMap[u][d] <= try'[d]
    <3> SUFFICES ASSUME NEW u \in DOMAIN portMap, NEW d \in Clients
                 PROVE  portMap[u][d] <= try'[d]
      OBVIOUS
    <3>1. portMap[u][d] \in Nat /\ portMap[u][d] <= try[d]
      BY DEF RegistryInv, Opened
    <3> QED
      BY <1>3, <3>1
  <2>2. \A s \in requests' \cup replies' :
          token'[s.client] # None /\ (s.kind = "s" => s.try <= try'[s.client])
    <3> SUFFICES ASSUME NEW s \in requests' \cup replies'
                 PROVE  token'[s.client] # None /\ (s.kind = "s" => s.try <= try'[s.client])
      OBVIOUS
    <3>1. CASE s = q
      BY <1>1, <1>2, <3>1
    <3>2. CASE s # q
      <4>1. /\ s.client \in Clients /\ s.try \in Nat /\ token[s.client] # None
            /\ s.kind = "s" => s.try <= try[s.client]
        BY <1>1, <1>2, <3>2 DEF RegistryInv, Opened
      <4> QED
        BY <1>1, <1>3, <4>1
    <3> QED
      BY <3>1, <3>2
  <2>3. requests' \cup replies' \subseteq [client : Clients, try : Nat, kind : {"g", "s"}]
    BY <1>1, <1>2 DEF RegistryInv, Opened
  <2> QED
    BY <1>1, <2>1, <2>2, <2>3 DEF RegistryInv, Opened
<1>5. ~raced => OneFiled'
  BY <1>1 DEF RegistryInv, OneFiled
<1>6. ~raced /\ ~late => Recorded'
  BY <1>1, <1>3 DEF RegistryInv, Recorded
<1> QED
  BY <1>1, <1>4, <1>5, <1>6 DEF RegistryInv

(* A client gets the reply it waits for: it is registered when the reply is *)
(* to its registration, since nothing older can have been recorded after.   *)
LEMMA RepliedFiles ==
  ASSUME RegistryInv, TokenInv', NEW c \in Clients, Replied(c)
  PROVE  RegistryInv'
<1>1. PICK q \in replies :
        /\ q.client = c
        /\ \/ pc[c] = "asked" /\ q.kind = "g"
           \/ pc[c] = "registering" /\ q.kind = "s" /\ q.try = try[c]
        /\ replies' = replies \ {q}
        /\ pc' = [pc EXCEPT ![c] = CASE c = "phone" /\ q.kind = "g" -> "register"
                                     [] c = "robot" /\ q.kind = "s" -> "ask"
                                     [] OTHER -> "ready"]
        /\ UNCHANGED <<serverVars, token, try, requests, slow, late>>
  BY DEF Replied
<1>2. UNCHANGED <<tokenMap, portMap, process, raced, token, try, requests, late>>
  BY <1>1 DEF serverVars
<1>3. Opened'
  BY <1>1, <1>2 DEF RegistryInv, Opened
<1>4. ~raced => OneFiled'
  BY <1>2 DEF RegistryInv, OneFiled
<1>5. \A d \in Clients : d # c => pc'[d] = pc[d]
  BY <1>1 DEF RegistryInv, TokenInv, RegistryType
<1>6. ASSUME ~raced, ~late, Registered(c)' PROVE portMap[tokenMap][c] = try[c]
  <2>1. CASE q.kind = "g"
    <3>1. c # "phone"
      BY <1>1, <1>6, <2>1 DEF Registered, RegistryInv, TokenInv, RegistryType
    <3>2. Registered(c)
      BY <1>1, <2>1, <3>1 DEF Registered, Clients
    <3> QED
      BY <1>6, <3>2 DEF RegistryInv, Recorded
  <2>2. CASE q.kind = "s"
    <3>1. q.try = try[c] /\ try[c] \in Nat /\ try[c] <= portMap[tokenMap][c]
      BY <1>1, <1>6, <2>2 DEF RegistryInv, Recorded, TokenInv, RegistryType
    <3>2. tokenMap \in DOMAIN portMap
      BY <1>1, <1>6, TokenIsFiled DEF RegistryInv, Opened
    <3>3. portMap[tokenMap][c] \in Nat /\ portMap[tokenMap][c] <= try[c]
      BY <3>2 DEF RegistryInv, Opened
    <3> QED
      BY <3>1, <3>3
  <2> QED
    BY <1>1, <2>1, <2>2
<1>7. ~raced /\ ~late => Recorded'
  <2> SUFFICES ASSUME ~raced, ~late PROVE Recorded'
    OBVIOUS
  <2>1. \A s \in replies' : s.kind = "s" => s.try <= portMap[tokenMap][s.client]
    BY <1>1 DEF RegistryInv, Recorded
  <2>2. ASSUME NEW d \in Clients, Registered(d)' PROVE portMap[tokenMap][d] = try[d]
    <3>1. CASE d = c
      BY <1>6, <2>2, <3>1
    <3>2. CASE d # c
      <4>1. Registered(d)
        BY <1>5, <2>2, <3>2 DEF Registered
      <4> QED
        BY <4>1 DEF RegistryInv, Recorded
    <3> QED
      BY <3>1, <3>2
  <2> QED
    BY <1>2, <2>1, <2>2 DEF Recorded
<1> QED
  BY <1>2, <1>3, <1>4, <1>7 DEF RegistryInv

LEMMA LoseFiles ==
  ASSUME RegistryInv, TokenInv', NEW q, Lose(q)
  PROVE  RegistryInv'
<1>1. /\ requests' \subseteq requests /\ replies' \subseteq replies
      /\ UNCHANGED <<tokenMap, portMap, process, raced, pc, token, try, late>>
  BY DEF Lose, serverVars, clientVars
<1>2. Opened'
  BY <1>1 DEF RegistryInv, Opened
<1>3. ~raced => OneFiled'
  BY <1>1 DEF RegistryInv, OneFiled
<1>4. ~raced /\ ~late => Recorded'
  BY <1>1 DEF RegistryInv, Recorded, Registered
<1> QED
  BY <1>1, <1>2, <1>3, <1>4 DEF RegistryInv

(* A client logs in once: before that it has no thread at the server. *)
Started == \A c \in Clients : pc[c] = "start" => process[c] = "none"

LEMMA StartedStep == TokenInv /\ Started /\ [Next]_vars => Started'
<1> SUFFICES ASSUME RegistryType, Started, [Next]_vars PROVE Started'
  BY DEF TokenInv
<1>1. ASSUME NEW c \in Clients, Connect(c) \/ Process(c)
      PROVE  Started'
  <2>1. \A d \in Clients : d # c => process'[d] = process[d] /\ pc'[d] = pc[d]
    BY <1>1 DEF Connect, Process, Hashed, Lookup, Create, File, Welcome, clientVars, RegistryType
  <2>2. CASE Connect(c)
    BY <2>1, <2>2 DEF Connect, Started, RegistryType
  <2>3. CASE Process(c)
    <3>1. pc[c] # "start"
      BY <2>3 DEF Process, Hashed, Lookup, Create, File, Started
    <3>2. pc'[c] \in {pc[c], "rejected", FirstStep(c)}
      BY <2>3 DEF Process, Hashed, Lookup, Create, File, Welcome, clientVars, RegistryType
    <3> QED
      BY <2>1, <3>1, <3>2 DEF Started, FirstStep
  <2> QED
    BY <1>1, <2>2, <2>3
<1>2. ASSUME process' = process, \A c \in Clients : pc'[c] = "start" => pc[c] = "start"
      PROVE  Started'
  BY <1>2 DEF Started
<1>3. ASSUME NEW c \in Clients, GiveUp(c) \/ Client(c)
      PROVE  process' = process /\ \A d \in Clients : pc'[d] = "start" => pc[d] = "start"
  BY <1>3 DEF GiveUp, Client, Ask, Register, Replied, serverVars, RegistryType
<1>4. ASSUME \/ PhoneTimeout \/ RobotTimeout \/ UNCHANGED vars
             \/ \E q \in requests : Serve(q)
             \/ \E q \in requests \cup replies : Lose(q)
      PROVE  process' = process /\ \A d \in Clients : pc'[d] = "start" => pc[d] = "start"
  BY <1>4 DEF PhoneTimeout, RobotTimeout, Serve, Lose, vars, serverVars, clientVars, RegistryType
<1> QED
  BY <1>1, <1>2, <1>3, <1>4 DEF Next

LEMMA RegistryStep == RegistryInv /\ Started /\ [Next]_vars => RegistryInv'
<1> SUFFICES ASSUME RegistryInv, Started, [Next]_vars PROVE RegistryInv'
  OBVIOUS
<1>1. TokenInv /\ TokenInv' /\ RegistryType
  BY TokenStep DEF RegistryInv, TokenInv
<1>2. ASSUME NEW c \in Clients, Connect(c) \/ Hashed(c) PROVE RegistryInv'
  <2>1. UNCHANGED <<tokenMap, portMap, try, requests, replies, late, token, raced>>
    BY <1>2 DEF Connect, Hashed, netVars
  <2>2. \A d \in Clients : Registered(d)' => Registered(d)
    BY <1>1, <1>2 DEF Connect, Hashed, Registered, RegistryType
  <2>3. \A d \in Clients : process'[d] = "filing" <=> process[d] = "filing"
    BY <1>1, <1>2 DEF Connect, Hashed, RegistryType, Started
  <2> QED
    BY <1>1, <2>1, <2>2, <2>3, LoginMoves
<1>3. ASSUME NEW c \in Clients, Lookup(c) PROVE RegistryInv'
  <2>1. /\ UNCHANGED <<tokenMap, portMap, try, requests, replies, late>>
        /\ ~raced' => ~raced
    BY <1>3 DEF Lookup, netVars
  <2>2. CASE tokenMap # None
    <3>1. tokenMap \in Tokens /\ Welcome(c, tokenMap)
      BY <1>1, <1>3, <2>2 DEF Lookup, RegistryType
    <3>2. /\ process' = [process EXCEPT ![c] = "done"]
          /\ token'[c] \in {token[c], tokenMap}
          /\ \A d \in Clients : d # c => token'[d] = token[d] /\ pc'[d] = pc[d]
          /\ pc'[c] \in {pc[c], FirstStep(c)}
      BY <1>1, <3>1, WelcomeType DEF TokenInv
    <3>3. \A d \in Clients : token[d] # None => token'[d] # None
      BY <2>2, <3>2
    <3>4. \A d \in Clients : process'[d] = "filing" <=> process[d] = "filing"
      BY <1>1, <1>3, <3>2 DEF Lookup, RegistryType
    <3>5. \A d \in Clients : Registered(d)' => Registered(d)
      BY <3>2 DEF Registered, FirstStep
    <3> QED
      BY <1>1, <2>1, <3>3, <3>4, <3>5, LoginMoves
  <2>3. CASE tokenMap = None
    <3>1. process' = [process EXCEPT ![c] = "creating"] /\ UNCHANGED <<pc, token>>
      BY <1>3, <2>3 DEF Lookup
    <3>2. \A d \in Clients : process'[d] = "filing" <=> process[d] = "filing"
      BY <1>1, <1>3, <3>1 DEF Lookup, RegistryType
    <3>3. \A d \in Clients : Registered(d)' => Registered(d)
      BY <3>1 DEF Registered
    <3> QED
      BY <1>1, <2>1, <3>1, <3>2, <3>3, LoginMoves
  <2> QED
    BY <2>2, <2>3
<1>4. ASSUME UNCHANGED <<tokenMap, portMap, process, try, requests, replies, late, token, raced>>,
             \A d \in Clients : Registered(d)' => Registered(d)
      PROVE  RegistryInv'
  BY <1>1, <1>4, LoginMoves
<1>5. ASSUME \/ \E c \in Clients : GiveUp(c)
             \/ PhoneTimeout \/ RobotTimeout \/ UNCHANGED vars
      PROVE  RegistryInv'
  <2>1. UNCHANGED <<tokenMap, portMap, process, try, requests, replies, late, token, raced>>
    BY <1>5 DEF GiveUp, PhoneTimeout, RobotTimeout, vars, serverVars, clientVars, netVars
  <2>2. \A d \in Clients : pc'[d] \in {pc[d], "rejected", "register", "locked"}
    BY <1>1, <1>5 DEF GiveUp, PhoneTimeout, RobotTimeout, vars, clientVars, RegistryType
  <2>3. \A d \in Clients : Registered(d)' => Registered(d)
    BY <2>2 DEF Registered
  <2> QED
    BY <1>4, <2>1, <2>3
<1> QED
  BY <1>1, <1>2, <1>3, <1>5, CreateFiles, FileFiles, ServeFiles, RequestFiles,
     RepliedFiles, LoseFiles DEF Next, Process, Client

(* The inductive invariant of registering. *)
THEOREM RegistryInvariant == Spec => [](RegistryInv /\ Started)
<1>1. Init => RegistryInv /\ Started
  <2> SUFFICES ASSUME Init PROVE RegistryInv /\ Started
    OBVIOUS
  <2>1. /\ portMap = [t \in {} |-> None] /\ requests = {} /\ replies = {} /\ tokenMap = None
        /\ \A c \in Clients : pc[c] = "start" /\ process[c] = "none"
    BY DEF Init
  <2>2. DOMAIN portMap = {} /\ portMap \in [DOMAIN portMap -> [Clients -> Nat]]
    BY <2>1
  <2>3. Opened /\ OneFiled
    BY <2>1, <2>2 DEF Opened, OneFiled
  <2>4. Recorded /\ Started
    BY <2>1 DEF Recorded, Registered, Started
  <2> QED
    BY <2>3, <2>4, TokenInit DEF RegistryInv
<1>2. RegistryInv /\ Started /\ [Next]_vars => RegistryInv' /\ Started'
  BY RegistryStep, StartedStep DEF RegistryInv
<1> QED
  BY <1>1, <1>2, PTL DEF Spec

(* A client that is ready is registered with the socket it listens on,      *)
(* however many tries of getUdpSocket() it took and whatever UDP reordered. *)
THEOREM RegistryReadyIsReachable == Spec => []ReadyIsReachable
<1>1. RegistryInv => ReadyIsReachable
  <2> SUFFICES ASSUME RegistryInv, NEW c \in Clients, pc[c] = "ready", ~late, ~raced
               PROVE  portMap[token[c]][c] = try[c]
    BY DEF ReadyIsReachable
  <2>1. token[c] # None
    BY DEF RegistryInv, TokenInv, LoggedIn
  <2>2. token[c] = tokenMap
    BY <2>1, TokenIsFiled DEF RegistryInv
  <2> QED
    BY <2>2 DEF RegistryInv, Recorded, Registered
<1> QED
  BY <1>1, RegistryInvariant, PTL
=============================================================================
