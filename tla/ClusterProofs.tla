---------------------------- MODULE ClusterProofs ----------------------------
(***************************************************************************)
(* Proofs about the cluster, for any number of nodes, connections, users,  *)
(* devices and tokens and any times to live: type correctness, that tokens *)
(* are kept for their life, and what a route in Redis says about the       *)
(* connections.                                                            *)
(***************************************************************************)
EXTENDS Cluster, TLAPS

USE ClusterAssumption DEF authVars, redisVars, histVars, Become

-----------------------------------------------------------------------------
(* Types. *)

LEMMA EntryIsRoute ==
    ASSUME TypeOK, NEW c \in Conn
    PROVE  /\ Entry(c) \in Route
           /\ Entry(c).node = node[c] /\ Entry(c).ttl = RouteTTL
           /\ Entry(c) # NoRoute
<1>1. Entry(c).node = node[c] /\ Entry(c).ttl = RouteTTL
    BY DEF Entry
<1>2. Entry(c) \in [node : Node, ttl : 1 .. RouteTTL]
    BY DEF Entry, TypeOK
<1>3. NoRoute.ttl = 0
    BY DEF NoRoute
<1>. QED
    BY <1>1, <1>2, <1>3 DEF Route

LEMMA AgedIsRoute ==
    ASSUME NEW r \in Route
    PROVE  /\ Aged(r) \in Route /\ r.ttl \in 0 .. RouteTTL
           /\ r.ttl > 1 => Aged(r).node = r.node /\ Aged(r).ttl = r.ttl - 1
           /\ r = NoRoute => Aged(r) = NoRoute
           /\ Aged(r) # NoRoute => Aged(r).node = r.node
<1>1. NoRoute.ttl = 0 /\ NoRoute \in Route
    BY DEF NoRoute, Route
<1>2. CASE r = NoRoute
    BY <1>1, <1>2 DEF Aged
<1>3. CASE r \in [node : Node, ttl : 1 .. RouteTTL]
    <2>1. CASE r.ttl = 1
        BY <1>1, <1>3, <2>1 DEF Aged
    <2>2. CASE r.ttl # 1
        <3>1. [r EXCEPT !.ttl = r.ttl - 1] = [node |-> r.node, ttl |-> r.ttl - 1]
            BY <1>3
        <3>2. [node |-> r.node, ttl |-> r.ttl - 1] \in [node : Node, ttl : 1 .. RouteTTL]
            BY <1>3, <2>2
        <3>. QED
            BY <1>1, <1>3, <2>2, <3>1, <3>2 DEF Aged, Route
    <2>. QED
        BY <2>1, <2>2
<1>. QED
    BY <1>2, <1>3 DEF Route

LEMMA KeysOfConn ==
    ASSUME TypeOK, NEW c \in Conn
    PROVE  U(c) \in User /\ D(c) \in Device
    BY DEF U, D, TypeOK

LEMMA TypeInit ==
    Init => TypeOK
<1>. SUFFICES ASSUME Init PROVE TypeOK
    OBVIOUS
<1>1. NoRoute \in Route
    BY DEF Route
<1>2. PICK p \in Placement : tok = p.tok /\ node = p.node
    BY DEF Init
<1>3. tok \in [Conn -> Token] /\ node \in [Conn -> Node]
    BY <1>2
<1>4. /\ life \in [Token -> -2 .. TokenLife] /\ pc \in [Conn -> Phase]
      /\ fresh \in [Conn -> 0 .. RouteTTL]
    BY DEF Init, Phase
<1>5. userRoute \in [User -> Route] /\ deviceRoute \in [Device -> Route]
    BY <1>1 DEF Init
<1>. QED
    BY <1>3, <1>4, <1>5 DEF Init, TypeOK

LEMMA TypeStep ==
    TypeOK /\ [Next]_vars => TypeOK'
<1>. SUFFICES ASSUME TypeOK, [Next]_vars PROVE TypeOK'
    OBVIOUS
<1>. USE DEF TypeOK
<1>1. CASE Tick
    BY <1>1, AgedIsRoute DEF Tick
<1>2. CASE Clean
    BY <1>2 DEF Clean, CleanStart, CleanDelete
<1>3. ASSUME NEW t \in Token, HandleToken(t) PROVE TypeOK'
    BY <1>3 DEF HandleToken
<1>4. ASSUME NEW c \in Conn, Handshake(c) PROVE TypeOK'
    BY <1>4 DEF Handshake, Phase
<1>5. ASSUME NEW c \in Conn, ValidateLoad(c) PROVE TypeOK'
    BY <1>5 DEF ValidateLoad, Phase
<1>6. ASSUME NEW c \in Conn, ValidateJudge(c) PROVE TypeOK'
    BY <1>6 DEF ValidateJudge, Phase
<1>7. ASSUME NEW c \in Conn, SetUserRoute(c) PROVE TypeOK'
    BY <1>7, EntryIsRoute, KeysOfConn DEF SetUserRoute, Phase
<1>8. ASSUME NEW c \in Conn, SetDeviceRoute(c) PROVE TypeOK'
    BY <1>8, EntryIsRoute, KeysOfConn DEF SetDeviceRoute, Phase
<1>9. ASSUME NEW c \in Conn, Respond(c) PROVE TypeOK'
    BY <1>9, KeysOfConn DEF Respond, Phase
<1>10. ASSUME NEW c \in Conn, Close(c) PROVE TypeOK'
    BY <1>10, KeysOfConn DEF Close, Phase
<1>11. ASSUME NEW c \in Conn, DelUserRoute(c) PROVE TypeOK'
    BY <1>11, KeysOfConn DEF DelUserRoute, DelUser, Phase, Route
<1>12. ASSUME NEW c \in Conn, DelDeviceRoute(c) PROVE TypeOK'
    BY <1>12, KeysOfConn DEF DelDeviceRoute, Phase, Route
<1>13. ASSUME NEW n \in Node, StopNode(n) PROVE TypeOK'
    BY <1>13 DEF StopNode
<1>14. ASSUME NEW n \in Node, CrashNode(n) PROVE TypeOK'
    BY <1>14, KeysOfConn DEF CrashNode, Phase
<1>15. CASE UNCHANGED vars
    BY <1>15 DEF vars
<1>. QED
    BY <1>1, <1>2, <1>3, <1>4, <1>5, <1>6, <1>7, <1>8, <1>9, <1>10, <1>11,
       <1>12, <1>13, <1>14, <1>15 DEF Next, ConnStep

(* Every variable of the cluster has its type in every state: in particular
   no Redis key ever has more time to live than RedisKeyExpireTime. *)
THEOREM TypeCorrect == Spec => []TypeOK
    BY TypeInit, TypeStep, PTL DEF Spec

-----------------------------------------------------------------------------
(* Tokens. *)

(* The cleaner deletes only what has expired, though its reading of the clock
   is old by then: expiry is final. *)
DoomedExpired == \A t \in doomed : Expired(t)

TokenInv == DoomedExpired /\ ValidTokensAreKept

LEMMA TokenStep ==
    TypeOK /\ TokenInv /\ [Next]_vars => TokenInv'
<1>. SUFFICES ASSUME TypeOK, TokenInv, [Next]_vars PROVE TokenInv'
    OBVIOUS
<1>. USE DEF TokenInv, DoomedExpired, ValidTokensAreKept, Expired, Issued, TypeOK
<1>1. CASE Tick
    BY <1>1 DEF Tick
<1>2. CASE CleanStart
    BY <1>2 DEF CleanStart, Outlived
<1>3. ASSUME NEW t \in Token, CleanDelete(t) PROVE TokenInv'
    BY <1>3 DEF CleanDelete
<1>4. ASSUME NEW t \in Token, HandleToken(t) PROVE TokenInv'
    BY <1>4 DEF HandleToken
<1>5. ASSUME NEW c \in Conn, ValidateJudge(c) PROVE TokenInv'
    BY <1>5 DEF ValidateJudge, StillValid
<1>6. ASSUME UNCHANGED authVars PROVE TokenInv'
    BY <1>6
<1>7. ASSUME NEW c \in Conn, Handshake(c) \/ ConnStep(c) \/ Close(c) PROVE TokenInv'
    BY <1>5, <1>6, <1>7 DEF ConnStep, Handshake, ValidateLoad, SetUserRoute,
       SetDeviceRoute, Respond, Close, DelUserRoute, DelDeviceRoute
<1>8. ASSUME NEW n \in Node, StopNode(n) \/ CrashNode(n) PROVE TokenInv'
    BY <1>6, <1>8 DEF StopNode, CrashNode
<1>. QED
    BY <1>1, <1>2, <1>3, <1>4, <1>6, <1>7, <1>8 DEF Next, Clean, vars

(* No token is lost before its time, for any number of tokens and validations
   that race with the cleaner. *)
THEOREM TokensKeptCorrect == Spec => []ValidTokensAreKept
<1>1. Init => TokenInv
    BY DEF Init, TokenInv, DoomedExpired, ValidTokensAreKept, Issued
<1>2. TokenInv => ValidTokensAreKept
    BY DEF TokenInv
<1>. QED
    BY <1>1, <1>2, TokenStep, TypeCorrect, PTL DEF Spec

-----------------------------------------------------------------------------
(* Routes. *)

(* A route that nothing left behind has an owner on the node it names: a
   connection that wrote it, or could have, and has not yet deleted it.  A
   connection that is about to delete its device's key no longer owns the
   user's, and one that is about to write the device's does not own it yet. *)
OwnsUser(c) == pc[c] \in {"setDevice", "respond", "run", "delUser"}

OwnsDevice(c) == pc[c] \in {"respond", "run", "delUser", "delDevice"}

UserOwned ==
    \A u \in User : userRoute[u] # NoRoute /\ u \notin leaked =>
      \E c \in Conn : U(c) = u /\ node[c] = userRoute[u].node /\ OwnsUser(c)

DeviceOwned ==
    \A d \in Device : deviceRoute[d] # NoRoute /\ d \notin leaked =>
      \E c \in Conn : D(c) = d /\ node[c] = deviceRoute[d].node /\ OwnsDevice(c)

(* What holds of a connection with which no other one interfered. *)
Undisturbed(c) ==
    /\ pc[c] \in {"setDevice", "respond", "run"}
    /\ \A o \in Others(c) : pc[o] \notin {"setDevice", "delDevice"}
    /\ fresh[c] > 0 =>
         /\ userRoute[U(c)].node = node[c] /\ userRoute[U(c)].ttl = fresh[c]
         /\ pc[c] # "setDevice" =>
              /\ deviceRoute[D(c)].node = node[c]
              /\ deviceRoute[D(c)].ttl >= fresh[c]
    /\ pc[c] # "setDevice" => node[c] \in nodes

AloneInv == \A c \in alone : Undisturbed(c)

LEMMA UserOwnedStep ==
    TypeOK /\ UserOwned /\ [Next]_vars => UserOwned'
<1>. DEFINE Found(u) == \E e \in Conn : U(e) = u /\ node[e] = userRoute[u].node /\ OwnsUser(e)
<1>. SUFFICES ASSUME TypeOK, UserOwned, [Next]_vars,
                     NEW u \in User, userRoute'[u] # NoRoute, u \notin leaked'
              PROVE  Found(u)'
    BY DEF UserOwned
<1>. USE DEF UserOwned, OwnsUser, U
<1>1. CASE Tick
    <2>1. userRoute[u] \in Route /\ userRoute'[u] = Aged(userRoute[u])
        BY <1>1 DEF Tick, TypeOK
    <2>2. userRoute[u] # NoRoute /\ userRoute'[u].node = userRoute[u].node
        BY <2>1, AgedIsRoute
    <2>. QED
        BY <1>1, <2>2 DEF Tick
<1>2. ASSUME UNCHANGED << pc, tok, node, userRoute, leaked >>
      PROVE  Found(u)'
    BY <1>2
<1>3. CASE Clean \/ \E t \in Token : HandleToken(t)
    BY <1>2, <1>3 DEF Clean, CleanStart, CleanDelete, HandleToken
<1>4. ASSUME NEW c \in Conn, Handshake(c) \/ ValidateLoad(c) \/ ValidateJudge(c)
      PROVE  Found(u)'
    BY <1>4 DEF Handshake, ValidateLoad, ValidateJudge, TypeOK
<1>5. ASSUME NEW c \in Conn, SetUserRoute(c)
      PROVE  Found(u)'
    BY <1>5, KeysOfConn DEF SetUserRoute, Entry, TypeOK
<1>6. ASSUME NEW c \in Conn, SetDeviceRoute(c)
      PROVE  Found(u)'
    BY <1>6, KeysOfConn DEF SetDeviceRoute, TypeOK
<1>7. ASSUME NEW c \in Conn, Respond(c)
      PROVE  Found(u)'
    BY <1>7 DEF Respond, TypeOK
<1>8. ASSUME NEW c \in Conn, Close(c)
      PROVE  Found(u)'
    BY <1>8 DEF Close, TypeOK
<1>9. ASSUME NEW c \in Conn, DelUserRoute(c)
      PROVE  Found(u)'
    BY <1>9 DEF DelUserRoute, DelUser, TypeOK
<1>10. ASSUME NEW c \in Conn, DelDeviceRoute(c)
       PROVE  Found(u)'
    BY <1>10 DEF DelDeviceRoute, TypeOK
<1>11. ASSUME NEW n \in Node, StopNode(n)
       PROVE  Found(u)'
    BY <1>2, <1>11 DEF StopNode
<1>12. ASSUME NEW n \in Node, CrashNode(n)
       PROVE  Found(u)'
    BY <1>12 DEF CrashNode, Engaged, TypeOK
<1>. QED
    BY <1>1, <1>2, <1>3, <1>4, <1>5, <1>6, <1>7, <1>8, <1>9, <1>10, <1>11,
       <1>12 DEF Next, ConnStep, vars

LEMMA DeviceOwnedStep ==
    TypeOK /\ DeviceOwned /\ [Next]_vars => DeviceOwned'
<1>. DEFINE Found(d) == \E e \in Conn : D(e) = d /\ node[e] = deviceRoute[d].node /\ OwnsDevice(e)
<1>. SUFFICES ASSUME TypeOK, DeviceOwned, [Next]_vars,
                     NEW d \in Device, deviceRoute'[d] # NoRoute, d \notin leaked'
              PROVE  Found(d)'
    BY DEF DeviceOwned
<1>. USE DEF DeviceOwned, OwnsDevice, D
<1>1. CASE Tick
    <2>1. deviceRoute[d] \in Route /\ deviceRoute'[d] = Aged(deviceRoute[d])
        BY <1>1 DEF Tick, TypeOK
    <2>2. deviceRoute[d] # NoRoute /\ deviceRoute'[d].node = deviceRoute[d].node
        BY <2>1, AgedIsRoute
    <2>. QED
        BY <1>1, <2>2 DEF Tick
<1>2. ASSUME UNCHANGED << pc, tok, node, deviceRoute, leaked >>
      PROVE  Found(d)'
    BY <1>2
<1>3. CASE Clean \/ \E t \in Token : HandleToken(t)
    BY <1>2, <1>3 DEF Clean, CleanStart, CleanDelete, HandleToken
<1>4. ASSUME NEW c \in Conn, Handshake(c) \/ ValidateLoad(c) \/ ValidateJudge(c)
      PROVE  Found(d)'
    BY <1>4 DEF Handshake, ValidateLoad, ValidateJudge, TypeOK
<1>5. ASSUME NEW c \in Conn, SetUserRoute(c)
      PROVE  Found(d)'
    BY <1>5, KeysOfConn DEF SetUserRoute, TypeOK
<1>6. ASSUME NEW c \in Conn, SetDeviceRoute(c)
      PROVE  Found(d)'
    BY <1>6, KeysOfConn DEF SetDeviceRoute, Entry, TypeOK
<1>7. ASSUME NEW c \in Conn, Respond(c)
      PROVE  Found(d)'
    BY <1>7 DEF Respond, TypeOK
<1>8. ASSUME NEW c \in Conn, Close(c)
      PROVE  Found(d)'
    BY <1>8 DEF Close, TypeOK
<1>9. ASSUME NEW c \in Conn, DelUserRoute(c)
      PROVE  Found(d)'
    BY <1>9 DEF DelUserRoute, DelUser, TypeOK
<1>10. ASSUME NEW c \in Conn, DelDeviceRoute(c)
       PROVE  Found(d)'
    BY <1>10 DEF DelDeviceRoute, TypeOK
<1>11. ASSUME NEW n \in Node, StopNode(n)
       PROVE  Found(d)'
    BY <1>2, <1>11 DEF StopNode
<1>12. ASSUME NEW n \in Node, CrashNode(n)
       PROVE  Found(d)'
    BY <1>12 DEF CrashNode, Engaged, TypeOK
<1>. QED
    BY <1>1, <1>2, <1>3, <1>4, <1>5, <1>6, <1>7, <1>8, <1>9, <1>10, <1>11,
       <1>12 DEF Next, ConnStep, vars

(* A route leads to a node with a connection of its user or device, unless
   one of the named failures left it behind, however many connections write
   and delete the same key: its owner is the last one that wrote it. *)
THEOREM RoutesCorrect == Spec => []RoutesLeadSomewhere
<1>1. Init => UserOwned /\ DeviceOwned
    BY DEF Init, UserOwned, DeviceOwned
<1>2. UserOwned /\ DeviceOwned => RoutesLeadSomewhere
    BY DEF UserOwned, DeviceOwned, RoutesLeadSomewhere, OwnsUser, OwnsDevice, Engaged
<1>. QED
    BY <1>1, <1>2, UserOwnedStep, DeviceOwnedStep, TypeCorrect, PTL DEF Spec

(* Sharing a key is symmetric and does not change. *)
LEMMA OthersSymmetric ==
    ASSUME NEW c \in Conn, NEW o \in Others(c)
    PROVE  o \in Conn /\ c \in Others(o)
    BY DEF Others

LEMMA OthersStay ==
    ASSUME tok' = tok, NEW c \in Conn
    PROVE  Others(c)' = Others(c) /\ U(c)' = U(c) /\ D(c)' = D(c)
    BY DEF Others, U, D

(* Keys of different connections meet only if one is among the others. *)
LEMMA OtherKeys ==
    ASSUME NEW c \in Conn, NEW o \in Conn, o # c, o \notin Others(c)
    PROVE  U(o) # U(c) /\ D(o) # D(c)
    BY DEF Others

LEMMA AloneStep ==
    TypeOK /\ AloneInv /\ [Next]_vars => AloneInv'
<1>. SUFFICES ASSUME TypeOK, AloneInv, [Next]_vars, NEW c \in alone'
              PROVE  Undisturbed(c)'
    BY DEF AloneInv
<1>. USE DEF AloneInv, Undisturbed
<1>0. tok' = tok /\ node' = node /\ c \in Conn
    BY TypeStep DEF TypeOK, Next, ConnStep, vars, Tick, Clean, CleanStart,
       CleanDelete, HandleToken, Handshake, ValidateLoad, ValidateJudge,
       SetUserRoute, SetDeviceRoute, Respond, Close, DelUserRoute,
       DelDeviceRoute, StopNode, CrashNode
<1>a. Others(c)' = Others(c) /\ U(c)' = U(c) /\ D(c)' = D(c) /\ Others(c) \subseteq Conn
    BY <1>0, OthersStay DEF Others
<1>b. U(c) \in User /\ D(c) \in Device
    BY <1>0, KeysOfConn
<1>. USE <1>0, <1>a, <1>b
<1>1. CASE Tick
    <2>1. /\ userRoute[U(c)] \in Route /\ userRoute'[U(c)] = Aged(userRoute[U(c)])
          /\ deviceRoute[D(c)] \in Route /\ deviceRoute'[D(c)] = Aged(deviceRoute[D(c)])
        BY <1>1 DEF Tick, TypeOK
    <2>2. /\ userRoute[U(c)].ttl \in Nat /\ deviceRoute[D(c)].ttl \in Nat
          /\ userRoute[U(c)].ttl > 1 =>
               /\ userRoute'[U(c)].node = userRoute[U(c)].node
               /\ userRoute'[U(c)].ttl = userRoute[U(c)].ttl - 1
          /\ deviceRoute[D(c)].ttl > 1 =>
               /\ deviceRoute'[D(c)].node = deviceRoute[D(c)].node
               /\ deviceRoute'[D(c)].ttl = deviceRoute[D(c)].ttl - 1
        BY <2>1, AgedIsRoute
    <2>3. /\ pc' = pc /\ nodes' = nodes /\ c \in alone /\ fresh[c] \in Nat
          /\ fresh'[c] = IF fresh[c] > 0 THEN fresh[c] - 1 ELSE 0
        BY <1>1 DEF Tick, TypeOK
    <2>. QED
        BY <2>2, <2>3
<1>2. ASSUME UNCHANGED << pc, tok, node, redisVars, fresh, alone >>
      PROVE  Undisturbed(c)'
    BY <1>2
<1>3. CASE Clean \/ \E t \in Token : HandleToken(t)
    BY <1>2, <1>3 DEF Clean, CleanStart, CleanDelete, HandleToken
<1>4. ASSUME NEW o \in Conn, Handshake(o) \/ ValidateLoad(o) \/ ValidateJudge(o)
      PROVE  Undisturbed(c)'
    BY <1>4 DEF Handshake, ValidateLoad, ValidateJudge, TypeOK
<1>5. ASSUME NEW o \in Conn, SetUserRoute(o)
      PROVE  Undisturbed(c)'
    <2>1. CASE userRoute' = userRoute /\ fresh' = fresh /\ alone' = alone /\ pc' = [pc EXCEPT ![o] = "respond"]
        BY <1>5, <2>1 DEF SetUserRoute, TypeOK
    <2>2. CASE /\ userRoute' = [userRoute EXCEPT ![U(o)] = Entry(o)]
               /\ fresh' = [fresh EXCEPT ![o] = RouteTTL]
               /\ pc' = [pc EXCEPT ![o] = "setDevice"]
               /\ alone' = IF \E x \in Others(o) : Engaged(x) THEN alone \ Others(o)
                           ELSE alone \cup {o}
        <3>1. CASE c = o
            BY <1>5, <2>2, <3>1, EntryIsRoute DEF SetUserRoute, Engaged, TypeOK
        <3>2. CASE c # o
            <4>1. c \in alone /\ c \notin Others(o)
                BY <2>2, <3>2 DEF Engaged
            <4>2. o \notin Others(c) /\ U(o) # U(c)
                BY <3>2, <4>1, OthersSymmetric, OtherKeys
            <4>. QED
                BY <1>5, <2>2, <3>2, <4>1, <4>2 DEF SetUserRoute, TypeOK
        <3>. QED
            BY <3>1, <3>2
    <2>. QED
        BY <1>5, <2>1, <2>2 DEF SetUserRoute
<1>6. ASSUME NEW o \in Conn, SetDeviceRoute(o)
      PROVE  Undisturbed(c)'
    <2>1. CASE c = o
        BY <1>6, <2>1, EntryIsRoute DEF SetDeviceRoute, TypeOK
    <2>2. CASE c # o
        <3>1. c \in alone /\ o \notin Others(c)
            BY <1>6, <2>2 DEF SetDeviceRoute
        <3>2. D(o) # D(c)
            BY <2>2, <3>1, OtherKeys
        <3>. QED
            BY <1>6, <2>2, <3>1, <3>2 DEF SetDeviceRoute, TypeOK
    <2>. QED
        BY <2>1, <2>2
<1>7. ASSUME NEW o \in Conn, Respond(o)
      PROVE  Undisturbed(c)'
    BY <1>7 DEF Respond, TypeOK
<1>8. ASSUME NEW o \in Conn, Close(o)
      PROVE  Undisturbed(c)'
    BY <1>8 DEF Close, TypeOK
<1>9. ASSUME NEW o \in Conn, DelUserRoute(o) \/ DelDeviceRoute(o)
      PROVE  Undisturbed(c)'
    <2>1. c \in alone /\ c \notin Others(o) /\ c # o
        BY <1>9 DEF DelUserRoute, DelDeviceRoute
    <2>2. o \notin Others(c) /\ U(o) # U(c) /\ D(o) # D(c)
        BY <2>1, OthersSymmetric, OtherKeys
    <2>. QED
        BY <1>9, <2>1, <2>2 DEF DelUserRoute, DelUser, DelDeviceRoute, TypeOK
<1>10. ASSUME NEW n \in Node, StopNode(n)
       PROVE  Undisturbed(c)'
    BY <1>2, <1>10 DEF StopNode
<1>11. ASSUME NEW n \in Node, CrashNode(n)
       PROVE  Undisturbed(c)'
    BY <1>11 DEF CrashNode, TypeOK
<1>. QED
    BY <1>1, <1>2, <1>3, <1>4, <1>5, <1>6, <1>7, <1>8, <1>9, <1>10, <1>11
       DEF Next, ConnStep, vars

(* As long as its registration is fresh, a connection that nothing disturbed
   is found on its node by user and by device. *)
THEOREM FreshRouteCorrect == Spec => []FreshRouteIsRight
<1>1. Init => AloneInv
    BY DEF Init, AloneInv
<1>2. AloneInv => FreshRouteIsRight
    BY DEF AloneInv, Undisturbed, FreshRouteIsRight
<1>. QED
    BY <1>1, <1>2, AloneStep, TypeCorrect, PTL DEF Spec
=============================================================================
