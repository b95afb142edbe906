------------------------------- MODULE Cluster -------------------------------
(***************************************************************************)
(* Several gateway nodes that share an auth service and a Redis: tokens    *)
(* are issued, verified in the handshake and cleaned up; a connection      *)
(* registers the route of its user and its device, which other nodes look  *)
(* up, and removes it when it closes.  What happens on one node beyond     *)
(* that is SessionLifecycle.                                               *)
(*                                                                         *)
(* Time passes in ticks.  A token and a Redis key carry the ticks they     *)
(* have left; a token at 0 is in its last instant, one at -1 has expired.  *)
(***************************************************************************)
EXTENDS Integers, FiniteSets

CONSTANTS
    Node, Conn, User, Device, Token,
    UserOf, DeviceOf,  \* [Token -> User], [Token -> Device]
    Placement,         \* records [tok, node]: who connects where
    TokenLife,         \* 24 hours
    RouteTTL,          \* RedisKeyExpireTime
    MaxStop            \* nodes that may stop or die

ASSUME ClusterAssumption ==
    /\ UserOf \in [Token -> User] /\ DeviceOf \in [Token -> Device]
    /\ Placement \subseteq [tok : [Conn -> Token], node : [Conn -> Node]]
    /\ User \cap Device = {}  \* their Redis keys have different prefixes
    /\ MaxStop \in Nat
    /\ TokenLife \in Nat /\ RouteTTL \in Nat \ {0}

VARIABLES
    life,        \* [Token -> ticks left]; -2 before it is issued
    tokens,      \* the tokens in the auth service's map
    doomed,      \* tokens the cleaner has yet to delete in this round
    pc,          \* [Conn -> where CreateAndRun is]
    tok,         \* [Conn -> Token], the token the client sent
    node,        \* [Conn -> Node]
    userRoute,   \* [User -> [node, ttl]], the Redis key of the user
    deviceRoute, \* [Device -> [node, ttl]]
    nodes,       \* the Redis set of gateway nodes
    stopped,     \* nodes whose context is cancelled
    fresh,       \* [Conn -> ticks that its own registration still has]
    alone,       \* history: connections no other one interfered with
    leaked       \* history: users and devices whose route was left behind by
                 \* whoever wrote it, until it is written again

authVars  == << life, tokens, doomed >>
redisVars == << userRoute, deviceRoute, nodes >>
histVars  == << alone, leaked >>
vars == << authVars, pc, tok, node, redisVars, stopped, fresh, histVars >>

NoRoute == [node |-> "", ttl |-> 0]
Route == [node : Node, ttl : 1 .. RouteTTL] \cup {NoRoute}

Phase == {"new", "verify", "judge", "setUser", "setDevice", "respond", "run",
          "delUser", "delDevice", "done"}

TypeOK ==
    /\ life \in [Token -> -2 .. TokenLife]
    /\ tokens \subseteq Token /\ doomed \subseteq Token
    /\ pc \in [Conn -> Phase]
    /\ tok \in [Conn -> Token] /\ node \in [Conn -> Node]
    /\ userRoute \in [User -> Route] /\ deviceRoute \in [Device -> Route]
    /\ nodes \subseteq Node /\ stopped \subseteq Node
    /\ fresh \in [Conn -> 0 .. RouteTTL]
    /\ alone \subseteq Conn
    /\ leaked \subseteq User \cup Device

Init ==
    /\ life = [t \in Token |-> -2]
    /\ tokens = {} /\ doomed = {}
    /\ pc = [c \in Conn |-> "new"]
    /\ \E p \in Placement : tok = p.tok /\ node = p.node
    /\ userRoute = [u \in User |-> NoRoute]
    /\ deviceRoute = [d \in Device |-> NoRoute]
    /\ nodes = {} /\ stopped = {}
    /\ fresh = [c \in Conn |-> 0]
    /\ alone = {} /\ leaked = {}

-----------------------------------------------------------------------------
(* Time. *)

(* A Redis key loses its value when its time is up; one that was set with the
   expiration 0 stays. *)
Aged(r) ==
    IF r.ttl = 0 THEN r
    ELSE IF r.ttl = 1 THEN NoRoute ELSE [r EXCEPT !.ttl = @ - 1]

Tick ==
    /\ life' = [t \in Token |-> IF life[t] >= 0 THEN life[t] - 1 ELSE life[t]]
    /\ userRoute' = [u \in User |-> Aged(userRoute[u])]
    /\ deviceRoute' = [d \in Device |-> Aged(deviceRoute[d])]
    /\ fresh' = [c \in Conn |-> IF fresh[c] > 0 THEN fresh[c] - 1 ELSE 0]
    /\ UNCHANGED << tokens, doomed, pc, tok, node, nodes, stopped,
                    histVars >>

-----------------------------------------------------------------------------
(* The auth service. *)

Issued(t) == life[t] # -2
Expired(t) == life[t] = -1

HandleToken(t) ==
    /\ ~Issued(t) /\ t \in { tok[c] : c \in Conn }
    /\ life' = [life EXCEPT ![t] = TokenLife]
    /\ tokens' = tokens \cup {t}
    /\ UNCHANGED << doomed, pc, tok, node, redisVars, stopped,
                    fresh, histVars >>

(* Fault: tokens in their last instant are cleaned as well. *)
OutlivedEarly(t) == life[t] \in {-1, 0}

(* now.After(ExpireAt). *)
Outlived(t) == Expired(t)

(* The ticker of cleanExpiredTokens: the clock is read once for the round,
   and Range deletes what had expired by then, one token after the other. *)
CleanStart ==
    /\ doomed = {}
    /\ \E t \in tokens : Outlived(t)
    /\ doomed' = { t \in tokens : Outlived(t) }
    /\ UNCHANGED << life, tokens, pc, tok, node, redisVars, stopped, fresh,
                    histVars >>

(* Fault: Range ends at the first token, which it leaves alone. *)
CleanDeleteStops(t) ==
    /\ t \in doomed
    /\ doomed' = {}
    /\ UNCHANGED << life, tokens, pc, tok, node, redisVars, stopped, fresh,
                    histVars >>

CleanDelete(t) ==
    /\ t \in doomed
    /\ doomed' = doomed \ {t}
    /\ tokens' = tokens \ {t}
    /\ UNCHANGED << life, pc, tok, node, redisVars, stopped, fresh, histVars >>

-----------------------------------------------------------------------------
(* CreateAndRun. *)

Become(c, p) == pc' = [pc EXCEPT ![c] = p]

(* The handshake request; a client has a token only once it was issued. *)
Handshake(c) ==
    /\ pc[c] = "new" /\ Issued(tok[c]) /\ node[c] \notin stopped
    /\ Become(c, "verify")
    /\ UNCHANGED << authVars, tok, node, redisVars, stopped, fresh, histVars >>

(* handleValidate loads the token; the request may fail on its way. *)
ValidateLoad(c) ==
    /\ pc[c] = "verify"
    /\ \/ tok[c] \in tokens /\ Become(c, "judge")
       \/ Become(c, "done")
    /\ UNCHANGED << authVars, tok, node, redisVars, stopped, fresh, histVars >>

(* time.Now().After(ExpireAt), after the load. *)
StillValid(t) == ~Expired(t)

(* An expired token is deleted; a good one yields its user and device. *)
ValidateJudge(c) ==
    /\ pc[c] = "judge"
    /\ IF StillValid(tok[c])
       THEN Become(c, "setUser") /\ UNCHANGED tokens
       ELSE Become(c, "done") /\ tokens' = tokens \ {tok[c]}
    /\ UNCHANGED << life, doomed, tok, node, redisVars, stopped,
                    fresh, histVars >>

U(c) == UserOf[tok[c]]
D(c) == DeviceOf[tok[c]]

(* Connections that share a key with c. *)
Others(c) == { o \in Conn \ {c} : U(o) = U(c) \/ D(o) = D(c) }
Engaged(c) == pc[c] \in {"setUser", "setDevice", "respond", "run", "delUser",
                         "delDevice"}

(* Fault: the keys expire sooner than RedisKeyExpireTime. *)
EntryShort(c) == [node |-> node[c], ttl |-> 1]

(* Fault: the keys are set without an expiration. *)
EntryForEver(c) == [node |-> node[c], ttl |-> 0]

(* The value and the time to live of both keys. *)
Entry(c) == [node |-> node[c], ttl |-> RouteTTL]

(* RegisterUser is a pipeline of three commands, not a transaction.  An error
   is logged and leaves the rest out. *)
SetUserRoute(c) ==
    /\ pc[c] = "setUser"
    /\ \/ /\ userRoute' = [userRoute EXCEPT ![U(c)] = Entry(c)]
          /\ fresh' = [fresh EXCEPT ![c] = RouteTTL]
          /\ Become(c, "setDevice")
          /\ leaked' = leaked \ {U(c)}
          /\ alone' = IF \E o \in Others(c) : Engaged(o) THEN alone \ Others(c)
                      ELSE alone \cup {c}
       \/ /\ Become(c, "respond")
          /\ UNCHANGED << userRoute, fresh, histVars >>
    /\ UNCHANGED << authVars, tok, node, deviceRoute, nodes, stopped >>

(* The SET of the device's key and the SADD of the node; that the SADD alone
   fails concerns only the set of nodes. *)
SetDeviceRoute(c) ==
    /\ pc[c] = "setDevice"
    /\ Become(c, "respond")
    /\ \/ /\ deviceRoute' = [deviceRoute EXCEPT ![D(c)] = Entry(c)]
          /\ nodes' = nodes \cup {node[c]}
          /\ leaked' = leaked \ {D(c)}
          /\ UNCHANGED alone
       \/ /\ alone' = alone \ {c}
          /\ UNCHANGED << deviceRoute, nodes, leaked >>
    /\ UNCHANGED << authVars, tok, node, userRoute, stopped, fresh >>

(* sendAuthResponse: when it fails, CreateAndRun returns without taking back
   the registration. *)
Respond(c) ==
    /\ pc[c] = "respond"
    /\ \/ Become(c, "run") /\ UNCHANGED << alone, leaked >>
       \/ /\ Become(c, "done")
          /\ alone' = alone \ {c}
          /\ leaked' = leaked \cup {U(c), D(c)}
    /\ UNCHANGED << authVars, tok, node, redisVars, stopped, fresh >>

(* The connection ends and onClose calls UnregisterUser, whose context is the
   node's: once that is cancelled nothing is deleted. *)
Close(c) ==
    /\ pc[c] = "run"
    /\ alone' = alone \ {c}
    /\ \/ /\ node[c] \notin stopped
          /\ Become(c, "delUser")
          /\ UNCHANGED leaked
       \/ /\ node[c] \in stopped
          /\ Become(c, "done")
          /\ leaked' = leaked \cup {U(c), D(c)}
    /\ UNCHANGED << authVars, tok, node, redisVars, stopped, fresh >>

(* Fault: the user's key is left for Redis to expire. *)
DelUserKeeps(c) == UNCHANGED userRoute

(* The key is deleted whoever wrote it. *)
DelUser(c) == userRoute' = [userRoute EXCEPT ![U(c)] = NoRoute]

DelUserRoute(c) ==
    /\ pc[c] = "delUser"
    /\ \/ /\ DelUser(c)
          /\ Become(c, "delDevice")
          /\ UNCHANGED leaked
       \/ /\ Become(c, "done")
          /\ leaked' = leaked \cup {U(c), D(c)}
          /\ UNCHANGED userRoute
    /\ alone' = alone \ Others(c)
    /\ UNCHANGED << authVars, tok, node, deviceRoute, nodes, stopped, fresh >>

DelDeviceRoute(c) ==
    /\ pc[c] = "delDevice"
    /\ Become(c, "done")
    /\ \/ /\ deviceRoute' = [deviceRoute EXCEPT ![D(c)] = NoRoute]
          /\ UNCHANGED leaked
       \/ /\ leaked' = leaked \cup {D(c)}
          /\ UNCHANGED deviceRoute
    /\ alone' = alone \ Others(c)
    /\ UNCHANGED << authVars, tok, node, userRoute, nodes, stopped, fresh >>

(* GatewayServer.Stop cancels the context of the node. *)
StopNode(n) ==
    /\ n \notin stopped /\ Cardinality(stopped) < MaxStop
    /\ stopped' = stopped \cup {n}
    /\ UNCHANGED << authVars, pc, tok, node, redisVars, fresh, histVars >>

(* The node dies: its connections are gone, its routes are not. *)
CrashNode(n) ==
    /\ n \notin stopped /\ Cardinality(stopped) < MaxStop
    /\ stopped' = stopped \cup {n}
    /\ LET here == { c \in Conn : node[c] = n } IN
         /\ pc' = [c \in Conn |-> IF c \in here THEN "done" ELSE pc[c]]
         /\ alone' = alone \ here
         /\ leaked' = leaked \cup { U(c) : c \in { x \in here : Engaged(x) } }
                             \cup { D(c) : c \in { x \in here : Engaged(x) } }
    /\ UNCHANGED << authVars, tok, node, redisVars, fresh >>

ConnStep(c) ==
    \/ ValidateLoad(c) \/ ValidateJudge(c) \/ SetUserRoute(c)
    \/ SetDeviceRoute(c) \/ Respond(c) \/ DelUserRoute(c) \/ DelDeviceRoute(c)

Clean == CleanStart \/ \E t \in Token : CleanDelete(t)

Next ==
    \/ Tick \/ Clean
    \/ \E t \in Token : HandleToken(t)
    \/ \E c \in Conn : Handshake(c) \/ ConnStep(c) \/ Close(c)
    \/ \E n \in Node : StopNode(n) \/ CrashNode(n)

(* Time passes, the cleaner's ticker ticks, handshakes and clean-ups go on.
   Connections need not end, nodes need not stop. *)
Spec ==
    /\ Init /\ [][Next]_vars
    /\ WF_vars(Tick) /\ WF_vars(CleanStart)
    /\ \A t \in Token : WF_vars(CleanDelete(t))
    /\ \A c \in Conn : WF_vars(ConnStep(c))

-----------------------------------------------------------------------------
(* Properties. *)

(* No token is lost before its time, its last instant included, though the
   cleaner and every validation of an expired token delete from the map while
   others are issued. *)
ValidTokensAreKept == \A t \in Token : Issued(t) /\ ~Expired(t) => t \in tokens

(* A connected user is found on the node it is connected to, by user and by
   device, as long as its registration is fresh and no other connection of
   that user or device has registered or unregistered meanwhile, and its own
   registration did not fail.  These are the conditions under which the code
   keeps that promise: nothing refreshes the keys. *)
FreshRouteIsRight ==
    \A c \in alone : pc[c] = "run" /\ fresh[c] > 0 =>
      /\ userRoute[U(c)].node = node[c]
      /\ deviceRoute[D(c)].node = node[c]
      /\ node[c] \in nodes

(* The route of a user or of a device leads to a node on which a connection
   with that key is engaged, however connections overwrite and delete each
   other's entries, unless a failed response, an interrupted clean-up or a
   dead node left behind what nobody has written since. *)
RoutesLeadSomewhere ==
    /\ \A u \in User : userRoute[u] # NoRoute /\ u \notin leaked =>
         \E c \in Conn : U(c) = u /\ node[c] = userRoute[u].node /\ Engaged(c)
    /\ \A d \in Device : deviceRoute[d] # NoRoute /\ d \notin leaked =>
         \E c \in Conn : D(c) = d /\ node[c] = deviceRoute[d].node /\ Engaged(c)

(* What was left behind goes away by itself once the user is gone. *)
StaleRoutesVanish ==
    \A u \in User :
      <>[](\A c \in Conn : U(c) = u => ~Engaged(c)) => <>[](userRoute[u] = NoRoute)

(* Expired tokens do not pile up. *)
ExpiredTokensGo == \A t \in Token : Expired(t) ~> t \notin tokens
=============================================================================
