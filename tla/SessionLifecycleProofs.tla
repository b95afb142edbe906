----------------------- MODULE SessionLifecycleProofs ------------------------
(***************************************************************************)
(* Proofs about the session life cycle, for any number of connections,     *)
(* users, devices, topics and workers: type correctness, that no exit path *)
(* of CreateAndRun leaves its connection behind, and that connections of a *)
(* session that do not overlap own it while they run, keep it routable and *)
(* leave no room behind.                                                   *)
(***************************************************************************)
EXTENDS SessionLifecycle, TLAPS

LEMMA TypeInit ==
    Init => TypeOK
<1>. SUFFICES ASSUME Init PROVE TypeOK
    OBVIOUS
<1>1. /\ pc \in [Conn -> PC] /\ of \in [Conn -> Session \cup {Nil}]
      /\ todo \in [Conn -> SUBSET Topic]
    BY DEF Init, PC
<1>2. 0 \in 0 .. WriteCap
    BY LifecycleAssumption
<1>3. /\ connState \in [Conn -> {"Handshaking", "Active", "Closed"}]
      /\ writer \in [Conn -> {"off", "on", "exit"}]
      /\ writeCh \in [Conn -> 0 .. WriteCap]
    BY <1>2 DEF Init
<1>4. ctxDone \in BOOLEAN /\ alive \in BOOLEAN
    BY Zenon DEF Init
<1>5. /\ conn \in [Session -> Conn \cup {Nil}]
      /\ state \in [Session -> {"Authenticating", "Active", "Suspended", "Closed"}]
      /\ once \in [Session -> {"new", "running", "done"}]
      /\ subs \in [Session -> SUBSET Topic]
    BY DEF Init
<1>6. /\ userConns \subseteq Session /\ conns \subseteq Conn /\ overlap \subseteq Session
      /\ deviceConn \in [Device -> Session \cup {Nil}]
      /\ members \in [Topic -> SUBSET Session]
      /\ held \in [Worker -> Conn \cup {Nil}]
    BY DEF Init
<1>. QED
    BY <1>1, <1>3, <1>4, <1>5, <1>6 DEF TypeOK

\* A connection whose goroutine is past the handshake knows its session.
HasSession ==
    \A c \in Conn : pc[c] \notin {"accept", "done"} => of[c] \in Session

TypeInv == TypeOK /\ HasSession

USE LifecycleAssumption DEF Goto

LEMMA LoginTypes ==
    ASSUME TypeInv, alive' \in BOOLEAN, NEW c \in Conn,
           \/ \E s \in Session : Handshake(c, s)
           \/ HandshakeFails(c) \/ Attach(c) \/ SetActive(c) \/ Snapshot(c)
           \/ \E t \in Topic : Restore(c, t)
           \/ RestoreEnd(c)
    PROVE  TypeInv'
<1>1. ASSUME NEW s \in Session, Handshake(c, s) PROVE TypeInv'
    BY <1>1 DEF Handshake, TypeInv, TypeOK, HasSession, PC, connVars, sessVars, routerVars
<1>2. CASE HandshakeFails(c)
    BY <1>2 DEF HandshakeFails, TypeInv, TypeOK, HasSession, PC, connVars, sessVars, routerVars
<1>3. CASE Attach(c)
    BY <1>3 DEF Attach, TypeInv, TypeOK, HasSession, PC, connVars, routerVars
<1>4. CASE SetActive(c)
    BY <1>4 DEF SetActive, TypeInv, TypeOK, HasSession, PC, connVars, routerVars
<1>5. CASE Snapshot(c)
    BY <1>5 DEF Snapshot, TypeInv, TypeOK, HasSession, PC, connVars, sessVars, routerVars
<1>6. ASSUME NEW t \in Topic, Restore(c, t) PROVE TypeInv'
    BY <1>6 DEF Restore, TypeInv, TypeOK, HasSession, PC, connVars, sessVars
<1>7. CASE RestoreEnd(c)
    BY <1>7 DEF RestoreEnd, TypeInv, TypeOK, HasSession, PC, connVars, sessVars, routerVars
<1>. QED
    BY <1>1, <1>2, <1>3, <1>4, <1>5, <1>6, <1>7

LEMMA StartTypes ==
    ASSUME TypeInv, alive' \in BOOLEAN, NEW c \in Conn,
           Register(c) \/ Activate(c) \/ AuthResponse(c) \/ AuthResponseFails(c)
    PROVE  TypeInv'
<1>1. CASE Register(c)
    BY <1>1 DEF Register, TypeInv, TypeOK, HasSession, PC, Session, connVars, sessVars
<1>2. CASE Activate(c)
    BY <1>2 DEF Activate, TypeInv, TypeOK, HasSession, PC, sessVars
<1>3. CASE AuthResponse(c)
    BY <1>3 DEF AuthResponse, TypeInv, TypeOK, HasSession, PC, sessVars, routerVars
<1>4. CASE AuthResponseFails(c)
    BY <1>4 DEF AuthResponseFails, TypeInv, TypeOK, HasSession, PC, connVars, sessVars, routerVars
<1>. QED
    BY <1>1, <1>2, <1>3, <1>4

LEMMA CloseTypes ==
    ASSUME TypeInv, alive' \in BOOLEAN, NEW c \in Conn,
           \/ CloseBegin(c) \/ CloseAgain(c) \/ CloseConn(c) \/ CloseRooms(c)
           \/ CloseSession(c) \/ CloseEnd(c)
    PROVE  TypeInv'
<1>1. CASE CloseBegin(c)
    BY <1>1 DEF CloseBegin, TypeInv, TypeOK, HasSession, PC, connVars, routerVars
<1>2. CASE CloseAgain(c)
    BY <1>2 DEF CloseAgain, AfterClose, TypeInv, TypeOK, HasSession, PC, connVars, sessVars, routerVars
<1>3. CASE CloseConn(c)
    BY <1>3 DEF CloseConn, TypeInv, TypeOK, HasSession, PC, connVars, sessVars, routerVars
<1>4. CASE CloseRooms(c)
    BY <1>4 DEF CloseRooms, UnregisterAll, TypeInv, TypeOK, HasSession, PC, connVars, sessVars
<1>5. CASE CloseSession(c)
    BY <1>5 DEF CloseSession, TypeInv, TypeOK, HasSession, PC, connVars, sessVars
<1>6. CASE CloseEnd(c)
    BY <1>6 DEF CloseEnd, AfterClose, TypeInv, TypeOK, HasSession, PC, connVars, routerVars
<1>. QED
    BY <1>1, <1>2, <1>3, <1>4, <1>5, <1>6

LEMMA HandlerTypes ==
    ASSUME TypeInv, alive' \in BOOLEAN, NEW c \in Conn,
           \/ Logout(c) \/ \E t \in Topic : Subscribe(c, t) \/ Unsubscribe(c, t)
           \/ WithConn(c) \/ JoinRoom(c) \/ LeaveRoom(c)
    PROVE  TypeInv'
<1>1. CASE Logout(c)
    BY <1>1 DEF Logout, Enqueue, TypeInv, TypeOK, HasSession, PC, sessVars, routerVars
<1>2. ASSUME NEW t \in Topic, Subscribe(c, t) PROVE TypeInv'
    BY <1>2 DEF Subscribe, TypeInv, TypeOK, HasSession, PC, connVars, routerVars
<1>3. ASSUME NEW t \in Topic, Unsubscribe(c, t) PROVE TypeInv'
    BY <1>3 DEF Unsubscribe, TypeInv, TypeOK, HasSession, PC, connVars, routerVars
<1>4. CASE WithConn(c)
    BY <1>4 DEF WithConn, TypeInv, TypeOK, HasSession, PC, connVars, sessVars, routerVars
<1>5. CASE JoinRoom(c)
    BY <1>5 DEF JoinRoom, TypeInv, TypeOK, HasSession, PC, connVars, sessVars
<1>6. CASE LeaveRoom(c)
    BY <1>6 DEF LeaveRoom, TypeInv, TypeOK, HasSession, PC, connVars, sessVars
<1>. QED
    BY <1>1, <1>2, <1>3, <1>4, <1>5, <1>6

LEMMA TeardownTypes ==
    ASSUME TypeInv, alive' \in BOOLEAN, NEW c \in Conn,
           \/ ReadLoopExits(c) \/ RunDefer(c)
           \/ Detach(c) \/ DetachRooms(c) \/ Suspend(c) \/ Cleanup(c)
    PROVE  TypeInv'
<1>1. CASE ReadLoopExits(c)
    BY <1>1 DEF ReadLoopExits, TypeInv, TypeOK, HasSession, PC, connVars, sessVars, routerVars
<1>2. CASE RunDefer(c)
    BY <1>2 DEF RunDefer, TypeInv, TypeOK, HasSession, PC, sessVars, routerVars
<1>3. CASE Detach(c)
    BY <1>3 DEF Detach, TypeInv, TypeOK, HasSession, PC, connVars, routerVars
<1>4. CASE DetachRooms(c)
    BY <1>4 DEF DetachRooms, UnregisterAll, TypeInv, TypeOK, HasSession, PC, connVars, sessVars
<1>5. CASE Suspend(c)
    BY <1>5 DEF Suspend, TypeInv, TypeOK, HasSession, PC, connVars, routerVars
<1>6. CASE Cleanup(c)
    BY <1>6 DEF Cleanup, UnregisterAll, TypeInv, TypeOK, HasSession, PC, connVars, sessVars
<1>. QED
    BY <1>1, <1>2, <1>3, <1>4, <1>5, <1>6

LEMMA TrafficTypes ==
    ASSUME TypeInv, alive' \in BOOLEAN,
           \/ \E c \in Conn : WriteMessage(c) \/ WriteLoopDrains(c)
           \/ \E w \in Worker : SubmitEnqueue(w) \/ \E s \in Session : SubmitRead(w, s)
           \/ Shutdown \/ (\E c \in Conn : Panic(c))
           \/ UNCHANGED vars
    PROVE  TypeInv'
<1>1. ASSUME NEW c \in Conn, WriteMessage(c) PROVE TypeInv'
    BY <1>1 DEF WriteMessage, TypeInv, TypeOK, HasSession, sessVars, routerVars
<1>2. ASSUME NEW c \in Conn, WriteLoopDrains(c) PROVE TypeInv'
    BY <1>2 DEF WriteLoopDrains, TypeInv, TypeOK, HasSession, sessVars, routerVars
<1>3. ASSUME NEW c \in Conn, Panic(c) PROVE TypeInv'
    BY <1>3 DEF Panic, TypeInv, TypeOK, HasSession, connVars, sessVars, routerVars
<1>4. ASSUME NEW w \in Worker, SubmitEnqueue(w) PROVE TypeInv'
    BY <1>4 DEF SubmitEnqueue, Enqueue, TypeInv, TypeOK, HasSession, sessVars, routerVars
<1>5. ASSUME NEW w \in Worker, NEW s \in Session, SubmitRead(w, s) PROVE TypeInv'
    BY <1>5 DEF SubmitRead, TypeInv, TypeOK, HasSession, connVars, sessVars, routerVars
<1>6. CASE Shutdown
    BY <1>6 DEF Shutdown, TypeInv, TypeOK, HasSession, connVars, sessVars, routerVars
<1>7. CASE UNCHANGED vars
    BY <1>7 DEF vars, TypeInv, TypeOK, HasSession, connVars, sessVars, routerVars
<1>. QED
    BY <1>1, <1>2, <1>3, <1>4, <1>5, <1>6, <1>7

LEMMA TypeStep ==
    TypeInv /\ [Next]_vars => TypeInv'
<1>. SUFFICES ASSUME TypeInv, [Next]_vars PROVE TypeInv'
    OBVIOUS
<1>1. alive \in BOOLEAN
    BY Zenon DEF TypeInv, TypeOK
<1>2. alive' \in BOOLEAN
    <2>1. CASE Alive(Step)
        BY <1>1, <2>1, Zenon DEF Alive
    <2>2. CASE \E c \in Conn : Panic(c)
        BY <2>2, Zenon DEF Panic
    <2>3. CASE UNCHANGED vars
        BY <1>1, <2>3, Zenon DEF vars
    <2>. QED
        BY <2>1, <2>2, <2>3 DEF Next
<1>3. Step \/ (\E c \in Conn : Panic(c)) \/ UNCHANGED vars
    BY Zenon DEF Next, Alive
<1>. QED
    BY <1>2, <1>3, LoginTypes, StartTypes, CloseTypes, HandlerTypes, TeardownTypes,
       TrafficTypes DEF Step, Proceed, Frame, Write

LEMMA TypeInvariant ==
    Spec => []TypeInv
<1>1. Init => TypeInv
    BY TypeInit DEF TypeInv, HasSession, Init
<1>. QED
    BY <1>1, TypeStep, PTL DEF Spec

\* Type correctness of the life cycle.
THEOREM TypeCorrect ==
    Spec => []TypeOK
<1>1. TypeInv => TypeOK
    BY DEF TypeInv
<1>. QED
    BY <1>1, TypeInvariant, PTL

------------------------------------------------------------------------------
\* The phases in which a connection is attached and its session activated.
Middle == {"snapshot", "restore", "register", "close", "closeConn", "closeRooms", "closeSession",
           "closeEnd", "activate", "authResp", "run", "subscribe", "join",
           "unsubscribe", "leave", "readDone", "detach"}

\* The phases after its own DetachConn took the session's connection.
Late == {"detachRooms", "suspend", "cleanup"}

Engaged(c) == pc[c] \notin {"accept", "attach", "done"}

\* The inductive invariant: while the connections of a session do not overlap
\* at most one is engaged, it is the session's connection until it detaches,
\* and nobody suspends the session before.
OwnerInv ==
    /\ \A c, d \in Conn :
          of[c] = of[d] /\ of[c] \notin overlap /\ Engaged(c) /\ Engaged(d) => c = d
    /\ \A c \in Conn :
          of[c] \notin overlap /\ Attached(c) => conn[of[c]] = c
    /\ \A c \in Conn :
          of[c] \notin overlap /\ pc[c] \in Middle => state[of[c]] \in {"Active", "Closed"}

LifeInv == TypeInv /\ NoDeadConnReferenced /\ OwnerInv

\* Steps that leave the ownership of sessions alone: a goroutine moves within
\* the attached phases or within the clean-up.
Quiet ==
    /\ UNCHANGED << of, conn, state, overlap >>
    /\ \A c \in Conn :
          \/ pc'[c] = pc[c]
          \/ pc[c] \in Middle /\ pc'[c] \in Middle
          \/ pc[c] \in Late /\ pc'[c] \in Late

LEMMA QuietStep ==
    ASSUME LifeInv, TypeInv', Quiet,
           \A c \in Conn : c \in conns' \ conns => pc[c] \in Middle
    PROVE  LifeInv'
<1>1. \A c \in Conn : /\ Attached(c)' = Attached(c)
                      /\ Engaged(c)' = Engaged(c)
                      /\ pc'[c] \in Middle <=> pc[c] \in Middle
    BY DEF Quiet, Attached, Engaged, Middle, Late
<1>2. OwnerInv'
    BY <1>1 DEF LifeInv, OwnerInv, Quiet
<1>3. \A c \in Conn : pc'[c] \in {"accept", "attach", "done"} => pc'[c] = pc[c]
    BY DEF Quiet, Middle, Late
<1>4. NoDeadConnReferenced'
    BY <1>1, <1>3 DEF LifeInv, NoDeadConnReferenced, Quiet, Middle
<1>. QED
    BY <1>2, <1>4 DEF LifeInv

LEMMA QuietActions ==
    ASSUME LifeInv, TypeInv', NEW c \in Conn,
           \/ Snapshot(c) \/ (\E t \in Topic : Restore(c, t)) \/ RestoreEnd(c)
           \/ Register(c) \/ Activate(c) \/ AuthResponse(c) \/ AuthResponseFails(c)
           \/ CloseAgain(c) \/ CloseConn(c) \/ CloseRooms(c) \/ CloseSession(c) \/ CloseEnd(c)
           \/ Frame(c) \/ WithConn(c) \/ JoinRoom(c) \/ LeaveRoom(c)
           \/ ReadLoopExits(c) \/ RunDefer(c) \/ DetachRooms(c)
    PROVE  LifeInv'
<1>0. pc \in [Conn -> PC]
    BY DEF LifeInv, TypeInv, TypeOK
<1>. DEFINE Keeps == /\ Quiet
                     /\ \A d \in Conn : d \in conns' \ conns => pc[d] \in Middle
<1>1. CASE Snapshot(c) \/ (\E t \in Topic : Restore(c, t)) \/ RestoreEnd(c)
    <2>1. Keeps
        BY <1>0, <1>1 DEF Snapshot, Restore, RestoreEnd, Quiet, Middle, sessVars, routerVars
    <2>. QED
        BY <2>1, QuietStep
<1>2. CASE Register(c) \/ Activate(c)
    <2>1. Keeps
        BY <1>0, <1>2 DEF Register, Activate, Quiet, Middle, sessVars
    <2>. QED
        BY <2>1, QuietStep
<1>3. CASE AuthResponse(c) \/ AuthResponseFails(c)
    <2>1. Keeps
        BY <1>0, <1>3 DEF AuthResponse, AuthResponseFails, Quiet, Middle, sessVars, routerVars
    <2>. QED
        BY <2>1, QuietStep
<1>4. CASE CloseAgain(c) \/ CloseConn(c) \/ CloseRooms(c) \/ CloseSession(c) \/ CloseEnd(c)
    <2>1. Keeps
        BY <1>0, <1>4 DEF CloseAgain, CloseConn, CloseRooms, CloseSession, CloseEnd, AfterClose,
                          Quiet, Middle, sessVars, routerVars
    <2>. QED
        BY <2>1, QuietStep
<1>5. CASE Frame(c)
    <2>1. Keeps
        BY <1>0, <1>5 DEF Frame, Logout, Subscribe, Unsubscribe, Quiet, Middle,
                          sessVars, routerVars
    <2>. QED
        BY <2>1, QuietStep
<1>6. CASE WithConn(c) \/ JoinRoom(c) \/ LeaveRoom(c)
    <2>1. Keeps
        BY <1>0, <1>6 DEF WithConn, JoinRoom, LeaveRoom, Quiet, Middle, sessVars, routerVars
    <2>. QED
        BY <2>1, QuietStep
<1>7. CASE ReadLoopExits(c) \/ RunDefer(c)
    <2>1. Keeps
        BY <1>0, <1>7 DEF ReadLoopExits, RunDefer, Quiet, Middle, sessVars, routerVars
    <2>. QED
        BY <2>1, QuietStep
<1>8. CASE DetachRooms(c)
    <2>1. Keeps
        BY <1>0, <1>8 DEF DetachRooms, Quiet, Late, sessVars
    <2>. QED
        BY <2>1, QuietStep
<1>. QED
    BY <1>1, <1>2, <1>3, <1>4, <1>5, <1>6, <1>7, <1>8

LEMMA TrafficKeepsOwners ==
    ASSUME LifeInv, TypeInv',
           \/ \E c \in Conn : Write(c)
           \/ \E w \in Worker : SubmitEnqueue(w) \/ \E s \in Session : SubmitRead(w, s)
           \/ Shutdown \/ (\E c \in Conn : Panic(c))
           \/ UNCHANGED vars
    PROVE  LifeInv'
<1>1. UNCHANGED << pc, of, conn, state, overlap, conns >>
    BY DEF Write, WriteMessage, WriteLoopDrains, SubmitEnqueue, SubmitRead,
           Shutdown, Panic, vars, sessVars, routerVars
<1>2. Quiet
    BY <1>1 DEF Quiet
<1>. QED
    BY <1>1, <1>2, QuietStep

\* A login starts, or fails: the connection is not engaged before or after.
LEMMA HandshakeKeepsOwners ==
    ASSUME LifeInv, TypeInv', NEW c \in Conn,
           (\E s \in Session : Handshake(c, s)) \/ HandshakeFails(c)
    PROVE  LifeInv'
<1>1. /\ pc[c] = "accept" /\ pc'[c] \in {"attach", "done"}
      /\ \A d \in Conn \ {c} : pc'[d] = pc[d] /\ of'[d] = of[d]
      /\ UNCHANGED << conn, state, overlap, conns >>
    BY DEF Handshake, HandshakeFails, LifeInv, TypeInv, TypeOK, sessVars, routerVars
<1>2. /\ ~Engaged(c) /\ ~Engaged(c)' /\ ~Attached(c) /\ ~Attached(c)'
      /\ pc'[c] \notin Middle /\ c \notin conns
    BY <1>1 DEF Engaged, Attached, Middle, LifeInv, NoDeadConnReferenced
<1>3. \A d \in Conn \ {c} : /\ Engaged(d)' = Engaged(d) /\ Attached(d)' = Attached(d)
    BY <1>1 DEF Engaged, Attached
<1>4. OwnerInv'
    BY <1>1, <1>2, <1>3 DEF LifeInv, OwnerInv
<1>5. NoDeadConnReferenced'
    BY <1>1, <1>2, <1>3 DEF LifeInv, NoDeadConnReferenced
<1>. QED
    BY <1>4, <1>5 DEF LifeInv

\* AttachConn takes the session; were another connection of it engaged, the
\* session would count as overlapped from now on.
LEMMA AttachKeepsOwners ==
    ASSUME LifeInv, TypeInv', NEW c \in Conn, Attach(c)
    PROVE  LifeInv'
<1>. DEFINE s == of[c]
<1>0. TypeOK /\ s \in Session
    BY DEF LifeInv, TypeInv, HasSession, Attach
<1>1. /\ pc[c] = "attach" /\ pc'[c] = "setActive"
      /\ \A d \in Conn \ {c} : pc'[d] = pc[d]
      /\ UNCHANGED << of, state, conns >>
      /\ conn'[s] = c
      /\ \A r \in Session \ {s} : conn'[r] = conn[r]
    BY <1>0 DEF Attach, TypeOK, routerVars
<1>2. /\ overlap \subseteq overlap'
      /\ s \notin overlap' => \A d \in Conn \ {c} : of[d] = s => ~Engaged(d)
    BY DEF Attach, Engaged
<1>3. \A d \in Conn \ {c} : /\ Engaged(d)' = Engaged(d) /\ Attached(d)' = Attached(d)
                             /\ Attached(d) => Engaged(d)
    BY <1>1 DEF Engaged, Attached
<1>4. Engaged(c)' /\ Attached(c)' /\ pc'[c] \notin Middle /\ c \notin conns
    BY <1>1 DEF Engaged, Attached, Middle, LifeInv, NoDeadConnReferenced
<1>5. ASSUME NEW a \in Conn, NEW b \in Conn, of'[a] = of'[b], of'[a] \notin overlap',
             Engaged(a)', Engaged(b)'
      PROVE  a = b
    <2>1. CASE a # c /\ b # c
        BY <2>1, <1>1, <1>2, <1>5 DEF LifeInv, OwnerInv, Engaged
    <2>2. CASE a = c \/ b = c
        BY <2>2, <1>1, <1>2, <1>5 DEF Engaged
    <2>. QED
        BY <2>1, <2>2
<1>6. ASSUME NEW a \in Conn, of'[a] \notin overlap', Attached(a)'
      PROVE  conn'[of'[a]] = a
    <2>1. CASE a = c
        BY <2>1, <1>1
    <2>2. CASE a # c
        <3>1. of[a] # s /\ of[a] \notin overlap /\ Attached(a)
            BY <2>2, <1>1, <1>2, <1>6 DEF Attached, Engaged
        <3>2. of[a] \in Session
            BY <3>1 DEF LifeInv, TypeInv, HasSession, Attached
        <3>. QED
            BY <3>1, <3>2, <1>1 DEF LifeInv, OwnerInv
    <2>. QED
        BY <2>1, <2>2
<1>7. ASSUME NEW a \in Conn, of'[a] \notin overlap', pc'[a] \in Middle
      PROVE  state'[of'[a]] \in {"Active", "Closed"}
    BY <1>1, <1>2, <1>4, <1>7 DEF LifeInv, OwnerInv
<1>8. OwnerInv'
    BY <1>5, <1>6, <1>7 DEF OwnerInv
<1>9. NoDeadConnReferenced'
    <2>1. ASSUME NEW d \in Conn, NEW r \in Session, conn'[r] = d
          PROVE  of'[d] = r /\ Attached(d)'
        <3>1. CASE r = s
            BY <2>1, <3>1, <1>1, <1>4
        <3>2. CASE r # s
            <4>1. conn[r] = d
                BY <2>1, <3>2, <1>1
            <4>2. of[d] = r /\ Attached(d)
                BY <4>1 DEF LifeInv, NoDeadConnReferenced
            <4>. QED
                BY <3>2, <4>2, <1>1 DEF Attached
        <3>. QED
            BY <3>1, <3>2
    <2>2. ASSUME NEW d \in Conn, d \in conns'
          PROVE  pc'[d] \notin {"accept", "attach", "done"}
        BY <2>2, <1>1, <1>4 DEF LifeInv, NoDeadConnReferenced
    <2>. QED
        BY <2>1, <2>2 DEF NoDeadConnReferenced
<1>. QED
    BY <1>8, <1>9 DEF LifeInv

\* The session's state changes: SetActive and CloseBegin.
LEMMA StateKeepsOwners ==
    ASSUME LifeInv, TypeInv', NEW c \in Conn, SetActive(c) \/ CloseBegin(c)
    PROVE  LifeInv'
<1>0. TypeOK /\ of[c] \in Session
    BY DEF LifeInv, TypeInv, HasSession, SetActive, CloseBegin
<1>1. /\ pc[c] \in {"setActive", "close"} /\ pc'[c] \in Middle
      /\ \A d \in Conn \ {c} : pc'[d] = pc[d]
      /\ UNCHANGED << of, conn, overlap, conns >>
      /\ state'[of[c]] \in {"Active", "Closed"}
      /\ \A r \in Session \ {of[c]} : state'[r] = state[r]
    BY <1>0 DEF SetActive, CloseBegin, TypeOK, Middle, routerVars
<1>2. \A d \in Conn : Engaged(d)' = Engaged(d) /\ Attached(d)' = Attached(d)
    BY <1>1 DEF Engaged, Attached, Middle
<1>3. ASSUME NEW a \in Conn, of'[a] \notin overlap', pc'[a] \in Middle
      PROVE  state'[of'[a]] \in {"Active", "Closed"}
    <2>1. CASE of[a] = of[c]
        BY <2>1, <1>1
    <2>2. CASE of[a] # of[c]
        <3>1. pc[a] \in Middle
            BY <2>2, <1>1, <1>3
        <3>2. of[a] \in Session
            BY <3>1 DEF LifeInv, TypeInv, HasSession, Middle
        <3>. QED
            BY <2>2, <3>1, <3>2, <1>1, <1>3 DEF LifeInv, OwnerInv
    <2>. QED
        BY <2>1, <2>2
<1>4. OwnerInv'
    BY <1>1, <1>2, <1>3 DEF LifeInv, OwnerInv
<1>5. NoDeadConnReferenced'
    BY <1>1, <1>2 DEF LifeInv, NoDeadConnReferenced, Middle
<1>. QED
    BY <1>4, <1>5 DEF LifeInv

\* DetachConn clears whatever connection the session has.  If connections do
\* not overlap that is the connection that calls it.
LEMMA DetachKeepsOwners ==
    ASSUME LifeInv, TypeInv', NEW c \in Conn, Detach(c)
    PROVE  LifeInv'
<1>. DEFINE s == of[c]
<1>0. TypeOK /\ s \in Session
    BY DEF LifeInv, TypeInv, HasSession, Detach
<1>1. /\ pc[c] = "detach" /\ pc'[c] \in {"detachRooms", "suspend"}
      /\ \A d \in Conn \ {c} : pc'[d] = pc[d]
      /\ UNCHANGED << of, state, overlap, conns >>
      /\ conn'[s] = Nil
      /\ \A r \in Session \ {s} : conn'[r] = conn[r]
    BY <1>0 DEF Detach, TypeOK, routerVars
<1>2. \A d \in Conn \ {c} : Engaged(d)' = Engaged(d) /\ Attached(d)' = Attached(d)
    BY <1>1 DEF Engaged, Attached
<1>3. Engaged(c) /\ Engaged(c)' /\ ~Attached(c)' /\ pc'[c] \notin Middle
    BY <1>1 DEF Engaged, Attached, Middle
<1>4. ASSUME NEW a \in Conn, of'[a] \notin overlap', Attached(a)'
      PROVE  conn'[of'[a]] = a
    <2>1. a # c /\ of[a] \notin overlap /\ Attached(a) /\ Engaged(a)
        BY <1>1, <1>2, <1>3, <1>4 DEF Attached, Engaged
    <2>2. of[a] # s
        BY <2>1, <1>3 DEF LifeInv, OwnerInv
    <2>3. of[a] \in Session
        BY <2>1 DEF LifeInv, TypeInv, HasSession, Attached
    <2>. QED
        BY <2>1, <2>2, <2>3, <1>1 DEF LifeInv, OwnerInv
<1>5. OwnerInv'
    BY <1>1, <1>2, <1>3, <1>4 DEF LifeInv, OwnerInv
<1>6. ASSUME NEW d \in Conn, NEW r \in Session, conn'[r] = d
      PROVE  of'[d] = r /\ Attached(d)'
    <2>1. r # s /\ conn[r] = d
        BY <1>1, <1>6, LifecycleAssumption
    <2>2. of[d] = r /\ Attached(d)
        BY <2>1 DEF LifeInv, NoDeadConnReferenced
    <2>. QED
        BY <2>1, <2>2, <1>1, <1>2
<1>7. NoDeadConnReferenced'
    BY <1>1, <1>6 DEF LifeInv, NoDeadConnReferenced
<1>. QED
    BY <1>5, <1>7 DEF LifeInv

\* The clean-up suspends the session and unregisters the connection.
LEMMA CleanupKeepsOwners ==
    ASSUME LifeInv, TypeInv', NEW c \in Conn, Suspend(c) \/ Cleanup(c)
    PROVE  LifeInv'
<1>0. TypeOK /\ of[c] \in Session
    BY DEF LifeInv, TypeInv, HasSession, Suspend, Cleanup
<1>1. /\ pc[c] \in Late /\ pc'[c] \in {"cleanup", "done"}
      /\ \A d \in Conn \ {c} : pc'[d] = pc[d]
      /\ UNCHANGED << of, conn, overlap >>
      /\ \A r \in Session \ {of[c]} : state'[r] = state[r]
      /\ conns' \subseteq conns
      /\ pc'[c] = "done" => c \notin conns'
    BY <1>0 DEF Suspend, Cleanup, TypeOK, Late, routerVars, sessVars
<1>2. \A d \in Conn \ {c} : Engaged(d)' = Engaged(d) /\ Attached(d)' = Attached(d)
    BY <1>1 DEF Engaged, Attached
<1>3. Engaged(c) /\ ~Attached(c) /\ ~Attached(c)' /\ pc'[c] \notin Middle
    BY <1>1 DEF Engaged, Attached, Middle, Late
<1>4. ASSUME NEW a \in Conn, of'[a] \notin overlap', pc'[a] \in Middle
      PROVE  state'[of'[a]] \in {"Active", "Closed"}
    <2>1. a # c /\ of[a] \notin overlap /\ pc[a] \in Middle /\ Engaged(a)
        BY <1>1, <1>3, <1>4 DEF Engaged, Middle
    <2>2. of[a] # of[c]
        BY <2>1, <1>3 DEF LifeInv, OwnerInv
    <2>3. of[a] \in Session
        BY <2>1 DEF LifeInv, TypeInv, HasSession, Middle
    <2>. QED
        BY <2>1, <2>2, <2>3, <1>1 DEF LifeInv, OwnerInv
<1>5. OwnerInv'
    BY <1>1, <1>2, <1>3, <1>4 DEF LifeInv, OwnerInv
<1>6. NoDeadConnReferenced'
    BY <1>1, <1>2, <1>3 DEF LifeInv, NoDeadConnReferenced
<1>. QED
    BY <1>5, <1>6 DEF LifeInv

LEMMA LifeStep ==
    LifeInv /\ [Next]_vars => LifeInv'
<1>. SUFFICES ASSUME LifeInv, [Next]_vars
             PROVE  LifeInv'
    OBVIOUS
<1>1. TypeInv'
    BY TypeStep DEF LifeInv
<1>. QED
    BY <1>1, HandshakeKeepsOwners, AttachKeepsOwners, StateKeepsOwners, QuietActions,
       DetachKeepsOwners, CleanupKeepsOwners, TrafficKeepsOwners
       DEF Next, Alive, Step, Proceed

LEMMA LifeInvariant ==
    Spec => []LifeInv
<1>1. Init => TypeInv
    BY TypeInit DEF TypeInv, HasSession, Init
<1>2. Init => NoDeadConnReferenced /\ OwnerInv
    BY LifecycleAssumption
       DEF Init, NoDeadConnReferenced, OwnerInv, Engaged, Attached, Middle
<1>. QED
    BY <1>1, <1>2, LifeStep, PTL DEF Spec, LifeInv

\* Every exit path of CreateAndRun (factory.go) gives its connection back: no
\* session and no registry entry refers to a connection that was cleaned up.
THEOREM NoDeadConnCorrect ==
    Spec => []NoDeadConnReferenced
<1>1. LifeInv => NoDeadConnReferenced
    BY DEF LifeInv
<1>. QED
    BY <1>1, LifeInvariant, PTL

\* A running connection owns its session, which is not Suspended, as long as
\* the connections of the session do not overlap.
THEOREM RunningConnCorrect ==
    Spec => []RunningConnOwnsSession
<1>1. LifeInv => RunningConnOwnsSession
    BY DEF LifeInv, OwnerInv, RunningConnOwnsSession, Running, Attached, Middle
<1>. QED
    BY <1>1, LifeInvariant, PTL

------------------------------------------------------------------------------
(* The router.                                                             *)

InRooms(s) == {t \in Topic : s \in members[t]}

\* What the router knows of the session of c, phase by phase.  A kick or a
\* logout (state Closed) ends what is said of the later phases.
RoomInv(c) ==
    LET s == of[c]
    IN  /\ pc[c] \in {"setActive", "snapshot", "suspend", "cleanup"} => InRooms(s) = {}
        /\ pc[c] = "restore" => InRooms(s) \cup todo[c] = subs[s]
        /\ pc[c] = "register" => InRooms(s) = subs[s]
        /\ pc[c] \in {"closeConn", "closeRooms", "closeSession", "closeEnd"}
              => state[s] = "Closed"
        /\ state[s] = "Active" =>
              /\ pc[c] \in {"close", "activate", "authResp"} \/ Running(c) => s \in userConns
              /\ pc[c] \in {"close", "activate", "authResp", "run"} => InRooms(s) = subs[s]
              /\ pc[c] \in {"subscribe", "join"} => InRooms(s) \cup todo[c] = subs[s]
              /\ pc[c] \in {"unsubscribe", "leave"} => InRooms(s) \ todo[c] = subs[s]

RouteInv ==
    /\ NoGhostMembers
    /\ \A c \in Conn : of[c] \notin overlap /\ Engaged(c) => RoomInv(c)

\* A step of c concerns its own session only.
Local(c) ==
    /\ UNCHANGED of /\ overlap \subseteq overlap'
    /\ \A d \in Conn \ {c} : pc'[d] = pc[d] /\ todo'[d] = todo[d]
    /\ \A r \in Session \ {of[c]} :
          /\ subs'[r] = subs[r] /\ state'[r] = state[r]
          /\ r \in userConns' <=> r \in userConns
          /\ InRooms(r)' = InRooms(r)

\* What a step of c has to show of its own session.
LEMMA LocalStep ==
    ASSUME LifeInv, LifeInv', RouteInv, NEW c \in Conn, of[c] \in Session, Local(c),
           Engaged(c) \/ Engaged(c)',
           of[c] \notin overlap' => IF Engaged(c)' THEN RoomInv(c)' ELSE InRooms(of[c])' = {}
    PROVE  RouteInv'
<1>1. ASSUME NEW d \in Conn, d # c, of'[d] \notin overlap', Engaged(d)' PROVE RoomInv(d)'
    <2>1. /\ of'[d] = of[d] /\ of[d] \notin overlap /\ pc'[d] = pc[d] /\ Engaged(d)
          /\ todo'[d] = todo[d]
        BY <1>1 DEF Local, Engaged
    <2>2. of[d] # of[c]
        BY <1>1, <2>1 DEF LifeInv, OwnerInv, Local
    <2>3. of[d] \in Session
        BY <2>1 DEF LifeInv, TypeInv, HasSession, Engaged
    <2>4. /\ subs'[of[d]] = subs[of[d]] /\ state'[of[d]] = state[of[d]]
          /\ of[d] \in userConns' <=> of[d] \in userConns
          /\ InRooms(of[d])' = InRooms(of[d])
        BY <2>2, <2>3 DEF Local
    <2>5. RoomInv(d)
        BY <2>1 DEF RouteInv
    <2>. QED
        BY <2>1, <2>4, <2>5 DEF RoomInv, Running
<1>2. ASSUME NEW r \in Session \ overlap', \A d \in Conn : of'[d] = r => ~Engaged(d)'
      PROVE  InRooms(r)' = {}
    <2>1. CASE r = of[c]
        BY <1>2, <2>1 DEF Local
    <2>2. CASE r # of[c]
        <3>1. \A d \in Conn : of[d] = r => ~Engaged(d)
            BY <1>2, <2>2 DEF Local, Engaged
        <3>2. r \in Session \ overlap
            BY <1>2 DEF Local
        <3>3. InRooms(r) = {}
            BY <3>1, <3>2 DEF RouteInv, NoGhostMembers, Engaged, InRooms
        <3>. QED
            BY <2>2, <3>2, <3>3 DEF Local
    <2>. QED
        BY <2>1, <2>2
<1>3. NoGhostMembers'
    BY <1>2 DEF NoGhostMembers, Engaged, InRooms
<1>4. ASSUME of'[c] \notin overlap', Engaged(c)' PROVE RoomInv(c)'
    BY <1>4 DEF Local
<1>. QED
    BY <1>1, <1>3, <1>4 DEF RouteInv

\* What the operations of the LocalRouter do to the rooms of a session.
Joins(s, T) == members' = [t \in Topic |-> IF t \in T THEN members[t] \cup {s} ELSE members[t]]

Leaves(s, T) == members' = [t \in Topic |-> IF t \in T THEN members[t] \ {s} ELSE members[t]]

LEMMA RoomEffects ==
    ASSUME TypeOK, NEW s \in Session
    PROVE  /\ members' = members => \A r \in Session : InRooms(r)' = InRooms(r)
           /\ UnregisterAll(s) =>
                 /\ InRooms(s)' = {}
                 /\ \A r \in Session \ {s} : InRooms(r)' = InRooms(r)
<1>1. members' = members => \A r \in Session : InRooms(r)' = InRooms(r)
    BY DEF InRooms
<1>2. ASSUME UnregisterAll(s)
      PROVE  /\ InRooms(s)' = {}
             /\ \A r \in Session \ {s} : InRooms(r)' = InRooms(r)
    <2>1. \A t \in Topic : members'[t] = members[t] \ {s}
        BY <1>2 DEF UnregisterAll
    <2>. QED
        BY <2>1 DEF InRooms
<1>. QED
    BY <1>1, <1>2

LEMMA TopicEffects ==
    ASSUME TypeOK, NEW s \in Session, NEW T \in SUBSET Topic, Joins(s, T) \/ Leaves(s, T)
    PROVE  /\ Joins(s, T) => InRooms(s)' = InRooms(s) \cup T
           /\ Leaves(s, T) => InRooms(s)' = InRooms(s) \ T
           /\ \A r \in Session \ {s} : InRooms(r)' = InRooms(r)
<1>1. ASSUME Joins(s, T)
      PROVE  /\ InRooms(s)' = InRooms(s) \cup T
             /\ \A r \in Session \ {s} : InRooms(r)' = InRooms(r)
    <2>1. \A t \in Topic : members'[t] = IF t \in T THEN members[t] \cup {s} ELSE members[t]
        BY <1>1 DEF Joins
    <2>. QED
        BY <2>1 DEF InRooms
<1>2. ASSUME Leaves(s, T)
      PROVE  /\ InRooms(s)' = InRooms(s) \ T
             /\ \A r \in Session \ {s} : InRooms(r)' = InRooms(r)
    <2>1. \A t \in Topic : members'[t] = IF t \in T THEN members[t] \ {s} ELSE members[t]
        BY <1>2 DEF Leaves
    <2>. QED
        BY <2>1 DEF InRooms
<1>. QED
    BY <1>1, <1>2

\* Login: the rooms are empty until the restore loop fills them.
LEMMA LoginRoutes ==
    ASSUME LifeInv, LifeInv', RouteInv, NEW c \in Conn,
           \/ Attach(c) \/ SetActive(c) \/ Snapshot(c)
           \/ \E t \in Topic : Restore(c, t)
           \/ RestoreEnd(c)
    PROVE  RouteInv'
<1>. TypeOK
    BY DEF LifeInv, TypeInv
<1>. PICK s \in Session : s = of[c]
    BY DEF LifeInv, TypeInv, HasSession, Attach, SetActive, Snapshot, Restore, RestoreEnd
<1>0. of[c] \notin overlap /\ Engaged(c) => RoomInv(c)
    BY DEF RouteInv
<1>1. CASE Attach(c)
    <2>1. /\ pc'[c] = "setActive" /\ UNCHANGED << of, todo, state, subs, userConns, members >>
          /\ overlap \subseteq overlap' /\ \A d \in Conn \ {c} : pc'[d] = pc[d]
          /\ pc[c] = "attach"
        BY <1>1 DEF Attach, TypeOK, routerVars
    <2>2. Local(c) /\ InRooms(s)' = InRooms(s) /\ Engaged(c)'
        BY <2>1, RoomEffects DEF Local, Engaged
    <2>3. ASSUME s \notin overlap' PROVE InRooms(s) = {}
        <3>1. \A d \in Conn : of[d] = s => ~Engaged(d)
            BY <1>1, <2>1, <2>3 DEF Attach, Engaged
        <3>2. s \in Session \ overlap
            BY <2>1, <2>3
        <3>. QED
            BY <3>1, <3>2 DEF RouteInv, NoGhostMembers, Engaged, InRooms
    <2>4. s \notin overlap' => RoomInv(c)'
        BY <2>1, <2>2, <2>3 DEF RoomInv, Running
    <2>. QED
        BY <2>2, <2>4, LocalStep
<1>2. CASE SetActive(c)
    <2>1. /\ pc[c] = "setActive" /\ pc'[c] = "snapshot"
          /\ UNCHANGED << of, todo, subs, userConns, members, overlap >>
          /\ \A d \in Conn \ {c} : pc'[d] = pc[d]
          /\ \A r \in Session \ {s} : state'[r] = state[r]
        BY <1>2 DEF SetActive, TypeOK, routerVars
    <2>2. Local(c) /\ InRooms(s)' = InRooms(s) /\ Engaged(c) /\ Engaged(c)'
        BY <2>1, RoomEffects DEF Local, Engaged
    <2>3. s \notin overlap' => RoomInv(c)'
        BY <1>0, <2>1, <2>2 DEF RoomInv, Running
    <2>. QED
        BY <2>2, <2>3, LocalStep
<1>3. CASE Snapshot(c)
    <2>1. /\ pc[c] = "snapshot" /\ pc'[c] = "restore" /\ todo'[c] = subs[s]
          /\ UNCHANGED << of, state, subs, userConns, members, overlap >>
          /\ \A d \in Conn \ {c} : pc'[d] = pc[d] /\ todo'[d] = todo[d]
        BY <1>3 DEF Snapshot, TypeOK, sessVars, routerVars
    <2>2. Local(c) /\ InRooms(s)' = InRooms(s) /\ Engaged(c) /\ Engaged(c)'
        BY <2>1, RoomEffects DEF Local, Engaged
    <2>3. s \notin overlap' => RoomInv(c)'
        BY <1>0, <2>1, <2>2 DEF RoomInv, Running
    <2>. QED
        BY <2>2, <2>3, LocalStep
<1>4. ASSUME NEW t \in Topic, Restore(c, t) PROVE RouteInv'
    <2>1. /\ pc[c] = "restore" /\ t \in todo[c] /\ todo'[c] = todo[c] \ {t}
          /\ UNCHANGED << pc, of, state, subs, userConns, overlap >>
          /\ \A d \in Conn \ {c} : todo'[d] = todo[d]
          /\ Joins(s, {t})
        BY <1>4 DEF Restore, TypeOK, sessVars, Joins
    <2>2. /\ InRooms(s)' = InRooms(s) \cup {t}
          /\ \A r \in Session \ {s} : InRooms(r)' = InRooms(r)
        BY <2>1, TopicEffects
    <2>3. Local(c) /\ Engaged(c) /\ Engaged(c)'
        BY <2>1, <2>2 DEF Local, Engaged
    <2>4. s \notin overlap => InRooms(s) \cup todo[c] = subs[s]
        BY <1>0, <2>1, <2>3 DEF RoomInv
    <2>5. s \notin overlap => InRooms(s)' \cup todo'[c] = subs[s]
        BY <2>1, <2>2, <2>4
    <2>6. s \notin overlap' => RoomInv(c)'
        BY <2>1, <2>5 DEF RoomInv, Running
    <2>. QED
        BY <2>3, <2>6, LocalStep
<1>5. CASE RestoreEnd(c)
    <2>1. /\ pc[c] = "restore" /\ pc'[c] = "register" /\ todo[c] = {}
          /\ UNCHANGED << of, todo, state, subs, userConns, members, overlap >>
          /\ \A d \in Conn \ {c} : pc'[d] = pc[d]
        BY <1>5 DEF RestoreEnd, TypeOK, sessVars, routerVars
    <2>2. Local(c) /\ InRooms(s)' = InRooms(s) /\ Engaged(c) /\ Engaged(c)'
        BY <2>1, RoomEffects DEF Local, Engaged
    <2>3. s \notin overlap' => RoomInv(c)'
        BY <1>0, <2>1, <2>2 DEF RoomInv, Running
    <2>. QED
        BY <2>2, <2>3, LocalStep
<1>. QED
    BY <1>1, <1>2, <1>3, <1>4, <1>5

\* A step that leaves the rooms and the subscriptions alone.
LEMMA MoveStep ==
    ASSUME LifeInv, LifeInv', RouteInv, NEW c \in Conn, NEW s \in Session, s = of[c],
           Engaged(c), Engaged(c)',
           UNCHANGED << of, todo, subs, members, overlap >>,
           \A d \in Conn \ {c} : pc'[d] = pc[d],
           \A r \in Session \ {s} :
              state'[r] = state[r] /\ (r \in userConns' <=> r \in userConns),
           RoomInv(c) /\ InRooms(s)' = InRooms(s) => RoomInv(c)'
    PROVE  RouteInv'
<1>1. \A r \in Session : InRooms(r)' = InRooms(r)
    BY RoomEffects DEF LifeInv, TypeInv
<1>2. Local(c)
    BY <1>1 DEF Local
<1>3. s \notin overlap => RoomInv(c)
    BY DEF RouteInv
<1>4. s \notin overlap' => RoomInv(c)'
    BY <1>1, <1>3
<1>. QED
    BY <1>2, <1>4, LocalStep

LEMMA StartRoutes ==
    ASSUME LifeInv, LifeInv', RouteInv, NEW c \in Conn,
           Register(c) \/ Activate(c) \/ AuthResponse(c) \/ AuthResponseFails(c)
    PROVE  RouteInv'
<1>. TypeOK
    BY DEF LifeInv, TypeInv
<1>. PICK s \in Session : s = of[c]
    BY DEF LifeInv, TypeInv, HasSession, Register, Activate, AuthResponse, AuthResponseFails
<1>1. CASE Register(c)
    <2>1. /\ pc[c] = "register" /\ pc'[c] \in {"activate", "close"} /\ s \in userConns'
          /\ UNCHANGED << of, todo, state, subs, members, overlap >>
          /\ \A d \in Conn \ {c} : pc'[d] = pc[d]
          /\ \A r \in Session \ {s} : r \in userConns' <=> r \in userConns
        BY <1>1 DEF Register, TypeOK, sessVars
    <2>2. RoomInv(c) /\ InRooms(s)' = InRooms(s) => RoomInv(c)'
        BY <2>1 DEF RoomInv, Running
    <2>. QED
        BY <2>1, <2>2, MoveStep DEF Engaged
<1>2. CASE Activate(c) \/ AuthResponse(c) \/ AuthResponseFails(c)
    <2>1. /\ \/ pc[c] = "activate" /\ pc'[c] = "authResp"
             \/ pc[c] = "authResp" /\ pc'[c] \in {"run", "detach"}
          /\ UNCHANGED << of, todo, state, subs, userConns, members, overlap >>
          /\ \A d \in Conn \ {c} : pc'[d] = pc[d]
        BY <1>2 DEF Activate, AuthResponse, AuthResponseFails, TypeOK, sessVars, routerVars
    <2>2. RoomInv(c) /\ InRooms(s)' = InRooms(s) => RoomInv(c)'
        BY <2>1 DEF RoomInv, Running
    <2>. QED
        BY <2>1, <2>2, MoveStep DEF Engaged
<1>. QED
    BY <1>1, <1>2

\* Session.Close: the session is Closed before the router forgets it.
LEMMA CloseRoutes ==
    ASSUME LifeInv, LifeInv', RouteInv, NEW c \in Conn,
           \/ CloseBegin(c) \/ CloseAgain(c) \/ CloseConn(c) \/ CloseRooms(c)
           \/ CloseSession(c) \/ CloseEnd(c)
    PROVE  RouteInv'
<1>. TypeOK
    BY DEF LifeInv, TypeInv
<1>. PICK s \in Session : s = of[c]
    BY DEF LifeInv, TypeInv, HasSession, CloseBegin, CloseAgain, CloseConn, CloseRooms,
       CloseSession, CloseEnd
<1>1. CASE CloseBegin(c)
    <2>1. /\ pc[c] = "close" /\ pc'[c] = "closeConn" /\ state'[s] = "Closed"
          /\ UNCHANGED << of, todo, subs, userConns, members, overlap >>
          /\ \A d \in Conn \ {c} : pc'[d] = pc[d]
          /\ \A r \in Session \ {s} : state'[r] = state[r]
        BY <1>1 DEF CloseBegin, TypeOK, routerVars
    <2>2. RoomInv(c)'
        BY <2>1 DEF RoomInv
    <2>. QED
        BY <2>1, <2>2, MoveStep DEF Engaged
<1>2. CASE CloseAgain(c) \/ CloseConn(c) \/ CloseEnd(c)
    <2>1. /\ \/ pc[c] \in {"close", "closeEnd"} /\ pc'[c] \in {"activate", "run"}
             \/ pc[c] = "closeConn" /\ pc'[c] \in {"closeSession", "closeRooms"}
          /\ UNCHANGED << of, todo, state, subs, userConns, members, overlap >>
          /\ \A d \in Conn \ {c} : pc'[d] = pc[d]
        BY <1>2 DEF CloseAgain, CloseConn, CloseEnd, AfterClose, TypeOK, sessVars, routerVars
    <2>2. RoomInv(c) /\ InRooms(s)' = InRooms(s) => RoomInv(c)'
        BY <2>1 DEF RoomInv, Running
    <2>. QED
        BY <2>1, <2>2, MoveStep DEF Engaged
<1>3. CASE CloseRooms(c)
    <2>1. /\ pc[c] = "closeRooms" /\ pc'[c] = "closeSession" /\ UnregisterAll(s)
          /\ UNCHANGED << of, todo, state, subs, userConns, overlap >>
          /\ \A d \in Conn \ {c} : pc'[d] = pc[d]
        BY <1>3 DEF CloseRooms, TypeOK, sessVars
    <2>2. Local(c) /\ Engaged(c) /\ Engaged(c)'
        BY <2>1, RoomEffects DEF Local, Engaged
    <2>3. s \notin overlap' => RoomInv(c)'
        BY <2>1, <2>2 DEF RoomInv, RouteInv, Running
    <2>. QED
        BY <2>2, <2>3, LocalStep
<1>4. CASE CloseSession(c)
    <2>1. /\ pc[c] = "closeSession" /\ pc'[c] = "closeEnd"
          /\ UNCHANGED << of, todo, state, subs, members, overlap >>
          /\ \A d \in Conn \ {c} : pc'[d] = pc[d]
          /\ \A r \in Session \ {s} : r \in userConns' <=> r \in userConns
        BY <1>4 DEF CloseSession, TypeOK, sessVars
    <2>2. RoomInv(c) /\ InRooms(s)' = InRooms(s) => RoomInv(c)'
        BY <2>1 DEF RoomInv, Running
    <2>. QED
        BY <2>1, <2>2, MoveStep DEF Engaged
<1>. QED
    BY <1>1, <1>2, <1>3, <1>4

\* The handlers: subs changes first, the rooms follow.
LEMMA HandlerRoutes ==
    ASSUME LifeInv, LifeInv', RouteInv, NEW c \in Conn,
           Frame(c) \/ WithConn(c) \/ JoinRoom(c) \/ LeaveRoom(c)
    PROVE  RouteInv'
<1>. TypeOK
    BY DEF LifeInv, TypeInv
<1>. PICK s \in Session : s = of[c]
    BY DEF LifeInv, TypeInv, HasSession, Frame, Logout, Subscribe, Unsubscribe, WithConn,
       JoinRoom, LeaveRoom
<1>0. s \notin overlap /\ Engaged(c) => RoomInv(c)
    BY DEF RouteInv
<1>1. CASE Logout(c)
    <2>1. /\ pc[c] = "run" /\ pc'[c] = "close"
          /\ UNCHANGED << of, todo, state, subs, userConns, members, overlap >>
          /\ \A d \in Conn \ {c} : pc'[d] = pc[d]
        BY <1>1 DEF Logout, TypeOK, sessVars, routerVars
    <2>2. RoomInv(c) /\ InRooms(s)' = InRooms(s) => RoomInv(c)'
        BY <2>1 DEF RoomInv, Running
    <2>. QED
        BY <2>1, <2>2, MoveStep DEF Engaged
<1>2. ASSUME NEW t \in Topic, Subscribe(c, t) \/ Unsubscribe(c, t) PROVE RouteInv'
    <2>1. /\ pc[c] = "run" /\ todo'[c] = {t}
          /\ \/ pc'[c] = "subscribe" /\ subs'[s] = subs[s] \cup {t}
             \/ pc'[c] = "unsubscribe" /\ subs'[s] = subs[s] \ {t}
          /\ UNCHANGED << of, state, userConns, members, overlap >>
          /\ \A d \in Conn \ {c} : pc'[d] = pc[d] /\ todo'[d] = todo[d]
          /\ \A r \in Session \ {s} : subs'[r] = subs[r]
        BY <1>2 DEF Subscribe, Unsubscribe, TypeOK, routerVars
    <2>2. Local(c) /\ InRooms(s)' = InRooms(s) /\ Engaged(c) /\ Engaged(c)'
        BY <2>1, RoomEffects DEF Local, Engaged
    <2>3. s \notin overlap' => RoomInv(c)'
        BY <1>0, <2>1, <2>2 DEF RoomInv, Running
    <2>. QED
        BY <2>2, <2>3, LocalStep
<1>3. CASE WithConn(c)
    <2>0. s \notin overlap => conn[s] # Nil
        BY <1>3 DEF WithConn, LifeInv, OwnerInv, Attached
    <2>1. /\ pc[c] \in {"subscribe", "unsubscribe"}
          /\ pc'[c] \in {"run", "join", "leave"}
          /\ UNCHANGED << of, state, subs, userConns, members, overlap >>
          /\ \A d \in Conn \ {c} : pc'[d] = pc[d] /\ todo'[d] = todo[d]
          /\ conn[s] # Nil =>
                /\ todo' = todo
                /\ pc'[c] = IF pc[c] = "subscribe" THEN "join" ELSE "leave"
        BY <1>3 DEF WithConn, TypeOK, sessVars, routerVars
    <2>2. Local(c) /\ InRooms(s)' = InRooms(s) /\ Engaged(c) /\ Engaged(c)'
        BY <2>1, RoomEffects DEF Local, Engaged
    <2>3. s \notin overlap' => RoomInv(c)'
        BY <1>0, <2>0, <2>1, <2>2 DEF RoomInv, Running
    <2>. QED
        BY <2>2, <2>3, LocalStep
<1>4. CASE JoinRoom(c) \/ LeaveRoom(c)
    <2>1. /\ \/ pc[c] = "join" /\ Joins(s, todo[c])
             \/ pc[c] = "leave" /\ Leaves(s, todo[c])
          /\ pc'[c] = "run" /\ todo[c] \in SUBSET Topic
          /\ UNCHANGED << of, state, subs, userConns, overlap >>
          /\ \A d \in Conn \ {c} : pc'[d] = pc[d] /\ todo'[d] = todo[d]
        BY <1>4 DEF JoinRoom, LeaveRoom, TypeOK, sessVars, Joins, Leaves
    <2>2. /\ Joins(s, todo[c]) => InRooms(s)' = InRooms(s) \cup todo[c]
          /\ Leaves(s, todo[c]) => InRooms(s)' = InRooms(s) \ todo[c]
          /\ \A r \in Session \ {s} : InRooms(r)' = InRooms(r)
        BY <2>1, TopicEffects
    <2>3. Local(c) /\ Engaged(c) /\ Engaged(c)'
        BY <2>1, <2>2 DEF Local, Engaged
    <2>4. s \notin overlap' => RoomInv(c)'
        BY <1>0, <2>1, <2>2, <2>3 DEF RoomInv, Running
    <2>. QED
        BY <2>3, <2>4, LocalStep
<1>. QED
    BY <1>1, <1>2, <1>3, <1>4 DEF Frame

\* Teardown: DetachConn of a connection that owns the session leaves the rooms.
LEMMA TeardownRoutes ==
    ASSUME LifeInv, LifeInv', RouteInv, NEW c \in Conn,
           \/ ReadLoopExits(c) \/ RunDefer(c)
           \/ Detach(c) \/ DetachRooms(c) \/ Suspend(c) \/ Cleanup(c)
    PROVE  RouteInv'
<1>. TypeOK
    BY DEF LifeInv, TypeInv
<1>. PICK s \in Session : s = of[c]
    BY DEF LifeInv, TypeInv, HasSession, ReadLoopExits, RunDefer, Detach, DetachRooms,
       Suspend, Cleanup
<1>0. s \notin overlap /\ Engaged(c) => RoomInv(c)
    BY DEF RouteInv
<1>1. CASE ReadLoopExits(c) \/ RunDefer(c)
    <2>1. /\ \/ pc[c] = "run" /\ pc'[c] = "readDone"
             \/ pc[c] = "readDone" /\ pc'[c] = "detach"
          /\ UNCHANGED << of, todo, state, subs, userConns, members, overlap >>
          /\ \A d \in Conn \ {c} : pc'[d] = pc[d]
        BY <1>1 DEF ReadLoopExits, RunDefer, TypeOK, sessVars, routerVars
    <2>2. RoomInv(c)'
        BY <2>1 DEF RoomInv, Running
    <2>. QED
        BY <2>1, <2>2, MoveStep DEF Engaged
<1>2. CASE Detach(c)
    <2>0. s \notin overlap => conn[s] # Nil
        BY <1>2 DEF Detach, LifeInv, OwnerInv, Attached
    <2>1. /\ pc[c] = "detach" /\ pc'[c] = IF conn[s] = Nil THEN "suspend" ELSE "detachRooms"
          /\ UNCHANGED << of, todo, state, subs, userConns, members, overlap >>
          /\ \A d \in Conn \ {c} : pc'[d] = pc[d]
        BY <1>2 DEF Detach, TypeOK, routerVars
    <2>2. Local(c) /\ Engaged(c) /\ Engaged(c)'
        BY <2>1, RoomEffects DEF Local, Engaged
    <2>3. s \notin overlap' => RoomInv(c)'
        BY <2>0, <2>1 DEF RoomInv, Running
    <2>. QED
        BY <2>2, <2>3, LocalStep
<1>3. CASE DetachRooms(c)
    <2>1. /\ pc[c] = "detachRooms" /\ pc'[c] = "suspend" /\ UnregisterAll(s)
          /\ UNCHANGED << of, todo, state, subs, userConns, overlap >>
          /\ \A d \in Conn \ {c} : pc'[d] = pc[d]
        BY <1>3 DEF DetachRooms, TypeOK, sessVars
    <2>2. Local(c) /\ Engaged(c) /\ Engaged(c)' /\ InRooms(s)' = {}
        BY <2>1, RoomEffects DEF Local, Engaged
    <2>3. RoomInv(c)'
        BY <2>1, <2>2 DEF RoomInv, Running
    <2>. QED
        BY <2>2, <2>3, LocalStep
<1>4. CASE Suspend(c)
    <2>1. /\ pc[c] = "suspend" /\ pc'[c] = "cleanup"
          /\ UNCHANGED << of, todo, subs, userConns, members, overlap >>
          /\ \A d \in Conn \ {c} : pc'[d] = pc[d]
          /\ \A r \in Session \ {s} : state'[r] = state[r]
        BY <1>4 DEF Suspend, TypeOK, routerVars
    <2>2. RoomInv(c) /\ InRooms(s)' = InRooms(s) => RoomInv(c)'
        BY <2>1 DEF RoomInv, Running
    <2>. QED
        BY <2>1, <2>2, MoveStep DEF Engaged
<1>5. CASE Cleanup(c)
    <2>1. /\ pc[c] = "cleanup" /\ pc'[c] = "done"
          /\ UnregisterAll(s) \/ members' = members
          /\ UNCHANGED << of, todo, state, subs, userConns, overlap >>
          /\ \A d \in Conn \ {c} : pc'[d] = pc[d]
        BY <1>5 DEF Cleanup, TypeOK, sessVars
    <2>2. /\ Local(c) /\ Engaged(c) /\ ~Engaged(c)'
          /\ InRooms(s)' = {} \/ InRooms(s)' = InRooms(s)
        BY <2>1, RoomEffects DEF Local, Engaged
    <2>3. s \notin overlap' => InRooms(s)' = {}
        BY <1>0, <2>1, <2>2 DEF RoomInv
    <2>4. s \notin overlap' => InRooms(of[c])' = {}
        BY <2>1, <2>3
    <2>. QED
        BY <2>2, <2>4, LocalStep
<1>. QED
    BY <1>1, <1>2, <1>3, <1>4, <1>5

LEMMA TrafficRoutes ==
    ASSUME RouteInv,
           \/ \E c \in Conn : Write(c)
           \/ \E w \in Worker : SubmitEnqueue(w) \/ \E s \in Session : SubmitRead(w, s)
           \/ Shutdown \/ (\E c \in Conn : Panic(c))
           \/ UNCHANGED vars
    PROVE  RouteInv'
<1>1. UNCHANGED << pc, of, todo, state, subs, userConns, members, overlap >>
    BY DEF Write, WriteMessage, WriteLoopDrains, SubmitEnqueue, SubmitRead,
           Shutdown, Panic, vars, sessVars, routerVars
<1>. QED
    BY <1>1 DEF RouteInv, NoGhostMembers, Engaged, RoomInv, InRooms, Running

LEMMA HandshakeRoutes ==
    ASSUME LifeInv, RouteInv, NEW c \in Conn,
           (\E s \in Session : Handshake(c, s)) \/ HandshakeFails(c)
    PROVE  RouteInv'
<1>1. /\ pc[c] = "accept" /\ pc'[c] \in {"attach", "done"}
      /\ \A d \in Conn \ {c} : pc'[d] = pc[d] /\ of'[d] = of[d]
      /\ UNCHANGED << todo, state, subs, userConns, members, overlap >>
    BY DEF Handshake, HandshakeFails, LifeInv, TypeInv, TypeOK, sessVars, routerVars
<1>2. NoGhostMembers'
    BY <1>1 DEF RouteInv, NoGhostMembers
<1>3. ASSUME NEW d \in Conn, of'[d] \notin overlap', Engaged(d)' PROVE RoomInv(d)'
    <2>1. d # c /\ of'[d] = of[d] /\ pc'[d] = pc[d] /\ Engaged(d)
        BY <1>1, <1>3 DEF Engaged
    <2>2. RoomInv(d)
        BY <1>1, <1>3, <2>1 DEF RouteInv
    <2>3. InRooms(of[d])' = InRooms(of[d])
        BY <1>1, <2>1 DEF InRooms
    <2>. QED
        BY <1>1, <2>1, <2>2, <2>3 DEF RoomInv, Running
<1>. QED
    BY <1>2, <1>3 DEF RouteInv

LEMMA RouteInvariant ==
    Spec => [](LifeInv /\ RouteInv)
<1>1. Init => RouteInv
    BY DEF Init, RouteInv, NoGhostMembers, Engaged
<1>2. LifeInv /\ LifeInv' /\ RouteInv /\ [Next]_vars => RouteInv'
    BY HandshakeRoutes, LoginRoutes, StartRoutes, CloseRoutes, HandlerRoutes,
       TeardownRoutes, TrafficRoutes DEF Next, Alive, Step, Proceed
<1>. QED
    BY <1>1, <1>2, LifeInvariant, PTL DEF Spec

\* ActiveSessionRoutable for any number of connections: AttachConn restores
\* exactly the subscriptions, the handlers keep them and the rooms together,
\* and only the session's own connection takes it out of the router.
THEOREM RoutableCorrect ==
    Spec => []ActiveSessionRoutable
<1>1. ASSUME LifeInv, RouteInv PROVE ActiveSessionRoutable
    <2>1. ASSUME NEW c \in Conn, pc[c] = "run", of[c] \notin overlap, state[of[c]] = "Active"
          PROVE  of[c] \in userConns /\ subs[of[c]] = InRooms(of[c])
        BY <1>1, <2>1 DEF RouteInv, RoomInv, Engaged, Running
    <2>. QED
        BY <2>1 DEF ActiveSessionRoutable, InRooms
<1>. QED
    BY <1>1, RouteInvariant, PTL

\* NoGhostMembers for any number of connections: whichever way a connection
\* ends, its session is out of every room when the clean-up is over.
THEOREM NoGhostsCorrect ==
    Spec => []NoGhostMembers
<1>1. RouteInv => NoGhostMembers
    BY DEF RouteInv
<1>. QED
    BY <1>1, RouteInvariant, PTL
==============================================================================
