-------------------------- MODULE SessionLifecycle ---------------------------
(***************************************************************************)
(* Connections come and go, sessions stay: Factory.CreateAndRun with       *)
(* everything it calls on the Session, the LocalRouter and the connection  *)
(* registry, the two loops of a Connection, and the handlers that change   *)
(* the session (logout, subscribe, unsubscribe).                           *)
(*                                                                         *)
(* Every connection c has one goroutine, CreateAndRun, which also runs the *)
(* readLoop and the handlers; `pc[c]` says where it is.  A second one runs *)
(* the writeLoop.  Workers deliver through Session.Submit.  One action is  *)
(* one access to shared state: a critical section or an atomic variable;   *)
(* the connection registry, where a connection only touches its own entry, *)
(* changes together with the step that follows.                            *)
(* A session is the pair of its user and device, which its id hashes.      *)
(* Rooms and topics are handled alike and are both called topics here.     *)
(* Cross-node routes and the messages themselves are not part of this      *)
(* module; RegisterConn cannot fail, as the id it gets is a fresh uuid.    *)
(* Connection.Close has an empty body, so the kick sent by Session.Close   *)
(* and the HeartbeatWatchdog leave no trace.                               *)
(* A handshake or a logout without TraceContext is dereferenced outside of *)
(* any recover and ends the process; nothing happens once `alive` is FALSE.*)
(***************************************************************************)
EXTENDS Naturals, FiniteSets

CONSTANTS
    Conn,        \* physical connections, one per call of CreateAndRun
    User, Device,
    Topic,       \* rooms and topics
    Worker,      \* goroutines that call Session.Submit
    WriteCap,    \* capacity of writeCh
    Responsive,  \* connections whose peer sends whole frames and takes what
                 \* is written to it, or is noticed to be gone
    Nil

ASSUME LifecycleAssumption ==
    /\ WriteCap \in Nat \ {0}
    /\ Responsive \subseteq Conn
    /\ Nil \notin Conn
    /\ Nil \notin User \X Device

Session == User \X Device

VARIABLES
    pc,          \* [Conn -> PC]: the goroutine of CreateAndRun
    of,          \* [Conn -> Session or Nil]: sess, captured by CreateAndRun
    todo,        \* [Conn -> SUBSET Topic]: topics still to be (un)indexed
    connState,   \* [Conn -> ...]: Connection.state
    writer,      \* [Conn -> {"off", "on", "exit"}]: the writeLoop goroutine
    writeCh,     \* [Conn -> 0 .. WriteCap]: messages queued
    conn,        \* [Session -> Conn or Nil]: Session.conn
    state,       \* [Session -> ...]: Session.state
    once,        \* [Session -> {"new", "running", "done"}]: Session.once
    subs,        \* [Session -> SUBSET Topic]: Session.subs
    userConns,   \* sessions indexed by LocalRouter.userConns
    deviceConn,  \* [Device -> Session or Nil]: LocalRouter.deviceConn
    members,     \* [Topic -> SUBSET Session]: LocalRouter.rooms and topics
    conns,       \* the connection registry
    held,        \* [Worker -> Conn or Nil]: conn read by Session.Submit
    ctxDone,     \* the gateway is shutting down
    alive,       \* the process has not panicked
    overlap      \* history: sessions attached while an older connection was
                 \* not cleaned up yet

connVars == << connState, writer, writeCh >>
sessVars == << conn, state, once, subs >>
routerVars == << userConns, deviceConn, members, conns >>
vars == << pc, of, todo, connVars, sessVars, routerVars, held, ctxDone, alive, overlap >>

\* In program order: handshake, AttachConn, RegisterSession, Session.Close,
\* Activate, AuthResponse, Run and its handlers, DetachConn, clean-up.
PC == {"accept", "attach", "setActive", "snapshot", "restore", "register",
       "close", "closeConn", "closeRooms", "closeSession", "closeEnd",
       "activate", "authResp", "run", "subscribe", "join", "unsubscribe", "leave",
       "readDone", "detach", "detachRooms", "suspend", "cleanup", "done"}

TypeOK ==
    /\ pc \in [Conn -> PC]
    /\ of \in [Conn -> Session \cup {Nil}]
    /\ todo \in [Conn -> SUBSET Topic]
    /\ connState \in [Conn -> {"Handshaking", "Active", "Closed"}]
    /\ writer \in [Conn -> {"off", "on", "exit"}]
    /\ writeCh \in [Conn -> 0 .. WriteCap]
    /\ conn \in [Session -> Conn \cup {Nil}]
    /\ state \in [Session -> {"Authenticating", "Active", "Suspended", "Closed"}]
    /\ once \in [Session -> {"new", "running", "done"}]
    /\ subs \in [Session -> SUBSET Topic]
    /\ userConns \subseteq Session
    /\ deviceConn \in [Device -> Session \cup {Nil}]
    /\ members \in [Topic -> SUBSET Session]
    /\ conns \subseteq Conn
    /\ held \in [Worker -> Conn \cup {Nil}]
    /\ ctxDone \in BOOLEAN
    /\ alive \in BOOLEAN
    /\ overlap \subseteq Session

Init ==
    /\ pc = [c \in Conn |-> "accept"]
    /\ of = [c \in Conn |-> Nil]
    /\ todo = [c \in Conn |-> {}]
    /\ connState = [c \in Conn |-> "Handshaking"]
    /\ writer = [c \in Conn |-> "off"]
    /\ writeCh = [c \in Conn |-> 0]
    /\ conn = [s \in Session |-> Nil]
    /\ state = [s \in Session |-> "Authenticating"]
    /\ once = [s \in Session |-> "new"]
    /\ subs = [s \in Session |-> {}]
    /\ userConns = {}
    /\ deviceConn = [d \in Device |-> Nil]
    /\ members = [t \in Topic |-> {}]
    /\ conns = {}
    /\ held = [w \in Worker |-> Nil]
    /\ ctxDone = FALSE
    /\ alive = TRUE
    /\ overlap = {}

Goto(c, from, to) == pc[c] = from /\ pc' = [pc EXCEPT ![c] = to]

\* Connection.Submit: the message is queued if the connection is active and
\* has room, and refused otherwise.
Enqueue(c) ==
    writeCh' = IF connState[c] = "Active" /\ writeCh[c] < WriteCap
                 THEN [writeCh EXCEPT ![c] = @ + 1] ELSE writeCh

\* Deliberate fault of UnregisterAll, for the mutation checks: nothing matches
\* the session.
UnregisterNone(s) == UNCHANGED members

\* LocalRouter.UnregisterAll
UnregisterAll(s) == members' = [t \in Topic |-> members[t] \ {s}]

\* Phases of c between the assignment to Session.conn and the end of its own
\* DetachConn.
Attached(c) == pc[c] \notin {"accept", "attach", "detachRooms", "suspend", "cleanup", "done"}

Running(c) == pc[c] \in {"run", "subscribe", "join", "unsubscribe", "leave"}

------------------------------------------------------------------------------
(* CreateAndRun up to Run.                                                 *)

\* doHandshake, then GetOrCreate: the session of that user and device,
\* created on the first login and never removed, whatever its state is.  A
\* handshake under way completes even if the gateway is shutting down.
Handshake(c, s) ==
    /\ Goto(c, "accept", "attach")
    /\ of' = [of EXCEPT ![c] = s]
    /\ UNCHANGED << todo, connVars, sessVars, routerVars, held, ctxDone, overlap >>

\* A failed handshake is answered with a raw kick and the transport closed.
HandshakeFails(c) ==
    /\ Goto(c, "accept", "done")
    /\ UNCHANGED << of, todo, connVars, sessVars, routerVars, held, ctxDone, overlap >>

\* AttachConn: s.conn = conn under connMu; the old connection is forgotten.
Attach(c) ==
    LET s == of[c]
    IN  /\ Goto(c, "attach", "setActive")
        /\ conn' = [conn EXCEPT ![s] = c]
        /\ overlap' = IF \E d \in Conn \ {c} :
                            of[d] = s /\ pc[d] \notin {"accept", "attach", "done"}
                        THEN overlap \cup {s} ELSE overlap
        /\ UNCHANGED << of, todo, connVars, state, once, subs, routerVars,
                        held, ctxDone >>

\* Fault of SetActive: only a new session becomes Active.
SetActiveOnce(c) ==
    /\ Goto(c, "setActive", "snapshot")
    /\ state' = [state EXCEPT ![of[c]] = IF @ = "Authenticating" THEN "Active" ELSE @]
    /\ UNCHANGED << of, todo, connVars, conn, once, subs, routerVars, held, ctxDone, overlap >>

SetActive(c) ==
    /\ Goto(c, "setActive", "snapshot")
    /\ state' = [state EXCEPT ![of[c]] = "Active"]
    /\ UNCHANGED << of, todo, connVars, conn, once, subs, routerVars, held, ctxDone, overlap >>

\* Fault of Snapshot: the subscriptions are not read.
SnapshotEmpty(c) ==
    /\ Goto(c, "snapshot", "restore")
    /\ UNCHANGED << of, todo, connVars, sessVars, routerVars, held, ctxDone, overlap >>

Snapshot(c) ==
    /\ Goto(c, "snapshot", "restore")
    /\ todo' = [todo EXCEPT ![c] = subs[of[c]]]
    /\ UNCHANGED << of, connVars, sessVars, routerVars, held, ctxDone, overlap >>

\* One LocalRouter.JoinRoom or Subscribe of the restore loop.
Restore(c, t) ==
    /\ pc[c] = "restore"
    /\ t \in todo[c]
    /\ members' = [members EXCEPT ![t] = @ \cup {of[c]}]
    /\ todo' = [todo EXCEPT ![c] = @ \ {t}]
    /\ UNCHANGED << pc, of, connVars, sessVars, userConns, deviceConn, conns,
                    held, ctxDone, overlap >>

\* The end of AttachConn; the pending messages it flushes are not modelled.
RestoreEnd(c) ==
    /\ todo[c] = {}
    /\ Goto(c, "restore", "register")
    /\ UNCHANGED << of, todo, connVars, sessVars, routerVars, held, ctxDone, overlap >>

\* The session RegisterSession returns to be kicked: the one the device had,
\* if it has the id of the new one.
Kicked(s) == IF deviceConn[s[2]] = s THEN s ELSE Nil

Register(c) ==
    LET s == of[c]
    IN  /\ Goto(c, "register", IF Kicked(s) = Nil THEN "activate" ELSE "close")
        /\ deviceConn' = [deviceConn EXCEPT ![s[2]] = s]
        /\ userConns' = userConns \cup {s}
        /\ UNCHANGED << of, todo, connVars, sessVars, members, conns,
                        held, ctxDone, overlap >>

\* RegisterConn, then Activate.
Activate(c) ==
    /\ Goto(c, "activate", "authResp")
    /\ conns' = conns \cup {c}
    /\ connState' = [connState EXCEPT ![c] = "Active"]
    /\ UNCHANGED << of, todo, writer, writeCh, sessVars, userConns,
                    deviceConn, members, held, ctxDone, overlap >>

\* The AuthResponse is written to the transport directly; Run then starts the
\* writeLoop.
AuthResponse(c) ==
    /\ Goto(c, "authResp", "run")
    /\ writer' = [writer EXCEPT ![c] = "on"]
    /\ UNCHANGED << of, todo, connState, writeCh, sessVars, routerVars,
                    held, ctxDone, overlap >>

\* Fault of AuthResponseFails: DetachConn is left out.
AuthResponseFailsAttached(c) ==
    /\ Goto(c, "authResp", "cleanup")
    /\ UNCHANGED << of, todo, connVars, sessVars, routerVars, held, ctxDone, overlap >>

\* It could not be encoded or written: the peer went away during the login, or
\* ctx was done.
AuthResponseFails(c) ==
    /\ Goto(c, "authResp", "detach")
    /\ UNCHANGED << of, todo, connVars, sessVars, routerVars, held, ctxDone, overlap >>

------------------------------------------------------------------------------
(* Session.Close, called for a kicked session and by the LogoutHandler.    *)

\* once.Do waits for a call that is under way and returns if one is over.
AfterClose(c) == IF connState[c] = "Handshaking" THEN "activate" ELSE "run"

CloseBegin(c) ==
    LET s == of[c]
    IN  /\ Goto(c, "close", "closeConn")
        /\ once[s] = "new"
        /\ once' = [once EXCEPT ![s] = "running"]
        /\ state' = [state EXCEPT ![s] = "Closed"]
        /\ UNCHANGED << of, todo, connVars, conn, subs, routerVars, held, ctxDone, overlap >>

CloseAgain(c) ==
    /\ Goto(c, "close", AfterClose(c))
    /\ once[of[c]] = "done"
    /\ UNCHANGED << of, todo, connVars, sessVars, routerVars, held, ctxDone, overlap >>

\* conn.Close(kick) does nothing; the rooms are left only if conn was set.
CloseConn(c) ==
    /\ Goto(c, "closeConn", IF conn[of[c]] = Nil THEN "closeSession" ELSE "closeRooms")
    /\ UNCHANGED << of, todo, connVars, sessVars, routerVars, held, ctxDone, overlap >>

CloseRooms(c) ==
    /\ Goto(c, "closeRooms", "closeSession")
    /\ UnregisterAll(of[c])
    /\ UNCHANGED << of, todo, connVars, sessVars, userConns, deviceConn, conns,
                    held, ctxDone, overlap >>

\* UnregisterSession(userID, deviceID), whoever holds the device now.
CloseSession(c) ==
    LET s == of[c]
    IN  /\ Goto(c, "closeSession", "closeEnd")
        /\ deviceConn' = [deviceConn EXCEPT ![s[2]] = Nil]
        /\ userConns' = userConns \ {s}
        /\ UNCHANGED << of, todo, connVars, sessVars, members, conns,
                        held, ctxDone, overlap >>

CloseEnd(c) ==
    /\ Goto(c, "closeEnd", AfterClose(c))
    /\ once' = [once EXCEPT ![of[c]] = "done"]
    /\ UNCHANGED << of, todo, connVars, conn, state, subs, routerVars,
                    held, ctxDone, overlap >>

------------------------------------------------------------------------------
(* The readLoop and its handlers.                                          *)

\* LogoutHandler: the response is queued if there is room, then Close.
Logout(c) ==
    /\ Goto(c, "run", "close")
    /\ Enqueue(c)
    /\ UNCHANGED << of, todo, connState, writer, sessVars, routerVars,
                    held, ctxDone, overlap >>

\* Session.JoinRoom / Subscribe: subs first, then, if the session has a
\* connection, the router.
Subscribe(c, t) ==
    /\ Goto(c, "run", "subscribe")
    /\ subs' = [subs EXCEPT ![of[c]] = @ \cup {t}]
    /\ todo' = [todo EXCEPT ![c] = {t}]
    /\ UNCHANGED << of, connVars, conn, state, once, routerVars, held, ctxDone, overlap >>

\* Session.LeaveRoom / Unsubscribe, in the same order.
Unsubscribe(c, t) ==
    /\ Goto(c, "run", "unsubscribe")
    /\ subs' = [subs EXCEPT ![of[c]] = @ \ {t}]
    /\ todo' = [todo EXCEPT ![c] = {t}]
    /\ UNCHANGED << of, connVars, conn, state, once, routerVars, held, ctxDone, overlap >>

\* withConn: the connection is read under connMu, which is released before
\* the router is called.
WithConn(c) ==
    LET router == IF pc[c] = "subscribe" THEN "join" ELSE "leave"
        skip == conn[of[c]] = Nil
    IN  /\ pc[c] \in {"subscribe", "unsubscribe"}
        /\ pc' = [pc EXCEPT ![c] = IF skip THEN "run" ELSE router]
        /\ todo' = IF skip THEN [todo EXCEPT ![c] = {}] ELSE todo
        /\ UNCHANGED << of, connVars, sessVars, routerVars, held, ctxDone, overlap >>

JoinRoom(c) ==
    /\ Goto(c, "join", "run")
    /\ members' = [t \in Topic |-> IF t \in todo[c] THEN members[t] \cup {of[c]}
                                   ELSE members[t]]
    /\ todo' = [todo EXCEPT ![c] = {}]
    /\ UNCHANGED << of, connVars, sessVars, userConns, deviceConn, conns,
                    held, ctxDone, overlap >>

LeaveRoom(c) ==
    /\ Goto(c, "leave", "run")
    /\ members' = [t \in Topic |-> IF t \in todo[c] THEN members[t] \ {of[c]}
                                   ELSE members[t]]
    /\ todo' = [todo EXCEPT ![c] = {}]
    /\ UNCHANGED << of, connVars, sessVars, userConns, deviceConn, conns,
                    held, ctxDone, overlap >>

\* The read fails, its deadline passes, or the loop sees ctx.Done.
ReadLoopExits(c) ==
    /\ Goto(c, "run", "readDone")
    /\ UNCHANGED << of, todo, connVars, sessVars, routerVars, held, ctxDone, overlap >>

\* Run's defer, once the writeLoop has ended too: the transport is closed and
\* what is still queued is lost.
RunDefer(c) ==
    /\ writer[c] = "exit"
    /\ Goto(c, "readDone", "detach")
    /\ connState' = [connState EXCEPT ![c] = "Closed"]
    /\ writeCh' = [writeCh EXCEPT ![c] = 0]
    /\ UNCHANGED << of, todo, writer, sessVars, routerVars,
                    held, ctxDone, overlap >>

------------------------------------------------------------------------------
(* DetachConn and the clean-up, from onClose or a failed AuthResponse.     *)

\* s.conn = nil under connMu, whichever connection it was.
Detach(c) ==
    LET s == of[c]
    IN  /\ Goto(c, "detach", IF conn[s] = Nil THEN "suspend" ELSE "detachRooms")
        /\ conn' = [conn EXCEPT ![s] = Nil]
        /\ UNCHANGED << of, todo, connVars, state, once, subs, routerVars,
                        held, ctxDone, overlap >>

DetachRooms(c) ==
    /\ Goto(c, "detachRooms", "suspend")
    /\ UnregisterAll(of[c])
    /\ UNCHANGED << of, todo, connVars, sessVars, userConns, deviceConn, conns,
                    held, ctxDone, overlap >>

Suspend(c) ==
    /\ Goto(c, "suspend", "cleanup")
    /\ state' = [state EXCEPT ![of[c]] = "Suspended"]
    /\ UNCHANGED << of, todo, connVars, conn, once, subs, routerVars,
                    held, ctxDone, overlap >>

\* UnregisterConn; onClose, unlike the failed AuthResponse, also leaves the
\* rooms again.  The user and device entries of the router stay.
Cleanup(c) ==
    /\ Goto(c, "cleanup", "done")
    /\ conns' = conns \ {c}
    /\ IF connState[c] = "Closed" THEN UnregisterAll(of[c]) ELSE UNCHANGED members
    /\ UNCHANGED << of, todo, connVars, sessVars, userConns, deviceConn,
                    held, ctxDone, overlap >>

------------------------------------------------------------------------------
(* The writeLoop, the workers and the environment.                         *)

\* A message that cannot be encoded, or whose write fails (over TCP also
\* because ctx is done), ends the loop.
WriteMessage(c) ==
    /\ writer[c] = "on"
    /\ writeCh[c] > 0
    /\ writeCh' = [writeCh EXCEPT ![c] = @ - 1]
    /\ \/ UNCHANGED writer
       \/ writer' = [writer EXCEPT ![c] = "exit"]
    /\ UNCHANGED << pc, of, todo, connState, sessVars, routerVars,
                    held, ctxDone, overlap >>

\* Fault of WriteLoopDrains: the inner loop ends and the outer one goes on.
WriteLoopDrainsOnly(c) ==
    /\ writer[c] = "on"
    /\ ctxDone
    /\ writeCh' = [writeCh EXCEPT ![c] = 0]
    /\ UNCHANGED << pc, of, todo, connState, writer, sessVars, routerVars,
                    held, ctxDone, overlap >>

\* ctx.Done: the queue is drained, write errors ignored, and the loop ends.
WriteLoopDrains(c) ==
    /\ writer[c] = "on"
    /\ ctxDone
    /\ writeCh' = [writeCh EXCEPT ![c] = 0]
    /\ writer' = [writer EXCEPT ![c] = "exit"]
    /\ UNCHANGED << pc, of, todo, connState, sessVars, routerVars,
                    held, ctxDone, overlap >>

\* Session.Submit reads the connection under connMu ...
SubmitRead(w, s) ==
    LET c == conn[s]
    IN  /\ held[w] = Nil
        /\ c # Nil
        /\ held' = [held EXCEPT ![w] = c]
        /\ UNCHANGED << pc, of, todo, connVars, sessVars, routerVars, ctxDone, overlap >>

\* ... and, if it is Active by then and has room, queues the message on it.
SubmitEnqueue(w) ==
    LET c == held[w]
    IN  /\ c # Nil
        /\ Enqueue(c)
        /\ held' = [held EXCEPT ![w] = Nil]
        /\ UNCHANGED << pc, of, todo, connState, writer, sessVars,
                        routerVars, ctxDone, overlap >>

\* GatewayServer.Stop cancels the context of every connection.
Shutdown ==
    /\ ~ctxDone
    /\ ctxDone' = TRUE
    /\ UNCHANGED << pc, of, todo, connVars, sessVars, routerVars, held, overlap >>

\* ref.TraceContext.TraceId in sendAuthResponse and msg.TraceContext.TraceId in
\* the LogoutHandler, of a frame that has no TraceContext.
Panic(c) ==
    /\ pc[c] \in {"authResp", "run"}
    /\ alive' = FALSE
    /\ UNCHANGED << pc, of, todo, connVars, sessVars, routerVars, held, ctxDone, overlap >>

------------------------------------------------------------------------------
\* Steps the goroutine of c takes whether or not a frame arrives.
Proceed(c) ==
    \/ Attach(c) \/ SetActive(c) \/ Snapshot(c)
    \/ \E t \in Topic : Restore(c, t)
    \/ RestoreEnd(c) \/ Register(c) \/ Activate(c)
    \/ AuthResponse(c) \/ AuthResponseFails(c)
    \/ CloseBegin(c) \/ CloseAgain(c) \/ CloseConn(c) \/ CloseRooms(c)
    \/ CloseSession(c) \/ CloseEnd(c)
    \/ WithConn(c) \/ JoinRoom(c) \/ LeaveRoom(c)
    \/ RunDefer(c)
    \/ Detach(c) \/ DetachRooms(c) \/ Suspend(c) \/ Cleanup(c)

Frame(c) ==
    \/ Logout(c)
    \/ \E t \in Topic : Subscribe(c, t) \/ Unsubscribe(c, t)

Write(c) == WriteMessage(c) \/ WriteLoopDrains(c)

Step ==
    \/ \E c \in Conn :
          \/ \E s \in Session : Handshake(c, s)
          \/ HandshakeFails(c)
          \/ Proceed(c)
          \/ Frame(c)
          \/ ReadLoopExits(c)
          \/ Write(c)
    \/ \E w \in Worker : SubmitEnqueue(w) \/ \E s \in Session : SubmitRead(w, s)
    \/ Shutdown

\* A step of the process while it is alive.
Alive(A) == alive /\ A /\ UNCHANGED alive

Next ==
    \/ Alive(Step)
    \/ alive /\ \E c \in Conn : Panic(c)

Spec == Init /\ [][Next]_vars

\* Goroutines that can run do run, except in a read or a write that waits for
\* the peer: TCPTransport.Read never returns once a body is incomplete, and
\* neither the AuthResponse nor the writeLoop has a write deadline.  With a
\* responsive peer a read ends at the latest with its deadline, the readLoop
\* then finds ctx done, and writes end; select picks every ready case in the
\* long run.  Nobody is obliged to send frames or messages, or to shut down.
Fairness ==
    /\ \A c \in Conn : WF_vars(Alive(pc[c] # "authResp" /\ Proceed(c)))
    /\ \A c \in Responsive :
        /\ WF_vars(Alive(Proceed(c)))
        /\ WF_vars(Alive(WriteMessage(c)))
        /\ WF_vars(Alive(WriteLoopDrains(c)))
        /\ SF_vars(Alive(ctxDone /\ ReadLoopExits(c)))
    /\ \A w \in Worker : WF_vars(Alive(SubmitEnqueue(w)))

FairSpec == Spec /\ Fairness

------------------------------------------------------------------------------
(* Properties.                                                             *)

\* No exit path of CreateAndRun leaves its connection behind: a connection
\* that a session or the registry still refers to has not been cleaned up.
NoDeadConnReferenced ==
    \A c \in Conn :
        /\ \A s \in Session : conn[s] = c => of[c] = s /\ Attached(c)
        /\ c \in conns => pc[c] \notin {"accept", "attach", "done"}

\* While the connections of a session do not overlap, the running one is the
\* session's connection, and the session is Active, or Closed by a kick or a
\* logout, and never Suspended.
RunningConnOwnsSession ==
    \A c \in Conn :
        Running(c) /\ of[c] \notin overlap =>
            /\ conn[of[c]] = c
            /\ state[of[c]] \in {"Active", "Closed"}

\* While connections do not overlap, an Active session with a running
\* connection can be found: it is in the user index, and indexed under
\* exactly the topics it subscribed to (AttachConn restored them).
ActiveSessionRoutable ==
    \A c \in Conn :
        pc[c] = "run" /\ of[c] \notin overlap /\ state[of[c]] = "Active" =>
            /\ of[c] \in userConns
            /\ subs[of[c]] = {t \in Topic : of[c] \in members[t]}

\* A session left without connections by non-overlapping ones is out of every
\* room, so that a broadcast does not resolve it.
NoGhostMembers ==
    \A s \in Session \ overlap :
        (\A c \in Conn : of[c] = s => pc[c] \in {"accept", "attach", "done"})
            => \A t \in Topic : s \notin members[t]

\* After a shutdown every connection with a responsive peer is eventually
\* cleaned up, whatever the others wait for, unless the process dies.
ShutdownCleansUp ==
    \A c \in Responsive : ctxDone ~> pc[c] \in {"accept", "done"} \/ ~alive

\* session.go:231 says DetachConn runs when the connection it takes from the
\* session is already closed: no step may take a running connection away.
DetachTakesClosedConn ==
    [][\A s \in Session : conn[s] # Nil /\ conn'[s] = Nil => ~Running(conn[s])]_vars

\* session.go:36 has a session Closed only by an explicit logout (or a suspend
\* time-out, which is not implemented), never by its own reconnect, not even
\* when its connections do not overlap.
ClosedOnlyByLogout ==
    [][\A s \in Session \ overlap : state[s] # "Closed" /\ state'[s] = "Closed" =>
          \E c \in Conn : of[c] = s /\ pc[c] = "close" /\ connState[c] = "Active"]_vars

\* logout.go:31 has the readLoop exit after a logout, and onClose clean up.
LogoutCleansUp ==
    \A c \in Conn :
        (pc[c] = "close" /\ connState[c] = "Active") ~> pc[c] = "done" \/ ~alive
==============================================================================
