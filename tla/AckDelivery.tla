---------------------------- MODULE AckDelivery ------------------------------
(***************************************************************************)
(* At-least-once delivery (QoS 1) to one session: Session.Submit, Ack,     *)
(* AttachConn and Close, the ack.Scanner with its index of tracked         *)
(* messages, and Registry.handleAckTimeout, over a timer that behaves as   *)
(* module Timer says (module TimerWheel implements it).                    *)
(*                                                                         *)
(* Each message has a worker goroutine that submits it once and, while its *)
(* timer runs, the timer goroutine of its shard; both execute the same     *)
(* Session.Submit.  A reconnecting client's CreateAndRun calls AttachConn, *)
(* RegisterSession (which kicks the session if it was registered before,   *)
(* see SessionLifecycle) and Activate.  The readLoop calls Ack.  One       *)
(* action is one access to shared state.                                   *)
(*                                                                         *)
(* All messages here are AT_LEAST_ONCE; the others are neither tracked nor *)
(* stored.  The write queue is shared with the rest of the traffic, so     *)
(* that an enqueue may find it full at any moment, and the offline store   *)
(* may fail to take a message, which is then only logged.                  *)
(***************************************************************************)
EXTENDS Naturals, FiniteSets

CONSTANTS
    Msg,         \* message ids
    Offline,     \* those with Delivery.Offline set
    MaxRetries,  \* RetryPolicy.MaxRetries (5 when it is not configured)
    MaxConn,     \* bound: connections over a behaviour
    MaxSent,     \* bound: transmissions of a message that are counted
    None

ASSUME AckAssumption ==
    /\ Offline \subseteq Msg
    /\ MaxRetries \in Nat \ {0}
    /\ MaxConn \in Nat \ {0}
    /\ MaxSent \in Nat \ {0}
    /\ None \notin Nat

Conn == 1 .. MaxConn
Thread == {"worker", "timer"} \X Msg
\* Every connection may add one retry to those the timer counts.
MaxCount == MaxRetries + MaxConn

VARIABLES
    pc,          \* [Thread -> ...]
    held,        \* [Thread -> Conn or None]: conn, read by Session.Submit
    conn,        \* Session.conn
    connState,   \* [Conn -> ...]
    attach,      \* where the newest connection's CreateAndRun is
    flush,       \* messages AttachConn has still to visit
    visiting,    \* the message it visits
    registered,  \* is the session in LocalRouter.deviceConn?
    closing,     \* where Session.Close is
    victims,     \* timers CancelAll has still to cancel
    pending,     \* [Msg -> retryCount or None]: Session.pendingAcks
    sessAcks,    \* Scanner.sessAcks of this session
    armed,       \* messages whose ACK timer is scheduled
    queued,      \* SUBSET (Conn \X Msg): what the write queues hold
    ackPc,       \* [Msg -> {"idle", "cancel", "unindex"}]: Session.Ack
    received,    \* messages the client has got
    stored,      \* messages in the offline store
    failed,      \* history: messages it returned an error for
    sent,        \* history: [Msg -> retries on the timer since the last ack]
    dropped      \* history: messages whose entry Session.Close threw away

connVars == << conn, connState, attach, flush, visiting, registered >>
closeVars == << closing, victims, dropped >>
clientVars == << ackPc, received >>
storeVars == << stored, failed >>
vars == << pc, held, connVars, closeVars, pending, sessAcks, armed, queued,
           clientVars, storeVars, sent >>

TypeOK ==
    /\ pc \in [Thread -> {"idle", "load", "read", "enqueue", "store", "index", "arm",
                          "reindex", "rearm", "unindex", "done"}]
    /\ held \in [Thread -> Conn \cup {None}]
    /\ conn \in Conn \cup {None}
    /\ connState \in [Conn -> {"new", "Handshaking", "Active", "Closed", "gone"}]
    /\ attach \in {"idle", "range", "flush", "index", "arm", "register", "close", "activate"}
    /\ flush \subseteq Msg
    /\ visiting \in Msg \cup {None}
    /\ registered \in BOOLEAN
    /\ closing \in {"new", "begun", "cancelAll", "cancel", "done"}
    /\ victims \subseteq Msg
    /\ pending \in [Msg -> (0 .. MaxCount) \cup {None}]
    /\ sessAcks \subseteq Msg
    /\ armed \subseteq Msg
    /\ queued \subseteq Conn \X Msg
    /\ ackPc \in [Msg -> {"idle", "cancel", "unindex"}]
    /\ received \subseteq Msg
    /\ stored \subseteq Msg
    /\ failed \subseteq Msg
    /\ sent \in [Msg -> 0 .. MaxSent]
    /\ dropped \subseteq Msg

Init ==
    /\ pc = [t \in Thread |-> "idle"]
    /\ held = [t \in Thread |-> None]
    /\ conn = None
    /\ connState = [c \in Conn |-> "new"]
    /\ attach = "idle"
    /\ flush = {}
    /\ visiting = None
    /\ registered = FALSE
    /\ closing = "new"
    /\ victims = {}
    /\ pending = [m \in Msg |-> None]
    /\ sessAcks = {}
    /\ armed = {}
    /\ queued = {}
    /\ ackPc = [m \in Msg |-> "idle"]
    /\ received = {}
    /\ stored = {}
    /\ failed = {}
    /\ sent = [m \in Msg |-> 0]
    /\ dropped = {}

Pending == {m \in Msg : pending[m] # None}
Goto(t, from, to) == pc[t] = from /\ pc' = [pc EXCEPT ![t] = to]
TimerOf(m) == << "timer", m >>

------------------------------------------------------------------------------
(* Session.Submit, by the worker or the timer goroutine.                   *)

\* A downlink worker gets the message.
Deliver(m) ==
    /\ Goto(<< "worker", m >>, "idle", "read")
    /\ UNCHANGED << held, connVars, closeVars, pending, sessAcks, armed, queued,
                    clientVars, storeVars, sent >>

\* Where Submit returns to.
Rejected(t) == IF t[1] = "timer" THEN "unindex" ELSE "done"
Tracked(t) == IF t[1] = "timer" THEN "reindex" ELSE "done"

\* Deliberate fault of StoreOffline, for the mutation checks.
StoreNothing(m) == UNCHANGED storeVars

\* handleUndelivered: the store takes the message, or its error is logged.
StoreOffline(m) ==
    \/ stored' = stored \cup ({m} \cap Offline) /\ UNCHANGED failed
    \/ failed' = failed \cup ({m} \cap Offline) /\ UNCHANGED stored

\* The connection is read under connMu; without one the message is rejected.
SubmitRead(t) ==
    LET ok == conn # None
    IN  /\ Goto(t, "read", IF ok THEN "enqueue" ELSE Rejected(t))
        /\ held' = [held EXCEPT ![t] = IF ok THEN conn ELSE None]
        /\ IF ok THEN UNCHANGED storeVars ELSE StoreOffline(t[2])
        /\ UNCHANGED << connVars, closeVars, pending, sessAcks, armed, queued,
                        clientVars, sent >>

\* The connection is active and conn.Submit succeeds.
Enqueue(t) ==
    LET m == t[2]
    IN  /\ Goto(t, "enqueue", "store")
        /\ connState[held[t]] = "Active"
        /\ queued' = queued \cup {<< held[t], m >>}
        /\ held' = [held EXCEPT ![t] = None]
        /\ sent' = IF t[1] = "timer" /\ sent[m] < MaxSent
                     THEN [sent EXCEPT ![m] = @ + 1] ELSE sent
        /\ UNCHANGED << connVars, closeVars, pending, sessAcks, armed, clientVars, storeVars >>

\* The connection is not active (yet, or any more), or its queue is full.
EnqueueFails(t) ==
    /\ Goto(t, "enqueue", Rejected(t))
    /\ held' = [held EXCEPT ![t] = None]
    /\ StoreOffline(t[2])
    /\ UNCHANGED << connVars, closeVars, pending, sessAcks, armed, queued,
                    clientVars, sent >>

\* A fresh entry, its retryCount zero, replaces whatever is there.
StorePending(t) ==
    /\ Goto(t, "store", "index")
    /\ pending' = [pending EXCEPT ![t[2]] = 0]
    /\ UNCHANGED << held, connVars, closeVars, sessAcks, armed, queued,
                    clientVars, storeVars, sent >>

\* Scanner.Track: the index under mu, then the timer.  After a retry the
\* registry tracks the message once more.
TrackIndex(t) ==
    /\ Goto(t, "index", "arm") \/ Goto(t, "reindex", "rearm")
    /\ sessAcks' = sessAcks \cup {t[2]}
    /\ UNCHANGED << held, connVars, closeVars, pending, armed, queued,
                    clientVars, storeVars, sent >>

TrackArm(t) ==
    /\ Goto(t, "arm", Tracked(t)) \/ Goto(t, "rearm", "unindex")
    /\ armed' = armed \cup {t[2]}
    /\ UNCHANGED << held, connVars, closeVars, pending, sessAcks, queued,
                    clientVars, storeVars, sent >>

------------------------------------------------------------------------------
(* The ACK timer: Scanner.handleTimeout and Registry.handleAckTimeout.     *)

\* The wheel hands the task over; its shard runs one handler at a time.
Expire(m) ==
    /\ m \in armed
    /\ Goto(TimerOf(m), "idle", "load")
    /\ armed' = armed \ {m}
    /\ UNCHANGED << held, connVars, closeVars, pending, sessAcks, queued,
                    clientVars, storeVars, sent >>

\* Fault of TimeoutAcked: the missing entry does not stop the retry.
TimeoutAckedRetries(m) ==
    /\ Goto(TimerOf(m), "load", "read")
    /\ pending[m] = None
    /\ UNCHANGED << held, connVars, closeVars, pending, sessAcks, armed, queued,
                    clientVars, storeVars, sent >>

\* The entry is gone: acknowledged, or cleared by Close.
TimeoutAcked(m) ==
    /\ Goto(TimerOf(m), "load", "unindex")
    /\ pending[m] = None
    /\ UNCHANGED << held, connVars, closeVars, pending, sessAcks, armed, queued,
                    clientVars, storeVars, sent >>

\* Fault of TimeoutRetry: the limit is not looked at.
TimeoutRetryAlways(m) ==
    /\ Goto(TimerOf(m), "load", "read")
    /\ pending[m] # None
    /\ pending' = [pending EXCEPT ![m] = @ + 1]
    /\ UNCHANGED << held, connVars, closeVars, sessAcks, armed, queued,
                    clientVars, storeVars, sent >>

\* entry.retryCount++ and another Submit.
TimeoutRetry(m) ==
    /\ Goto(TimerOf(m), "load", "read")
    /\ pending[m] # None
    /\ pending[m] + 1 <= MaxRetries
    /\ pending' = [pending EXCEPT ![m] = @ + 1]
    /\ UNCHANGED << held, connVars, closeVars, sessAcks, armed, queued,
                    clientVars, storeVars, sent >>

\* Too many retries: the entry is deleted and the message kept offline.
TimeoutGiveUp(m) ==
    /\ Goto(TimerOf(m), "load", "unindex")
    /\ pending[m] # None
    /\ pending[m] + 1 > MaxRetries
    /\ pending' = [pending EXCEPT ![m] = None]
    /\ StoreOffline(m)
    /\ UNCHANGED << held, connVars, closeVars, sessAcks, armed, queued,
                    clientVars, sent >>

\* Fault of TimeoutUnindex: the entry stays in sessAcks.
TimeoutUnindexSkipped(m) ==
    /\ Goto(TimerOf(m), "unindex", "idle")
    /\ UNCHANGED << held, connVars, closeVars, pending, sessAcks, armed, queued,
                    clientVars, storeVars, sent >>

\* The end of handleTimeout forgets the message, tracked again or not.
TimeoutUnindex(m) ==
    /\ Goto(TimerOf(m), "unindex", "idle")
    /\ sessAcks' = sessAcks \ {m}
    /\ UNCHANGED << held, connVars, closeVars, pending, armed, queued,
                    clientVars, storeVars, sent >>

------------------------------------------------------------------------------
(* Session.Ack: the entry, the timer, the index.                           *)

Ack(m) ==
    /\ m \in received
    /\ ackPc[m] = "idle"
    /\ ackPc' = [ackPc EXCEPT ![m] = "cancel"]
    /\ pending' = [pending EXCEPT ![m] = None]
    /\ sent' = [sent EXCEPT ![m] = 0]
    /\ UNCHANGED << pc, held, connVars, closeVars, sessAcks, armed, queued,
                    received, storeVars >>

AckCancel(m) ==
    /\ ackPc[m] = "cancel"
    /\ ackPc' = [ackPc EXCEPT ![m] = "unindex"]
    /\ armed' = armed \ {m}
    /\ UNCHANGED << pc, held, connVars, closeVars, pending, sessAcks, queued,
                    received, storeVars, sent >>

AckUnindex(m) ==
    /\ ackPc[m] = "unindex"
    /\ ackPc' = [ackPc EXCEPT ![m] = "idle"]
    /\ sessAcks' = sessAcks \ {m}
    /\ UNCHANGED << pc, held, connVars, closeVars, pending, armed, queued,
                    received, storeVars, sent >>

------------------------------------------------------------------------------
(* A (re)connecting client: CreateAndRun.                                  *)

\* AttachConn takes the session over under connMu ...
Attach(c) ==
    /\ attach = "idle"
    /\ connState[c] = "new"
    /\ \A d \in Conn : d < c => connState[d] # "new"
    /\ connState' = [connState EXCEPT ![c] = "Handshaking"]
    /\ conn' = c
    /\ attach' = "range"
    /\ UNCHANGED << pc, held, flush, visiting, registered, closeVars, pending,
                    sessAcks, armed, queued, clientVars, storeVars, sent >>

\* ... and, once the subscriptions are restored, ranges over pendingAcks.  Range
\* looks at every entry that is there, and perhaps at one stored meanwhile.
FlushBegin ==
    /\ attach = "range"
    /\ attach' = "flush"
    /\ flush' \in {F \in SUBSET Msg : Pending \subseteq F}
    /\ UNCHANGED << pc, held, conn, connState, visiting, registered, closeVars,
                    pending, sessAcks, armed, queued, clientVars, storeVars, sent >>

\* One entry: the retry is counted and submitted to the new connection, which
\* refuses it, as it is activated only later.  The count is not protected: an
\* increment concurrent with the timer's is lost.
FlushVisit(m) ==
    /\ attach = "flush"
    /\ m \in flush
    /\ pending[m] # None
    /\ \/ pending' = [pending EXCEPT ![m] = @ + 1]
       \/ pc[TimerOf(m)] = "read" /\ UNCHANGED pending
    /\ flush' = flush \ {m}
    /\ visiting' = m
    /\ attach' = "index"
    /\ UNCHANGED << pc, held, conn, connState, registered, closeVars, sessAcks,
                    armed, queued, clientVars, storeVars, sent >>

FlushGone(m) ==
    /\ attach = "flush"
    /\ m \in flush
    /\ pending[m] = None
    /\ flush' = flush \ {m}
    /\ UNCHANGED << pc, held, conn, connState, attach, visiting, registered,
                    closeVars, pending, sessAcks, armed, queued, clientVars, storeVars, sent >>

FlushIndex ==
    /\ attach = "index"
    /\ attach' = "arm"
    /\ sessAcks' = sessAcks \cup {visiting}
    /\ UNCHANGED << pc, held, conn, connState, flush, visiting, registered,
                    closeVars, pending, armed, queued, clientVars, storeVars, sent >>

FlushArm ==
    /\ attach = "arm"
    /\ attach' = "flush"
    /\ armed' = armed \cup {visiting}
    /\ visiting' = None
    /\ UNCHANGED << pc, held, conn, connState, flush, registered,
                    closeVars, pending, sessAcks, queued, clientVars, storeVars, sent >>

FlushEnd ==
    /\ attach = "flush"
    /\ flush = {}
    /\ attach' = "register"
    /\ UNCHANGED << pc, held, conn, connState, flush, visiting, registered,
                    closeVars, pending, sessAcks, armed, queued, clientVars, storeVars, sent >>

\* RegisterSession kicks the session if it was registered already.
Register ==
    /\ attach = "register"
    /\ registered' = TRUE
    /\ attach' = IF registered THEN "close" ELSE "activate"
    /\ UNCHANGED << pc, held, conn, connState, flush, visiting,
                    closeVars, pending, sessAcks, armed, queued, clientVars, storeVars, sent >>

\* kicked.Close returns, its body executed now or before.
Kicked ==
    /\ attach = "close"
    /\ closing = "done"
    /\ attach' = "activate"
    /\ UNCHANGED << pc, held, conn, connState, flush, visiting, registered,
                    closeVars, pending, sessAcks, armed, queued, clientVars, storeVars, sent >>

Activate(c) ==
    /\ attach = "activate"
    /\ connState[c] = "Handshaking"
    /\ attach' = "idle"
    /\ connState' = [connState EXCEPT ![c] = "Active"]
    /\ UNCHANGED << pc, held, conn, flush, visiting, registered,
                    closeVars, pending, sessAcks, armed, queued, clientVars, storeVars, sent >>

\* The connection breaks; what it had queued is lost.
Break(c) ==
    /\ connState[c] = "Active"
    /\ connState' = [connState EXCEPT ![c] = "Closed"]
    /\ queued' = {q \in queued : q[1] # c}
    /\ UNCHANGED << pc, held, conn, attach, flush, visiting, registered,
                    closeVars, pending, sessAcks, armed, clientVars, storeVars, sent >>

\* onClose calls DetachConn, whichever connection the session has by now.
Detach(c) ==
    /\ connState[c] = "Closed"
    /\ connState' = [connState EXCEPT ![c] = "gone"]
    /\ conn' = None
    /\ UNCHANGED << pc, held, attach, flush, visiting, registered,
                    closeVars, pending, sessAcks, armed, queued, clientVars, storeVars, sent >>

------------------------------------------------------------------------------
(* Session.Close, for a kick or a logout.                                  *)

\* The state becomes Closed; the connection stays usable.
CloseBegin ==
    /\ closing = "new"
    /\ attach = "close" \/ \E c \in Conn : connState[c] = "Active"
    /\ closing' = "begun"
    /\ UNCHANGED << pc, held, connVars, victims, dropped, pending, sessAcks, armed,
                    queued, clientVars, storeVars, sent >>

\* UnregisterSession
CloseUnregister ==
    /\ closing = "begun"
    /\ closing' = "cancelAll"
    /\ registered' = FALSE
    /\ UNCHANGED << pc, held, conn, connState, attach, flush, visiting, victims,
                    dropped, pending, sessAcks, armed, queued, clientVars, storeVars, sent >>

\* CancelAll takes the index of the session ...
CancelAllTake ==
    /\ closing = "cancelAll"
    /\ closing' = "cancel"
    /\ victims' = sessAcks
    /\ sessAcks' = {}
    /\ UNCHANGED << pc, held, connVars, dropped, pending, armed, queued,
                    clientVars, storeVars, sent >>

\* ... and cancels the timers it found there.
CancelAllCancel(m) ==
    /\ closing = "cancel"
    /\ m \in victims
    /\ victims' = victims \ {m}
    /\ armed' = armed \ {m}
    /\ UNCHANGED << pc, held, connVars, closing, dropped, pending, sessAcks, queued,
                    clientVars, storeVars, sent >>

\* pendingAcks is replaced by an empty map.
CloseClear ==
    /\ closing = "cancel"
    /\ victims = {}
    /\ closing' = "done"
    /\ pending' = [m \in Msg |-> None]
    /\ dropped' = dropped \cup Pending
    /\ UNCHANGED << pc, held, connVars, victims, sessAcks, armed, queued,
                    clientVars, storeVars, sent >>

\* The writeLoop writes a message and the client receives it.
Receive(c, m) ==
    /\ << c, m >> \in queued
    /\ connState[c] = "Active"
    /\ queued' = queued \ {<< c, m >>}
    /\ received' = received \cup {m}
    /\ UNCHANGED << pc, held, connVars, closeVars, pending, sessAcks, armed,
                    ackPc, storeVars, sent >>

------------------------------------------------------------------------------
Submit(t) ==
    \/ SubmitRead(t) \/ Enqueue(t) \/ EnqueueFails(t)
    \/ StorePending(t) \/ TrackIndex(t) \/ TrackArm(t)

Timeout(m) ==
    \/ Expire(m) \/ TimeoutAcked(m) \/ TimeoutRetry(m) \/ TimeoutGiveUp(m)
    \/ TimeoutUnindex(m)

Reconnect ==
    \/ \E m \in Msg : FlushVisit(m) \/ FlushGone(m)
    \/ FlushBegin \/ FlushIndex \/ FlushArm \/ FlushEnd \/ Register \/ Kicked
    \/ \E c \in Conn : Attach(c) \/ Activate(c)

Close ==
    \/ CloseBegin \/ CloseUnregister \/ CancelAllTake \/ CloseClear
    \/ \E m \in Msg : CancelAllCancel(m)

Next ==
    \/ \E m \in Msg : Deliver(m) \/ Timeout(m) \/ Ack(m) \/ AckCancel(m) \/ AckUnindex(m)
    \/ \E t \in Thread : Submit(t)
    \/ Reconnect
    \/ Close
    \/ \E c \in Conn : Break(c) \/ Detach(c) \/ \E m \in Msg : Receive(c, m)

Spec == Init /\ [][Next]_vars

------------------------------------------------------------------------------
(* Properties.                                                             *)

\* A goroutine that is about to arm the timer of m, or to reject m.
InHand(m) ==
    \/ pc[<< "worker", m >>] \notin {"idle", "done"}
    \/ pc[TimerOf(m)] \notin {"idle", "unindex"}
    \/ m \in flush /\ m \in Pending
    \/ visiting = m

\* A message that may be stored offline and was handed to Session.Submit is
\* received, in the offline store, or waits for its ACK with a timer running or
\* about to run.  It is lost in two ways only: its entry was pending when
\* Session.Close, after a logout or the kick of an ordinary reconnect, replaced
\* the map, or the offline store failed.
OnlyCloseOrStoreLoses ==
    \A m \in Offline :
        \/ pc[<< "worker", m >>] = "idle"
        \/ m \in received \cup stored \cup dropped \cup failed
        \/ m \in Pending /\ m \in armed
        \/ InHand(m)
        \/ m \in Pending /\ closing = "cancel"

\* The scanner leaks no index entry: a message no goroutine is busy with is in
\* sessAcks only while its timer is armed, unless Close interfered.
NoLeakedAckIndex ==
    \A m \in sessAcks :
        \/ m \in armed
        \/ InHand(m) \/ pc[TimerOf(m)] = "unindex" \/ ackPc[m] # "idle"
        \/ closing # "new"

\* A delivered message whose entry is gone while no retry is under way: a
\* timer left behind may still fire.
Forgotten(m) ==
    /\ pc[<< "worker", m >>] = "done"
    /\ pending[m] = None
    /\ pc[TimerOf(m)] \in {"idle", "load", "unindex"}

\* The abstract state of a message.
Status(m) ==
    IF pc[<< "worker", m >>] = "idle" THEN "new"
    ELSE IF Forgotten(m) THEN "settled" ELSE "open"

Abstract == INSTANCE AtLeastOnce WITH
    Kept <- Offline, status <- [m \in Msg |-> Status(m)], inFlight <- queued,
    lost <- dropped \cup failed

\* Submit, Ack, the scanner, reconnects and Close together are at-least-once
\* delivery as module AtLeastOnce describes it: a message is sent and stored
\* only until it is settled, which is for good, and one that may be kept is
\* settled only when the client or the store has it, or it was lost by Close
\* or by the store while it was open.
DeliversAtLeastOnce == Abstract!Spec

\* registry.go:265 says that the gateway gives up after MaxRetries retries.
RetriesAreBounded == \A m \in Msg : sent[m] <= MaxRetries
==============================================================================
