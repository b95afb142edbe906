------------------------- MODULE AckDeliveryProofs ---------------------------
(***************************************************************************)
(* Proofs about at-least-once delivery, for any messages, any retry limit  *)
(* and any number of connections: type correctness with the bound on the   *)
(* retry counter, that only Close and a failing offline store lose a       *)
(* message, that the scanner leaks no index entry, and that the parts      *)
(* together implement AtLeastOnce.                                         *)
(***************************************************************************)
EXTENDS AckDelivery, TLAPS

WorkerOf(m) == << "worker", m >>

LEMMA ThreadCases ==
    /\ \A m \in Msg : WorkerOf(m) \in Thread /\ TimerOf(m) \in Thread
    /\ \A m \in Msg : WorkerOf(m)[2] = m /\ TimerOf(m)[2] = m
    /\ \A m \in Msg : WorkerOf(m)[1] = "worker" /\ TimerOf(m)[1] = "timer"
    /\ \A m, n \in Msg : WorkerOf(m) # TimerOf(n)
    /\ \A t \in Thread : t[2] \in Msg /\ (t = WorkerOf(t[2]) \/ t = TimerOf(t[2]))
    BY DEF WorkerOf, TimerOf, Thread

-----------------------------------------------------------------------------
(* Types, and the retry counter. *)

\* A thread that enqueues has read a connection, and AttachConn visits a
\* message while it tracks it.
PhaseInv ==
    /\ \A t \in Thread : pc[t] = "enqueue" => held[t] \in Conn
    /\ attach \in {"index", "arm"} => visiting \in Msg

\* Connections are made in order, and each of them visits a message at most
\* once: k connections add at most k to the retries the timer counts.
Made(k) == \A c \in Conn : connState[c] = "new" <=> c > k

Count(m, k) ==
    pending[m] # None =>
      pending[m] + (IF m \in flush \/ attach = "range" THEN 1 ELSE 0) <= MaxRetries + k

Visit == flush # {} \/ attach = "range"

CountInv ==
    \E k \in 0 .. MaxConn :
      Made(k) /\ (Visit => k # 0) /\ \A m \in Msg : Count(m, k)

TypeInv == TypeOK /\ PhaseInv /\ CountInv

USE DEF Goto, connVars, closeVars, clientVars, storeVars

LEMMA Numbers ==
    /\ MaxRetries \in Nat \ {0} /\ MaxConn \in Nat \ {0} /\ MaxSent \in Nat \ {0}
    /\ None \notin Nat /\ MaxCount \in Nat /\ MaxCount = MaxRetries + MaxConn
    /\ \A c \in Conn : c \in Nat /\ c # 0 /\ c <= MaxConn
    BY AckAssumption DEF MaxCount, Conn

PCs == {"idle", "load", "read", "enqueue", "store", "index", "arm",
        "reindex", "rearm", "unindex", "done"}

LEMMA TypeInit ==
    Init => TypeInv
<1>. SUFFICES ASSUME Init PROVE TypeInv
    OBVIOUS
<1>1. TypeOK
    <2>1. registered \in BOOLEAN
        BY Zenon DEF Init
    <2>. QED
        BY <2>1, Numbers DEF Init, TypeOK
<1>2. PhaseInv
    BY DEF Init, PhaseInv
<1>3. Made(0) /\ ~Visit /\ \A m \in Msg : Count(m, 0)
    BY Numbers DEF Init, Made, Count, Visit
<1>4. 0 \in 0 .. MaxConn
    BY Numbers
<1>. QED
    BY <1>1, <1>2, <1>3, <1>4 DEF TypeInv, CountInv

\* A step that neither attaches a connection nor adds to a retry counter.
LEMMA CountKept ==
    ASSUME TypeInv,
           \A c \in Conn : connState'[c] = "new" <=> connState[c] = "new",
           flush' \subseteq flush, attach' = "range" => attach = "range",
           \A m \in Msg : \/ pending'[m] \in {None, pending[m]}
                          \/ pending'[m] \in Nat /\ pending'[m] <= MaxRetries
    PROVE  CountInv'
<1>1. PICK k \in 0 .. MaxConn :
        Made(k) /\ (Visit => k # 0) /\ \A m \in Msg : Count(m, k)
    BY DEF TypeInv, CountInv
<1>2. Made(k)'
    BY <1>1 DEF Made
<1>3. k \in Nat /\ \A m \in Msg : pending[m] # None => pending[m] \in Nat
    BY Numbers DEF TypeInv, TypeOK
<1>4. ASSUME NEW m \in Msg PROVE Count(m, k)'
    BY <1>1, <1>3, <1>4, Numbers DEF Count, Visit
<1>5. Visit' => k # 0
    BY <1>1 DEF Visit
<1>. QED
    BY <1>1, <1>2, <1>4, <1>5 DEF CountInv

LEMMA SubmitTypes ==
    ASSUME TypeInv, NEW t \in Thread, Submit(t)
    PROVE  TypeInv'
<1>. TypeOK /\ PhaseInv /\ t[2] \in Msg
    BY ThreadCases DEF TypeInv
<1>1. ASSUME UNCHANGED << connState, flush, attach >>,
             pending' = pending \/ pending' = [pending EXCEPT ![t[2]] = 0]
      PROVE  CountInv'
    BY <1>1, CountKept, Numbers DEF TypeOK
<1>2. CASE SubmitRead(t)
    <2>1. TypeOK' /\ PhaseInv'
        BY <1>2 DEF SubmitRead, StoreOffline, Rejected, TypeOK, PhaseInv
    <2>. QED
        BY <1>1, <1>2, <2>1 DEF SubmitRead, TypeInv
<1>3. CASE Enqueue(t)
    <2>1. held[t] \in Conn
        BY <1>3 DEF Enqueue, PhaseInv
    <2>2. sent' \in [Msg -> 0 .. MaxSent]
        BY <1>3, Numbers DEF Enqueue, TypeOK
    <2>3. TypeOK' /\ PhaseInv'
        BY <1>3, <2>1, <2>2 DEF Enqueue, TypeOK, PhaseInv
    <2>. QED
        BY <1>1, <1>3, <2>3 DEF Enqueue, TypeInv
<1>4. CASE EnqueueFails(t)
    <2>1. TypeOK' /\ PhaseInv'
        BY <1>4 DEF EnqueueFails, StoreOffline, Rejected, TypeOK, PhaseInv
    <2>. QED
        BY <1>1, <1>4, <2>1 DEF EnqueueFails, TypeInv
<1>5. CASE StorePending(t)
    <2>1. pending' \in [Msg -> (0 .. MaxCount) \cup {None}]
        BY <1>5, Numbers DEF StorePending, TypeOK
    <2>2. TypeOK' /\ PhaseInv'
        BY <1>5, <2>1 DEF StorePending, TypeOK, PhaseInv
    <2>. QED
        BY <1>1, <1>5, <2>2 DEF StorePending, TypeInv
<1>6. CASE TrackIndex(t)
    <2>1. TypeOK' /\ PhaseInv'
        BY <1>6 DEF TrackIndex, TypeOK, PhaseInv
    <2>. QED
        BY <1>1, <1>6, <2>1 DEF TrackIndex, TypeInv
<1>7. CASE TrackArm(t)
    <2>1. TypeOK' /\ PhaseInv'
        BY <1>7 DEF TrackArm, Tracked, TypeOK, PhaseInv
    <2>. QED
        BY <1>1, <1>7, <2>1 DEF TrackArm, TypeInv
<1>. QED
    BY <1>2, <1>3, <1>4, <1>5, <1>6, <1>7 DEF Submit

LEMMA TimeoutTypes ==
    ASSUME TypeInv, NEW m \in Msg, Deliver(m) \/ Timeout(m)
    PROVE  TypeInv'
<1>. TypeOK /\ PhaseInv /\ TimerOf(m) \in Thread /\ << "worker", m >> \in Thread
    BY ThreadCases DEF TypeInv, WorkerOf
<1>1. ASSUME UNCHANGED << connState, flush, attach >>,
             \/ pending' = pending
             \/ pending' = [pending EXCEPT ![m] = None]
             \/ /\ pending[m] # None /\ pending[m] + 1 <= MaxRetries
                /\ pending' = [pending EXCEPT ![m] = @ + 1]
      PROVE  CountInv'
    <2>1. ASSUME NEW n \in Msg
          PROVE  \/ pending'[n] \in {None, pending[n]}
                 \/ pending'[n] \in Nat /\ pending'[n] <= MaxRetries
        BY <1>1, Numbers DEF TypeOK
    <2>. QED
        BY <1>1, <2>1, CountKept
<1>2. CASE Deliver(m) \/ Expire(m) \/ TimeoutAcked(m) \/ TimeoutUnindex(m)
    <2>1. TypeOK' /\ PhaseInv'
        BY <1>2 DEF Deliver, Expire, TimeoutAcked, TimeoutUnindex, TypeOK, PhaseInv
    <2>. QED
        BY <1>1, <1>2, <2>1 DEF Deliver, Expire, TimeoutAcked, TimeoutUnindex, TypeInv
<1>3. CASE TimeoutRetry(m)
    <2>1. pending' \in [Msg -> (0 .. MaxCount) \cup {None}]
        BY <1>3, Numbers DEF TimeoutRetry, TypeOK
    <2>2. TypeOK' /\ PhaseInv'
        BY <1>3, <2>1 DEF TimeoutRetry, TypeOK, PhaseInv
    <2>. QED
        BY <1>1, <1>3, <2>2 DEF TimeoutRetry, TypeInv
<1>4. CASE TimeoutGiveUp(m)
    <2>1. TypeOK' /\ PhaseInv'
        BY <1>4 DEF TimeoutGiveUp, StoreOffline, TypeOK, PhaseInv
    <2>. QED
        BY <1>1, <1>4, <2>1 DEF TimeoutGiveUp, TypeInv
<1>. QED
    BY <1>2, <1>3, <1>4 DEF Timeout

LEMMA AckTypes ==
    ASSUME TypeInv, NEW m \in Msg, Ack(m) \/ AckCancel(m) \/ AckUnindex(m)
    PROVE  TypeInv'
<1>. TypeOK /\ PhaseInv
    BY DEF TypeInv
<1>1. TypeOK' /\ PhaseInv'
    BY Numbers DEF Ack, AckCancel, AckUnindex, TypeOK, PhaseInv
<1>2. /\ UNCHANGED << connState, flush, attach >>
      /\ \A n \in Msg : pending'[n] \in {None, pending[n]}
    BY DEF Ack, AckCancel, AckUnindex, TypeOK
<1>. QED
    BY <1>1, <1>2, CountKept DEF TypeInv

\* AttachConn is about to visit the pending messages: one more connection.
LEMMA AttachTypes ==
    ASSUME TypeInv, NEW c \in Conn, Attach(c)
    PROVE  TypeInv'
<1>. TypeOK /\ PhaseInv
    BY DEF TypeInv
<1>1. TypeOK' /\ PhaseInv'
    BY DEF Attach, TypeOK, PhaseInv
<1>2. PICK k \in 0 .. MaxConn :
        Made(k) /\ (Visit => k # 0) /\ \A m \in Msg : Count(m, k)
    BY DEF TypeInv, CountInv
<1>3. c = k + 1
    <2>1. k \in Nat /\ c \in Nat /\ c > k
        BY <1>2, Numbers DEF Attach, Made
    <2>2. c > k + 1 => k + 1 \in Conn
        BY <2>1, Numbers DEF Conn
    <2>3. c > k + 1 => connState[k + 1] # "new"
        BY <2>1, <2>2 DEF Attach
    <2>. QED
        BY <1>2, <2>1, <2>2, <2>3 DEF Made
<1>4. c \in 0 .. MaxConn /\ c # 0
    BY Numbers
<1>5. Made(c)'
    BY <1>2, <1>3, Numbers DEF Made, Attach, TypeOK
<1>6. ASSUME NEW m \in Msg PROVE Count(m, c)'
    <2>1. pending'[m] = pending[m] /\ k \in Nat
        BY <1>2, Numbers DEF Attach
    <2>2. pending[m] # None => pending[m] \in Nat
        BY Numbers DEF TypeOK
    <2>3. pending[m] # None => pending[m] <= MaxRetries + k
        BY <1>2, <2>1, <2>2, Numbers DEF Count
    <2>. QED
        BY <1>3, <2>1, <2>2, <2>3, Numbers DEF Count
<1>. QED
    BY <1>1, <1>4, <1>5, <1>6 DEF TypeInv, CountInv

LEMMA RangeTypes ==
    ASSUME TypeInv, FlushBegin
    PROVE  TypeInv'
<1>. TypeOK /\ PhaseInv
    BY DEF TypeInv
<1>1. TypeOK' /\ PhaseInv'
    BY DEF FlushBegin, TypeOK, PhaseInv
<1>2. PICK k \in 0 .. MaxConn :
        Made(k) /\ (Visit => k # 0) /\ \A m \in Msg : Count(m, k)
    BY DEF TypeInv, CountInv
<1>3. attach = "range" /\ k # 0 /\ UNCHANGED << connState, pending >>
    BY <1>2 DEF FlushBegin, Visit
<1>4. \A m \in Msg : pending[m] # None => pending[m] \in Nat
    BY Numbers DEF TypeOK
<1>5. ASSUME NEW m \in Msg PROVE Count(m, k)'
    BY <1>2, <1>3, <1>4, Numbers DEF Count
<1>6. Made(k)'
    BY <1>2, <1>3 DEF Made
<1>. QED
    BY <1>1, <1>2, <1>3, <1>5, <1>6 DEF TypeInv, CountInv

\* The visit uses up the one retry more that the connection allows.
LEMMA VisitTypes ==
    ASSUME TypeInv, NEW m \in Msg, FlushVisit(m)
    PROVE  TypeInv'
<1>. TypeOK /\ PhaseInv
    BY DEF TypeInv
<1>1. PICK k \in 0 .. MaxConn :
        Made(k) /\ (Visit => k # 0) /\ \A n \in Msg : Count(n, k)
    BY DEF TypeInv, CountInv
<1>2. /\ m \in flush /\ pending[m] # None /\ flush' = flush \ {m}
      /\ connState' = connState /\ attach = "flush" /\ attach' = "index"
      /\ pending' = pending \/ pending' = [pending EXCEPT ![m] = @ + 1]
    BY DEF FlushVisit
<1>3. /\ k \in Nat /\ pending[m] \in Nat /\ pending[m] + 1 <= MaxRetries + k
      /\ pending[m] + 1 <= MaxCount
    BY <1>1, <1>2, Numbers DEF Count, TypeOK
<1>4. pending' \in [Msg -> (0 .. MaxCount) \cup {None}]
    BY <1>2, <1>3, Numbers DEF TypeOK
<1>5. TypeOK' /\ PhaseInv'
    BY <1>4 DEF FlushVisit, TypeOK, PhaseInv
<1>6. ASSUME NEW n \in Msg PROVE Count(n, k)'
    <2>1. CASE n = m
        <3>1. pending'[m] \in Nat /\ pending'[m] <= MaxRetries + k /\ m \notin flush'
            BY <1>2, <1>3, Numbers DEF TypeOK
        <3>. QED
            BY <1>2, <2>1, <3>1, Numbers DEF Count
    <2>2. CASE n # m
        <3>1. pending'[n] = pending[n] /\ (n \in flush' <=> n \in flush)
            BY <1>2, <2>2 DEF TypeOK
        <3>. QED
            BY <1>1, <1>2, <3>1 DEF Count
    <2>. QED
        BY <2>1, <2>2
<1>7. Made(k)' /\ (Visit' => k # 0)
    BY <1>1, <1>2 DEF Made, Visit
<1>. QED
    BY <1>1, <1>5, <1>6, <1>7 DEF TypeInv, CountInv

LEMMA ReconnectTypes ==
    ASSUME TypeInv, Reconnect
    PROVE  TypeInv'
<1>. TypeOK /\ PhaseInv
    BY DEF TypeInv
<1>1. ASSUME NEW m \in Msg, FlushGone(m) PROVE TypeInv'
    <2>1. TypeOK' /\ PhaseInv'
        BY <1>1 DEF FlushGone, TypeOK, PhaseInv
    <2>. QED
        BY <1>1, <2>1, CountKept DEF FlushGone, TypeInv
<1>2. CASE FlushIndex \/ FlushArm \/ FlushEnd
    <2>1. TypeOK' /\ PhaseInv'
        BY <1>2 DEF FlushIndex, FlushArm, FlushEnd, TypeOK, PhaseInv
    <2>. QED
        BY <1>2, <2>1, CountKept DEF FlushIndex, FlushArm, FlushEnd, TypeInv
<1>3. CASE Register \/ Kicked
    <2>1. TypeOK' /\ PhaseInv'
        BY <1>3 DEF Register, Kicked, TypeOK, PhaseInv
    <2>. QED
        BY <1>3, <2>1, CountKept DEF Register, Kicked, TypeInv
<1>4. ASSUME NEW c \in Conn, Activate(c) PROVE TypeInv'
    <2>1. TypeOK' /\ PhaseInv'
        BY <1>4 DEF Activate, TypeOK, PhaseInv
    <2>2. \A d \in Conn : connState'[d] = "new" <=> connState[d] = "new"
        BY <1>4 DEF Activate, TypeOK
    <2>. QED
        BY <1>4, <2>1, <2>2, CountKept DEF Activate, TypeInv
<1>. QED
    BY <1>1, <1>2, <1>3, <1>4, AttachTypes, RangeTypes, VisitTypes DEF Reconnect

LEMMA CloseTypes ==
    ASSUME TypeInv, Close
    PROVE  TypeInv'
<1>. TypeOK /\ PhaseInv
    BY DEF TypeInv
<1>1. TypeOK' /\ PhaseInv'
    BY DEF Close, CloseBegin, CloseUnregister, CancelAllTake, CloseClear, CancelAllCancel,
       Pending, TypeOK, PhaseInv
<1>2. /\ UNCHANGED << connState, flush, attach >>
      /\ \A m \in Msg : pending'[m] \in {None, pending[m]}
    BY DEF Close, CloseBegin, CloseUnregister, CancelAllTake, CloseClear, CancelAllCancel
<1>. QED
    BY <1>1, <1>2, CountKept DEF TypeInv

LEMMA ConnTypes ==
    ASSUME TypeInv,
           \E c \in Conn : Break(c) \/ Detach(c) \/ \E m \in Msg : Receive(c, m)
    PROVE  TypeInv'
<1>. TypeOK /\ PhaseInv
    BY DEF TypeInv
<1>1. ASSUME NEW c \in Conn, Break(c) PROVE TypeOK' /\ PhaseInv'
    BY <1>1 DEF Break, TypeOK, PhaseInv
<1>2. ASSUME NEW c \in Conn, Detach(c) PROVE TypeOK' /\ PhaseInv'
    BY <1>2 DEF Detach, TypeOK, PhaseInv
<1>3. ASSUME NEW c \in Conn, NEW m \in Msg, Receive(c, m) PROVE TypeOK' /\ PhaseInv'
    BY <1>3 DEF Receive, TypeOK, PhaseInv
<1>4. /\ \A c \in Conn : connState'[c] = "new" <=> connState[c] = "new"
      /\ UNCHANGED << pending, flush, attach >>
    BY DEF Break, Detach, Receive, TypeOK
<1>. QED
    BY <1>1, <1>2, <1>3, <1>4, CountKept DEF TypeInv

LEMMA TypeStep ==
    TypeInv /\ [Next]_vars => TypeInv'
<1>1. TypeInv /\ UNCHANGED vars => TypeInv'
    BY DEF vars, TypeInv, TypeOK, PhaseInv, CountInv, Made, Count, Visit
<1>. QED
    BY <1>1, SubmitTypes, TimeoutTypes, AckTypes, ReconnectTypes, CloseTypes, ConnTypes
       DEF Next

LEMMA TypeInvariant ==
    Spec => []TypeInv
    BY TypeInit, TypeStep, PTL DEF Spec

\* Every variable has its type in every state.  The retry counter, which the
\* timer and AttachConn both increment, exceeds MaxRetries by at most one for
\* every connection.
THEOREM TypeCorrect ==
    Spec => []TypeOK
<1>1. TypeInv => TypeOK
    BY DEF TypeInv
<1>. QED
    BY <1>1, TypeInvariant, PTL

-----------------------------------------------------------------------------
(* One message: who has it, and where it is remembered. *)

\* AttachConn is about to track m again.
Visits(m) == attach \in {"index", "arm"} /\ visiting = m

\* Somebody will track m, or reject it.
Busy(m) ==
    \/ pc[WorkerOf(m)] \notin {"idle", "done"}
    \/ pc[TimerOf(m)] \notin {"idle", "unindex"}
    \/ m \in flush /\ pending[m] # None
    \/ Visits(m)

\* Before the worker has stored the entry nobody knows the message.
Fresh(m) ==
    pc[WorkerOf(m)] \in {"idle", "read", "enqueue", "store"} =>
      /\ m \notin sessAcks /\ pending[m] = None /\ m \notin armed
      /\ pc[TimerOf(m)] = "idle" /\ ~Visits(m)

IndexInv(m) ==
    /\ Fresh(m)
    /\ m \in sessAcks =>
         \/ m \in armed \/ Busy(m) \/ pc[TimerOf(m)] = "unindex"
         \/ ackPc[m] # "idle" \/ closing # "new"

Safe(m) == m \in received \cup stored \cup dropped \cup failed

\* A tracked message that has no entry any more is safe, and one that is not
\* safe is tracked, or somebody has it.
LossInv(m) ==
    /\ ackPc[m] # "idle" => m \in received
    /\ pc[WorkerOf(m)] \notin {"idle", "read", "enqueue", "store"}
         => pending[m] # None \/ Safe(m)
    /\ \/ pc[WorkerOf(m)] = "idle" \/ Safe(m)
       \/ pending[m] # None /\ (m \in armed \/ closing = "cancel")
       \/ Busy(m)

MsgInv(m) == IndexInv(m) /\ (m \in Offline => LossInv(m))

\* The step does not concern m, but perhaps makes it safe.
Same(m) ==
    /\ pc'[WorkerOf(m)] = pc[WorkerOf(m)] /\ pc'[TimerOf(m)] = pc[TimerOf(m)]
    /\ pending'[m] = pending[m] /\ ackPc'[m] = ackPc[m] /\ closing' = closing
    /\ m \in armed' <=> m \in armed
    /\ m \in sessAcks' <=> m \in sessAcks
    /\ m \in flush' <=> m \in flush
    /\ Visits(m)' <=> Visits(m)
    /\ received \subseteq received' /\ dropped' = dropped
    /\ stored \subseteq stored' /\ failed \subseteq failed'

LEMMA SameStep ==
    ASSUME NEW m \in Msg, MsgInv(m), Same(m)
    PROVE  MsgInv(m)'
    BY DEF MsgInv, IndexInv, Fresh, LossInv, Busy, Safe, Same

\* A goroutine moves; the other threads stay where they are.
LEMMA Moves ==
    ASSUME TypeOK, NEW t \in Thread, NEW b, pc' = [pc EXCEPT ![t] = b], NEW m \in Msg
    PROVE  /\ pc'[t] = b
           /\ t # WorkerOf(m) => pc'[WorkerOf(m)] = pc[WorkerOf(m)]
           /\ t # TimerOf(m) => pc'[TimerOf(m)] = pc[TimerOf(m)]
           /\ t[2] = m => t = WorkerOf(m) \/ t = TimerOf(m)
           /\ t = WorkerOf(m) => t # TimerOf(m) /\ t[1] = "worker" /\ t[2] = m
           /\ t = TimerOf(m) => t # WorkerOf(m) /\ t[1] = "timer" /\ t[2] = m
    BY ThreadCases DEF TypeOK

USE DEF MsgInv, IndexInv, Fresh, LossInv, Busy, Safe, Visits

\* Session.Submit of the goroutine t, which has message m.
LEMMA SubmitMsg ==
    ASSUME TypeInv, NEW m \in Msg, MsgInv(m), NEW t \in Thread, Submit(t)
    PROVE  MsgInv(m)'
<1>. TypeOK /\ t[2] \in Msg
    BY ThreadCases DEF TypeInv
<1>1. CASE t[2] # m
    <2>1. t # WorkerOf(m) /\ t # TimerOf(m)
        BY <1>1, ThreadCases
    <2>2. \E b : pc' = [pc EXCEPT ![t] = b]
        BY DEF Submit, SubmitRead, Enqueue, EnqueueFails, StorePending, TrackIndex, TrackArm
    <2>3. pc'[WorkerOf(m)] = pc[WorkerOf(m)] /\ pc'[TimerOf(m)] = pc[TimerOf(m)]
        BY <2>1, <2>2, Moves
    <2>4. /\ pending'[m] = pending[m] /\ UNCHANGED << ackPc, closing, flush, dropped >>
          /\ UNCHANGED << attach, visiting, received >>
          /\ stored \subseteq stored' /\ failed \subseteq failed'
          /\ m \in armed' <=> m \in armed
          /\ m \in sessAcks' <=> m \in sessAcks
        BY <1>1 DEF Submit, SubmitRead, Enqueue, EnqueueFails, StorePending, TrackIndex,
           TrackArm, StoreOffline, TypeOK
    <2>. QED
        BY <2>3, <2>4, SameStep DEF Same
<1>2. ASSUME t[2] = m PROVE MsgInv(m)'
    <2>1. t = WorkerOf(m) \/ t = TimerOf(m)
        BY <1>2, ThreadCases
    <2>2. CASE SubmitRead(t) \/ EnqueueFails(t)
        <3>1. /\ pc[t] \in {"read", "enqueue"}
              /\ \/ pc'[t] = Rejected(t) /\ StoreOffline(m)
                 \/ pc'[t] = "enqueue" /\ UNCHANGED storeVars
              /\ UNCHANGED << connVars, closeVars, pending, sessAcks, armed, clientVars >>
            BY <1>2, <2>2 DEF SubmitRead, EnqueueFails, TypeOK
        <3>2. PICK b : pc' = [pc EXCEPT ![t] = b]
            BY <2>2 DEF SubmitRead, EnqueueFails
        <3>3. CASE t = WorkerOf(m)
            <4>1. pc'[TimerOf(m)] = pc[TimerOf(m)]
                BY <3>2, <3>3, ThreadCases DEF TypeOK
            <4>2. Rejected(t) = "done"
                BY <3>3, ThreadCases DEF Rejected
            <4>. QED
                BY <3>1, <3>3, <4>1, <4>2 DEF StoreOffline
        <3>4. CASE t = TimerOf(m)
            <4>1. pc'[WorkerOf(m)] = pc[WorkerOf(m)]
                BY <3>2, <3>4, ThreadCases DEF TypeOK
            <4>2. Rejected(t) = "unindex"
                BY <3>4, ThreadCases DEF Rejected
            <4>. QED
                BY <3>1, <3>4, <4>1, <4>2 DEF StoreOffline
        <3>. QED
            BY <2>1, <3>3, <3>4
    <2>3. CASE Enqueue(t) \/ StorePending(t) \/ TrackIndex(t)
        <3>1. /\ \/ pc[t] = "enqueue" /\ pc'[t] = "store" /\ UNCHANGED << pending, sessAcks >>
                 \/ /\ pc[t] = "store" /\ pc'[t] = "index" /\ pending'[m] = 0
                    /\ sessAcks' = sessAcks
                 \/ /\ \/ pc[t] = "index" /\ pc'[t] = "arm"
                       \/ pc[t] = "reindex" /\ pc'[t] = "rearm"
                    /\ pending' = pending
              /\ UNCHANGED << connVars, closeVars, armed, clientVars, storeVars >>
            BY <1>2, <2>3 DEF Enqueue, StorePending, TrackIndex, TypeOK
        <3>2. PICK b : pc' = [pc EXCEPT ![t] = b]
            BY <2>3 DEF Enqueue, StorePending, TrackIndex
        <3>3. CASE t = WorkerOf(m)
            <4>1. pc'[TimerOf(m)] = pc[TimerOf(m)]
                BY <3>2, <3>3, ThreadCases DEF TypeOK
            <4>2. 0 # None
                BY Numbers
            <4>. QED
                BY <3>1, <3>3, <4>1, <4>2
        <3>4. CASE t = TimerOf(m)
            <4>1. pc'[WorkerOf(m)] = pc[WorkerOf(m)]
                BY <3>2, <3>4, ThreadCases DEF TypeOK
            <4>2. 0 # None
                BY Numbers
            <4>. QED
                BY <3>1, <3>4, <4>1, <4>2
        <3>. QED
            BY <2>1, <3>3, <3>4
    <2>4. CASE TrackArm(t)
        <3>1. /\ \/ pc[t] = "arm" /\ pc'[t] = Tracked(t)
                 \/ pc[t] = "rearm" /\ pc'[t] = "unindex"
              /\ m \in armed'
              /\ UNCHANGED << connVars, closeVars, pending, sessAcks, clientVars, storeVars >>
            BY <1>2, <2>4 DEF TrackArm, TypeOK
        <3>2. PICK b : pc' = [pc EXCEPT ![t] = b]
            BY <2>4 DEF TrackArm
        <3>3. CASE t = WorkerOf(m)
            <4>1. pc'[TimerOf(m)] = pc[TimerOf(m)]
                BY <3>2, <3>3, ThreadCases DEF TypeOK
            <4>2. Tracked(t) = "done"
                BY <3>3, ThreadCases DEF Tracked
            <4>. QED
                BY <3>1, <3>3, <4>1, <4>2
        <3>4. CASE t = TimerOf(m)
            <4>1. pc'[WorkerOf(m)] = pc[WorkerOf(m)]
                BY <3>2, <3>4, ThreadCases DEF TypeOK
            <4>2. Tracked(t) = "reindex"
                BY <3>4, ThreadCases DEF Tracked
            <4>. QED
                BY <3>1, <3>4, <4>1, <4>2
        <3>. QED
            BY <2>1, <3>3, <3>4
    <2>. QED
        BY <2>2, <2>3, <2>4 DEF Submit
<1>. QED
    BY <1>1, <1>2

\* Delivery to a worker, and the timer goroutine.
LEMMA TimeoutMsg ==
    ASSUME TypeInv, NEW m \in Msg, MsgInv(m), NEW n \in Msg, Deliver(n) \/ Timeout(n)
    PROVE  MsgInv(m)'
<1>. TypeOK
    BY DEF TypeInv
<1>. USE DEF Deliver, Expire, TimeoutAcked, TimeoutRetry, TimeoutGiveUp, TimeoutUnindex
<1>1. CASE n # m
    <2>1. /\ WorkerOf(m) # WorkerOf(n) /\ WorkerOf(m) # TimerOf(n)
          /\ TimerOf(m) # WorkerOf(n) /\ TimerOf(m) # TimerOf(n)
        BY <1>1, ThreadCases
    <2>2. \E b : \/ pc' = [pc EXCEPT ![WorkerOf(n)] = b]
                 \/ pc' = [pc EXCEPT ![TimerOf(n)] = b]
        BY DEF Timeout, WorkerOf
    <2>3. pc'[WorkerOf(m)] = pc[WorkerOf(m)] /\ pc'[TimerOf(m)] = pc[TimerOf(m)]
        BY <2>1, <2>2, ThreadCases, Moves
    <2>4. /\ pending'[m] = pending[m] /\ UNCHANGED << ackPc, closing, flush, dropped >>
          /\ UNCHANGED << attach, visiting, received >>
          /\ stored \subseteq stored' /\ failed \subseteq failed'
          /\ m \in armed' <=> m \in armed
          /\ m \in sessAcks' <=> m \in sessAcks
        BY <1>1 DEF Timeout, StoreOffline, TypeOK
    <2>. QED
        BY <2>3, <2>4, SameStep DEF Same
<1>2. CASE n = m /\ Deliver(m)
    <2>1. pc[WorkerOf(m)] = "idle" /\ pc'[WorkerOf(m)] = "read"
        BY <1>2, ThreadCases DEF TypeOK, WorkerOf
    <2>2. pc'[TimerOf(m)] = pc[TimerOf(m)]
        BY <1>2, ThreadCases DEF TypeOK, WorkerOf
    <2>. QED
        BY <1>2, <2>1, <2>2
<1>3. CASE n = m /\ Timeout(m)
    <2>1. PICK b : pc' = [pc EXCEPT ![TimerOf(m)] = b]
        BY <1>3 DEF Timeout
    <2>2. pc'[WorkerOf(m)] = pc[WorkerOf(m)]
        BY <2>1, ThreadCases DEF TypeOK
    <2>3. CASE Expire(m)
        <3>1. pc[TimerOf(m)] = "idle" /\ pc'[TimerOf(m)] = "load" /\ m \in armed
            BY <2>3, ThreadCases DEF TypeOK
        <3>. QED
            BY <2>2, <2>3, <3>1
    <2>4. CASE TimeoutAcked(m)
        <3>1. pc[TimerOf(m)] = "load" /\ pc'[TimerOf(m)] = "unindex"
            BY <2>4, ThreadCases DEF TypeOK
        <3>. QED
            BY <2>2, <2>4, <3>1
    <2>5. CASE TimeoutRetry(m)
        <3>1. pc[TimerOf(m)] = "load" /\ pc'[TimerOf(m)] = "read"
            BY <2>5, ThreadCases DEF TypeOK
        <3>2. pending[m] # None /\ pending'[m] # None
            BY <2>5, Numbers DEF TypeOK
        <3>. QED
            BY <2>2, <2>5, <3>1, <3>2
    <2>6. CASE TimeoutGiveUp(m)
        <3>1. pc[TimerOf(m)] = "load" /\ pc'[TimerOf(m)] = "unindex"
            BY <2>6, ThreadCases DEF TypeOK
        <3>2. m \in Offline => m \in stored' \cup failed'
            BY <2>6 DEF StoreOffline
        <3>. QED
            BY <2>2, <2>6, <3>1, <3>2
    <2>7. CASE TimeoutUnindex(m)
        <3>1. pc[TimerOf(m)] = "unindex" /\ pc'[TimerOf(m)] = "idle" /\ m \notin sessAcks'
            BY <2>7, ThreadCases DEF TypeOK
        <3>. QED
            BY <2>2, <2>7, <3>1
    <2>. QED
        BY <1>3, <2>3, <2>4, <2>5, <2>6, <2>7 DEF Timeout
<1>. QED
    BY <1>1, <1>2, <1>3

\* Session.Ack of message n, which the client has received.
LEMMA AckMsg ==
    ASSUME TypeInv, NEW m \in Msg, MsgInv(m), NEW n \in Msg,
           Ack(n) \/ AckCancel(n) \/ AckUnindex(n)
    PROVE  MsgInv(m)'
<1>. TypeOK
    BY DEF TypeInv
<1>. USE DEF Ack, AckCancel, AckUnindex
<1>1. CASE n # m
    <2>1. /\ pending'[m] = pending[m] /\ ackPc'[m] = ackPc[m]
          /\ m \in armed' <=> m \in armed
          /\ m \in sessAcks' <=> m \in sessAcks
        BY <1>1 DEF TypeOK
    <2>2. UNCHANGED << pc, closing, flush, dropped, attach, visiting, received, storeVars >>
        OBVIOUS
    <2>. QED
        BY <2>1, <2>2, SameStep DEF Same
<1>2. CASE n = m /\ Ack(m)
    <2>1. ackPc'[m] = "cancel" /\ pending'[m] = None /\ m \in received
        BY <1>2 DEF TypeOK
    <2>. QED
        BY <1>2, <2>1
<1>3. CASE n = m /\ AckCancel(m)
    <2>1. ackPc[m] = "cancel" /\ ackPc'[m] = "unindex" /\ m \notin armed'
        BY <1>3 DEF TypeOK
    <2>. QED
        BY <1>3, <2>1
<1>4. CASE n = m /\ AckUnindex(m)
    <2>1. ackPc[m] = "unindex" /\ ackPc'[m] = "idle" /\ m \notin sessAcks'
        BY <1>4 DEF TypeOK
    <2>. QED
        BY <1>4, <2>1
<1>. QED
    BY <1>1, <1>2, <1>3, <1>4

\* AttachConn takes over what is pending and hands it on to the timer.
LEMMA ReconnectMsg ==
    ASSUME TypeInv, NEW m \in Msg, MsgInv(m), Reconnect
    PROVE  MsgInv(m)'
<1>. TypeOK /\ PhaseInv
    BY DEF TypeInv
<1>1. ASSUME NEW c \in Conn, Attach(c) PROVE MsgInv(m)'
    <2>1. /\ attach = "idle" /\ attach' = "range"
          /\ UNCHANGED << pc, flush, closeVars, pending, sessAcks, armed, clientVars, storeVars >>
        BY <1>1 DEF Attach
    <2>. QED
        BY <2>1, SameStep DEF Same
<1>2. ASSUME NEW n \in Msg, FlushVisit(n) PROVE MsgInv(m)'
    <2>1. /\ attach = "flush" /\ attach' = "index" /\ visiting' = n /\ n \in flush
          /\ flush' = flush \ {n} /\ pending[n] # None
          /\ UNCHANGED << pc, closeVars, sessAcks, armed, clientVars, storeVars >>
        BY <1>2 DEF FlushVisit
    <2>2. CASE n = m
        <3>1. pending'[m] # None
            BY <1>2, <2>2, Numbers DEF FlushVisit, TypeOK
        <3>. QED
            BY <2>1, <2>2, <3>1
    <2>3. CASE n # m
        <3>1. pending'[m] = pending[m]
            BY <1>2, <2>3 DEF FlushVisit, TypeOK
        <3>. QED
            BY <2>1, <2>3, <3>1, SameStep DEF Same
    <2>. QED
        BY <2>2, <2>3
<1>3. ASSUME NEW n \in Msg, FlushGone(n) PROVE MsgInv(m)'
    <2>1. /\ flush' = flush \ {n} /\ pending[n] = None
          /\ UNCHANGED << pc, attach, visiting, closeVars, pending, sessAcks, armed,
                          clientVars, storeVars >>
        BY <1>3 DEF FlushGone
    <2>2. CASE n = m
        BY <2>1, <2>2
    <2>3. CASE n # m
        BY <2>1, <2>3, SameStep DEF Same
    <2>. QED
        BY <2>2, <2>3
<1>4. CASE FlushIndex
    <2>1. /\ attach = "index" /\ attach' = "arm" /\ sessAcks' = sessAcks \cup {visiting}
          /\ UNCHANGED << pc, flush, visiting, closeVars, pending, armed, clientVars, storeVars >>
        BY <1>4 DEF FlushIndex
    <2>2. CASE visiting = m
        BY <2>1, <2>2
    <2>3. CASE visiting # m
        BY <2>1, <2>3, SameStep DEF Same
    <2>. QED
        BY <2>2, <2>3
<1>5. CASE FlushArm
    <2>1. /\ attach = "arm" /\ attach' = "flush" /\ armed' = armed \cup {visiting}
          /\ UNCHANGED << pc, flush, closeVars, pending, sessAcks, clientVars, storeVars >>
        BY <1>5 DEF FlushArm
    <2>2. CASE visiting = m
        BY <2>1, <2>2
    <2>3. CASE visiting # m
        BY <2>1, <2>3, SameStep DEF Same
    <2>. QED
        BY <2>2, <2>3
<1>6. CASE FlushEnd \/ Register \/ Kicked \/ \E c \in Conn : Activate(c)
    <2>1. /\ attach \notin {"index", "arm"} /\ attach' \notin {"index", "arm"}
          /\ UNCHANGED << pc, flush, closeVars, pending, sessAcks, armed, clientVars, storeVars >>
        BY <1>6 DEF FlushEnd, Register, Kicked, Activate
    <2>. QED
        BY <2>1, SameStep DEF Same
<1>7. CASE FlushBegin
    <2>1. /\ attach = "range" /\ attach' = "flush" /\ Pending \subseteq flush'
          /\ UNCHANGED << pc, closeVars, pending, sessAcks, armed, clientVars, storeVars >>
        BY <1>7 DEF FlushBegin
    <2>. QED
        BY <2>1 DEF Pending
<1>. QED
    BY <1>1, <1>2, <1>3, <1>4, <1>5, <1>6, <1>7 DEF Reconnect

\* Session.Close drops what is pending.
LEMMA CloseMsg ==
    ASSUME TypeInv, NEW m \in Msg, MsgInv(m), Close
    PROVE  MsgInv(m)'
<1>. TypeOK
    BY DEF TypeInv
<1>1. CASE CloseBegin
    BY <1>1 DEF CloseBegin
<1>2. CASE CloseUnregister
    BY <1>2 DEF CloseUnregister
<1>3. CASE CancelAllTake
    BY <1>3 DEF CancelAllTake
<1>4. ASSUME NEW n \in Msg, CancelAllCancel(n) PROVE MsgInv(m)'
    BY <1>4 DEF CancelAllCancel
<1>5. CASE CloseClear
    <2>1. /\ closing' = "done" /\ pending'[m] = None
          /\ m \in dropped' <=> m \in dropped \/ pending[m] # None
          /\ UNCHANGED << pc, connVars, sessAcks, armed, clientVars, storeVars >>
        BY <1>5 DEF CloseClear, Pending
    <2>. QED
        BY <2>1
<1>. QED
    BY <1>1, <1>2, <1>3, <1>4, <1>5 DEF Close

LEMMA ConnMsg ==
    ASSUME TypeInv, NEW m \in Msg, MsgInv(m),
           \E c \in Conn : Break(c) \/ Detach(c) \/ \E n \in Msg : Receive(c, n)
    PROVE  MsgInv(m)'
<1>1. /\ UNCHANGED << pc, attach, flush, visiting, closeVars, pending, sessAcks, armed,
                      ackPc, storeVars >>
      /\ received \subseteq received'
    BY DEF Break, Detach, Receive
<1>. QED
    BY <1>1, SameStep DEF Same

MsgInvs == \A m \in Msg : MsgInv(m)

LEMMA MsgInvariant ==
    Spec => []MsgInvs
<1>1. Init => MsgInvs
    BY ThreadCases DEF Init, MsgInvs
<1>2. TypeInv /\ MsgInvs /\ [Next]_vars => MsgInvs'
    <2>. SUFFICES ASSUME TypeInv, MsgInvs, [Next]_vars, NEW m \in Msg
                  PROVE  MsgInv(m)'
        BY DEF MsgInvs
    <2>. MsgInv(m)
        BY DEF MsgInvs
    <2>. HIDE DEF MsgInv
    <2>1. CASE UNCHANGED vars
        BY <2>1, SameStep DEF vars, Same, Visits
    <2>. QED
        BY <2>1, SubmitMsg, TimeoutMsg, AckMsg, ReconnectMsg, CloseMsg, ConnMsg DEF Next
<1>. QED
    BY <1>1, <1>2, TypeInvariant, PTL DEF Spec

\* A message that may be stored offline and was handed to Session.Submit has
\* been received or stored, or somebody will still retry or reject it, unless
\* its entry was pending when Close threw the map away or the store failed:
\* for any interleaving of Submit, the timer, Ack, a reconnecting client and
\* Close.
THEOREM LossCorrect ==
    Spec => []OnlyCloseOrStoreLoses
<1>1. ASSUME MsgInvs, NEW m \in Offline
      PROVE  \/ pc[WorkerOf(m)] = "idle"
             \/ m \in received \cup stored \cup dropped \cup failed
             \/ m \in Pending /\ m \in armed
             \/ InHand(m)
             \/ m \in Pending /\ closing = "cancel"
    <2>1. m \in Msg /\ MsgInv(m)
        BY <1>1, AckAssumption DEF MsgInvs
    <2>2. Busy(m) => InHand(m)
        BY <2>1 DEF InHand, Pending, WorkerOf
    <2>. QED
        BY <2>1, <2>2 DEF Pending
<1>2. MsgInvs => OnlyCloseOrStoreLoses
    BY <1>1, Zenon DEF OnlyCloseOrStoreLoses, WorkerOf
<1>. QED
    BY <1>2, MsgInvariant, PTL

\* As long as the session is not closed, an index entry of the scanner outlives
\* the timer of its message only while somebody is busy with the message.
THEOREM NoLeakCorrect ==
    Spec => []NoLeakedAckIndex
<1>1. ASSUME TypeOK, MsgInvs, NEW m \in sessAcks
      PROVE  \/ m \in armed
             \/ InHand(m) \/ pc[TimerOf(m)] = "unindex" \/ ackPc[m] # "idle"
             \/ closing # "new"
    <2>1. m \in Msg /\ MsgInv(m)
        BY <1>1 DEF MsgInvs, TypeOK
    <2>2. Busy(m) => InHand(m)
        BY <2>1 DEF InHand, Pending, WorkerOf
    <2>. QED
        BY <1>1, <2>1, <2>2
<1>2. TypeOK /\ MsgInvs => NoLeakedAckIndex
    BY <1>1 DEF NoLeakedAckIndex
<1>. QED
    BY <1>2, MsgInvariant, TypeCorrect, PTL

-----------------------------------------------------------------------------
(* The abstract specification: every step is a step of AtLeastOnce. *)

\* A message that a step settles is safe.
LEMMA SettledIsSafe ==
    ASSUME MsgInvs', NEW m \in Msg, Status(m)' = "settled", m \in Offline
    PROVE  m \in received' \cup stored' \cup (dropped' \cup failed')
<1>1. MsgInv(m)' /\ pc'[WorkerOf(m)] = "done" /\ pending'[m] = None
    BY DEF MsgInvs, Status, Forgotten, WorkerOf
<1>. QED
    BY <1>1

USE DEF WorkerOf
HIDE DEF MsgInv, IndexInv, Fresh, LossInv, Busy, Safe, Visits

\* A message that a goroutine submits, or whose entry exists, is open.
LEMMA SubmittedIsOpen ==
    ASSUME TypeOK, MsgInvs, NEW t \in Thread,
           pc[t] \in {"read", "enqueue", "store", "index", "arm", "reindex", "rearm"}
    PROVE  t[2] \in Msg /\ Status(t[2]) = "open"
<1>1. PICK m \in Msg : m = t[2] /\ (t = WorkerOf(m) \/ t = TimerOf(m))
    BY ThreadCases
<1>2. MsgInv(m)
    BY DEF MsgInvs
<1>3. CASE t = WorkerOf(m)
    BY <1>1, <1>3 DEF Status, Forgotten
<1>4. CASE t = TimerOf(m)
    <2>1. pc[WorkerOf(m)] # "idle"
        BY <1>2, <1>4 DEF MsgInv, IndexInv, Fresh
    <2>. QED
        BY <1>1, <1>4, <2>1 DEF Status, Forgotten
<1>. QED
    BY <1>1, <1>3, <1>4

LEMMA PendingIsOpen ==
    ASSUME MsgInvs, NEW m \in Msg, pending[m] # None
    PROVE  Status(m) = "open"
<1>1. MsgInv(m)
    BY DEF MsgInvs
<1>2. pc[WorkerOf(m)] # "idle"
    BY <1>1 DEF MsgInv, IndexInv, Fresh
<1>. QED
    BY <1>2 DEF Status, Forgotten

\* A step that at most settles message m, with or without storing it.
LEMMA OneMessage ==
    ASSUME MsgInvs', NEW m \in Msg,
           \A n \in Msg \ {m} : Status(n)' = Status(n),
           \/ Status(m)' = Status(m)
           \/ Status(m) = "open" /\ Status(m)' = "settled",
           \/ UNCHANGED storeVars
           \/ Status(m) = "open" /\ StoreOffline(m),
           UNCHANGED << queued, received, dropped >>
    PROVE  Abstract!Store(m) \/ Abstract!Settle(m) \/ UNCHANGED Abstract!vars
<1>1. PICK old, new :
        /\ old = [n \in Msg |-> Status(n)]
        /\ new = [n \in Msg |-> Status(n)']
    OBVIOUS
<1>2. new = old \/ (old[m] = "open" /\ new = [old EXCEPT ![m] = "settled"])
    BY <1>1
<1>3. CASE Status(m) = "open" /\ StoreOffline(m)
    <2>1. old[m] = "open" /\ new \in {old, [old EXCEPT ![m] = "settled"]}
        BY <1>1, <1>2, <1>3
    <2>. QED
        BY <1>1, <1>3, <2>1 DEF Abstract!Store, StoreOffline
<1>4. CASE UNCHANGED storeVars /\ new = old
    BY <1>1, <1>4 DEF Abstract!vars
<1>5. CASE UNCHANGED storeVars /\ old[m] = "open" /\ new = [old EXCEPT ![m] = "settled"]
    <2>1. Status(m)' = "settled"
        BY <1>1, <1>5
    <2>2. m \in Offline => m \in received' \cup stored' \cup (dropped' \cup failed')
        BY <2>1, SettledIsSafe
    <2>. QED
        BY <1>1, <1>5, <2>2 DEF Abstract!Settle
<1>. QED
    BY <1>2, <1>3, <1>4, <1>5

\* What Status reads.
LEMMA StatusKept ==
    ASSUME NEW n \in Msg, pc'[WorkerOf(n)] = pc[WorkerOf(n)],
           pc'[TimerOf(n)] = pc[TimerOf(n)], pending'[n] = pending[n]
    PROVE  Status(n)' = Status(n)
    BY DEF Status, Forgotten

\* An open message can only become settled.
LEMMA OpenStays ==
    ASSUME NEW m \in Msg, Status(m) = "open", pc'[WorkerOf(m)] # "idle"
    PROVE  Status(m)' = Status(m) \/ Status(m)' = "settled"
    BY DEF Status

LEMMA OthersKept ==
    ASSUME TypeOK, NEW t \in Thread, NEW b, pc' = [pc EXCEPT ![t] = b],
           \A n \in Msg \ {t[2]} : pending'[n] = pending[n]
    PROVE  \A n \in Msg \ {t[2]} : Status(n)' = Status(n)
<1>. SUFFICES ASSUME NEW n \in Msg \ {t[2]} PROVE Status(n)' = Status(n)
    OBVIOUS
<1>1. t # WorkerOf(n) /\ t # TimerOf(n)
    BY ThreadCases
<1>2. pc'[WorkerOf(n)] = pc[WorkerOf(n)] /\ pc'[TimerOf(n)] = pc[TimerOf(n)]
    BY <1>1, Moves
<1>. QED
    BY <1>2, StatusKept

LEMMA SubmitRefines ==
    ASSUME TypeInv, MsgInvs, MsgInvs', NEW t \in Thread, Submit(t)
    PROVE  [Abstract!Next]_(Abstract!vars)
<1>. TypeOK /\ PhaseInv
    BY DEF TypeInv
<1>1. pc[t] \in {"read", "enqueue", "store", "index", "arm", "reindex", "rearm"}
    BY DEF Submit, SubmitRead, Enqueue, EnqueueFails, StorePending, TrackIndex, TrackArm
<1>2. PICK m \in Msg : m = t[2] /\ Status(m) = "open"
    BY <1>1, SubmittedIsOpen
<1>3. PICK b : pc' = [pc EXCEPT ![t] = b] /\ b # "idle"
    BY DEF Submit, SubmitRead, Enqueue, EnqueueFails, StorePending, TrackIndex, TrackArm,
       Rejected, Tracked
<1>4. \A n \in Msg \ {m} : pending'[n] = pending[n]
    BY <1>2 DEF Submit, SubmitRead, Enqueue, EnqueueFails, StorePending, TrackIndex, TrackArm,
       TypeOK
<1>5. \A n \in Msg \ {m} : Status(n)' = Status(n)
    BY <1>2, <1>3, <1>4, OthersKept
<1>6. pc'[WorkerOf(m)] # "idle"
    <2>1. pc[WorkerOf(m)] # "idle"
        BY <1>2 DEF Status
    <2>. QED
        BY <1>3, <2>1, ThreadCases DEF TypeOK
<1>7. Status(m)' = Status(m) \/ Status(m)' = "settled"
    BY <1>2, <1>6, OpenStays
<1>8. CASE Enqueue(t)
    <2>1. held[t] \in Conn /\ queued' = queued \cup {<< held[t], m >>}
        BY <1>2, <1>8 DEF Enqueue, PhaseInv
    <2>2. Status(m)' = Status(m)
        <3>1. pc'[t] = "store" /\ pc'[WorkerOf(m)] # "idle" /\ (t = WorkerOf(m) \/ t = TimerOf(m))
            BY <1>2, <1>6, <1>8, ThreadCases DEF Enqueue, TypeOK
        <3>. QED
            BY <1>2, <3>1 DEF Status, Forgotten
    <2>3. [n \in Msg |-> Status(n)'] = [n \in Msg |-> Status(n)]
        BY <1>5, <2>2
    <2>4. Abstract!Send(held[t], m)
        BY <1>2, <1>8, <2>1, <2>3 DEF Enqueue, Abstract!Send
    <2>. QED
        BY <2>1, <2>4 DEF Abstract!Next
<1>9. CASE ~Enqueue(t)
    <2>1. /\ UNCHANGED storeVars \/ StoreOffline(m)
          /\ UNCHANGED << queued, received, dropped >>
        BY <1>2, <1>9 DEF Submit, SubmitRead, EnqueueFails, StorePending, TrackIndex, TrackArm
    <2>2. Abstract!Store(m) \/ Abstract!Settle(m) \/ UNCHANGED Abstract!vars
        BY <1>2, <1>5, <1>7, <2>1, OneMessage
    <2>. QED
        BY <2>2 DEF Abstract!Next
<1>. QED
    BY <1>8, <1>9

LEMMA TimeoutRefines ==
    ASSUME TypeInv, MsgInvs, MsgInvs', NEW m \in Msg, Deliver(m) \/ Timeout(m)
    PROVE  [Abstract!Next]_(Abstract!vars)
<1>. TypeOK /\ WorkerOf(m) \in Thread /\ TimerOf(m) \in Thread
    BY ThreadCases DEF TypeInv
<1>. USE DEF Deliver, Expire, TimeoutAcked, TimeoutRetry, TimeoutGiveUp, TimeoutUnindex
<1>1. CASE Deliver(m)
    <2>1. pc[WorkerOf(m)] = "idle" /\ pc' = [pc EXCEPT ![WorkerOf(m)] = "read"]
        BY <1>1
    <2>2. \A n \in Msg \ {m} : Status(n)' = Status(n)
        BY <1>1, <2>1, OthersKept, ThreadCases, ZenonT(40)
    <2>3. Status(m) = "new" /\ Status(m)' = "open"
        BY <2>1 DEF Status, Forgotten, TypeOK
    <2>4. [n \in Msg |-> Status(n)'] = [[n \in Msg |-> Status(n)] EXCEPT ![m] = "open"]
        BY <2>2, <2>3
    <2>5. Abstract!Accept(m)
        BY <1>1, <2>3, <2>4 DEF Abstract!Accept
    <2>. QED
        BY <2>5 DEF Abstract!Next
<1>2. CASE Timeout(m)
    <2>1. PICK b : pc' = [pc EXCEPT ![TimerOf(m)] = b]
        BY <1>2 DEF Timeout
    <2>2. \A n \in Msg \ {m} : pending'[n] = pending[n]
        BY <1>2 DEF Timeout, TypeOK
    <2>t. PICK t \in Thread : t = TimerOf(m) /\ t[2] = m
        BY ThreadCases
    <2>3. \A n \in Msg \ {m} : Status(n)' = Status(n)
        BY <2>1, <2>2, <2>t, OthersKept
    <2>4. pc'[WorkerOf(m)] = pc[WorkerOf(m)] /\ pc'[TimerOf(m)] = b
        BY <2>1, <2>t, ThreadCases DEF TypeOK
    <2>5. CASE Expire(m) \/ TimeoutAcked(m) \/ TimeoutUnindex(m)
        <3>1. /\ pc[TimerOf(m)] \in {"idle", "load", "unindex"}
              /\ pc'[TimerOf(m)] \in {"idle", "load", "unindex"}
              /\ UNCHANGED << pending, queued, received, storeVars, dropped >>
            BY <2>5 DEF TypeOK
        <3>2. Status(m)' = Status(m)
            BY <2>4, <3>1 DEF Status, Forgotten
        <3>. QED
            BY <2>3, <3>1, <3>2, OneMessage DEF Abstract!Next
    <2>6. CASE TimeoutRetry(m) \/ TimeoutGiveUp(m)
        <3>1. Status(m) = "open"
            BY <2>6, PendingIsOpen
        <3>2. pc'[WorkerOf(m)] # "idle"
            BY <2>4, <3>1 DEF Status
        <3>3. Status(m)' = Status(m) \/ Status(m)' = "settled"
            BY <3>1, <3>2, OpenStays
        <3>4. /\ UNCHANGED storeVars \/ StoreOffline(m)
              /\ UNCHANGED << queued, received, dropped >>
            BY <2>6
        <3>. QED
            BY <2>3, <3>1, <3>3, <3>4, OneMessage DEF Abstract!Next
    <2>. QED
        BY <1>2, <2>5, <2>6 DEF Timeout
<1>. QED
    BY <1>1, <1>2

LEMMA AckRefines ==
    ASSUME TypeInv, MsgInvs, MsgInvs', NEW m \in Msg, Ack(m) \/ AckCancel(m) \/ AckUnindex(m)
    PROVE  [Abstract!Next]_(Abstract!vars)
<1>. TypeOK
    BY DEF TypeInv
<1>1. /\ UNCHANGED << pc, queued, received, storeVars, dropped >>
      /\ \A n \in Msg \ {m} : pending'[n] = pending[n]
      /\ pending'[m] \in {None, pending[m]}
    BY DEF Ack, AckCancel, AckUnindex, TypeOK
<1>2. \A n \in Msg \ {m} : Status(n)' = Status(n)
    BY <1>1, StatusKept
<1>3. \/ Status(m)' = Status(m)
      \/ Status(m) = "open" /\ Status(m)' = "settled"
    BY <1>1 DEF Status, Forgotten
<1>. QED
    BY <1>1, <1>2, <1>3, OneMessage DEF Abstract!Next

LEMMA ReconnectRefines ==
    ASSUME TypeInv, MsgInvs, MsgInvs', Reconnect
    PROVE  UNCHANGED Abstract!vars
<1>. TypeOK
    BY DEF TypeInv
<1>1. /\ UNCHANGED << pc, queued, received, storeVars, dropped >>
      /\ \A n \in Msg : pending'[n] = None <=> pending[n] = None
    BY Numbers DEF Reconnect, Attach, FlushBegin, FlushVisit, FlushGone, FlushIndex, FlushArm,
       FlushEnd, Register, Kicked, Activate, TypeOK
<1>2. \A n \in Msg : Status(n)' = Status(n)
    BY <1>1 DEF Status, Forgotten
<1>. QED
    BY <1>1, <1>2 DEF Abstract!vars

LEMMA CloseRefines ==
    ASSUME TypeInv, MsgInvs, MsgInvs', Close
    PROVE  [Abstract!Next]_(Abstract!vars)
<1>1. CASE CloseClear
    <2>1. /\ UNCHANGED << pc, queued, received, storeVars >>
          /\ \A m \in Msg : pending'[m] = None
          /\ dropped' = dropped \cup Pending
        BY <1>1 DEF CloseClear
    <2>2. \A m \in Msg : \/ Status(m)' = Status(m)
                         \/ m \in Pending /\ Status(m)' = "settled"
        <3>. SUFFICES ASSUME NEW m \in Msg
                      PROVE  \/ Status(m)' = Status(m)
                             \/ m \in Pending /\ Status(m)' = "settled"
            OBVIOUS
        <3>1. pc' = pc /\ pending'[m] = None
            BY <2>1
        <3>. QED
            BY <3>1 DEF Status, Forgotten, Pending
    <2>. DEFINE old == [m \in Msg |-> Status(m)]
                S == {m \in Pending : Status(m)' = "settled"}
    <2>3. Pending \in SUBSET {m \in Msg : old[m] = "open"}
        BY PendingIsOpen DEF Pending
    <2>4. /\ S \in SUBSET Pending
          /\ [m \in Msg |-> Status(m)'] = [m \in Msg |-> IF m \in S THEN "settled" ELSE old[m]]
        BY <2>2 DEF Pending
    <2>5. dropped' \cup failed' = (dropped \cup failed) \cup Pending
        BY <1>1, <2>1
    <2>6. Abstract!Close
        BY <2>1, <2>3, <2>4, <2>5 DEF Abstract!Close
    <2>. QED
        BY <2>6 DEF Abstract!Next
<1>2. CASE ~CloseClear
    <2>1. UNCHANGED << pc, pending, queued, received, storeVars, dropped >>
        BY <1>2 DEF Close, CloseBegin, CloseUnregister, CancelAllTake, CancelAllCancel
    <2>2. \A m \in Msg : Status(m)' = Status(m)
        BY <2>1 DEF Status, Forgotten
    <2>. QED
        BY <2>1, <2>2 DEF Abstract!vars
<1>. QED
    BY <1>1, <1>2

LEMMA ConnRefines ==
    ASSUME NEW c \in Conn, Break(c) \/ Detach(c) \/ \E m \in Msg : Receive(c, m)
    PROVE  [Abstract!Next]_(Abstract!vars)
<1>1. UNCHANGED << pc, pending, storeVars, dropped >>
    BY DEF Break, Detach, Receive
<1>2. \A m \in Msg : Status(m)' = Status(m)
    BY <1>1 DEF Status, Forgotten
<1>3. [m \in Msg |-> Status(m)'] = [m \in Msg |-> Status(m)]
    BY <1>2
<1>4. CASE Break(c)
    <2>1. Abstract!Lose(c)
        BY <1>1, <1>3, <1>4 DEF Break, Abstract!Lose
    <2>. QED
        BY <2>1 DEF Abstract!Next
<1>5. CASE Detach(c)
    BY <1>1, <1>3, <1>5 DEF Detach, Abstract!vars
<1>6. ASSUME NEW m \in Msg, Receive(c, m) PROVE Abstract!Next
    <2>1. Abstract!Receive(c, m)
        BY <1>1, <1>3, <1>6 DEF Receive, Abstract!Receive
    <2>. QED
        BY <2>1 DEF Abstract!Next
<1>. QED
    BY <1>4, <1>5, <1>6

LEMMA RefinementStep ==
    TypeInv /\ MsgInvs /\ MsgInvs' /\ [Next]_vars => [Abstract!Next]_(Abstract!vars)
<1>1. UNCHANGED vars => UNCHANGED Abstract!vars
    BY DEF vars, Abstract!vars, Status, Forgotten
<1>. QED
    BY <1>1, SubmitRefines, TimeoutRefines, AckRefines, ReconnectRefines, CloseRefines,
       ConnRefines DEF Next

\* Submit, the ACK timer, Ack, reconnecting clients and Close together implement
\* at-least-once delivery: whatever their interleaving, a message is sent and
\* stored only until it is settled, it is settled once, and one that may be
\* stored offline is settled only when the client or the store has it, or Close
\* or a failing store lost it.
THEOREM DeliveryRefinement ==
    Spec => DeliversAtLeastOnce
<1>1. Init => Abstract!Init
    <2>1. Init => \A m \in Msg : Status(m) = "new"
        BY DEF Init, Status, Thread
    <2>. QED
        BY <2>1 DEF Init, Abstract!Init
<1>. QED
    BY <1>1, RefinementStep, TypeInvariant, MsgInvariant, PTL
       DEF Spec, DeliversAtLeastOnce, Abstract!Spec
==============================================================================
