------------------------------- MODULE Downlink ------------------------------
(***************************************************************************)
(* The way of a message from Kafka to the clients: a consumer fetches one  *)
(* partition and hands each message to a worker pool, whose workers run    *)
(* the downlink chain (validate, route, filter, fan out) and put it on the *)
(* write queues of the sessions it is for, or into the offline store.      *)
(*                                                                         *)
(* The sessions change underneath.  Attach, Register, LoseConn and Detach  *)
(* are the life cycle of SessionLifecycle with one connection at a time,   *)
(* a connection being the number of its session's handshake.  A crash of   *)
(* the process loses everything but the committed offset and the store.    *)
(* A *Message is shared by every queue it is on, and with it its SeqId.    *)
(* Acknowledgements and retries are the subject of AckDelivery.            *)
(***************************************************************************)
EXTENDS Naturals, Sequences, FiniteSets

CONSTANTS
    Session, Worker,
    MsgKind,     \* records [form, to, via, exclude, offline, qos, expires]
    Scenario,    \* records [log, conns, crashes]: the contents of the
                 \* partition, and how often each session may connect and the
                 \* process may crash
    MaxOffset,   \* messages in the partition
    ChanCap,     \* capacity of downstreamCh
    WriteCap,    \* capacity of writeCh
    MaxConn, MaxCrash

Form == {"ok",       \* decodes and has all its parts
         "poison",   \* proto.Unmarshal fails
         "nopool",   \* its BizCode has no pool
         "nodest",   \* To is nil
         "notrace",  \* TraceContext is nil
         "bare"}     \* Delivery is nil

ASSUME DownlinkAssumption ==
    /\ MsgKind \subseteq
         [form : Form, to : SUBSET Session, via : {"user", "room"},
          exclude : SUBSET Session, offline : BOOLEAN, qos : {0, 1},
          expires : BOOLEAN]
    /\ Scenario \subseteq
         [log : [1 .. MaxOffset -> MsgKind], conns : [Session -> 0 .. MaxConn],
          crashes : 0 .. MaxCrash]
    /\ MaxOffset \in Nat /\ MaxConn \in Nat /\ MaxCrash \in Nat
    /\ ChanCap \in Nat \ {0} /\ WriteCap \in Nat \ {0}
    /\ IsFiniteSet(Session) /\ Session # {}

Offset == 1 .. MaxOffset

(* Where Session.Submit is going to put the message, if it runs. *)
NoDest == << >>
Dest == (Session \X (1 .. MaxConn)) \cup {NoDest}

VARIABLES
    scene,       \* the scenario
    impl,        \* which of the two consumers runs
    committed,   \* the group's committed offset
    fetchPos,    \* the last offset fetched
    consumer,    \* "fetch" or "commit"
    downstreamCh,
    job,         \* [Worker -> Offset or 0]
    stage,       \* [Worker -> where downstreamWorker is]
    targets,     \* [Worker -> SUBSET Session]: resolved, not yet filtered
    filtered,    \* [Worker -> SUBSET Session]: TargetSessions left to submit
    dropped,     \* [Worker -> Nat]: FanOutResult.Dropped
    dest,        \* [Worker -> <<session, connection>>] inside Session.Submit
    state,       \* [Session -> Session.state]
    conn,        \* [Session -> 0 .. MaxConn]: Session.conn, 0 is nil
    active,      \* [Session -> 0 .. MaxConn]: the connection that IsActive
    made,        \* [Session -> 0 .. MaxConn]: connections made so far
    closedOnce,  \* sessions whose Close ran
    userConns,   \* sessions in the router's user index
    rooms,       \* sessions in the room index
    writeCh,     \* [Session -> Seq(Offset)]: queue of the connection
    nextSendSeq, \* [Session -> Nat]: of the current connection
    seqId,       \* [Offset -> Nat]: SeqId of the shared *Message
    stored,      \* offsets handed to the offline store
    received,    \* history: [Session -> set of <<offset, seqId>>], this connection
    accepted,    \* history: [Offset -> how often the pool accepted it]
    refused,     \* history: offsets fetched once without being handed to a pool
    put,         \* history: [Offset -> [Session -> how often it was queued]]
    owed,        \* history: [Offset -> SUBSET Session], what Resolve found last
    missed,      \* history: <<offset, session>> that the filter dropped as
                 \* not active, or that a panic or a crash lost
    crashes

log == scene.log

kafkaVars == << committed, fetchPos, consumer, accepted, refused >>
workVars  == << job, stage, targets, filtered, dropped, dest >>
sessVars  == << state, conn, active, made, closedOnce, userConns, rooms >>
sendVars  == << writeCh, nextSendSeq, seqId, received, put >>
vars == << scene, impl, kafkaVars, downstreamCh, workVars, sessVars, sendVars,
           stored, owed, missed, crashes >>

Stage == {"idle", "route", "filter", "offline", "fanout", "draw", "send"}

KafkaType ==
    /\ committed \in 0 .. MaxOffset
    /\ fetchPos \in committed .. MaxOffset
    /\ consumer \in {"fetch", "commit"}
    /\ consumer # "fetch" => fetchPos \in Offset
    /\ downstreamCh \in Seq(Offset) /\ Len(downstreamCh) <= ChanCap
    /\ accepted \in [Offset -> Nat] /\ refused \subseteq Offset

WorkType ==
    /\ job \in [Worker -> 0 .. MaxOffset]
    /\ stage \in [Worker -> Stage]
    /\ \A w \in Worker : (job[w] = 0) <=> (stage[w] = "idle")
    /\ targets \in [Worker -> SUBSET Session]
    /\ filtered \in [Worker -> SUBSET Session]
    /\ dropped \in [Worker -> 0 .. Cardinality(Session)]
    /\ dest \in [Worker -> Dest]

SessType ==
    /\ state \in [Session -> {"Authenticating", "Active", "Suspended", "Closed"}]
    /\ conn \in [Session -> 0 .. MaxConn]
    /\ active \in [Session -> 0 .. MaxConn]
    /\ made \in [Session -> 0 .. MaxConn]
    /\ closedOnce \subseteq Session
    /\ userConns \subseteq Session /\ rooms \subseteq Session

SendType ==
    /\ writeCh \in [Session -> Seq(Offset)]
    /\ \A s \in Session : Len(writeCh[s]) <= WriteCap
    /\ nextSendSeq \in [Session -> Nat]
    /\ seqId \in [Offset -> Nat]
    /\ received \in [Session -> SUBSET (Offset \X Nat)]
    /\ put \in [Offset -> [Session -> Nat]]

TypeOK ==
    /\ scene \in Scenario /\ impl \in {"group", "simple"}
    /\ KafkaType /\ WorkType /\ SessType /\ SendType
    /\ stored \subseteq Offset
    /\ owed \in [Offset -> SUBSET Session]
    /\ missed \subseteq Offset \X Session
    /\ crashes \in 0 .. MaxCrash

Init ==
    /\ scene \in Scenario
    /\ impl \in {"group", "simple"}
    /\ committed = 0 /\ fetchPos = 0 /\ consumer = "fetch"
    /\ downstreamCh = << >>
    /\ job = [w \in Worker |-> 0]
    /\ stage = [w \in Worker |-> "idle"]
    /\ targets = [w \in Worker |-> {}]
    /\ filtered = [w \in Worker |-> {}]
    /\ dropped = [w \in Worker |-> 0]
    /\ dest = [w \in Worker |-> NoDest]
    /\ state = [s \in Session |-> "Authenticating"]
    /\ conn = [s \in Session |-> 0]
    /\ active = [s \in Session |-> 0]
    /\ made = [s \in Session |-> 0]
    /\ closedOnce = {} /\ userConns = {} /\ rooms = {}
    /\ writeCh = [s \in Session |-> << >>]
    /\ nextSendSeq = [s \in Session |-> 0]
    /\ seqId = [m \in Offset |-> 0]
    /\ stored = {}
    /\ received = [s \in Session |-> {}]
    /\ accepted = [m \in Offset |-> 0] /\ refused = {}
    /\ put = [m \in Offset |-> [s \in Session |-> 0]]
    /\ owed = [m \in Offset |-> {}]
    /\ missed = {}
    /\ crashes = 0

-----------------------------------------------------------------------------
(* The consumers.  Both fetch in order and never go back before a restart. *)

(* WorkerPool.SubmitDownstream: a send that does not wait. *)
Accepts(m) == log[m].form \notin {"poison", "nopool"} /\ Len(downstreamCh) < ChanCap

(* Poison is committed by both consumers.  What has no pool, or a full one,
   the group consumer skips and the simple one commits. *)
AfterSubmit(m) ==
    IF Accepts(m) \/ log[m].form = "poison" \/ impl = "simple"
    THEN "commit" ELSE "fetch"

(* FetchMessage, Unmarshal, GetPool and SubmitDownstream; a crash after the
   fetch is the same as one before it. *)
Consume ==
    /\ consumer = "fetch" /\ fetchPos < MaxOffset
    /\ LET m == fetchPos + 1 IN
         /\ fetchPos' = m
         /\ consumer' = AfterSubmit(m)
         /\ IF Accepts(m)
            THEN /\ downstreamCh' = Append(downstreamCh, m)
                 /\ accepted' = [accepted EXCEPT ![m] = @ + 1]
                 /\ UNCHANGED refused
            ELSE /\ refused' = refused \cup {m}
                 /\ UNCHANGED << downstreamCh, accepted >>
    /\ UNCHANGED << scene, impl, committed, workVars, sessVars, sendVars, stored,
                    owed, missed, crashes >>

(* CommitMessages; an error is logged and the offset stays.  A commit covers
   every earlier offset, the refused ones included. *)
CommitMessages ==
    /\ consumer = "commit"
    /\ consumer' = "fetch"
    /\ committed' \in {committed, fetchPos}
    /\ UNCHANGED << scene, impl, fetchPos, accepted, refused, downstreamCh,
                    workVars, sessVars, sendVars, stored, owed, missed, crashes >>

-----------------------------------------------------------------------------
(* downstreamWorker and the stages of its chain. *)

Kind(w) == log[job[w]]

(* The worker is back in its select. *)
Finish(w) ==
    /\ job' = [job EXCEPT ![w] = 0]
    /\ stage' = [stage EXCEPT ![w] = "idle"]
    /\ targets' = [targets EXCEPT ![w] = {}]
    /\ filtered' = [filtered EXCEPT ![w] = {}]
    /\ dropped' = [dropped EXCEPT ![w] = 0]
    /\ dest' = [dest EXCEPT ![w] = NoDest]

GoTo(w, st) ==
    /\ stage' = [stage EXCEPT ![w] = st]
    /\ UNCHANGED << job, targets, filtered, dropped, dest >>

(* RecoverStage: what was left of the fan-out is abandoned. *)
Recovered(w) ==
    /\ Finish(w)
    /\ missed' = missed \cup ({job[w]} \X (targets[w] \cup filtered[w]))

(* The receive and ValidateStage.  A message without To is aborted, so is one
   that has expired by now; one without TraceContext panics. *)
TakeJob(w) ==
    /\ stage[w] = "idle" /\ downstreamCh # << >>
    /\ downstreamCh' = Tail(downstreamCh)
    /\ LET m == Head(downstreamCh)
           k == log[m] IN
         \/ /\ k.form \in {"nodest", "notrace"} \/ k.expires
            /\ UNCHANGED << job, stage >>
         \/ /\ k.form \notin {"nodest", "notrace"}
            /\ job' = [job EXCEPT ![w] = m]
            /\ stage' = [stage EXCEPT ![w] = "route"]
    /\ UNCHANGED << scene, impl, kafkaVars, targets, filtered, dropped, dest,
                    sessVars, sendVars, stored, owed, missed, crashes >>

(* LocalRouter.Resolve: users by userConns, rooms and topics by membership. *)
Resolve(k) == k.to \cap (IF k.via = "user" THEN userConns ELSE rooms)

Route(w) ==
    /\ stage[w] = "route"
    /\ LET found == Resolve(Kind(w)) IN
         /\ targets' = [targets EXCEPT ![w] = found]
         /\ stage' = [stage EXCEPT ![w] = IF found = {} THEN "offline" ELSE "filter"]
         /\ owed' = [owed EXCEPT ![job[w]] = found]
    /\ UNCHANGED << scene, impl, kafkaVars, downstreamCh, job, filtered, dropped,
                    dest, sessVars, sendVars, stored, missed, crashes >>

(* Fault: the x-exclude-conn header is ignored. *)
PassesEcho(k, s) == state[s] = "Active"

(* FilterStage looks at one session after the other. *)
Passes(k, s) == state[s] = "Active" /\ s \notin k.exclude

Filter(w) ==
    /\ stage[w] = "filter"
    /\ \E s \in targets[w] :
         LET pass == IF Passes(Kind(w), s) THEN filtered[w] \cup {s} ELSE filtered[w]
             last == targets[w] = {s} IN
         /\ missed' = IF state[s] # "Active" /\ s \notin Kind(w).exclude
                      THEN missed \cup {<< job[w], s >>} ELSE missed
         /\ IF last /\ pass = {}
            THEN Finish(w)
            ELSE /\ targets' = [targets EXCEPT ![w] = @ \ {s}]
                 /\ filtered' = [filtered EXCEPT ![w] = pass]
                 /\ stage' = [stage EXCEPT ![w] = IF last THEN "fanout" ELSE @]
                 /\ UNCHANGED << job, dropped, dest >>
    /\ UNCHANGED << scene, impl, kafkaVars, downstreamCh, sessVars, sendVars,
                    stored, owed, crashes >>

(* FanOutStage without a local session. *)
StoreOffline(w) ==
    /\ stage[w] = "offline"
    /\ Finish(w)
    /\ stored' = IF Kind(w).form # "bare" /\ Kind(w).offline /\ Kind(w).qos >= 1
                 THEN stored \cup {job[w]} ELSE stored
    /\ UNCHANGED << scene, impl, kafkaVars, downstreamCh, sessVars, sendVars,
                    owed, missed, crashes >>

-----------------------------------------------------------------------------
(* Session.Submit for one target of the fan-out. *)

(* Fault: a refused message is dropped. *)
KeepsNothing(k, drops) == FALSE

(* Submit returned false: handleUndelivered stores the message, and the
   fan-out once more for the first three refusals, whatever the QoS.  The
   panic of handleUndelivered on a message without Delivery ends the chain. *)
Keeps(k, drops) == k.offline /\ (k.qos = 1 \/ drops <= 3)

(* The loop over TargetSessions goes on to the next one, or ends. *)
NextTarget(w, s, drops) ==
    IF filtered[w] = {s} THEN Finish(w)
    ELSE /\ filtered' = [filtered EXCEPT ![w] = @ \ {s}]
         /\ dropped' = [dropped EXCEPT ![w] = drops]
         /\ dest' = [dest EXCEPT ![w] = NoDest]
         /\ stage' = [stage EXCEPT ![w] = "fanout"]
         /\ UNCHANGED << job, targets >>

Undelivered(w, s) ==
    IF Kind(w).form = "bare"
    THEN Recovered(w) /\ UNCHANGED stored
    ELSE /\ NextTarget(w, s, dropped[w] + 1)
         /\ stored' = IF Keeps(Kind(w), dropped[w] + 1)
                      THEN stored \cup {job[w]} ELSE stored
         /\ UNCHANGED missed

SubmitReadConn(w) ==
    /\ stage[w] = "fanout"
    /\ \E s \in filtered[w] :
         IF conn[s] = 0 \/ active[s] # conn[s]
         THEN Undelivered(w, s)
         ELSE /\ dest' = [dest EXCEPT ![w] = << s, conn[s] >>]
              /\ stage' = [stage EXCEPT ![w] = "draw"]
              /\ UNCHANGED << job, targets, filtered, dropped, stored, missed >>
    /\ UNCHANGED << scene, impl, kafkaVars, downstreamCh, sessVars, sendVars,
                    owed, crashes >>

(* Fault: the counter is read, not incremented. *)
DrawSeqLoads(w) ==
    /\ stage[w] = "draw"
    /\ seqId' = [seqId EXCEPT ![job[w]] = nextSendSeq[dest[w][1]] + 1]
    /\ GoTo(w, "send")
    /\ UNCHANGED << scene, impl, kafkaVars, downstreamCh, sessVars, writeCh,
                    nextSendSeq, received, put, stored, owed,
                    missed, crashes >>

(* Connection.Submit looks whether the connection is active, draws the number
   and writes it into the message.  The number of a connection that was
   replaced meanwhile is not followed. *)
DrawSeq(w) ==
    /\ stage[w] = "draw"
    /\ LET s == dest[w][1] IN
         IF active[s] # dest[w][2]
         THEN /\ Undelivered(w, s)
              /\ UNCHANGED sendVars
         ELSE /\ nextSendSeq' = [nextSendSeq EXCEPT ![s] = @ + 1]
              /\ seqId' = [seqId EXCEPT ![job[w]] = nextSendSeq[s] + 1]
              /\ GoTo(w, "send")
              /\ UNCHANGED << writeCh, received, put, stored,
                              missed >>
    /\ UNCHANGED << scene, impl, kafkaVars, downstreamCh, sessVars, owed,
                    crashes >>

(* Fault: the send waits for room in the queue, for ever once it is closed. *)
EnqueueBlocks(w) ==
    /\ stage[w] = "send"
    /\ LET s == dest[w][1] IN
         /\ made[s] = dest[w][2] /\ Len(writeCh[s]) < WriteCap
         /\ writeCh' = [writeCh EXCEPT ![s] = Append(@, job[w])]
         /\ put' = [put EXCEPT ![job[w]][s] = @ + 1]
         /\ NextTarget(w, s, dropped[w])
    /\ UNCHANGED << scene, impl, kafkaVars, downstreamCh, sessVars, nextSendSeq,
                    seqId, received, stored, owed, missed,
                    crashes >>

(* The non-blocking send.  The queue of a closed connection still takes it:
   whether there is room in it is not followed. *)
Enqueue(w) ==
    /\ stage[w] = "send"
    /\ LET s == dest[w][1]  gone == made[s] # dest[w][2] IN
         \/ /\ gone \/ Len(writeCh[s]) < WriteCap
            /\ writeCh' = IF gone THEN writeCh
                          ELSE [writeCh EXCEPT ![s] = Append(@, job[w])]
            /\ put' = [put EXCEPT ![job[w]][s] = @ + 1]
            /\ NextTarget(w, s, dropped[w])
            /\ UNCHANGED << nextSendSeq, seqId, received,
                            stored, missed >>
         \/ /\ gone \/ Len(writeCh[s]) = WriteCap
            /\ Undelivered(w, s)
            /\ UNCHANGED sendVars
    /\ UNCHANGED << scene, impl, kafkaVars, downstreamCh, sessVars, owed,
                    crashes >>

-----------------------------------------------------------------------------
(* Connections of the sessions. *)

(* AttachConn: the connection is set, the state Active, the rooms restored. *)
Attach(s) ==
    /\ conn[s] = 0 /\ made[s] < scene.conns[s]
    /\ made' = [made EXCEPT ![s] = @ + 1]
    /\ conn' = [conn EXCEPT ![s] = made[s] + 1]
    /\ state' = [state EXCEPT ![s] = "Active"]
    /\ rooms' = rooms \cup {s}
    /\ writeCh' = [writeCh EXCEPT ![s] = << >>]
    /\ nextSendSeq' = [nextSendSeq EXCEPT ![s] = 0]
    /\ received' = [received EXCEPT ![s] = {}]
    /\ UNCHANGED << scene, impl, kafkaVars, downstreamCh, workVars, active,
                    closedOnce, userConns, seqId, put,
                    stored, owed, missed, crashes >>

(* RegisterSession, and the Session.Close of the session that the device
   index already had, which is this one; then Activate. *)
Register(s) ==
    /\ conn[s] # 0 /\ active[s] = 0
    /\ LET kicks == s \in userConns /\ s \notin closedOnce IN
         /\ closedOnce' = IF s \in userConns THEN closedOnce \cup {s} ELSE closedOnce
         /\ state' = IF kicks THEN [state EXCEPT ![s] = "Closed"] ELSE state
         /\ userConns' = IF kicks THEN userConns \ {s} ELSE userConns \cup {s}
         /\ rooms' = IF kicks THEN rooms \ {s} ELSE rooms
    /\ active' = [active EXCEPT ![s] = conn[s]]
    /\ UNCHANGED << scene, impl, kafkaVars, downstreamCh, workVars, conn, made,
                    sendVars, stored, owed, missed, crashes >>

(* writeLoop: the codec reads the SeqId the message has at that moment. *)
Write(s) ==
    /\ active[s] # 0 /\ writeCh[s] # << >>
    /\ LET m == Head(writeCh[s]) IN
         received' = [received EXCEPT ![s] = @ \cup {<< m, seqId[m] >>}]
    /\ writeCh' = [writeCh EXCEPT ![s] = Tail(@)]
    /\ UNCHANGED << scene, impl, kafkaVars, downstreamCh, workVars, sessVars,
                    nextSendSeq, seqId, put, stored, owed,
                    missed, crashes >>

(* Run's deferred function: the connection is Closed, then DetachConn. *)
LoseConn(s) ==
    /\ active[s] # 0
    /\ active' = [active EXCEPT ![s] = 0]
    /\ conn' = [conn EXCEPT ![s] = 0]
    /\ state' = [state EXCEPT ![s] = "Suspended"]
    /\ rooms' = rooms \ {s}
    /\ UNCHANGED << scene, impl, kafkaVars, downstreamCh, workVars, made,
                    closedOnce, userConns, sendVars, stored, owed, missed, crashes >>

-----------------------------------------------------------------------------
(* The process dies and is started again: the consumer group resumes behind
   the committed offset, the clients connect anew. *)
Lost == { m \in Offset : (\E i \in DOMAIN downstreamCh : downstreamCh[i] = m)
                           \/ (\E w \in Worker : job[w] = m) }

Crash ==
    /\ crashes < scene.crashes
    /\ crashes' = crashes + 1
    /\ fetchPos' = committed /\ consumer' = "fetch"
    /\ downstreamCh' = << >>
    /\ missed' = missed \cup (Lost \X Session)
    /\ job' = [w \in Worker |-> 0]
    /\ stage' = [w \in Worker |-> "idle"]
    /\ targets' = [w \in Worker |-> {}]
    /\ filtered' = [w \in Worker |-> {}]
    /\ dropped' = [w \in Worker |-> 0]
    /\ dest' = [w \in Worker |-> NoDest]
    /\ state' = [s \in Session |-> "Authenticating"]
    /\ conn' = [s \in Session |-> 0]
    /\ active' = [s \in Session |-> 0]
    /\ closedOnce' = {} /\ userConns' = {} /\ rooms' = {}
    /\ writeCh' = [s \in Session |-> << >>]
    /\ nextSendSeq' = [s \in Session |-> 0]
    /\ seqId' = [m \in Offset |-> 0]
    /\ received' = [s \in Session |-> {}]
    /\ UNCHANGED << scene, impl, committed, accepted, refused, made, put, stored,
                    owed >>

ConsumerStep == Consume \/ CommitMessages

WorkerStep(w) ==
    \/ TakeJob(w) \/ Route(w) \/ Filter(w) \/ StoreOffline(w)
    \/ SubmitReadConn(w) \/ DrawSeq(w) \/ Enqueue(w)

Next ==
    \/ ConsumerStep
    \/ \E w \in Worker : WorkerStep(w)
    \/ \E s \in Session : Attach(s) \/ Register(s) \/ Write(s) \/ LoseConn(s)
    \/ Crash

(* The consumer and the workers keep running; no client, and no writeLoop,
   is assumed to make progress. *)
Spec ==
    /\ Init /\ [][Next]_vars
    /\ WF_vars(ConsumerStep)
    /\ \A w \in Worker : WF_vars(WorkerStep(w))

-----------------------------------------------------------------------------
(* Properties. *)

InFlight(m) == m \in Lost

(* A message that may be kept (QoS 1, Offline), that was fetched and that is
   in nobody's hands was stored when Resolve found nobody, and otherwise every
   session found got it, or it was stored because one did not.  The losses the
   code does have are named one by one: a pool that is missing or full, from
   where a message comes back only when the process restarts before a later
   offset is committed; the echo filter; a session that was not Active when
   the filter looked at it; a chain that a panic or a crash cut short. *)
LossIsExplained ==
    \A m \in Offset :
      LET k == log[m] IN
      /\ k.form \in {"ok", "nopool"} /\ k.offline /\ k.qos = 1 /\ ~k.expires
      /\ m <= fetchPos \/ accepted[m] > 0
      /\ ~InFlight(m)
      => \/ accepted[m] = 0 /\ m \in refused
         \/ m \in stored
         \/ owed[m] = {} /\ \E s \in Session : << m, s >> \in missed
         \/ /\ owed[m] # {}
            /\ \A s \in owed[m] \ k.exclude : put[m][s] > 0 \/ << m, s >> \in missed

Addressed(m) == log[m].to \ log[m].exclude

(* The sessions worker w may still submit its message to. *)
Left(w) ==
    IF stage[w] = "route" THEN Addressed(job[w])
    ELSE (targets[w] \cup filtered[w]) \ Kind(w).exclude

Due(m) ==
    { s \in Session :
        \/ s \in Addressed(m) /\ \E i \in DOMAIN downstreamCh : downstreamCh[i] = m
        \/ \E w \in Worker : job[w] = m /\ s \in Left(w) }

Abstract == INSTANCE Fanout WITH
    Message <- Offset, Receiver <- Session,
    wanted <- [m \in Offset |-> Addressed(m)],
    position <- fetchPos, held <- Lost,
    due <- [m \in Offset |-> Due(m)], copies <- put, kept <- stored

(* Consumer, channel and workers together fan a partition out: in the order
   of the partition each message is taken on once until a crash, each session
   it is for gets one copy of it or none, though sessions come and go while
   the workers resolve, filter and submit, and no message is put into the
   offline store before it was taken on or after it was done with. *)
FansOutOnce == Abstract!Spec

(* A message reaches only sessions it is addressed to and that the echo
   filter lets through, and each of them at most once for every time the pool
   accepted it, whatever connections it goes over. *)
RightRecipients ==
    \A m \in Offset, s \in Session : put[m][s] > 0 =>
      /\ s \in log[m].to \ log[m].exclude
      /\ put[m][s] <= accepted[m]

(* Messages for one session only carry different sequence numbers on every
   connection, though workers draw them concurrently.  A fanned-out message
   has a single SeqId field for all its receivers and is excluded. *)
UnicastSeqIdsDiffer ==
    \A s \in Session : \A p, q \in received[s] :
      /\ p # q
      /\ Cardinality(log[p[1]].to) = 1 /\ Cardinality(log[q[1]].to) = 1
      => p[2] # q[2]

(* A client that never reads delays nobody: the consumer reaches the end of
   the partition and the workers finish what they took, again and again,
   though no writeLoop is assumed to run. *)
SlowClientsDelayNobody ==
    []<>(/\ fetchPos = MaxOffset /\ consumer = "fetch"
         /\ downstreamCh = << >> /\ \A w \in Worker : stage[w] = "idle")
=============================================================================
