-------------------------------- MODULE Uplink -------------------------------
(***************************************************************************)
(* The way of a frame from a client to Kafka: the readLoop decodes it and  *)
(* dispatches it by its type; a business frame runs through the uplink     *)
(* chain, is queued for a worker pool and sent by one of its workers.  The *)
(* client is answered with an error frame where the chain or the sender    *)
(* refuses.  The pool may be stopped at any moment.                        *)
(*                                                                         *)
(* A frame is the number of its arrival.  The session has one connection   *)
(* at a time and may be without; frames that are not for a pool share the  *)
(* readLoop and the write queue with the others.  A panic that no Recover  *)
(* stage catches ends the process.                                         *)
(***************************************************************************)
EXTENDS Naturals, Sequences, FiniteSets

CONSTANTS
    Worker,
    Scenario,   \* records [frames, wired, limiter, workers]: what the client
                \* sends, whether the session has a worker manager, whether
                \* there is a rate limiter, and the pool's upstream workers
    MaxFrame,   \* frames of a scenario
    ChanCap,    \* capacity of upstreamCh
    WriteCap    \* capacity of writeCh

FrameKind ==
    [type : {"garbage", "PING", "KICK", "BUSINESS", "other"},
     id : {"none", "short", "long"},        \* MsgId; short is under 8 bytes
     trace : {"nil", "empty", "set"},       \* TraceContext and its TraceId
     biz : {"none", "unknown", "known"},    \* BizCode of message and session
     expires : BOOLEAN]                     \* whether ExpireAt can pass

ASSUME UplinkAssumption ==
    /\ MaxFrame \in Nat /\ IsFiniteSet(Worker)
    /\ \A e \in Scenario :
         /\ e.frames \in Seq(FrameKind) /\ Len(e.frames) <= MaxFrame
         /\ e.wired \in BOOLEAN /\ e.limiter \in BOOLEAN
         /\ e.workers \subseteq Worker
    /\ ChanCap \in Nat \ {0} /\ WriteCap \in Nat \ {0}

Frame == 1 .. MaxFrame

Reply == {"PONG", "KICK", "4001", "4290", "5000", "5001"}

Written == Frame \X (Reply \cup {"UPSTREAM_SEND_FAILED"})

VARIABLES
    scene,
    arrived,     \* frames the readLoop has read
    connected,   \* the session has a connection, which is Active
    reader,      \* "read", "validate", "limit", "submit" or "reply"
    reply,       \* the answer the reader is about to submit
    upstreamCh,
    pool,        \* how far Stop has come
    consuming,   \* a Kafka consumer submits to the pool's downstreamCh
    job,         \* [Worker -> frame, or 0]
    step,        \* [Worker -> where upstreamWorker is]
    writeCh,     \* Seq(<<frame, answer>>)
    process,
    outcome,     \* history: [Frame -> Seq of what became of it]
    forwarded    \* history: frames in the order the Kafka writer got them

readVars == << arrived, reader, reply >>
poolVars == << upstreamCh, pool, consuming >>
workVars == << job, step >>
histVars == << outcome, forwarded >>
vars == << scene, connected, readVars, poolVars, workVars, writeCh, process,
           histVars >>

Outcome == {"dropped", "refused", "forwarded", "failed"}

TypeOK ==
    /\ scene \in Scenario
    /\ arrived \in 0 .. Len(scene.frames)
    /\ connected \in BOOLEAN
    /\ reader \in {"read", "validate", "limit", "submit", "reply"}
    /\ reply \in Reply \cup {""}
    /\ (reader = "reply") <=> (reply # "")
    /\ reader # "read" => connected /\ arrived > 0
    /\ upstreamCh \in Seq(Frame) /\ Len(upstreamCh) <= ChanCap
    /\ pool \in {"running", "cancelled", "upClosed", "stopped"}
    /\ consuming \in BOOLEAN
    /\ job \in [Worker -> 0 .. MaxFrame]
    /\ step \in [Worker -> {"idle", "send", "error", "gone"}]
    /\ \A w \in Worker : (job[w] = 0) <=> (step[w] \in {"idle", "gone"})
    /\ writeCh \in Seq(Written) /\ Len(writeCh) <= WriteCap
    /\ process \in {"up", "dead"}
    /\ outcome \in [Frame -> Seq(Outcome)]
    /\ forwarded \in Seq(Frame)

Init ==
    /\ scene \in Scenario
    /\ arrived = 0 /\ connected = FALSE
    /\ reader = "read" /\ reply = ""
    /\ upstreamCh = << >> /\ pool = "running" /\ consuming = TRUE
    /\ job = [w \in Worker |-> 0]
    /\ step = [w \in Worker |-> IF w \in scene.workers THEN "idle" ELSE "gone"]
    /\ writeCh = << >>
    /\ process = "up"
    /\ outcome = [f \in Frame |-> << >>]
    /\ forwarded = << >>

-----------------------------------------------------------------------------
(* The connection. *)

Attach ==
    /\ ~connected /\ arrived < Len(scene.frames)
    /\ connected' = TRUE
    /\ writeCh' = << >>
    /\ UNCHANGED << scene, readVars, poolVars, workVars, process, histVars >>

(* The readLoop returned, the writeLoop too, and the session is detached. *)
LoseConn ==
    /\ connected /\ reader = "read"
    /\ connected' = FALSE
    /\ writeCh' = << >>
    /\ UNCHANGED << scene, readVars, poolVars, workVars, process, histVars >>

Write ==
    /\ connected /\ writeCh # << >>
    /\ writeCh' = Tail(writeCh)
    /\ UNCHANGED << scene, connected, readVars, poolVars, workVars, process,
                    histVars >>

(* Connection.Submit: dropped when the queue is full. *)
Queued(f, what) ==
    writeCh' = IF connected /\ Len(writeCh) < WriteCap
               THEN Append(writeCh, << f, what >>) ELSE writeCh

-----------------------------------------------------------------------------
(* readLoop, Dispatch and the handlers. *)

Cur == scene.frames[arrived]

Settle(f, what) == outcome' = [outcome EXCEPT ![f] = Append(@, what)]

Answer(code) == reader' = "reply" /\ reply' = code

(* Decode, the expiry check and the handler of the type.  A type without a
   handler calls the fallback, which is nil; LogoutHandler reads TraceContext
   unchecked.  Neither is under a Recover stage. *)
Fatal(k) == k.type = "other" \/ (k.type = "KICK" /\ k.trace = "nil")

ReadFrame ==
    /\ connected /\ reader = "read" /\ arrived < Len(scene.frames)
    /\ arrived' = arrived + 1
    /\ LET k == scene.frames[arrived + 1] IN
         \/ /\ k.type = "garbage" \/ k.expires
            /\ Settle(arrived + 1, "dropped")
            /\ UNCHANGED << reader, reply, process >>
         \/ /\ k.type # "garbage" /\ Fatal(k)
            /\ process' = "dead"
            /\ UNCHANGED << reader, reply, outcome >>
         \/ /\ k.type \in {"PING", "KICK"} /\ ~Fatal(k)
            /\ Answer(IF k.type = "PING" THEN "PONG" ELSE "KICK")
            /\ UNCHANGED << process, outcome >>
         \/ /\ k.type = "BUSINESS"
            /\ reader' = "validate"
            /\ UNCHANGED << reply, process, outcome >>
    /\ UNCHANGED << scene, connected, poolVars, workVars, writeCh, forwarded >>

(* conn.Submit of the answer; Session.Close after a logout answer leaves the
   connection as it is. *)
SubmitReply ==
    /\ reader = "reply"
    /\ Queued(arrived, reply)
    /\ IF reply \in {"PONG", "KICK"} THEN UNCHANGED outcome
       ELSE Settle(arrived, "refused")
    /\ reader' = "read" /\ reply' = ""
    /\ UNCHANGED << scene, arrived, connected, poolVars, workVars, process,
                    forwarded >>

-----------------------------------------------------------------------------
(* The stages of the uplink chain. *)

(* A connection is Active from before its readLoop starts until after it
   ended, so that the stage's answer 4010 never occurs. *)
ValidateStage ==
    /\ reader = "validate"
    /\ \/ /\ Cur.id = "none"
          /\ Answer("4001")
          /\ UNCHANGED outcome
       \/ /\ Cur.id # "none" /\ Cur.expires
          /\ Settle(arrived, "dropped")
          /\ reader' = "read" /\ UNCHANGED reply
       \/ /\ Cur.id # "none"
          /\ reader' = "limit"
          /\ UNCHANGED << reply, outcome >>
    /\ UNCHANGED << scene, arrived, connected, poolVars, workVars, writeCh,
                    process, forwarded >>

(* Fault: a panic in a stage is not recovered. *)
OnPanicDies == process' = "dead" /\ reader' = "read" /\ UNCHANGED reply

(* RecoverStage. *)
OnPanic == Answer("5000") /\ UNCHANGED process

(* RateLimitStage and TraceStage, which panics on a missing TraceContext and
   on a MsgId that is too short to be made a trace id. *)
TracePanics == Cur.trace = "nil" \/ (Cur.trace = "empty" /\ Cur.id = "short")

LimitAndTrace ==
    /\ reader = "limit"
    /\ \/ /\ scene.limiter
          /\ Answer("4290")
          /\ UNCHANGED process
       \/ /\ TracePanics
          /\ OnPanic
       \/ /\ ~TracePanics
          /\ reader' = "submit"
          /\ UNCHANGED << reply, process >>
    /\ UNCHANGED << scene, arrived, connected, poolVars, workVars, writeCh,
                    histVars >>

(* What Session.SubmitUpstream, Manager.SubmitUpstream and the pool do with
   the frame: no business code, no manager (a nil interface), no pool, a
   closed channel, a full one. *)
Submission ==
    CASE Cur.biz = "none"                      -> "error"
      [] Cur.biz # "none" /\ ~scene.wired      -> "panic"
      [] Cur.biz = "unknown" /\ scene.wired    -> "error"
      [] Cur.biz = "known" /\ scene.wired      ->
           IF pool \in {"upClosed", "stopped"} THEN "panic"
           ELSE IF Len(upstreamCh) = ChanCap THEN "error" ELSE "queued"

(* Fault: the frame is answered with an error though it was queued. *)
SubmitStageAnswers ==
    /\ reader = "submit"
    /\ Submission = "queued"
    /\ upstreamCh' = Append(upstreamCh, arrived)
    /\ Answer("5001")
    /\ UNCHANGED << scene, arrived, connected, pool, consuming, workVars,
                    writeCh, process, histVars >>

SubmitStage ==
    /\ reader = "submit"
    /\ \/ /\ Submission = "queued"
          /\ upstreamCh' = Append(upstreamCh, arrived)
          /\ reader' = "read"
          /\ UNCHANGED << reply, process >>
       \/ /\ Submission = "error"
          /\ Answer("5001")
          /\ UNCHANGED << upstreamCh, process >>
       \/ /\ Submission = "panic"
          /\ OnPanic
          /\ UNCHANGED upstreamCh
    /\ UNCHANGED << scene, arrived, connected, pool, consuming, workVars,
                    writeCh, histVars >>

-----------------------------------------------------------------------------
(* upstreamWorker. *)

(* A channel hands out the job that waited longest. *)
Receive(f) ==
    /\ upstreamCh # << >>
    /\ f = Head(upstreamCh)
    /\ upstreamCh' = Tail(upstreamCh)

(* The receive and the expiry check.  A closed and empty channel yields a job
   without a message, which upstreamWorker reads all the same. *)
TakeJob(w) ==
    /\ step[w] = "idle"
    /\ \/ /\ \E f \in Frame :
               /\ Receive(f)
               /\ \/ /\ scene.frames[f].expires
                     /\ Settle(f, "dropped")
                     /\ UNCHANGED workVars
                  \/ /\ job' = [job EXCEPT ![w] = f]
                     /\ step' = [step EXCEPT ![w] = "send"]
                     /\ UNCHANGED outcome
          /\ UNCHANGED process
       \/ /\ upstreamCh = << >> /\ pool \in {"upClosed", "stopped"}
          /\ process' = "dead"
          /\ UNCHANGED << upstreamCh, workVars, outcome >>
    /\ UNCHANGED << scene, connected, readVars, pool, consuming, writeCh,
                    forwarded >>

(* ctx.Done is ready after Stop cancelled the pool's context. *)
Leave(w) ==
    /\ step[w] = "idle" /\ pool # "running"
    /\ step' = [step EXCEPT ![w] = "gone"]
    /\ UNCHANGED << scene, connected, readVars, poolVars, job, writeCh, process,
                    histVars >>

(* Sender.Send.  The Kafka writer is asynchronous: success means that it took
   the frame, not that a broker has it.  The partition is chosen by MsgId. *)
Send(w) ==
    /\ step[w] = "send"
    /\ \/ /\ Settle(job[w], "forwarded")
          /\ forwarded' = Append(forwarded, job[w])
          /\ job' = [job EXCEPT ![w] = 0]
          /\ step' = [step EXCEPT ![w] = "idle"]
       \/ /\ step' = [step EXCEPT ![w] = "error"]
          /\ UNCHANGED << job, histVars >>
    /\ UNCHANGED << scene, connected, readVars, poolVars, writeCh, process >>

(* Fault: the worker ends after a failed send. *)
ReportErrorReturns(w) ==
    /\ step[w] = "error"
    /\ Queued(job[w], "UPSTREAM_SEND_FAILED")
    /\ Settle(job[w], "failed")
    /\ job' = [job EXCEPT ![w] = 0]
    /\ step' = [step EXCEPT ![w] = "gone"]
    /\ UNCHANGED << scene, connected, readVars, poolVars, process, forwarded >>

(* The error goes to whatever connection the session has by now; without
   one, or with a full queue, it is dropped (the error frame is not Offline). *)
ReportError(w) ==
    /\ step[w] = "error"
    /\ Queued(job[w], "UPSTREAM_SEND_FAILED")
    /\ Settle(job[w], "failed")
    /\ job' = [job EXCEPT ![w] = 0]
    /\ step' = [step EXCEPT ![w] = "idle"]
    /\ UNCHANGED << scene, connected, readVars, poolVars, process, forwarded >>

-----------------------------------------------------------------------------
(* WorkerPool.Stop: cancel, close upstreamCh, close downstreamCh.  wg.Wait
   does not wait, since every worker called Done when it started. *)
Stop ==
    /\ pool # "stopped"
    /\ pool' = CASE pool = "running"   -> "cancelled"
                 [] pool = "cancelled" -> "upClosed"
                 [] pool = "upClosed"  -> "stopped"
    /\ UNCHANGED << scene, connected, readVars, upstreamCh, consuming, workVars,
                    writeCh, process, histVars >>

(* SubmitDownstream by a consumer: on a closed channel the send panics, and
   nothing recovers it.  A downstream worker that receives from the closed
   channel gets a job without a message, which the chain aborts. *)
ConsumerSubmits ==
    /\ consuming
    /\ pool = "stopped"
    /\ process' = "dead"
    /\ UNCHANGED << scene, connected, readVars, poolVars, workVars, writeCh,
                    histVars >>

ConsumerEnds ==
    /\ consuming
    /\ consuming' = FALSE
    /\ UNCHANGED << scene, connected, readVars, upstreamCh, pool, workVars,
                    writeCh, process, histVars >>

ReaderStep == ValidateStage \/ LimitAndTrace \/ SubmitStage \/ SubmitReply

WorkerStep(w) == TakeJob(w) \/ Leave(w) \/ Send(w) \/ ReportError(w)

Next ==
    /\ process = "up"
    /\ \/ Attach \/ LoseConn \/ Write \/ ReadFrame \/ ReaderStep
       \/ \E w \in Worker : WorkerStep(w)
       \/ Stop \/ ConsumerSubmits \/ ConsumerEnds

(* The goroutines that have something to do run; clients and Stop need not. *)
Spec ==
    /\ Init /\ [][Next]_vars
    /\ WF_vars(process = "up" /\ ReaderStep)
    /\ \A w \in Worker : WF_vars(process = "up" /\ WorkerStep(w))

-----------------------------------------------------------------------------
(* Properties. *)

InHand(f) ==
    \/ f = arrived /\ reader # "read"
    \/ f \in { upstreamCh[i] : i \in DOMAIN upstreamCh }
    \/ f \in { job[w] : w \in Worker }

(* Every business frame that was read and is in nobody's hands has exactly
   one outcome: dropped, answered with an error, forwarded, or
   failed in the sender.  In particular no refused frame reaches Kafka, whose
   sender would resend it, and none vanishes between the goroutines. *)
ExactlyOneOutcome ==
    \A f \in 1 .. arrived :
      scene.frames[f].type = "BUSINESS" /\ ~InHand(f) /\ process = "up"
        => Len(outcome[f]) = 1

(* Whatever a business frame lacks, it cannot bring the process down: that
   takes a type without a handler, a logout without a trace context, or a
   pool that was stopped under its workers and submitters. *)
BusinessFramesAreHarmless ==
    process = "dead" => \/ pool # "running"
                        \/ \E f \in 1 .. arrived : Fatal(scene.frames[f])

(* What has become of frame f, told from where it is. *)
Fate(f) ==
    CASE outcome[f] # << >>                -> outcome[f][Len(outcome[f])]
      [] outcome[f] = << >> /\ f > arrived -> "new"
      [] outcome[f] = << >> /\ f <= arrived ->
           IF f = arrived /\ reader # "read" THEN "offered"
           ELSE IF InHand(f) THEN "accepted" ELSE "handled"

Abstract == INSTANCE Relay WITH
    relayed <- { f \in Frame : f <= Len(scene.frames)
                                 /\ scene.frames[f].type = "BUSINESS" },
    fate <- [f \in Frame |-> Fate(f)],
    log <- forwarded

(* The reader, the channel and any number of workers together relay each
   frame at most once: a frame the pool accepted is never refused to the
   client, a refused or expired one never reaches Kafka, and none has two
   fates, whatever connections come and go and wherever Stop falls.  An
   accepted frame may be overtaken: nothing keeps the order of a sender. *)
RelaysAtMostOnce == Abstract!Spec

(* While the pool runs, a frame that it accepted is eventually sent, failed
   or expired, though its client may be gone and never read an answer. *)
AcceptedIsSettled ==
    \A f \in Frame :
      f \in { upstreamCh[i] : i \in DOMAIN upstreamCh }
        ~> outcome[f] # << >> \/ pool # "running" \/ process = "dead"
=============================================================================
