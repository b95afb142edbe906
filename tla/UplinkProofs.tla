---------------------------- MODULE UplinkProofs -----------------------------
(***************************************************************************)
(* Proofs about the uplink, for any scenario, any number of workers and    *)
(* any capacities: type correctness, that business frames do not bring the *)
(* process down, that each has exactly one outcome, and that the uplink    *)
(* implements module Relay.                                                *)
(***************************************************************************)
EXTENDS Uplink, SequenceTheorems, FiniteSetTheorems, TLAPS

USE DEF readVars, poolVars, workVars, histVars

-----------------------------------------------------------------------------
(* Types. *)

LEMMA SceneOK ==
    ASSUME scene \in Scenario
    PROVE  /\ Len(scene.frames) \in 0 .. MaxFrame
           /\ \A f \in 1 .. Len(scene.frames) : scene.frames[f] \in FrameKind
           /\ scene.workers \subseteq Worker
    BY UplinkAssumption

LEMMA BoundsOK ==
    MaxFrame \in Nat /\ ChanCap \in Nat \ {0} /\ WriteCap \in Nat \ {0}
    BY UplinkAssumption

LEMMA ArrivedOK ==
    ASSUME TypeOK
    PROVE  /\ arrived \in Nat /\ arrived <= MaxFrame
           /\ arrived > 0 => arrived \in Frame
           /\ arrived < Len(scene.frames) => arrived + 1 \in Frame
<1>1. scene \in Scenario /\ arrived \in 0 .. Len(scene.frames)
    BY DEF TypeOK
<1>. QED
    BY <1>1, SceneOK, BoundsOK DEF Frame

LEMMA CurOK ==
    ASSUME TypeOK, reader # "read"
    PROVE  arrived \in Frame /\ Cur \in FrameKind /\ scene.wired \in BOOLEAN
<1>1. scene \in Scenario /\ arrived \in 0 .. Len(scene.frames) /\ arrived > 0
    BY DEF TypeOK
<1>2. arrived \in 1 .. Len(scene.frames)
    BY <1>1, SceneOK
<1>. QED
    BY <1>1, <1>2, ArrivedOK, SceneOK, UplinkAssumption DEF Cur

LEMMA SettleType ==
    ASSUME TypeOK, NEW f \in Frame, NEW what \in Outcome, Settle(f, what)
    PROVE  outcome' \in [Frame -> Seq(Outcome)]
<1>1. outcome \in [Frame -> Seq(Outcome)]
    BY DEF TypeOK
<1>. QED
    BY <1>1 DEF Settle

LEMMA JobType ==
    ASSUME TypeOK, NEW w \in Worker, NEW j \in 0 .. MaxFrame,
           NEW s \in {"idle", "send", "error", "gone"},
           (j = 0) <=> (s \in {"idle", "gone"}),
           job' = [job EXCEPT ![w] = j], step' = [step EXCEPT ![w] = s]
    PROVE  /\ job' \in [Worker -> 0 .. MaxFrame]
           /\ step' \in [Worker -> {"idle", "send", "error", "gone"}]
           /\ \A v \in Worker : (job'[v] = 0) <=> (step'[v] \in {"idle", "gone"})
<1>1. /\ job \in [Worker -> 0 .. MaxFrame]
      /\ step \in [Worker -> {"idle", "send", "error", "gone"}]
      /\ \A v \in Worker : (job[v] = 0) <=> (step[v] \in {"idle", "gone"})
    BY DEF TypeOK
<1>. QED
    BY <1>1

LEMMA BusyHasJob ==
    ASSUME TypeOK, NEW w \in Worker, step[w] \in {"send", "error"}
    PROVE  job[w] \in Frame
<1>1. job[w] \in 0 .. MaxFrame /\ job[w] # 0
    BY DEF TypeOK
<1>. QED
    BY <1>1, BoundsOK DEF Frame

LEMMA QueuedType ==
    ASSUME TypeOK, NEW f \in Frame, NEW what \in Reply \cup {"UPSTREAM_SEND_FAILED"},
           Queued(f, what)
    PROVE  writeCh' \in Seq(Written) /\ Len(writeCh') <= WriteCap
<1>1. << f, what >> \in Written
    BY DEF Written
<1>2. writeCh \in Seq(Written) /\ Len(writeCh) <= WriteCap
    BY DEF TypeOK
<1>. QED
    BY <1>1, <1>2, BoundsOK DEF Queued

LEMMA TypeInit ==
    Init => TypeOK
<1>. SUFFICES ASSUME Init PROVE TypeOK
    OBVIOUS
<1>1. /\ scene \in Scenario /\ arrived = 0
      /\ upstreamCh = << >> /\ writeCh = << >> /\ forwarded = << >>
    BY DEF Init
<1>2. /\ job = [w \in Worker |-> 0] /\ outcome = [f \in Frame |-> << >>]
      /\ step = [w \in Worker |-> IF w \in scene.workers THEN "idle" ELSE "gone"]
    BY DEF Init
<1>3. /\ upstreamCh \in Seq(Frame) /\ Len(upstreamCh) <= ChanCap
      /\ writeCh \in Seq(Written) /\ Len(writeCh) <= WriteCap
      /\ forwarded \in Seq(Frame)
    BY <1>1, BoundsOK
<1>4. arrived \in 0 .. Len(scene.frames)
    BY <1>1, SceneOK
<1>5. outcome \in [Frame -> Seq(Outcome)]
    BY <1>2
<1>6. /\ job \in [Worker -> 0 .. MaxFrame]
      /\ step \in [Worker -> {"idle", "send", "error", "gone"}]
      /\ \A w \in Worker : (job[w] = 0) <=> (step[w] \in {"idle", "gone"})
    BY <1>2, BoundsOK
<1>. QED
    BY <1>1, <1>3, <1>4, <1>5, <1>6 DEF Init, TypeOK

LEMMA ReaderType ==
    ASSUME TypeOK, ReadFrame \/ ReaderStep
    PROVE  TypeOK'
<1>1. CASE ReadFrame
    <2>1. arrived + 1 \in Frame /\ arrived' = arrived + 1
        BY <1>1, ArrivedOK DEF ReadFrame
    <2>2. arrived' \in 0 .. Len(scene.frames) /\ arrived' > 0
        <3>1. scene \in Scenario /\ arrived \in 0 .. Len(scene.frames)
            BY DEF TypeOK
        <3>2. arrived < Len(scene.frames)
            BY <1>1 DEF ReadFrame
        <3>. QED
            BY <2>1, <3>1, <3>2, SceneOK
    <2>3. outcome' \in [Frame -> Seq(Outcome)]
        BY <1>1, <2>1, SettleType DEF ReadFrame, TypeOK, Outcome
    <2>. QED
        BY <1>1, <2>2, <2>3 DEF ReadFrame, TypeOK, Answer, Reply
<1>2. CASE ValidateStage
    <2>1. arrived \in Frame
        BY <1>2, ArrivedOK DEF ValidateStage, TypeOK
    <2>2. outcome' \in [Frame -> Seq(Outcome)]
        BY <1>2, <2>1, SettleType DEF ValidateStage, TypeOK, Outcome
    <2>. QED
        BY <1>2, <2>2 DEF ValidateStage, TypeOK, Answer, Reply
<1>3. CASE LimitAndTrace
    BY <1>3 DEF LimitAndTrace, TypeOK, Answer, OnPanic, Reply
<1>4. CASE SubmitStage
    <2>1. arrived \in Frame
        BY <1>4, ArrivedOK DEF SubmitStage, TypeOK
    <2>2. Cur.biz \in {"none", "unknown", "known"} /\ scene.wired \in BOOLEAN
        BY <1>4, CurOK DEF SubmitStage, FrameKind
    <2>3. Submission = "queued" => Len(upstreamCh) # ChanCap
        BY <2>2 DEF Submission
    <2>4. upstreamCh \in Seq(Frame) /\ Len(upstreamCh) <= ChanCap
        BY DEF TypeOK
    <2>5. \/ upstreamCh' = upstreamCh
          \/ Submission = "queued" /\ upstreamCh' = Append(upstreamCh, arrived)
        BY <1>4 DEF SubmitStage
    <2>6. upstreamCh' \in Seq(Frame) /\ Len(upstreamCh') <= ChanCap
        BY <2>1, <2>3, <2>4, <2>5, BoundsOK
    <2>. QED
        BY <1>4, <2>6 DEF SubmitStage, TypeOK, Answer, OnPanic, Reply
<1>5. CASE SubmitReply
    <2>1. arrived \in Frame /\ reply \in Reply
        BY <1>5, ArrivedOK DEF SubmitReply, TypeOK
    <2>2. outcome' \in [Frame -> Seq(Outcome)]
        BY <1>5, <2>1, SettleType DEF SubmitReply, TypeOK, Outcome
    <2>3. writeCh' \in Seq(Written) /\ Len(writeCh') <= WriteCap
        BY <1>5, <2>1, QueuedType DEF SubmitReply
    <2>. QED
        BY <1>5, <2>2, <2>3 DEF SubmitReply, TypeOK
<1>. QED
    BY <1>1, <1>2, <1>3, <1>4, <1>5 DEF ReaderStep

LEMMA WorkerType ==
    ASSUME TypeOK, NEW w \in Worker, WorkerStep(w)
    PROVE  TypeOK'
<1>1. CASE TakeJob(w)
    <2>1. CASE UNCHANGED << upstreamCh, workVars, outcome >>
        BY <1>1, <2>1 DEF TakeJob, TypeOK
    <2>2. ASSUME NEW f \in Frame, Receive(f), UNCHANGED process,
                 \/ Settle(f, "dropped") /\ UNCHANGED workVars
                 \/ /\ job' = [job EXCEPT ![w] = f]
                    /\ step' = [step EXCEPT ![w] = "send"]
                    /\ UNCHANGED outcome
          PROVE  TypeOK'
        <3>1. outcome' \in [Frame -> Seq(Outcome)]
            BY <2>2, SettleType DEF TypeOK, Outcome
        <3>2. upstreamCh' \in Seq(Frame) /\ Len(upstreamCh') <= ChanCap
            <4>1. upstreamCh \in Seq(Frame) /\ Len(upstreamCh) <= ChanCap
                BY DEF TypeOK
            <4>. QED
                BY <2>2, <4>1, BoundsOK DEF Receive
        <3>3. /\ job' \in [Worker -> 0 .. MaxFrame]
              /\ step' \in [Worker -> {"idle", "send", "error", "gone"}]
              /\ \A v \in Worker : (job'[v] = 0) <=> (step'[v] \in {"idle", "gone"})
            <4>1. f \in 0 .. MaxFrame /\ f # 0
                BY BoundsOK DEF Frame
            <4>2. CASE UNCHANGED workVars
                BY <4>2 DEF TypeOK
            <4>3. CASE job' = [job EXCEPT ![w] = f] /\ step' = [step EXCEPT ![w] = "send"]
                BY <4>1, <4>3, JobType
            <4>. QED
                BY <2>2, <4>2, <4>3
        <3>. QED
            BY <1>1, <2>2, <3>1, <3>2, <3>3 DEF TakeJob, TypeOK
    <2>. QED
        BY <1>1, <2>1, <2>2 DEF TakeJob
<1>2. CASE Leave(w)
    BY <1>2 DEF Leave, TypeOK
<1>3. CASE Send(w)
    <2>1. job[w] \in Frame
        BY <1>3, BusyHasJob DEF Send
    <2>2. outcome' \in [Frame -> Seq(Outcome)]
        BY <1>3, <2>1, SettleType DEF Send, TypeOK, Outcome
    <2>3. forwarded' \in Seq(Frame)
        <3>1. forwarded \in Seq(Frame)
            BY DEF TypeOK
        <3>. QED
            BY <1>3, <2>1, <3>1 DEF Send
    <2>4. /\ job' \in [Worker -> 0 .. MaxFrame]
          /\ step' \in [Worker -> {"idle", "send", "error", "gone"}]
          /\ \A v \in Worker : (job'[v] = 0) <=> (step'[v] \in {"idle", "gone"})
        <3>1. CASE job' = [job EXCEPT ![w] = 0] /\ step' = [step EXCEPT ![w] = "idle"]
            <4>1. 0 \in 0 .. MaxFrame
                BY BoundsOK
            <4>. QED
                BY <3>1, <4>1, JobType
        <3>2. CASE job' = job /\ step' = [step EXCEPT ![w] = "error"]
            BY <1>3, <3>2 DEF Send, TypeOK
        <3>. QED
            BY <1>3, <3>1, <3>2 DEF Send
    <2>. QED
        BY <1>3, <2>2, <2>3, <2>4 DEF Send, TypeOK
<1>4. CASE ReportError(w)
    <2>1. job[w] \in Frame
        BY <1>4, BusyHasJob DEF ReportError
    <2>2. outcome' \in [Frame -> Seq(Outcome)]
        BY <1>4, <2>1, SettleType DEF ReportError, TypeOK, Outcome
    <2>3. writeCh' \in Seq(Written) /\ Len(writeCh') <= WriteCap
        BY <1>4, <2>1, QueuedType DEF ReportError
    <2>4. /\ job' \in [Worker -> 0 .. MaxFrame]
          /\ step' \in [Worker -> {"idle", "send", "error", "gone"}]
          /\ \A v \in Worker : (job'[v] = 0) <=> (step'[v] \in {"idle", "gone"})
        <3>1. 0 \in 0 .. MaxFrame
            BY BoundsOK
        <3>2. job' = [job EXCEPT ![w] = 0] /\ step' = [step EXCEPT ![w] = "idle"]
            BY <1>4 DEF ReportError
        <3>. QED
            BY <3>1, <3>2, JobType
    <2>. QED
        BY <1>4, <2>2, <2>3, <2>4 DEF ReportError, TypeOK
<1>. QED
    BY <1>1, <1>2, <1>3, <1>4 DEF WorkerStep

LEMMA TypeStep ==
    TypeOK /\ [Next]_vars => TypeOK'
<1>. SUFFICES ASSUME TypeOK, [Next]_vars PROVE TypeOK'
    OBVIOUS
<1>1. CASE Attach \/ LoseConn
    <2>1. writeCh' \in Seq(Written) /\ Len(writeCh') <= WriteCap
        <3>1. writeCh' = << >>
            BY <1>1 DEF Attach, LoseConn
        <3>. QED
            BY <3>1, BoundsOK
    <2>. QED
        BY <1>1, <2>1 DEF Attach, LoseConn, TypeOK
<1>2. CASE Write
    <2>1. writeCh \in Seq(Written) /\ Len(writeCh) <= WriteCap
        BY DEF TypeOK
    <2>2. writeCh' \in Seq(Written) /\ Len(writeCh') <= WriteCap
        BY <1>2, <2>1, BoundsOK DEF Write
    <2>. QED
        BY <1>2, <2>2 DEF Write, TypeOK
<1>3. CASE ReadFrame \/ ReaderStep
    BY <1>3, ReaderType
<1>4. ASSUME NEW w \in Worker, WorkerStep(w) PROVE TypeOK'
    BY <1>4, WorkerType
<1>5. CASE Stop
    BY <1>5 DEF Stop, TypeOK
<1>6. CASE ConsumerSubmits \/ ConsumerEnds
    BY <1>6 DEF ConsumerSubmits, ConsumerEnds, TypeOK
<1>7. CASE UNCHANGED vars
    BY <1>7 DEF vars, TypeOK
<1>. QED
    BY <1>1, <1>2, <1>3, <1>4, <1>5, <1>6, <1>7 DEF Next

(* Every variable of the uplink has its type in every state: in particular
   neither upstreamCh nor writeCh ever holds more than its capacity. *)
THEOREM TypeCorrect == Spec => []TypeOK
    BY TypeInit, TypeStep, PTL DEF Spec

-----------------------------------------------------------------------------
(* A panic in the chain is answered. *)

LEMMA HarmlessStep ==
    TypeOK /\ BusinessFramesAreHarmless /\ [Next]_vars => BusinessFramesAreHarmless'
<1>. SUFFICES ASSUME TypeOK, BusinessFramesAreHarmless, [Next]_vars
              PROVE  BusinessFramesAreHarmless'
    OBVIOUS
<1>1. CASE UNCHANGED vars
    BY <1>1 DEF vars, BusinessFramesAreHarmless
<1>2. CASE process' = process /\ process = "up"
    BY <1>2 DEF BusinessFramesAreHarmless
<1>3. CASE ReadFrame /\ process' # process
    <2>1. Fatal(scene.frames[arrived + 1]) /\ arrived' = arrived + 1 /\ scene' = scene
        BY <1>3 DEF ReadFrame
    <2>2. arrived' \in 1 .. arrived'
        BY <2>1, ArrivedOK
    <2>. QED
        BY <2>1, <2>2 DEF BusinessFramesAreHarmless
<1>4. ASSUME NEW w \in Worker, TakeJob(w), process' # process
      PROVE  BusinessFramesAreHarmless'
    BY <1>4 DEF TakeJob, BusinessFramesAreHarmless
<1>5. CASE ConsumerSubmits
    BY <1>5 DEF ConsumerSubmits, BusinessFramesAreHarmless
<1>6. CASE ReaderStep
    BY <1>2, <1>6, <1>1 DEF ReaderStep, ValidateStage, LimitAndTrace, SubmitStage,
       SubmitReply, OnPanic, Next
<1>. QED
    BY <1>1, <1>2, <1>3, <1>4, <1>5, <1>6 DEF Next, WorkerStep, Attach, LoseConn,
       Write, Leave, Send, ReportError, Stop, ConsumerEnds

(* BusinessFramesAreHarmless for every scenario: the Recover stage turns each
   panic of the chain into an answer, so that a dead process means a type
   without a handler, a logout without a trace context, or a stopped pool. *)
THEOREM HarmlessCorrect == Spec => []BusinessFramesAreHarmless
<1>1. Init => BusinessFramesAreHarmless
    BY DEF Init, BusinessFramesAreHarmless
<1>. QED
    BY <1>1, TypeCorrect, HarmlessStep, PTL DEF Spec

-----------------------------------------------------------------------------
(* A frame is in one place at a time: with the reader, in the channel or
   with one worker; and older frames are further on their way. *)

(* The reader is through with f. *)
Passed(f) == f <= arrived /\ (reader # "read" => f < arrived)

QueueInv ==
    \A i \in DOMAIN upstreamCh :
      /\ Passed(upstreamCh[i])
      /\ \A j \in DOMAIN upstreamCh : i < j => upstreamCh[i] < upstreamCh[j]

JobInv ==
    \A w \in Worker : job[w] # 0 =>
      /\ Passed(job[w])
      /\ \A i \in DOMAIN upstreamCh : job[w] < upstreamCh[i]
      /\ \A v \in Worker : job[v] = job[w] => v = w

PlaceInv == QueueInv /\ JobInv

LEMMA Appended ==
    ASSUME NEW s \in Seq(Frame), NEW f \in Frame
    PROVE  /\ Len(s) \in Nat /\ DOMAIN s = 1 .. Len(s)
           /\ DOMAIN Append(s, f) = 1 .. (Len(s) + 1)
           /\ \A i \in DOMAIN s : Append(s, f)[i] = s[i] /\ s[i] \in Frame
           /\ Append(s, f)[Len(s) + 1] = f
    OBVIOUS

LEMMA Shortened ==
    ASSUME NEW s \in Seq(Frame), s # << >>
    PROVE  /\ Len(s) \in Nat \ {0} /\ DOMAIN s = 1 .. Len(s)
           /\ DOMAIN Tail(s) = 1 .. (Len(s) - 1)
           /\ \A i \in DOMAIN Tail(s) : Tail(s)[i] = s[i + 1] /\ i + 1 \in DOMAIN s
           /\ \A i \in DOMAIN s : s[i] \in Frame
           /\ \A i \in DOMAIN s : i # 1 => i - 1 \in DOMAIN Tail(s)
           /\ Head(s) = s[1]
    BY BoundsOK

(* What the steps do to the places of the frames. *)
Advances ==
    /\ reader = "read" /\ arrived' = arrived + 1
    /\ UNCHANGED << upstreamCh, job >>

Lingers ==
    /\ reader = "read" => reader' = "read"
    /\ UNCHANGED << arrived, upstreamCh, job >>

Enqueues ==
    /\ reader # "read" /\ reader' = "read"
    /\ upstreamCh' = Append(upstreamCh, arrived)
    /\ UNCHANGED << arrived, job >>

Takes(w, f) ==
    /\ Receive(f) /\ job[w] = 0
    /\ job' \in {job, [job EXCEPT ![w] = f]}
    /\ UNCHANGED << arrived, reader >>

Finishes(w) ==
    /\ job' = [job EXCEPT ![w] = 0]
    /\ UNCHANGED << arrived, reader, upstreamCh >>

LEMMA Moves ==
    ASSUME TypeOK, [Next]_vars
    PROVE  /\ scene' = scene
           /\ \/ Advances \/ Lingers \/ Enqueues
              \/ \E w \in Worker : (\E f \in Frame : Takes(w, f)) \/ Finishes(w)
<1>1. CASE UNCHANGED vars
    BY <1>1 DEF vars, Lingers
<1>2. CASE Attach \/ LoseConn \/ Write \/ Stop \/ ConsumerSubmits \/ ConsumerEnds
    BY <1>2 DEF Attach, LoseConn, Write, Stop, ConsumerSubmits, ConsumerEnds, Lingers
<1>3. CASE ReadFrame
    BY <1>3 DEF ReadFrame, Advances
<1>4. CASE ValidateStage \/ LimitAndTrace \/ SubmitReply
    BY <1>4 DEF ValidateStage, LimitAndTrace, SubmitReply, Lingers
<1>5. CASE SubmitStage
    BY <1>5 DEF SubmitStage, Enqueues, Lingers
<1>6. ASSUME NEW w \in Worker, TakeJob(w)
      PROVE  scene' = scene /\ (Lingers \/ \E f \in Frame : Takes(w, f))
    <2>1. job[w] = 0
        BY <1>6 DEF TakeJob, TypeOK
    <2>. QED
        BY <1>6, <2>1 DEF TakeJob, Takes, Lingers
<1>7. ASSUME NEW w \in Worker, Leave(w) \/ Send(w) \/ ReportError(w)
      PROVE  scene' = scene /\ (Lingers \/ Finishes(w))
    BY <1>7 DEF Leave, Send, ReportError, Lingers, Finishes
<1>. QED
    BY <1>1, <1>2, <1>3, <1>4, <1>5, <1>6, <1>7 DEF Next, ReaderStep, WorkerStep

LEMMA PlaceTypes ==
    ASSUME TypeOK
    PROVE  /\ arrived \in Nat /\ upstreamCh \in Seq(Frame)
           /\ \A i \in DOMAIN upstreamCh : upstreamCh[i] \in Frame
           /\ \A f \in Frame : f \in Nat /\ f # 0
           /\ job \in [Worker -> 0 .. MaxFrame]
           /\ \A w \in Worker : job[w] \in Nat
           /\ reader # "read" => arrived \in Frame
<1>1. /\ upstreamCh \in Seq(Frame) /\ job \in [Worker -> 0 .. MaxFrame]
      /\ reader # "read" => arrived > 0
    BY DEF TypeOK
<1>2. \A i \in DOMAIN upstreamCh : upstreamCh[i] \in Frame
    BY <1>1
<1>3. \A w \in Worker : job[w] \in Nat
    BY <1>1, BoundsOK
<1>. QED
    BY <1>1, <1>2, <1>3, ArrivedOK, BoundsOK DEF Frame

LEMMA QueueStep ==
    TypeOK /\ PlaceInv /\ [Next]_vars => QueueInv'
<1>. SUFFICES ASSUME TypeOK, PlaceInv, [Next]_vars PROVE QueueInv'
    OBVIOUS
<1>. USE PlaceTypes DEF PlaceInv, QueueInv, Passed
<1>1. CASE Advances
    BY <1>1 DEF Advances
<1>2. CASE Lingers
    BY <1>2 DEF Lingers
<1>3. CASE Enqueues
    BY <1>3, Appended DEF Enqueues
<1>4. ASSUME NEW w \in Worker, NEW f \in Frame, Takes(w, f) PROVE QueueInv'
    BY <1>4, Shortened DEF Takes, Receive
<1>5. ASSUME NEW w \in Worker, Finishes(w) PROVE QueueInv'
    BY <1>5 DEF Finishes
<1>. QED
    BY <1>1, <1>2, <1>3, <1>4, <1>5, Moves

LEMMA JobStep ==
    TypeOK /\ PlaceInv /\ [Next]_vars => JobInv'
<1>. SUFFICES ASSUME TypeOK, PlaceInv, [Next]_vars PROVE JobInv'
    OBVIOUS
<1>. USE PlaceTypes DEF PlaceInv, JobInv, Passed
<1>1. CASE Advances
    BY <1>1 DEF Advances
<1>2. CASE Lingers
    BY <1>2 DEF Lingers
<1>3. CASE Enqueues
    BY <1>3, Appended DEF Enqueues
<1>4. ASSUME NEW w \in Worker, NEW f \in Frame, Takes(w, f) PROVE JobInv'
    BY <1>4, Shortened DEF Takes, Receive, QueueInv
<1>5. ASSUME NEW w \in Worker, Finishes(w) PROVE JobInv'
    BY <1>5 DEF Finishes
<1>. QED
    BY <1>1, <1>2, <1>3, <1>4, <1>5, Moves

-----------------------------------------------------------------------------
(* Outcomes. *)

Waits(f) == \E i \in DOMAIN upstreamCh : upstreamCh[i] = f

Claimed(f) == \E w \in Worker : job[w] = f

LEMMA InHandIs ==
    \A f : /\ InHand(f) <=> (f = arrived /\ reader # "read") \/ Waits(f) \/ Claimed(f)
           /\ InHand(f)' <=> (f = arrived' /\ reader' # "read") \/ Waits(f)' \/ Claimed(f)'
    BY DEF InHand, Waits, Claimed

LEMMA HeldIsPassed ==
    ASSUME TypeOK, PlaceInv, NEW f \in Frame, Waits(f) \/ Claimed(f)
    PROVE  Passed(f) /\ ~(Waits(f) /\ Claimed(f))
    BY PlaceTypes DEF PlaceInv, QueueInv, JobInv, Waits, Claimed

LEMMA EnqueuesMoves ==
    ASSUME TypeOK, PlaceInv, Enqueues, NEW g \in Frame
    PROVE  /\ Waits(g)' <=> Waits(g) \/ g = arrived
           /\ Claimed(g)' <=> Claimed(g)
<1>1. /\ upstreamCh \in Seq(Frame) /\ arrived \in Frame /\ job' = job
      /\ upstreamCh' = Append(upstreamCh, arrived)
    BY PlaceTypes DEF Enqueues
<1>2. /\ Len(upstreamCh) \in Nat /\ DOMAIN upstreamCh = 1 .. Len(upstreamCh)
      /\ DOMAIN upstreamCh' = 1 .. (Len(upstreamCh) + 1)
      /\ \A i \in DOMAIN upstreamCh : upstreamCh'[i] = upstreamCh[i]
      /\ upstreamCh'[Len(upstreamCh) + 1] = arrived
    BY <1>1, Appended
<1>3. Waits(g) => Waits(g)'
    BY <1>2 DEF Waits
<1>4. g = arrived => Waits(g)'
    BY <1>1, <1>2 DEF Waits
<1>5. Waits(g)' => Waits(g) \/ g = arrived
    BY <1>2 DEF Waits
<1>. QED
    BY <1>1, <1>3, <1>4, <1>5 DEF Claimed, Enqueues

LEMMA TakesMoves ==
    ASSUME TypeOK, PlaceInv, NEW w \in Worker, NEW f \in Frame, Takes(w, f),
           NEW g \in Frame
    PROVE  /\ Waits(g) <=> Waits(g)' \/ g = f
           /\ ~Waits(f)' /\ ~Claimed(f)
           /\ Claimed(g)' <=> Claimed(g) \/ (job'[w] = f /\ g = f)
<1>1. /\ upstreamCh \in Seq(Frame) /\ upstreamCh # << >>
      /\ f = Head(upstreamCh) /\ upstreamCh' = Tail(upstreamCh)
      /\ job \in [Worker -> 0 .. MaxFrame] /\ f \in Nat /\ f # 0 /\ job[w] = 0
    BY PlaceTypes DEF Takes, Receive
<1>2. /\ Len(upstreamCh) \in Nat \ {0} /\ DOMAIN upstreamCh = 1 .. Len(upstreamCh)
      /\ DOMAIN upstreamCh' = 1 .. (Len(upstreamCh) - 1)
      /\ \A i \in DOMAIN upstreamCh' :
           upstreamCh'[i] = upstreamCh[i + 1] /\ i + 1 \in DOMAIN upstreamCh
      /\ \A i \in DOMAIN upstreamCh : i # 1 => i - 1 \in DOMAIN upstreamCh'
      /\ f = upstreamCh[1] /\ 1 \in DOMAIN upstreamCh
    BY <1>1, Shortened
<1>3. ASSUME Waits(g) PROVE Waits(g)' \/ g = f
    <2>1. PICK i \in DOMAIN upstreamCh : upstreamCh[i] = g
        BY <1>3 DEF Waits
    <2>2. CASE i # 1
        <3>1. i - 1 \in DOMAIN upstreamCh' /\ (i - 1) + 1 = i
            BY <1>2, <2>2
        <3>2. upstreamCh'[i - 1] = upstreamCh[(i - 1) + 1]
            BY <1>2, <3>1
        <3>. QED
            BY <2>1, <3>1, <3>2 DEF Waits
    <2>. QED
        BY <1>2, <2>1, <2>2
<1>4. Waits(g)' => Waits(g)
    BY <1>2 DEF Waits
<1>5. Waits(f)
    BY <1>2 DEF Waits
<1>6. ASSUME Waits(f)' PROVE FALSE
    <2>1. PICK i \in DOMAIN upstreamCh' : upstreamCh'[i] = f
        BY <1>6 DEF Waits
    <2>2. i + 1 \in DOMAIN upstreamCh /\ upstreamCh[i + 1] = f /\ 1 < i + 1
        BY <1>2, <2>1
    <2>3. upstreamCh[1] < upstreamCh[i + 1]
        BY <1>2, <2>2 DEF PlaceInv, QueueInv
    <2>. QED
        BY <1>1, <1>2, <2>2, <2>3
<1>7. ~Claimed(f)
    BY <1>5, HeldIsPassed
<1>8. Claimed(g)' <=> Claimed(g) \/ (job'[w] = f /\ g = f)
    <2>1. CASE job' = job
        BY <1>1, <2>1, <1>7 DEF Claimed
    <2>2. CASE job' = [job EXCEPT ![w] = f]
        BY <1>1, <2>2, PlaceTypes DEF Claimed
    <2>. QED
        BY <2>1, <2>2 DEF Takes
<1>. QED
    BY <1>3, <1>4, <1>5, <1>6, <1>7, <1>8

LEMMA FinishesMoves ==
    ASSUME TypeOK, PlaceInv, NEW w \in Worker, Finishes(w),
           NEW f \in Frame, job[w] = f, NEW g \in Frame
    PROVE  /\ Waits(g)' <=> Waits(g)
           /\ Claimed(g) <=> Claimed(g)' \/ g = f
           /\ ~Claimed(f)' /\ ~Waits(f) /\ Claimed(f)
<1>1. /\ job \in [Worker -> 0 .. MaxFrame] /\ job' = [job EXCEPT ![w] = 0]
      /\ upstreamCh' = upstreamCh /\ g # 0 /\ f # 0
    BY PlaceTypes DEF Finishes
<1>2. \A v \in Worker : job[v] = f => v = w
    BY <1>1 DEF PlaceInv, JobInv
<1>3. Claimed(g) <=> Claimed(g)' \/ g = f
    BY <1>1 DEF Claimed
<1>4. Claimed(f) /\ ~Claimed(f)'
    BY <1>1, <1>2 DEF Claimed
<1>5. ~Waits(f)
    BY <1>4, HeldIsPassed
<1>. QED
    BY <1>1, <1>3, <1>4, <1>5 DEF Waits

LEMMA Rests ==
    ASSUME UNCHANGED << upstreamCh, job >>
    PROVE  \A g : (Waits(g)' <=> Waits(g)) /\ (Claimed(g)' <=> Claimed(g))
    BY DEF Waits, Claimed

(* What has become of frame f. *)
FateInv(f) ==
    /\ f > arrived \/ InHand(f) => outcome[f] = << >>
    /\ f <= arrived /\ scene.frames[f].type = "BUSINESS" /\ ~InHand(f)
         => Len(outcome[f]) = 1

(* Only frames that are not for a pool are answered without an outcome. *)
ReplyInv == reply \in {"PONG", "KICK"} => Cur.type # "BUSINESS"

OutcomeInv == ReplyInv /\ \A f \in Frame : FateInv(f)

LEMMA SettledOnce ==
    ASSUME TypeOK, NEW f \in Frame, NEW what \in Outcome, outcome[f] = << >>,
           Settle(f, what), NEW g \in Frame
    PROVE  /\ g # f => outcome'[g] = outcome[g]
           /\ Len(outcome'[f]) = 1
<1>1. outcome \in [Frame -> Seq(Outcome)]
    BY DEF TypeOK
<1>2. outcome' = [outcome EXCEPT ![f] = Append(<< >>, what)]
    BY DEF Settle
<1>3. Len(Append(<< >>, what)) = 1
    OBVIOUS
<1>. QED
    BY <1>1, <1>2, <1>3

LEMMA ReplyStep ==
    TypeOK /\ ReplyInv /\ [Next]_vars => ReplyInv'
<1>. SUFFICES ASSUME TypeOK, ReplyInv, [Next]_vars PROVE ReplyInv'
    OBVIOUS
<1>1. CASE UNCHANGED << scene, arrived, reply >>
    BY <1>1 DEF ReplyInv, Cur
<1>2. CASE reply' \notin {"PONG", "KICK"}
    BY <1>2 DEF ReplyInv
<1>3. CASE ReadFrame
    <2>1. reader = "read" => reply = ""
        BY DEF TypeOK
    <2>. QED
        BY <1>2, <1>3, <2>1 DEF ReadFrame, ReplyInv, Cur, Answer
<1>4. CASE ReaderStep
    BY <1>1, <1>2, <1>4 DEF ReaderStep, ValidateStage, LimitAndTrace, SubmitStage,
       SubmitReply, OnPanic, Answer
<1>. QED
    BY <1>1, <1>3, <1>4 DEF Next, WorkerStep, Attach, LoseConn, Write, TakeJob,
       Leave, Send, ReportError, Stop, ConsumerSubmits, ConsumerEnds, vars

LEMMA FateStep ==
    ASSUME TypeOK, PlaceInv, OutcomeInv, [Next]_vars, NEW g \in Frame
    PROVE  FateInv(g)'
<1>. USE PlaceTypes DEF FateInv
<1>1. CASE UNCHANGED << scene, arrived, reader, upstreamCh, job, outcome >>
    BY <1>1, InHandIs, Rests DEF OutcomeInv, InHand
<1>2. CASE ReadFrame
    <2>1. /\ reader = "read" /\ arrived' = arrived + 1 /\ arrived + 1 \in Frame
          /\ UNCHANGED << upstreamCh, job, scene >>
        BY <1>2, ArrivedOK DEF ReadFrame
    <2>2. /\ InHand(g) <=> Waits(g) \/ Claimed(g)
          /\ InHand(g)' <=> (g = arrived + 1 /\ reader' # "read") \/ Waits(g) \/ Claimed(g)
        BY <2>1, InHandIs, Rests DEF InHand, Waits, Claimed
    <2>3. g = arrived + 1 => ~Waits(g) /\ ~Claimed(g) /\ outcome[g] = << >>
        BY HeldIsPassed DEF OutcomeInv, Passed
    <2>4. CASE reader' = "read" /\ Settle(arrived + 1, "dropped")
        BY <2>1, <2>2, <2>3, <2>4, SettledOnce DEF OutcomeInv, Outcome
    <2>5. CASE reader' # "read" /\ outcome' = outcome
        BY <2>1, <2>2, <2>3, <2>5 DEF OutcomeInv
    <2>6. CASE Fatal(scene.frames[arrived + 1]) /\ UNCHANGED << reader, outcome >>
        BY <2>1, <2>2, <2>3, <2>6 DEF OutcomeInv, Fatal
    <2>. QED
        BY <1>2, <2>1, <2>4, <2>5, <2>6 DEF ReadFrame, Answer
<1>3. CASE ReaderStep
    <2>1. arrived \in Frame /\ reader # "read" /\ UNCHANGED << arrived, scene, job >>
        BY <1>3 DEF ReaderStep, ValidateStage, LimitAndTrace, SubmitStage, SubmitReply
    <2>2. InHand(g) <=> g = arrived \/ Waits(g) \/ Claimed(g)
        BY <2>1, InHandIs
    <2>3. outcome[arrived] = << >> /\ (Waits(arrived) \/ Claimed(arrived) => FALSE)
        BY <2>1, InHandIs, HeldIsPassed DEF OutcomeInv, Passed
    <2>4. CASE Enqueues /\ outcome' = outcome
        BY <2>1, <2>2, <2>4, InHandIs, EnqueuesMoves DEF OutcomeInv, Enqueues
    <2>5. CASE reader' # "read" /\ UNCHANGED << upstreamCh, outcome >>
        BY <2>1, <2>2, <2>5, InHandIs, Rests DEF OutcomeInv
    <2>6. ASSUME NEW what \in Outcome, Settle(arrived, what), reader' = "read",
                 UNCHANGED upstreamCh
          PROVE  FateInv(g)'
        BY <2>1, <2>2, <2>3, <2>6, InHandIs, Rests, SettledOnce DEF OutcomeInv
    <2>7. CASE reader' = "read" /\ Cur.type # "BUSINESS" /\ UNCHANGED << upstreamCh, outcome >>
        BY <2>1, <2>2, <2>3, <2>7, InHandIs, Rests DEF OutcomeInv, Cur
    <2>8. CASE ValidateStage \/ LimitAndTrace
        BY <2>5, <2>6, <2>8 DEF ValidateStage, LimitAndTrace, Answer, OnPanic, Outcome
    <2>9. CASE SubmitStage
        BY <2>4, <2>5, <2>9 DEF SubmitStage, Answer, OnPanic, Enqueues
    <2>10. CASE SubmitReply
        BY <2>6, <2>7, <2>10 DEF SubmitReply, Outcome, OutcomeInv, ReplyInv
    <2>. QED
        BY <1>3, <2>8, <2>9, <2>10 DEF ReaderStep
<1>4. ASSUME NEW w \in Worker, TakeJob(w) PROVE FateInv(g)'
    <2>1. CASE UNCHANGED << upstreamCh, workVars, outcome >>
        BY <1>1, <1>4, <2>1 DEF TakeJob
    <2>2. ASSUME NEW f \in Frame, Receive(f), UNCHANGED process,
                 \/ Settle(f, "dropped") /\ UNCHANGED workVars
                 \/ job' = [job EXCEPT ![w] = f] /\ UNCHANGED outcome
          PROVE  FateInv(g)'
        <3>1. Takes(w, f) /\ UNCHANGED << arrived, reader, scene >>
            BY <1>4, <2>2 DEF TakeJob, Takes, TypeOK
        <3>2. outcome[f] = << >> /\ Passed(f)
            BY <3>1, TakesMoves, InHandIs, HeldIsPassed DEF OutcomeInv
        <3>3. CASE Settle(f, "dropped") /\ UNCHANGED workVars
            <4>1. job'[w] # f
                BY <3>1, <3>3 DEF Takes
            <4>2. ~InHand(f)' /\ f <= arrived
                BY <3>1, <3>2, <4>1, TakesMoves, InHandIs DEF Passed
            <4>3. g # f => (InHand(g)' <=> InHand(g))
                BY <3>1, <4>1, TakesMoves, InHandIs
            <4>4. Len(outcome'[f]) = 1 /\ (g # f => outcome'[g] = outcome[g])
                BY <3>2, <3>3, SettledOnce DEF Outcome
            <4>. QED
                BY <3>1, <4>2, <4>3, <4>4 DEF OutcomeInv
        <3>4. CASE job' = [job EXCEPT ![w] = f] /\ UNCHANGED outcome
            <4>1. job'[w] = f
                BY <3>4
            <4>. QED
                BY <3>1, <3>2, <3>4, <4>1, TakesMoves, InHandIs DEF OutcomeInv
        <3>. QED
            BY <2>2, <3>3, <3>4
    <2>. QED
        BY <1>4, <2>1, <2>2 DEF TakeJob
<1>5. ASSUME NEW w \in Worker, NEW what \in Outcome, job[w] \in Frame,
             Settle(job[w], what), Finishes(w), scene' = scene
      PROVE  FateInv(g)'
    <2>1. PICK f \in Frame : f = job[w]
        BY <1>5
    <2>2. outcome[f] = << >> /\ Passed(f) /\ Settle(f, what)
        BY <1>5, <2>1, FinishesMoves, InHandIs, HeldIsPassed DEF OutcomeInv, Settle
    <2>3. ~InHand(f)' /\ f <= arrived /\ UNCHANGED arrived
        <3>1. /\ ~Waits(f)' /\ ~Claimed(f)'
              /\ UNCHANGED << arrived, reader >>
            BY <1>5, <2>1, FinishesMoves DEF Finishes
        <3>. QED
            BY <2>2, <3>1, InHandIs DEF Passed
    <2>4. g # f => (InHand(g)' <=> InHand(g))
        BY <1>5, <2>1, FinishesMoves, InHandIs DEF Finishes
    <2>5. Len(outcome'[f]) = 1 /\ (g # f => outcome'[g] = outcome[g])
        BY <2>2, SettledOnce
    <2>. QED
        BY <1>5, <2>3, <2>4, <2>5 DEF OutcomeInv
<1>6. ASSUME NEW w \in Worker, Leave(w) \/ Send(w) \/ ReportError(w) PROVE FateInv(g)'
    <2>1. step[w] \in {"send", "error"} => job[w] \in Frame
        BY BusyHasJob
    <2>. QED
        BY <1>1, <1>5, <1>6, <2>1 DEF Leave, Send, ReportError, Finishes, Outcome
<1>. QED
    BY <1>1, <1>2, <1>3, <1>4, <1>6 DEF Next, WorkerStep, Attach, LoseConn, Write,
       Stop, ConsumerSubmits, ConsumerEnds, vars

UplinkInv == TypeOK /\ PlaceInv /\ OutcomeInv

LEMMA UplinkInvariant == Spec => []UplinkInv
<1>1. ASSUME Init PROVE UplinkInv
    <2>1. TypeOK
        BY <1>1, TypeInit
    <2>2. arrived = 0 /\ reply = "" /\ upstreamCh = << >>
        BY <1>1 DEF Init
    <2>3. PlaceInv
        <3>1. job = [w \in Worker |-> 0]
            BY <1>1 DEF Init
        <3>2. \A w \in Worker : job[w] = 0
            BY <3>1
        <3>3. DOMAIN upstreamCh = {}
            <4>1. upstreamCh = << >>
                BY <2>2
            <4>2. Len(upstreamCh) = 0
                BY <4>1
            <4>3. DOMAIN upstreamCh = 1 .. Len(upstreamCh)
                BY <2>1, LenProperties DEF TypeOK
            <4>4. 1 .. 0 = {}
                OBVIOUS
            <4>. QED
                BY <4>2, <4>3, <4>4
        <3>. QED
            BY <3>2, <3>3 DEF PlaceInv, QueueInv, JobInv
    <2>4. ReplyInv
        BY <2>2 DEF ReplyInv
    <2>5. ASSUME NEW f \in Frame PROVE FateInv(f)
        <3>1. outcome = [g \in Frame |-> << >>]
            BY <1>1 DEF Init
        <3>2. outcome[f] = << >>
            BY <3>1
        <3>3. arrived = 0
            BY <2>2
        <3>4. ~(f <= arrived)
            BY <3>3, BoundsOK DEF Frame
        <3>. QED
            BY <3>2, <3>4 DEF FateInv
    <2>. QED
        BY <2>1, <2>3, <2>4, <2>5 DEF UplinkInv, OutcomeInv
<1>2. UplinkInv /\ [Next]_vars => UplinkInv'
    <2>. SUFFICES ASSUME UplinkInv, [Next]_vars PROVE UplinkInv'
        OBVIOUS
    <2>1. TypeOK' /\ PlaceInv'
        BY TypeStep, QueueStep, JobStep DEF UplinkInv, PlaceInv
    <2>2. ReplyInv'
        BY ReplyStep DEF UplinkInv, OutcomeInv
    <2>3. \A f \in Frame : FateInv(f)'
        BY FateStep DEF UplinkInv
    <2>. QED
        BY <2>1, <2>2, <2>3 DEF UplinkInv, OutcomeInv
<1>. QED
    BY <1>1, <1>2, PTL DEF Spec

(* ExactlyOneOutcome for every scenario and any number of workers: a frame is
   in one place at a time, and whoever lets go of it settles it. *)
THEOREM OutcomeCorrect == Spec => []ExactlyOneOutcome
<1>1. ASSUME UplinkInv PROVE ExactlyOneOutcome
    <2>1. ASSUME NEW f \in 1 .. arrived PROVE f \in Frame /\ f <= arrived
        BY <1>1, <2>1, ArrivedOK, BoundsOK DEF UplinkInv, Frame
    <2>. QED
        BY <1>1, <2>1 DEF UplinkInv, OutcomeInv, FateInv, ExactlyOneOutcome
<1>. QED
    BY <1>1, UplinkInvariant, PTL

-----------------------------------------------------------------------------
(* The abstract specification: every step is a step of Relay. *)

(* Only business frames enter the chain. *)
StageInv ==
    reader # "read" /\ reply \notin {"PONG", "KICK"} => Cur.type = "BUSINESS"

LEMMA StageStep ==
    TypeOK /\ StageInv /\ [Next]_vars => StageInv'
<1>. SUFFICES ASSUME TypeOK, StageInv, [Next]_vars PROVE StageInv'
    OBVIOUS
<1>1. CASE UNCHANGED << scene, arrived, reader, reply >>
    BY <1>1 DEF StageInv, Cur
<1>2. CASE ReadFrame
    BY <1>2 DEF ReadFrame, Answer, StageInv, Cur
<1>3. CASE ReaderStep
    <2>1. UNCHANGED << scene, arrived >> /\ Cur' = Cur
        BY <1>3 DEF ReaderStep, ValidateStage, LimitAndTrace, SubmitStage, SubmitReply, Cur
    <2>2. reader' = "read" \/ (reader # "read" /\ reply \notin {"PONG", "KICK"})
        BY <1>3 DEF ReaderStep, ValidateStage, LimitAndTrace, SubmitStage, SubmitReply,
           TypeOK
    <2>. QED
        BY <2>1, <2>2 DEF StageInv
<1>. QED
    BY <1>1, <1>2, <1>3 DEF Next, WorkerStep, Attach, LoseConn, Write, TakeJob,
       Leave, Send, ReportError, Stop, ConsumerSubmits, ConsumerEnds, vars

LEMMA FateKept ==
    ASSUME NEW g \in Frame, outcome'[g] = outcome[g], g > arrived <=> g > arrived',
           g <= arrived <=> g <= arrived',
           g = arrived /\ reader # "read" <=> g = arrived' /\ reader' # "read",
           InHand(g) <=> InHand(g)'
    PROVE  Fate(g)' = Fate(g)
    BY DEF Fate

LEMMA FateValues ==
    ASSUME TypeOK, NEW f \in Frame, outcome[f] # << >>
    PROVE  Fate(f) \in Outcome
<1>1. outcome[f] \in Seq(Outcome)
    BY DEF TypeOK
<1>2. outcome[f][Len(outcome[f])] \in Outcome
    BY <1>1
<1>. QED
    BY <1>2 DEF Fate

LEMMA FateSettled ==
    ASSUME TypeOK, NEW f \in Frame, NEW what \in Outcome, outcome[f] = << >>,
           Settle(f, what)
    PROVE  /\ Fate(f)' = what
           /\ \A g \in Frame \ {f} : outcome'[g] = outcome[g]
<1>1. outcome \in [Frame -> Seq(Outcome)]
    BY DEF TypeOK
<1>2. outcome' = [outcome EXCEPT ![f] = Append(<< >>, what)]
    BY DEF Settle
<1>3. outcome'[f] = << what >>
    BY <1>1, <1>2
<1>4. << what >> # << >> /\ << what >>[Len(<< what >>)] = what
    OBVIOUS
<1>. QED
    BY <1>1, <1>2, <1>3, <1>4 DEF Fate

LEMMA Becoming ==
    ASSUME NEW f \in Frame, NEW a, NEW b, Fate(f) = a, Fate(f)' = b,
           \A g \in Frame \ {f} : Fate(g)' = Fate(g), scene' = scene
    PROVE  Abstract!Becomes(f, a, b)
<1>1. PICK old, new :
        /\ old = [g \in Frame |-> Fate(g)]
        /\ new = [g \in Frame |-> Fate(g)']
    OBVIOUS
<1>2. old[f] = a /\ new = [old EXCEPT ![f] = b]
    BY <1>1
<1>. QED
    BY <1>1, <1>2 DEF Abstract!Becomes

(* Whether a frame is for a pool. *)
Relayed(f) == f <= Len(scene.frames) /\ scene.frames[f].type = "BUSINESS"

LEMMA ReadRefines ==
    ASSUME UplinkInv, ReadFrame
    PROVE  Abstract!Next
<1>. TypeOK /\ PlaceInv /\ OutcomeInv
    BY DEF UplinkInv
<1>. USE PlaceTypes
<1>1. PICK f \in Frame : f = arrived + 1
    BY ArrivedOK DEF ReadFrame
<1>2. /\ reader = "read" /\ arrived' = f /\ arrived \in Nat
      /\ f <= Len(scene.frames) /\ UNCHANGED << upstreamCh, job, scene, forwarded >>
    <2>1. scene \in Scenario
        BY DEF TypeOK
    <2>2. arrived < Len(scene.frames) /\ Len(scene.frames) \in Nat
        BY <2>1, SceneOK, BoundsOK DEF ReadFrame
    <2>. QED
        BY <1>1, <2>2 DEF ReadFrame
<1>3. ~Waits(f) /\ ~Claimed(f) /\ outcome[f] = << >>
    BY <1>1, HeldIsPassed DEF OutcomeInv, FateInv, Passed
<1>4. Fate(f) = "new"
    BY <1>1, <1>2, <1>3 DEF Fate
<1>5. \A g \in Frame \ {f} : outcome'[g] = outcome[g]
    BY <1>1, <1>3, FateSettled DEF ReadFrame, Outcome
<1>6. \A g \in Frame \ {f} : Fate(g)' = Fate(g)
    <2>. SUFFICES ASSUME NEW g \in Frame \ {f} PROVE Fate(g)' = Fate(g)
        OBVIOUS
    <2>1. InHand(g) <=> InHand(g)'
        BY <1>1, <1>2, InHandIs, Rests
    <2>. QED
        BY <1>1, <1>2, <1>5, <2>1, FateKept
<1>7. \A g \in Frame : g < f => Fate(g) \notin {"new", "offered"}
    <2>. SUFFICES ASSUME NEW g \in Frame, g < f PROVE Fate(g) \notin {"new", "offered"}
        OBVIOUS
    <2>1. g <= arrived /\ ~(g > arrived)
        BY <1>1, <1>2
    <2>2. CASE outcome[g] # << >>
        BY <2>2, FateValues DEF Outcome
    <2>3. CASE outcome[g] = << >>
        BY <1>2, <2>1, <2>3 DEF Fate
    <2>. QED
        BY <2>2, <2>3
<1>8. \/ Fate(f)' \in {"dropped", "offered"}
      \/ Fate(f)' = "handled" /\ ~Relayed(f)
    <2>1. CASE Settle(f, "dropped")
        BY <1>3, <2>1, FateSettled DEF Outcome
    <2>2. CASE reader' # "read" /\ outcome' = outcome
        BY <1>2, <1>3, <2>2 DEF Fate
    <2>3. CASE Fatal(scene.frames[f]) /\ UNCHANGED << reader, outcome >>
        <3>1. ~InHand(f)'
            BY <1>2, <1>3, <2>3, InHandIs, Rests
        <3>. QED
            BY <1>2, <1>3, <2>3, <3>1 DEF Fate, Fatal, Relayed
    <2>. QED
        BY <1>1, <2>1, <2>2, <2>3 DEF ReadFrame, Answer
<1>9. \/ Abstract!Becomes(f, "new", "offered")
      \/ Abstract!Becomes(f, "new", "dropped")
      \/ ~Relayed(f) /\ Abstract!Becomes(f, "new", "handled")
    BY <1>2, <1>4, <1>6, <1>8, Becoming
<1>10. Abstract!Offer(f)
    BY <1>2, <1>7, <1>9 DEF Abstract!Offer, Relayed
<1>. QED
    BY <1>10 DEF Abstract!Next

(* The reader holds an offered frame. *)
LEMMA OfferedFacts ==
    ASSUME UplinkInv, StageInv, reader # "read", NEW f \in Frame, f = arrived
    PROVE  /\ Fate(f) = "offered" /\ outcome[f] = << >>
           /\ ~Waits(f) /\ ~Claimed(f)
           /\ Relayed(f) <=> reply \notin {"PONG", "KICK"}
<1>. TypeOK /\ PlaceInv /\ OutcomeInv
    BY DEF UplinkInv
<1>. USE PlaceTypes
<1>1. ~Waits(f) /\ ~Claimed(f)
    BY HeldIsPassed DEF Passed
<1>2. outcome[f] = << >>
    BY InHandIs DEF OutcomeInv, FateInv
<1>3. Fate(f) = "offered"
    BY <1>2 DEF Fate
<1>4. f <= Len(scene.frames)
    <2>1. arrived \in 0 .. Len(scene.frames) /\ scene \in Scenario
        BY DEF TypeOK
    <2>. QED
        BY <2>1, SceneOK, BoundsOK
<1>5. Relayed(f) <=> reply \notin {"PONG", "KICK"}
    BY <1>4 DEF StageInv, OutcomeInv, ReplyInv, Relayed, Cur
<1>. QED
    BY <1>1, <1>2, <1>3, <1>5

LEMMA ReaderRefines ==
    ASSUME UplinkInv, StageInv, ReaderStep
    PROVE  [Abstract!Next]_(Abstract!vars)
<1>. TypeOK /\ PlaceInv /\ OutcomeInv
    BY DEF UplinkInv
<1>. USE PlaceTypes
<1>1. /\ arrived \in Frame /\ reader # "read"
      /\ UNCHANGED << arrived, scene, job, forwarded >>
    BY DEF ReaderStep, ValidateStage, LimitAndTrace, SubmitStage, SubmitReply
<1>2. PICK f \in Frame : f = arrived
    BY <1>1
<1>3. /\ Fate(f) = "offered" /\ outcome[f] = << >> /\ ~Waits(f) /\ ~Claimed(f)
      /\ Relayed(f) <=> reply \notin {"PONG", "KICK"}
    BY <1>1, <1>2, OfferedFacts
<1>4. CASE reader' # "read" /\ UNCHANGED << upstreamCh, outcome >>
    <2>1. ASSUME NEW g \in Frame PROVE Fate(g)' = Fate(g)
        <3>1. InHand(g) <=> InHand(g)'
            BY <1>1, <1>4, InHandIs, Rests
        <3>. QED
            BY <1>1, <1>4, <3>1, FateKept
    <2>. QED
        BY <1>1, <2>1 DEF Abstract!vars
<1>5. ASSUME reader' = "read", \A g \in Frame \ {f} : outcome'[g] = outcome[g],
             UNCHANGED upstreamCh
      PROVE  \A g \in Frame \ {f} : Fate(g)' = Fate(g)
    <2>. SUFFICES ASSUME NEW g \in Frame \ {f} PROVE Fate(g)' = Fate(g)
        OBVIOUS
    <2>1. InHand(g) <=> InHand(g)'
        BY <1>1, <1>2, <1>5, InHandIs, Rests
    <2>. QED
        BY <1>1, <1>2, <1>5, <2>1, FateKept
<1>6. ASSUME NEW what \in {"dropped", "refused"}, Settle(f, what), reader' = "read",
             UNCHANGED upstreamCh, reply \notin {"PONG", "KICK"}
      PROVE  Abstract!Next
    <2>1. Fate(f)' = what /\ \A g \in Frame \ {f} : outcome'[g] = outcome[g]
        BY <1>3, <1>6, FateSettled DEF Outcome
    <2>2. \A g \in Frame \ {f} : Fate(g)' = Fate(g)
        BY <1>5, <1>6, <2>1
    <2>3. Abstract!Becomes(f, "offered", what)
        BY <1>1, <1>3, <2>1, <2>2, Becoming
    <2>4. Abstract!Decide(f)
        BY <1>1, <1>3, <1>6, <2>3 DEF Abstract!Decide, Relayed
    <2>. QED
        BY <2>4 DEF Abstract!Next
<1>7. CASE reader' = "read" /\ reply \in {"PONG", "KICK"} /\ UNCHANGED << upstreamCh, outcome >>
    <2>1. ~InHand(f)'
        BY <1>1, <1>3, <1>7, InHandIs, Rests
    <2>2. Fate(f)' = "handled"
        BY <1>1, <1>2, <1>3, <1>7, <2>1 DEF Fate
    <2>3. \A g \in Frame \ {f} : Fate(g)' = Fate(g)
        BY <1>5, <1>7
    <2>4. Abstract!Becomes(f, "offered", "handled")
        BY <1>1, <1>3, <2>2, <2>3, Becoming
    <2>5. Abstract!Handle(f)
        BY <1>1, <1>3, <1>7, <2>4 DEF Abstract!Handle, Relayed
    <2>. QED
        BY <2>5 DEF Abstract!Next
<1>8. CASE Enqueues /\ outcome' = outcome /\ reply \notin {"PONG", "KICK"}
    <2>1. reader' = "read" /\ arrived' = arrived
        BY <1>8 DEF Enqueues
    <2>2. InHand(f)'
        BY <1>2, <1>8, InHandIs, EnqueuesMoves
    <2>3. Fate(f)' = "accepted"
        BY <1>1, <1>2, <1>3, <1>8, <2>1, <2>2 DEF Fate
    <2>4. \A g \in Frame \ {f} : Fate(g)' = Fate(g)
        <3>. SUFFICES ASSUME NEW g \in Frame \ {f} PROVE Fate(g)' = Fate(g)
            OBVIOUS
        <3>1. InHand(g) <=> InHand(g)'
            BY <1>2, <1>8, <2>1, InHandIs, EnqueuesMoves
        <3>. QED
            BY <1>2, <1>8, <2>1, <3>1, FateKept
    <2>5. Abstract!Becomes(f, "offered", "accepted")
        BY <1>1, <1>3, <2>3, <2>4, Becoming
    <2>6. Abstract!Decide(f)
        BY <1>1, <1>3, <1>8, <2>5 DEF Abstract!Decide, Relayed
    <2>. QED
        BY <2>6 DEF Abstract!Next
<1>9. reader # "reply" => reply \notin {"PONG", "KICK"}
    BY DEF TypeOK
<1>10. CASE ValidateStage \/ LimitAndTrace
    BY <1>2, <1>4, <1>6, <1>9, <1>10 DEF ValidateStage, LimitAndTrace, Answer, OnPanic
<1>11. CASE SubmitStage
    BY <1>4, <1>8, <1>9, <1>11 DEF SubmitStage, Answer, OnPanic, Enqueues
<1>12. CASE SubmitReply
    BY <1>2, <1>6, <1>7, <1>12 DEF SubmitReply
<1>. QED
    BY <1>10, <1>11, <1>12 DEF ReaderStep

(* A frame that leaves the channel or a worker. *)
LEMMA SettleRefines ==
    ASSUME UplinkInv, NEW f \in Frame, Waits(f) \/ Claimed(f),
           NEW what \in {"dropped", "forwarded", "failed"}, Settle(f, what),
           UNCHANGED << scene, arrived, reader >>, ~Waits(f)', ~Claimed(f)',
           \A g \in Frame \ {f} : (Waits(g)' <=> Waits(g)) /\ (Claimed(g)' <=> Claimed(g)),
           forwarded' = IF what = "forwarded" THEN Append(forwarded, f) ELSE forwarded
    PROVE  Abstract!Next
<1>. TypeOK /\ PlaceInv /\ OutcomeInv
    BY DEF UplinkInv
<1>. USE PlaceTypes
<1>1. Passed(f) /\ InHand(f) /\ outcome[f] = << >>
    BY HeldIsPassed, InHandIs DEF OutcomeInv, FateInv
<1>2. Fate(f) = "accepted"
    BY <1>1 DEF Fate, Passed
<1>3. Fate(f)' = what /\ \A g \in Frame \ {f} : outcome'[g] = outcome[g]
    BY <1>1, FateSettled DEF Outcome
<1>4. \A g \in Frame \ {f} : Fate(g)' = Fate(g)
    <2>. SUFFICES ASSUME NEW g \in Frame \ {f} PROVE Fate(g)' = Fate(g)
        OBVIOUS
    <2>1. InHand(g) <=> InHand(g)'
        BY InHandIs
    <2>. QED
        BY <1>3, <2>1, FateKept
<1>5. Abstract!Becomes(f, "accepted", what)
    BY <1>2, <1>3, <1>4, Becoming
<1>6. Abstract!Forward(f) \/ Abstract!GiveUp(f)
    BY <1>5 DEF Abstract!Forward, Abstract!GiveUp
<1>. QED
    BY <1>6 DEF Abstract!Next

LEMMA WorkerRefines ==
    ASSUME UplinkInv, NEW w \in Worker, WorkerStep(w)
    PROVE  [Abstract!Next]_(Abstract!vars)
<1>. TypeOK /\ PlaceInv /\ OutcomeInv
    BY DEF UplinkInv
<1>. USE PlaceTypes
<1>1. CASE UNCHANGED << scene, arrived, reader, upstreamCh, job, outcome, forwarded >>
    <2>1. ASSUME NEW g \in Frame PROVE Fate(g)' = Fate(g)
        BY <1>1 DEF Fate, InHand
    <2>. QED
        BY <1>1, <2>1 DEF Abstract!vars
<1>2. ASSUME NEW f \in Frame, TakeJob(w), Receive(f),
             \/ Settle(f, "dropped") /\ UNCHANGED workVars
             \/ job' = [job EXCEPT ![w] = f] /\ UNCHANGED outcome
      PROVE  [Abstract!Next]_(Abstract!vars)
    <2>1. Takes(w, f) /\ UNCHANGED << arrived, reader, scene, forwarded >>
        BY <1>2 DEF TakeJob, Takes, TypeOK
    <2>2. Waits(f) /\ ~Waits(f)' /\ ~Claimed(f) /\ job[w] = 0
        BY <2>1, TakesMoves DEF Takes
    <2>3. CASE Settle(f, "dropped") /\ UNCHANGED workVars
        <3>1. job'[w] # f
            BY <2>2, <2>3
        <3>2. \A g \in Frame : (g # f => (Waits(g)' <=> Waits(g))) /\ (Claimed(g)' <=> Claimed(g))
            BY <2>1, <3>1, TakesMoves
        <3>3. forwarded' = IF "dropped" = "forwarded" THEN Append(forwarded, f) ELSE forwarded
            BY <2>1
        <3>. QED
            BY <2>1, <2>2, <2>3, <3>2, <3>3, SettleRefines
    <2>4. CASE job' = [job EXCEPT ![w] = f] /\ UNCHANGED outcome
        <3>1. job'[w] = f
            BY <2>4
        <3>2. ASSUME NEW g \in Frame PROVE InHand(g) <=> InHand(g)'
            BY <2>1, <3>1, TakesMoves, InHandIs
        <3>3. ASSUME NEW g \in Frame PROVE Fate(g)' = Fate(g)
            BY <2>1, <2>4, <3>2, FateKept
        <3>. QED
            BY <2>1, <3>3 DEF Abstract!vars
    <2>. QED
        BY <1>2, <2>3, <2>4
<1>3. CASE TakeJob(w)
    BY <1>1, <1>2, <1>3 DEF TakeJob
<1>4. ASSUME NEW what \in {"forwarded", "failed"}, job[w] \in Frame, Finishes(w),
             Settle(job[w], what), scene' = scene,
             forwarded' = IF what = "forwarded" THEN Append(forwarded, job[w]) ELSE forwarded
      PROVE  Abstract!Next
    <2>1. PICK f \in Frame : f = job[w]
        BY <1>4
    <2>2. /\ Claimed(f) /\ ~Claimed(f)' /\ ~Waits(f)'
          /\ \A g \in Frame \ {f} : (Waits(g)' <=> Waits(g)) /\ (Claimed(g)' <=> Claimed(g))
        BY <1>4, <2>1, FinishesMoves
    <2>3. /\ Settle(f, what) /\ UNCHANGED << scene, arrived, reader >>
          /\ forwarded' = IF what = "forwarded" THEN Append(forwarded, f) ELSE forwarded
        BY <1>4, <2>1 DEF Settle, Finishes
    <2>. QED
        BY <2>2, <2>3, SettleRefines
<1>5. CASE Leave(w) \/ Send(w) \/ ReportError(w)
    <2>1. step[w] \in {"send", "error"} => job[w] \in Frame
        BY BusyHasJob
    <2>. QED
        BY <1>1, <1>4, <1>5, <2>1 DEF Leave, Send, ReportError, Finishes
<1>. QED
    BY <1>3, <1>5 DEF WorkerStep

LEMMA RelayStep ==
    ASSUME UplinkInv, StageInv, [Next]_vars
    PROVE  [Abstract!Next]_(Abstract!vars)
<1>1. CASE UNCHANGED << scene, arrived, reader, upstreamCh, job, outcome, forwarded >>
    <2>1. ASSUME NEW g \in Frame PROVE Fate(g)' = Fate(g)
        BY <1>1 DEF Fate, InHand
    <2>. QED
        BY <1>1, <2>1 DEF Abstract!vars
<1>. QED
    BY <1>1, ReadRefines, ReaderRefines, WorkerRefines DEF Next, Attach, LoseConn, Write,
       Stop, ConsumerSubmits, ConsumerEnds, vars

(* The reader, the uplink chain, the channel and any number of workers relay
   each frame at most once: they implement Relay, in which a frame is offered,
   then accepted, refused or dropped, and an accepted one forwarded, failed or
   dropped, each for good.  A frame has its outcome only when nobody holds it,
   which is what UplinkInv says and what no single step shows. *)
THEOREM RelayRefinement == Spec => RelaysAtMostOnce
<1>1. Init => StageInv
    BY DEF Init, StageInv
<1>2. Spec => []StageInv
    BY <1>1, StageStep, TypeCorrect, PTL DEF Spec
<1>3. ASSUME Init PROVE Abstract!Init
    <2>1. ASSUME NEW f \in Frame PROVE Fate(f) = "new"
        <3>1. outcome[f] = << >> /\ arrived = 0
            BY <1>3 DEF Init
        <3>2. f > arrived
            BY <3>1, BoundsOK DEF Frame
        <3>. QED
            BY <3>1, <3>2, BoundsOK DEF Fate, Frame
    <2>2. forwarded = << >>
        BY <1>3 DEF Init
    <2>. QED
        BY <2>1, <2>2 DEF Abstract!Init
<1>. QED
    BY <1>2, <1>3, RelayStep, UplinkInvariant, PTL DEF Spec, RelaysAtMostOnce, Abstract!Spec
=============================================================================
