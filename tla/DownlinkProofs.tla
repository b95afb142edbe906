--------------------------- MODULE DownlinkProofs ----------------------------
(***************************************************************************)
(* Proofs about the downlink, for any partition, any number of sessions    *)
(* and workers and any capacities: type correctness, who receives a        *)
(* message and how often, that every loss has one of the named reasons,    *)
(* that the sequence numbers of unicast messages differ, and that the      *)
(* downlink implements module Fanout.                                      *)
(***************************************************************************)
EXTENDS Downlink, SequenceTheorems, FiniteSetTheorems, TLAPS

USE DEF kafkaVars, workVars, sessVars, sendVars

-----------------------------------------------------------------------------
(* Constants and the scenario. *)

LEMMA BoundsOK ==
    /\ MaxOffset \in Nat /\ MaxConn \in Nat /\ MaxCrash \in Nat
    /\ ChanCap \in Nat \ {0} /\ WriteCap \in Nat \ {0}
    /\ \A m \in Offset : m \in Nat /\ m # 0 /\ m <= MaxOffset
    BY DownlinkAssumption DEF Offset

LEMMA SceneOK ==
    ASSUME scene \in Scenario
    PROVE  /\ \A m \in Offset : log[m] \in MsgKind
           /\ scene.conns \in [Session -> 0 .. MaxConn]
           /\ scene.crashes \in 0 .. MaxCrash
<1>1. scene \in [log : [1 .. MaxOffset -> MsgKind], conns : [Session -> 0 .. MaxConn],
                 crashes : 0 .. MaxCrash]
    BY DownlinkAssumption
<1>. QED
    BY <1>1 DEF log, Offset

LEMMA KindOK ==
    ASSUME NEW k \in MsgKind
    PROVE  /\ k.form \in Form /\ k.to \subseteq Session /\ k.exclude \subseteq Session
           /\ k.offline \in BOOLEAN /\ k.qos \in {0, 1} /\ k.expires \in BOOLEAN
    BY DownlinkAssumption

LEMMA SessionFinite ==
    /\ IsFiniteSet(Session) /\ Cardinality(Session) \in Nat
    /\ \A S \in SUBSET Session :
         /\ IsFiniteSet(S) /\ Cardinality(S) \in Nat
         /\ Cardinality(S) <= Cardinality(Session)
    BY DownlinkAssumption, FS_Subset, FS_CardinalityType

-----------------------------------------------------------------------------
(* Types. *)

(* What the stage of a worker says about its other variables. *)
WorkerOK(w) ==
    /\ stage[w] \in {"idle", "route", "offline"} => filtered[w] = {}
    /\ targets[w] # {} <=> stage[w] = "filter"
    /\ stage[w] \in {"fanout", "draw", "send"} => filtered[w] # {}
    /\ stage[w] \in {"draw", "send"} =>
         dest[w] \in Session \X (1 .. MaxConn) /\ dest[w][1] \in filtered[w]
    /\ dropped[w] + Cardinality(filtered[w]) <= Cardinality(Session)
    /\ stage[w] \in {"idle", "route", "offline", "filter"} => dropped[w] = 0

WorkInv == \A w \in Worker : WorkerOK(w)

LEMMA JobIsOffset ==
    ASSUME WorkType, NEW w \in Worker, stage[w] # "idle"
    PROVE  job[w] \in Offset /\ job[w] # 0
<1>1. job[w] \in 0 .. MaxOffset /\ job[w] # 0
    BY DEF WorkType
<1>. QED
    BY <1>1, BoundsOK DEF Offset

LEMMA KafkaTypeStep ==
    ASSUME TypeOK, [Next]_vars
    PROVE  KafkaType'
<1>. KafkaType /\ scene \in Scenario
    BY DEF TypeOK
<1>1. CASE Consume
    <2>. DEFINE m == fetchPos + 1
    <2>1. /\ committed \in 0 .. MaxOffset /\ fetchPos \in committed .. MaxOffset
          /\ fetchPos < MaxOffset
        BY <1>1 DEF Consume, KafkaType
    <2>2. m \in Offset /\ fetchPos' = m /\ committed' = committed
        BY <1>1, <2>1, BoundsOK DEF Consume, Offset
    <2>3. fetchPos' \in committed' .. MaxOffset
        BY <2>1, <2>2, BoundsOK
    <2>4. /\ downstreamCh \in Seq(Offset) /\ Len(downstreamCh) <= ChanCap
          /\ accepted \in [Offset -> Nat]
        BY DEF KafkaType
    <2>5. accepted' \in [Offset -> Nat]
        BY <1>1, <2>2, <2>4 DEF Consume
    <2>6. \/ downstreamCh' = downstreamCh
          \/ Len(downstreamCh) < ChanCap /\ downstreamCh' = Append(downstreamCh, m)
        BY <1>1 DEF Consume, Accepts
    <2>. HIDE DEF m
    <2>7. downstreamCh' \in Seq(Offset) /\ Len(downstreamCh') <= ChanCap
        <3>1. m \in Offset /\ ChanCap \in Nat
            BY <2>2, BoundsOK
        <3>. QED
            BY <2>4, <2>6, <3>1
    <2>8. consumer' \in {"fetch", "commit"}
        BY <1>1 DEF Consume, AfterSubmit
    <2>9. refused' \subseteq Offset
        BY <1>1, <2>2 DEF Consume, KafkaType
    <2>. QED
        BY <2>1, <2>2, <2>3, <2>5, <2>7, <2>8, <2>9 DEF KafkaType
<1>2. CASE CommitMessages
    <2>1. /\ committed \in 0 .. MaxOffset /\ fetchPos \in committed .. MaxOffset
          /\ committed' \in {committed, fetchPos} /\ fetchPos' = fetchPos
        BY <1>2 DEF CommitMessages, KafkaType
    <2>2. committed' \in 0 .. MaxOffset /\ fetchPos' \in committed' .. MaxOffset
        BY <2>1, BoundsOK
    <2>. QED
        BY <1>2, <2>2 DEF CommitMessages, KafkaType
<1>3. CASE Crash
    <2>1. committed \in 0 .. MaxOffset /\ fetchPos' = committed /\ committed' = committed
        BY <1>3 DEF Crash, KafkaType
    <2>2. fetchPos' \in committed' .. MaxOffset
        BY <2>1, BoundsOK
    <2>3. downstreamCh' = << >>
        BY <1>3 DEF Crash
    <2>4. downstreamCh' \in Seq(Offset) /\ Len(downstreamCh') <= ChanCap
        BY <2>3, BoundsOK
    <2>. QED
        BY <1>3, <2>1, <2>2, <2>4 DEF Crash, KafkaType
<1>4. ASSUME NEW w \in Worker, TakeJob(w) PROVE KafkaType'
    <2>1. /\ downstreamCh \in Seq(Offset) /\ Len(downstreamCh) <= ChanCap
          /\ downstreamCh # << >> /\ downstreamCh' = Tail(downstreamCh)
        BY <1>4 DEF TakeJob, KafkaType
    <2>2. downstreamCh' \in Seq(Offset) /\ Len(downstreamCh') <= ChanCap
        BY <2>1, BoundsOK
    <2>. QED
        BY <1>4, <2>2 DEF TakeJob, KafkaType
<1>5. CASE UNCHANGED << kafkaVars, downstreamCh >>
    BY <1>5 DEF KafkaType
<1>. QED
    BY <1>1, <1>2, <1>3, <1>4, <1>5 DEF Next, ConsumerStep, WorkerStep, Route, Filter,
       StoreOffline, SubmitReadConn, DrawSeq, Enqueue, Attach, Register, Write,
       LoseConn, vars

(* A step of w leaves the other workers alone. *)
OthersRest(w) ==
    \A v \in Worker \ {w} :
      /\ job'[v] = job[v] /\ stage'[v] = stage[v] /\ targets'[v] = targets[v]
      /\ filtered'[v] = filtered[v] /\ dropped'[v] = dropped[v] /\ dest'[v] = dest[v]

LEMMA OneWorker ==
    ASSUME WorkInv, NEW w \in Worker, OthersRest(w), WorkerOK(w)'
    PROVE  WorkInv'
<1>1. ASSUME NEW v \in Worker, v # w PROVE WorkerOK(v)'
    <2>1. WorkerOK(v)
        BY DEF WorkInv
    <2>2. /\ stage'[v] = stage[v] /\ targets'[v] = targets[v]
          /\ filtered'[v] = filtered[v] /\ dropped'[v] = dropped[v] /\ dest'[v] = dest[v]
        BY <1>1 DEF OthersRest
    <2>. QED
        BY <2>1, <2>2 DEF WorkerOK
<1>. QED
    BY <1>1 DEF WorkInv

LEMMA EmptyCount == Cardinality({}) = 0
    BY FS_EmptySet

LEMMA FinishWork ==
    ASSUME WorkType, WorkInv, NEW w \in Worker, Finish(w)
    PROVE  /\ WorkType' /\ WorkInv' /\ OthersRest(w)
           /\ job'[w] = 0 /\ stage'[w] = "idle" /\ targets'[w] = {} /\ filtered'[w] = {}
<1>1. /\ job'[w] = 0 /\ stage'[w] = "idle" /\ targets'[w] = {} /\ filtered'[w] = {}
      /\ dropped'[w] = 0
    BY DEF Finish, WorkType
<1>2. OthersRest(w)
    BY DEF Finish, WorkType, OthersRest
<1>3. 0 \in 0 .. MaxOffset /\ 0 \in 0 .. Cardinality(Session) /\ NoDest \in Dest
    BY BoundsOK, SessionFinite DEF Dest
<1>4. WorkType'
    BY <1>3 DEF Finish, WorkType, Stage
<1>5. WorkerOK(w)'
    BY <1>1, EmptyCount, SessionFinite DEF WorkerOK
<1>. QED
    BY <1>1, <1>2, <1>4, <1>5, OneWorker

LEMMA NextWork ==
    ASSUME WorkType, WorkInv, NEW w \in Worker, NEW s \in filtered[w],
           stage[w] \in {"fanout", "draw", "send"},
           NEW d \in {dropped[w], dropped[w] + 1}, NextTarget(w, s, d)
    PROVE  /\ WorkType' /\ WorkInv' /\ OthersRest(w)
           /\ \/ filtered[w] = {s} /\ job'[w] = 0
              \/ filtered[w] # {s} /\ job'[w] = job[w]
           /\ targets'[w] = {} /\ filtered'[w] = filtered[w] \ {s}
           /\ stage'[w] \in {"idle", "fanout"}
<1>0. targets[w] = {}
    BY DEF WorkInv, WorkerOK
<1>1. CASE filtered[w] = {s}
    BY <1>1, FinishWork DEF NextTarget
<1>2. CASE filtered[w] # {s}
    <2>1. /\ filtered' = [filtered EXCEPT ![w] = filtered[w] \ {s}]
          /\ dropped' = [dropped EXCEPT ![w] = d]
          /\ dest' = [dest EXCEPT ![w] = NoDest]
          /\ stage' = [stage EXCEPT ![w] = "fanout"]
          /\ job' = job /\ targets' = targets
        BY <1>2 DEF NextTarget
    <2>2. /\ filtered[w] \in SUBSET Session /\ dropped[w] \in Nat
          /\ dropped[w] + Cardinality(filtered[w]) <= Cardinality(Session)
        BY SessionFinite DEF WorkInv, WorkerOK, WorkType
    <2>3. /\ Cardinality(filtered[w]) \in Nat
          /\ Cardinality(filtered[w] \ {s}) = Cardinality(filtered[w]) - 1
          /\ Cardinality(filtered[w] \ {s}) \in Nat
        BY <2>2, SessionFinite, FS_RemoveElement
    <2>4. /\ d + Cardinality(filtered[w] \ {s}) <= Cardinality(Session)
          /\ d \in 0 .. Cardinality(Session)
        BY <2>2, <2>3, SessionFinite
    <2>5. NoDest \in Dest
        BY DEF Dest
    <2>6. WorkType'
        <3>1. (job[w] = 0) <=> (stage[w] = "idle")
            BY DEF WorkType
        <3>2. \A v \in Worker : (job'[v] = 0) <=> (stage'[v] = "idle")
            BY <2>1, <3>1 DEF WorkType
        <3>. QED
            BY <2>1, <2>2, <2>4, <2>5, <3>2 DEF WorkType, Stage
    <2>7. OthersRest(w)
        BY <2>1 DEF OthersRest, WorkType
    <2>8. /\ stage'[w] = "fanout" /\ filtered'[w] = filtered[w] \ {s}
          /\ dropped'[w] = d /\ targets'[w] = {}
        BY <1>0, <2>1 DEF WorkType
    <2>9. WorkerOK(w)'
        BY <1>2, <2>4, <2>8 DEF WorkerOK
    <2>. QED
        BY <1>2, <2>1, <2>6, <2>7, <2>8, <2>9, OneWorker
<1>. QED
    BY <1>1, <1>2

(* ValidateStage lets the message through. *)
Good(m) == log[m].form \notin {"nodest", "notrace"} /\ ~log[m].expires

(* The steps of the chain for worker w; what they leave alone is stated once. *)
LEMMA TakeWork ==
    ASSUME TypeOK, WorkInv, NEW w \in Worker, TakeJob(w)
    PROVE  /\ WorkType' /\ WorkInv' /\ OthersRest(w)
           /\ downstreamCh \in Seq(Offset) /\ downstreamCh # << >>
           /\ downstreamCh' = Tail(downstreamCh)
           /\ job[w] = 0 /\ job'[w] \in {0, Head(downstreamCh)}
           /\ job'[w] # 0 => stage'[w] = "route"
           /\ Good(Head(downstreamCh)) => job'[w] = Head(downstreamCh)
           /\ targets'[w] = {} /\ filtered'[w] = {}
<1>1. /\ stage[w] = "idle" /\ downstreamCh # << >> /\ downstreamCh' = Tail(downstreamCh)
      /\ UNCHANGED << targets, filtered, dropped, dest >>
    BY DEF TakeJob
<1>2. /\ downstreamCh \in Seq(Offset) /\ WorkType /\ job[w] = 0
      /\ job \in [Worker -> 0 .. MaxOffset] /\ stage \in [Worker -> Stage]
    BY <1>1 DEF TypeOK, KafkaType, WorkType
<1>3. PICK m \in Offset : m = Head(downstreamCh)
    BY <1>1, <1>2
<1>4. m # 0 /\ m \in 0 .. MaxOffset
    BY BoundsOK
<1>5. targets[w] = {} /\ filtered[w] = {} /\ WorkerOK(w)
    BY <1>1 DEF WorkInv, WorkerOK
<1>6. CASE UNCHANGED << job, stage >> /\ ~Good(m)
    <2>1. WorkerOK(w)'
        BY <1>1, <1>5, <1>6 DEF WorkerOK
    <2>2. OthersRest(w)
        BY <1>1, <1>6 DEF OthersRest
    <2>. QED
        BY <1>1, <1>2, <1>3, <1>5, <1>6, <2>1, <2>2, OneWorker DEF WorkType
<1>7. CASE job' = [job EXCEPT ![w] = m] /\ stage' = [stage EXCEPT ![w] = "route"]
    <2>1. WorkType'
        BY <1>1, <1>2, <1>4, <1>7 DEF WorkType, Stage
    <2>2. OthersRest(w)
        BY <1>1, <1>2, <1>7 DEF OthersRest
    <2>3. stage'[w] = "route" /\ job'[w] = m
        BY <1>2, <1>7
    <2>4. WorkerOK(w)'
        BY <1>1, <1>5, <2>3 DEF WorkerOK
    <2>. QED
        BY <1>1, <1>2, <1>3, <1>5, <2>1, <2>2, <2>3, <2>4, OneWorker
<1>. QED
    BY <1>3, <1>6, <1>7 DEF TakeJob, Good

LEMMA RouteWork ==
    ASSUME TypeOK, WorkInv, NEW w \in Worker, Route(w)
    PROVE  /\ WorkType' /\ WorkInv' /\ OthersRest(w)
           /\ job' = job /\ filtered' = filtered /\ filtered[w] = {}
           /\ targets'[w] = Resolve(Kind(w)) /\ targets'[w] \subseteq Kind(w).to
           /\ stage[w] = "route" /\ job[w] \in Offset
           /\ stage'[w] = IF targets'[w] = {} THEN "offline" ELSE "filter"
           /\ owed' = [owed EXCEPT ![job[w]] = targets'[w]]
<1>. DEFINE found == Resolve(Kind(w))
<1>1. /\ stage[w] = "route" /\ UNCHANGED << job, filtered, dropped, dest >>
      /\ targets' = [targets EXCEPT ![w] = found]
      /\ stage' = [stage EXCEPT ![w] = IF found = {} THEN "offline" ELSE "filter"]
      /\ owed' = [owed EXCEPT ![job[w]] = found]
    BY DEF Route
<1>2. WorkType /\ SessType /\ scene \in Scenario
    BY DEF TypeOK
<1>3. job[w] \in Offset /\ job[w] # 0
    BY <1>1, <1>2, JobIsOffset
<1>4. found \subseteq Kind(w).to /\ found \in SUBSET Session
    BY <1>2 DEF Resolve, SessType
<1>. HIDE DEF found
<1>5. /\ targets'[w] = found
      /\ stage'[w] = IF found = {} THEN "offline" ELSE "filter"
    BY <1>1, <1>2 DEF WorkType
<1>6. WorkType'
    BY <1>1, <1>2, <1>3, <1>4 DEF WorkType, Stage
<1>7. OthersRest(w)
    BY <1>1, <1>2 DEF OthersRest, WorkType
<1>8. WorkerOK(w) /\ filtered[w] = {}
    BY <1>1 DEF WorkInv, WorkerOK
<1>9. WorkerOK(w)'
    BY <1>1, <1>5, <1>8 DEF WorkerOK
<1>. QED
    BY <1>1, <1>3, <1>4, <1>5, <1>6, <1>7, <1>8, <1>9, OneWorker DEF found

LEMMA FilterWork ==
    ASSUME TypeOK, WorkInv, NEW w \in Worker, Filter(w)
    PROVE  /\ WorkType' /\ WorkInv' /\ OthersRest(w)
           /\ stage[w] = "filter" /\ job[w] \in Offset
           /\ job'[w] \in {0, job[w]}
           /\ stage'[w] \in {"idle", "filter", "fanout"}
           /\ targets'[w] \subseteq targets[w]
           /\ filtered'[w] \subseteq filtered[w] \cup (targets[w] \ Kind(w).exclude)
           /\ missed \subseteq missed' /\ missed' \subseteq missed \cup ({job[w]} \X Session)
           /\ \A t \in targets[w] \cup filtered[w] :
                \/ t \in targets'[w] \cup filtered'[w]
                \/ t \in Kind(w).exclude \/ << job[w], t >> \in missed'
<1>1. stage[w] = "filter" /\ WorkType
    BY DEF Filter, TypeOK
<1>2. PICK s \in targets[w] :
        LET pass == IF Passes(Kind(w), s) THEN filtered[w] \cup {s} ELSE filtered[w]
            last == targets[w] = {s} IN
        /\ missed' = IF state[s] # "Active" /\ s \notin Kind(w).exclude
                     THEN missed \cup {<< job[w], s >>} ELSE missed
        /\ IF last /\ pass = {}
           THEN Finish(w)
           ELSE /\ targets' = [targets EXCEPT ![w] = @ \ {s}]
                /\ filtered' = [filtered EXCEPT ![w] = pass]
                /\ stage' = [stage EXCEPT ![w] = IF last THEN "fanout" ELSE @]
                /\ UNCHANGED << job, dropped, dest >>
    BY DEF Filter
<1>. DEFINE pass == IF Passes(Kind(w), s) THEN filtered[w] \cup {s} ELSE filtered[w]
<1>3. job[w] \in Offset /\ job[w] # 0
    BY <1>1, JobIsOffset
<1>4. /\ WorkerOK(w) /\ targets[w] \in SUBSET Session /\ filtered[w] \in SUBSET Session
      /\ s \in Session
    BY <1>1 DEF WorkInv, WorkType
<1>5. /\ missed \subseteq missed' /\ missed' \subseteq missed \cup ({job[w]} \X Session)
    BY <1>2, <1>4
<1>6. s \in pass \/ s \in Kind(w).exclude \/ << job[w], s >> \in missed'
    BY <1>2 DEF Passes
<1>7. /\ pass \in SUBSET Session /\ filtered[w] \subseteq pass
      /\ pass \subseteq filtered[w] \cup (targets[w] \ Kind(w).exclude)
    BY <1>4 DEF Passes
<1>8. CASE targets[w] = {s} /\ pass = {}
    <2>1. Finish(w)
        BY <1>2, <1>8
    <2>. QED
        BY <1>1, <1>3, <1>5, <1>6, <1>7, <1>8, <2>1, FinishWork
<1>9. CASE ~(targets[w] = {s} /\ pass = {})
    <2>1. /\ targets' = [targets EXCEPT ![w] = targets[w] \ {s}]
          /\ filtered' = [filtered EXCEPT ![w] = pass]
          /\ stage' = [stage EXCEPT ![w] = IF targets[w] = {s} THEN "fanout" ELSE "filter"]
          /\ UNCHANGED << job, dropped, dest >>
        BY <1>1, <1>2, <1>9
    <2>. HIDE DEF pass
    <2>2. /\ targets'[w] = targets[w] \ {s} /\ filtered'[w] = pass
          /\ stage'[w] = IF targets[w] = {s} THEN "fanout" ELSE "filter"
        BY <1>1, <2>1 DEF WorkType
    <2>3. WorkType'
        BY <1>1, <1>3, <1>4, <1>7, <2>1 DEF WorkType, Stage
    <2>4. OthersRest(w)
        BY <1>1, <2>1 DEF OthersRest, WorkType
    <2>5. dropped'[w] = 0 /\ dropped'[w] + Cardinality(filtered'[w]) <= Cardinality(Session)
        BY <1>1, <1>4, <1>7, <2>1, <2>2, SessionFinite DEF WorkerOK
    <2>6. WorkerOK(w)'
        BY <1>9, <2>2, <2>5 DEF WorkerOK
    <2>. QED
        BY <1>1, <1>3, <1>5, <1>6, <1>7, <2>1, <2>2, <2>3, <2>4, <2>6, OneWorker
<1>. QED
    BY <1>8, <1>9

(* One Session.Submit: the target leaves the fan-out with a copy, a reason or
   the store. *)
Handled(w) ==
    /\ job'[w] \in {0, job[w]}
    /\ stage'[w] \in {"idle", "fanout", "draw", "send"}
    /\ targets'[w] = {} /\ filtered'[w] \subseteq filtered[w]
    /\ missed \subseteq missed' /\ missed' \subseteq missed \cup ({job[w]} \X filtered[w])
    /\ stored \subseteq stored' /\ stored' \subseteq stored \cup {job[w]}

(* The submission did not put the message on a queue. *)
NotPut(w) ==
    \A t \in filtered[w] \ filtered'[w] :
      \/ << job[w], t >> \in missed'
      \/ Kind(w).offline /\ Kind(w).qos = 1 => job[w] \in stored'

LEMMA UndeliveredHandled ==
    ASSUME WorkType, WorkInv, NEW w \in Worker, NEW s \in filtered[w],
           stage[w] \in {"fanout", "draw", "send"}, Undelivered(w, s)
    PROVE  /\ WorkType' /\ WorkInv' /\ OthersRest(w) /\ Handled(w) /\ NotPut(w)
           /\ stage'[w] \in {"idle", "fanout"}
<1>0. targets[w] = {}
    BY DEF WorkInv, WorkerOK
<1>1. CASE Kind(w).form = "bare"
    <2>1. /\ Finish(w) /\ stored' = stored
          /\ missed' = missed \cup ({job[w]} \X filtered[w])
        BY <1>0, <1>1 DEF Undelivered, Recovered
    <2>. QED
        BY <2>1, FinishWork DEF Handled, NotPut
<1>2. CASE Kind(w).form # "bare"
    <2>1. /\ NextTarget(w, s, dropped[w] + 1) /\ missed' = missed
          /\ stored' = IF Keeps(Kind(w), dropped[w] + 1)
                       THEN stored \cup {job[w]} ELSE stored
        BY <1>2 DEF Undelivered
    <2>2. Kind(w).offline /\ Kind(w).qos = 1 => job[w] \in stored'
        BY <2>1 DEF Keeps
    <2>. QED
        BY <2>1, <2>2, NextWork DEF Handled, NotPut
<1>. QED
    BY <1>1, <1>2

LEMMA GoToWork ==
    ASSUME WorkType, WorkInv, NEW w \in Worker, NEW d \in Dest,
           NEW st \in {"draw", "send"}, stage[w] \in {"fanout", "draw", "send"},
           d \in Session \X (1 .. MaxConn), d[1] \in filtered[w],
           stage' = [stage EXCEPT ![w] = st], dest' = [dest EXCEPT ![w] = d],
           UNCHANGED << job, targets, filtered, dropped, stored, missed >>
    PROVE  WorkType' /\ WorkInv' /\ OthersRest(w) /\ Handled(w) /\ NotPut(w)
<1>1. WorkType' /\ OthersRest(w)
    BY DEF WorkType, OthersRest, Stage
<1>2. stage'[w] = st /\ dest'[w] = d
    BY DEF WorkType
<1>3. WorkerOK(w) /\ targets[w] = {}
    BY DEF WorkInv, WorkerOK
<1>4. WorkerOK(w)'
    BY <1>2, <1>3 DEF WorkerOK
<1>. QED
    BY <1>1, <1>2, <1>3, <1>4, OneWorker DEF Handled, NotPut

LEMMA StoreWork ==
    ASSUME TypeOK, WorkInv, NEW w \in Worker, StoreOffline(w)
    PROVE  /\ WorkType' /\ WorkInv' /\ OthersRest(w)
           /\ stage[w] = "offline" /\ job[w] \in Offset
           /\ job'[w] = 0 /\ targets'[w] = {} /\ filtered'[w] = {}
           /\ stored \subseteq stored' /\ stored' \subseteq stored \cup {job[w]}
           /\ Kind(w).form # "bare" /\ Kind(w).offline /\ Kind(w).qos = 1
                => job[w] \in stored'
<1>1. WorkType /\ stage[w] = "offline" /\ Finish(w)
    BY DEF StoreOffline, TypeOK
<1>2. job[w] \in Offset
    BY <1>1, JobIsOffset
<1>3. /\ stored \subseteq stored' /\ stored' \subseteq stored \cup {job[w]}
      /\ Kind(w).form # "bare" /\ Kind(w).offline /\ Kind(w).qos = 1
           => job[w] \in stored'
    BY DEF StoreOffline
<1>. QED
    BY <1>1, <1>2, <1>3, FinishWork

LEMMA ReadConnWork ==
    ASSUME TypeOK, WorkInv, NEW w \in Worker, SubmitReadConn(w)
    PROVE  /\ WorkType' /\ WorkInv' /\ OthersRest(w)
           /\ stage[w] = "fanout" /\ job[w] \in Offset
           /\ Handled(w) /\ NotPut(w)
           /\ stage'[w] = "draw" => dest'[w][2] = conn[dest'[w][1]]
           /\ stage'[w] \in {"idle", "fanout", "draw"}
<1>1. WorkType /\ SessType /\ stage[w] = "fanout"
    BY DEF SubmitReadConn, TypeOK
<1>2. job[w] \in Offset
    BY <1>1, JobIsOffset
<1>3. PICK s \in filtered[w] :
        IF conn[s] = 0 \/ active[s] # conn[s]
        THEN Undelivered(w, s)
        ELSE /\ dest' = [dest EXCEPT ![w] = << s, conn[s] >>]
             /\ stage' = [stage EXCEPT ![w] = "draw"]
             /\ UNCHANGED << job, targets, filtered, dropped, stored, missed >>
    BY DEF SubmitReadConn
<1>4. s \in Session
    BY <1>1 DEF WorkType
<1>5. CASE Undelivered(w, s)
    BY <1>1, <1>2, <1>5, UndeliveredHandled
<1>6. CASE /\ ~(conn[s] = 0 \/ active[s] # conn[s])
           /\ dest' = [dest EXCEPT ![w] = << s, conn[s] >>]
           /\ stage' = [stage EXCEPT ![w] = "draw"]
           /\ UNCHANGED << job, targets, filtered, dropped, stored, missed >>
    <2>1. conn[s] \in 1 .. MaxConn
        <3>1. conn[s] \in 0 .. MaxConn /\ conn[s] # 0
            BY <1>1, <1>4, <1>6 DEF SessType
        <3>. QED
            BY <3>1, BoundsOK
    <2>2. PICK d \in Session \X (1 .. MaxConn) : d = << s, conn[s] >>
        BY <1>4, <2>1
    <2>3. d \in Dest /\ d[1] = s /\ d[2] = conn[s]
        BY <2>2 DEF Dest
    <2>4. dest'[w] = d /\ stage'[w] = "draw"
        BY <1>1, <1>6, <2>2 DEF WorkType
    <2>5. WorkType' /\ WorkInv' /\ OthersRest(w) /\ Handled(w) /\ NotPut(w)
        BY <1>1, <1>6, <2>2, <2>3, GoToWork
    <2>. QED
        BY <1>1, <1>2, <2>3, <2>4, <2>5
<1>. QED
    BY <1>3, <1>5, <1>6

LEMMA DestOK ==
    ASSUME WorkType, WorkInv, NEW w \in Worker, stage[w] \in {"draw", "send"}
    PROVE  /\ dest[w] \in Dest /\ dest[w] \in Session \X (1 .. MaxConn)
           /\ dest[w][1] \in Session /\ dest[w][1] \in filtered[w]
           /\ dest[w][2] \in 1 .. MaxConn
<1>1. /\ dest[w] \in Dest /\ dest[w] \in Session \X (1 .. MaxConn)
      /\ dest[w][1] \in filtered[w]
    BY DEF WorkType, WorkInv, WorkerOK
<1>. QED
    BY <1>1

LEMMA DrawWork ==
    ASSUME TypeOK, WorkInv, NEW w \in Worker, DrawSeq(w)
    PROVE  /\ WorkType' /\ WorkInv' /\ OthersRest(w)
           /\ stage[w] = "draw" /\ job[w] \in Offset
           /\ Handled(w) /\ NotPut(w) /\ put' = put
           /\ \/ stage'[w] \in {"idle", "fanout"} /\ UNCHANGED sendVars
              \/ /\ stage'[w] = "send" /\ dest' = dest /\ job' = job
                 /\ active[dest[w][1]] = dest[w][2]
                 /\ nextSendSeq' = [nextSendSeq EXCEPT ![dest[w][1]] = @ + 1]
                 /\ seqId' = [seqId EXCEPT ![job[w]] = nextSendSeq[dest[w][1]] + 1]
                 /\ UNCHANGED << writeCh, received >>
<1>1. WorkType /\ stage[w] = "draw"
    BY DEF DrawSeq, TypeOK
<1>2. job[w] \in Offset
    BY <1>1, JobIsOffset
<1>3. /\ dest[w] \in Dest /\ dest[w] \in Session \X (1 .. MaxConn)
      /\ dest[w][1] \in filtered[w]
    BY <1>1, DestOK
<1>4. CASE active[dest[w][1]] # dest[w][2]
    <2>1. Undelivered(w, dest[w][1]) /\ UNCHANGED sendVars
        BY <1>4 DEF DrawSeq
    <2>. QED
        BY <1>1, <1>2, <1>3, <2>1, UndeliveredHandled
<1>5. CASE active[dest[w][1]] = dest[w][2]
    <2>1. /\ nextSendSeq' = [nextSendSeq EXCEPT ![dest[w][1]] = @ + 1]
          /\ seqId' = [seqId EXCEPT ![job[w]] = nextSendSeq[dest[w][1]] + 1]
          /\ stage' = [stage EXCEPT ![w] = "send"]
          /\ UNCHANGED << job, targets, filtered, dropped, dest, writeCh, received,
                          put, stored, missed >>
        BY <1>5 DEF DrawSeq, GoTo
    <2>2. dest' = [dest EXCEPT ![w] = dest[w]] /\ stage'[w] = "send"
        BY <1>1, <2>1 DEF WorkType
    <2>3. WorkType' /\ WorkInv' /\ OthersRest(w) /\ Handled(w) /\ NotPut(w)
        BY <1>1, <1>3, <2>1, <2>2, GoToWork
    <2>. QED
        BY <1>1, <1>2, <1>5, <2>1, <2>2, <2>3
<1>. QED
    BY <1>4, <1>5

LEMMA EnqueueWork ==
    ASSUME TypeOK, WorkInv, NEW w \in Worker, Enqueue(w)
    PROVE  /\ WorkType' /\ WorkInv' /\ OthersRest(w)
           /\ stage[w] = "send" /\ job[w] \in Offset /\ Handled(w)
           /\ stage'[w] \in {"idle", "fanout"}
           /\ \/ NotPut(w) /\ UNCHANGED sendVars
              \/ /\ put' = [put EXCEPT ![job[w]][dest[w][1]] = @ + 1]
                 /\ filtered'[w] = filtered[w] \ {dest[w][1]}
                 /\ filtered[w] = {dest[w][1]} => job'[w] = 0
                 /\ UNCHANGED << nextSendSeq, seqId, received, stored, missed >>
                 /\ \/ made[dest[w][1]] # dest[w][2] /\ writeCh' = writeCh
                    \/ /\ made[dest[w][1]] = dest[w][2]
                       /\ Len(writeCh[dest[w][1]]) < WriteCap
                       /\ writeCh' = [writeCh EXCEPT ![dest[w][1]] = Append(@, job[w])]
<1>1. WorkType /\ stage[w] = "send"
    BY DEF Enqueue, TypeOK
<1>2. job[w] \in Offset
    BY <1>1, JobIsOffset
<1>3. dest[w][1] \in filtered[w]
    BY <1>1, DestOK
<1>4. CASE Undelivered(w, dest[w][1]) /\ UNCHANGED sendVars
    BY <1>1, <1>2, <1>3, <1>4, UndeliveredHandled
<1>5. CASE /\ made[dest[w][1]] # dest[w][2] \/ Len(writeCh[dest[w][1]]) < WriteCap
           /\ writeCh' = IF made[dest[w][1]] # dest[w][2] THEN writeCh
                         ELSE [writeCh EXCEPT ![dest[w][1]] = Append(@, job[w])]
           /\ put' = [put EXCEPT ![job[w]][dest[w][1]] = @ + 1]
           /\ NextTarget(w, dest[w][1], dropped[w])
           /\ UNCHANGED << nextSendSeq, seqId, received, stored, missed >>
    <2>1. /\ WorkType' /\ WorkInv' /\ OthersRest(w)
          /\ \/ filtered[w] = {dest[w][1]} /\ job'[w] = 0
             \/ filtered[w] # {dest[w][1]} /\ job'[w] = job[w]
          /\ targets'[w] = {} /\ filtered'[w] = filtered[w] \ {dest[w][1]}
          /\ stage'[w] \in {"idle", "fanout"}
        BY <1>1, <1>3, <1>5, NextWork
    <2>2. Handled(w)
        BY <1>5, <2>1 DEF Handled
    <2>3. \/ made[dest[w][1]] # dest[w][2] /\ writeCh' = writeCh
          \/ /\ made[dest[w][1]] = dest[w][2]
             /\ Len(writeCh[dest[w][1]]) < WriteCap
             /\ writeCh' = [writeCh EXCEPT ![dest[w][1]] = Append(@, job[w])]
        BY <1>5
    <2>. QED
        BY <1>1, <1>2, <1>5, <2>1, <2>2, <2>3
<1>. QED
    BY <1>4, <1>5 DEF Enqueue

LEMMA WorkStep ==
    ASSUME TypeOK, WorkInv, [Next]_vars
    PROVE  WorkType' /\ WorkInv'
<1>1. ASSUME NEW w \in Worker, WorkerStep(w) PROVE WorkType' /\ WorkInv'
    BY <1>1, TakeWork, RouteWork, FilterWork, StoreWork, ReadConnWork, DrawWork,
       EnqueueWork DEF WorkerStep
<1>2. CASE Crash
    <2>1. /\ job' = [w \in Worker |-> 0] /\ stage' = [w \in Worker |-> "idle"]
          /\ targets' = [w \in Worker |-> {}] /\ filtered' = [w \in Worker |-> {}]
          /\ dropped' = [w \in Worker |-> 0] /\ dest' = [w \in Worker |-> NoDest]
        BY <1>2 DEF Crash
    <2>2. 0 \in 0 .. MaxOffset /\ 0 \in 0 .. Cardinality(Session) /\ NoDest \in Dest
        BY BoundsOK, SessionFinite DEF Dest
    <2>3. WorkType'
        BY <2>1, <2>2 DEF WorkType, Stage
    <2>4. WorkInv'
        BY <2>1, EmptyCount, SessionFinite DEF WorkInv, WorkerOK
    <2>. QED
        BY <2>3, <2>4
<1>3. CASE UNCHANGED workVars
    BY <1>3, SMTT(30) DEF TypeOK, WorkType, WorkInv, WorkerOK
<1>. QED
    BY <1>1, <1>2, <1>3 DEF Next, ConsumerStep, Consume, CommitMessages, Attach,
       Register, Write, LoseConn, vars

LEMMA SessStep ==
    ASSUME TypeOK, [Next]_vars
    PROVE  SessType'
<1>. SessType /\ scene \in Scenario
    BY DEF TypeOK
<1>1. ASSUME NEW s \in Session, Attach(s) PROVE SessType'
    <2>1. /\ made[s] \in 0 .. MaxConn /\ made[s] < scene.conns[s]
          /\ scene.conns[s] \in 0 .. MaxConn
        BY <1>1, SceneOK DEF Attach, SessType
    <2>2. made[s] + 1 \in 0 .. MaxConn
        BY <2>1, BoundsOK
    <2>. QED
        BY <1>1, <2>2 DEF Attach, SessType
<1>2. ASSUME NEW s \in Session, Register(s) PROVE SessType'
    BY <1>2 DEF Register, SessType
<1>3. ASSUME NEW s \in Session, LoseConn(s) PROVE SessType'
    <2>1. 0 \in 0 .. MaxConn
        BY BoundsOK
    <2>. QED
        BY <1>3, <2>1 DEF LoseConn, SessType
<1>4. CASE Crash
    <2>1. 0 \in 0 .. MaxConn
        BY BoundsOK
    <2>. QED
        BY <1>4, <2>1 DEF Crash, SessType
<1>5. CASE UNCHANGED sessVars
    BY <1>5 DEF SessType
<1>. QED
    BY <1>1, <1>2, <1>3, <1>4, <1>5 DEF Next, ConsumerStep, Consume, CommitMessages,
       WorkerStep, TakeJob, Route, Filter, StoreOffline, SubmitReadConn, DrawSeq,
       Enqueue, Write, vars

LEMMA SendStep ==
    ASSUME TypeOK, WorkInv, [Next]_vars
    PROVE  SendType'
<1>. SendType /\ WorkType
    BY DEF TypeOK
<1>0. /\ writeCh \in [Session -> Seq(Offset)]
      /\ \A s \in Session : Len(writeCh[s]) <= WriteCap
    BY DEF SendType
<1>1. ASSUME NEW w \in Worker, DrawSeq(w) PROVE SendType'
    <2>1. dest[w][1] \in Session
        BY <1>1, DestOK DEF DrawSeq
    <2>2. nextSendSeq[dest[w][1]] + 1 \in Nat
        BY <2>1 DEF SendType
    <2>. QED
        <3>1. CASE UNCHANGED sendVars
            BY <3>1 DEF SendType
        <3>2. CASE /\ nextSendSeq' = [nextSendSeq EXCEPT ![dest[w][1]] = @ + 1]
                   /\ seqId' = [seqId EXCEPT ![job[w]] = nextSendSeq[dest[w][1]] + 1]
                   /\ UNCHANGED << writeCh, received, put >>
            <4>1. nextSendSeq' \in [Session -> Nat] /\ seqId' \in [Offset -> Nat]
                BY <2>1, <2>2, <3>2 DEF SendType
            <4>. QED
                BY <3>2, <4>1 DEF SendType
        <3>. QED
            BY <1>1, <3>1, <3>2, DrawWork
<1>2. ASSUME NEW w \in Worker, Enqueue(w) PROVE SendType'
    <2>1. PICK s \in Session : s = dest[w][1]
        BY <1>2, DestOK DEF Enqueue
    <2>2. PICK m \in Offset : m = job[w]
        BY <1>2, EnqueueWork
    <2>3. CASE UNCHANGED sendVars
        BY <2>3 DEF SendType
    <2>4. CASE /\ put' = [put EXCEPT ![m][s] = @ + 1]
               /\ UNCHANGED << nextSendSeq, seqId, received >>
               /\ \/ writeCh' = writeCh
                  \/ /\ Len(writeCh[s]) < WriteCap
                     /\ writeCh' = [writeCh EXCEPT ![s] = Append(@, m)]
        <3>1. put' \in [Offset -> [Session -> Nat]]
            <4>1. put \in [Offset -> [Session -> Nat]]
                BY DEF SendType
            <4>2. [put[m] EXCEPT ![s] = @ + 1] \in [Session -> Nat]
                BY <4>1
            <4>. QED
                BY <2>4, <4>1, <4>2
        <3>2. writeCh' \in [Session -> Seq(Offset)]
            <4>1. Append(writeCh[s], m) \in Seq(Offset)
                BY <1>0
            <4>. QED
                BY <1>0, <2>4, <4>1
        <3>3. ASSUME NEW t \in Session PROVE Len(writeCh'[t]) <= WriteCap
            BY <1>0, <2>4, BoundsOK
        <3>. QED
            BY <2>4, <3>1, <3>2, <3>3 DEF SendType
    <2>. QED
        BY <1>2, <2>1, <2>2, <2>3, <2>4, EnqueueWork
<1>3. ASSUME NEW s \in Session, Attach(s) PROVE SendType'
    <2>1. writeCh' = [writeCh EXCEPT ![s] = << >>]
        BY <1>3 DEF Attach
    <2>2. writeCh' \in [Session -> Seq(Offset)]
        BY <1>0, <2>1
    <2>3. ASSUME NEW t \in Session PROVE Len(writeCh'[t]) <= WriteCap
        BY <1>0, <2>1, BoundsOK
    <2>. QED
        BY <1>3, <2>2, <2>3 DEF Attach, SendType
<1>4. ASSUME NEW s \in Session, Write(s) PROVE SendType'
    <2>1. writeCh' = [writeCh EXCEPT ![s] = Tail(@)] /\ writeCh[s] # << >>
        BY <1>4 DEF Write
    <2>2. /\ writeCh[s] \in Seq(Offset) /\ Head(writeCh[s]) \in Offset
          /\ Tail(writeCh[s]) \in Seq(Offset) /\ Len(Tail(writeCh[s])) <= WriteCap
        BY <1>0, <2>1, BoundsOK
    <2>3. writeCh' \in [Session -> Seq(Offset)]
        BY <1>0, <2>1, <2>2
    <2>4. ASSUME NEW t \in Session PROVE Len(writeCh'[t]) <= WriteCap
        BY <1>0, <2>1, <2>2
    <2>5. received' \in [Session -> SUBSET (Offset \X Nat)]
        BY <1>4, <2>2 DEF Write, SendType
    <2>. QED
        BY <1>4, <2>3, <2>4, <2>5 DEF Write, SendType
<1>5. CASE Crash
    <2>1. writeCh' = [s \in Session |-> << >>]
        BY <1>5 DEF Crash
    <2>2. writeCh' \in [Session -> Seq(Offset)]
        BY <2>1
    <2>3. ASSUME NEW t \in Session PROVE Len(writeCh'[t]) <= WriteCap
        BY <2>1, BoundsOK
    <2>. QED
        BY <1>5, <2>2, <2>3 DEF Crash, SendType
<1>6. CASE UNCHANGED sendVars
    BY <1>6 DEF SendType
<1>. QED
    BY <1>1, <1>2, <1>3, <1>4, <1>5, <1>6 DEF Next, ConsumerStep, Consume,
       CommitMessages, WorkerStep, TakeJob, Route, Filter, StoreOffline,
       SubmitReadConn, Register, LoseConn, vars

LEMMA TypeInit ==
    Init => TypeOK /\ WorkInv
<1>. SUFFICES ASSUME Init PROVE TypeOK /\ WorkInv
    OBVIOUS
<1>1. KafkaType
    <2>1. downstreamCh = << >>
        BY DEF Init
    <2>2. downstreamCh \in Seq(Offset) /\ Len(downstreamCh) <= ChanCap
        BY <2>1, BoundsOK
    <2>3. committed = 0 /\ fetchPos = 0 /\ consumer = "fetch"
        BY DEF Init
    <2>4. accepted \in [Offset -> Nat] /\ refused = {}
        BY DEF Init
    <2>. QED
        BY <2>2, <2>3, <2>4, BoundsOK DEF KafkaType
<1>2. WorkType /\ WorkInv
    <2>1. /\ job = [w \in Worker |-> 0] /\ stage = [w \in Worker |-> "idle"]
          /\ targets = [w \in Worker |-> {}] /\ filtered = [w \in Worker |-> {}]
          /\ dropped = [w \in Worker |-> 0] /\ dest = [w \in Worker |-> NoDest]
        BY DEF Init
    <2>2. 0 \in 0 .. MaxOffset /\ 0 \in 0 .. Cardinality(Session) /\ NoDest \in Dest
        BY BoundsOK, SessionFinite DEF Dest
    <2>3. WorkType
        BY <2>1, <2>2 DEF WorkType, Stage
    <2>4. WorkInv
        BY <2>1, EmptyCount, SessionFinite DEF WorkInv, WorkerOK
    <2>. QED
        BY <2>3, <2>4
<1>3. SessType
    BY BoundsOK DEF Init, SessType
<1>4. SendType
    <2>1. writeCh = [s \in Session |-> << >>]
        BY DEF Init
    <2>2. writeCh \in [Session -> Seq(Offset)] /\ \A s \in Session : Len(writeCh[s]) <= WriteCap
        BY <2>1, BoundsOK
    <2>3. /\ nextSendSeq = [s \in Session |-> 0] /\ seqId = [m \in Offset |-> 0]
          /\ received = [s \in Session |-> {}]
          /\ put = [m \in Offset |-> [s \in Session |-> 0]]
        BY DEF Init
    <2>. QED
        BY <2>2, <2>3 DEF SendType
<1>5. /\ scene \in Scenario /\ impl \in {"group", "simple"} /\ stored = {}
      /\ owed = [m \in Offset |-> {}] /\ missed = {} /\ crashes = 0
    BY DEF Init
<1>. QED
    BY <1>1, <1>2, <1>3, <1>4, <1>5, BoundsOK DEF TypeOK

LEMMA RestStep ==
    ASSUME TypeOK, WorkInv, [Next]_vars
    PROVE  /\ scene' = scene /\ impl' = impl
           /\ stored' \subseteq Offset /\ owed' \in [Offset -> SUBSET Session]
           /\ missed' \subseteq Offset \X Session /\ crashes' \in 0 .. MaxCrash
<1>. /\ stored \subseteq Offset /\ owed \in [Offset -> SUBSET Session]
     /\ missed \subseteq Offset \X Session /\ crashes \in 0 .. MaxCrash
     /\ WorkType /\ scene \in Scenario
    BY SMTT(30) DEF TypeOK
<1>1. scene' = scene /\ impl' = impl
    BY DEF Next, ConsumerStep, Consume, CommitMessages, WorkerStep, TakeJob, Route,
       Filter, StoreOffline, SubmitReadConn, DrawSeq, Enqueue, Attach, Register,
       Write, LoseConn, Crash, vars
<1>2. CASE UNCHANGED << stored, owed, missed, crashes >>
    BY <1>1, <1>2
<1>3. ASSUME NEW w \in Worker, WorkerStep(w)
      PROVE  /\ stored' \subseteq Offset /\ owed' \in [Offset -> SUBSET Session]
             /\ missed' \subseteq Offset \X Session /\ crashes' \in 0 .. MaxCrash
    <2>1. CASE TakeJob(w)
        BY <2>1 DEF TakeJob
    <2>2. CASE Route(w)
        <3>1. /\ job[w] \in Offset /\ owed' = [owed EXCEPT ![job[w]] = targets'[w]]
              /\ targets'[w] \in SUBSET Session
            BY <2>2, RouteWork DEF WorkType
        <3>. QED
            BY <2>2, <3>1 DEF Route
    <2>3. CASE Filter(w)
        BY <2>3, FilterWork DEF Filter
    <2>4. CASE StoreOffline(w)
        BY <2>4, StoreWork DEF StoreOffline
    <2>5. ASSUME Handled(w), job[w] \in Offset, UNCHANGED << owed, crashes >>
          PROVE  /\ stored' \subseteq Offset /\ owed' \in [Offset -> SUBSET Session]
                 /\ missed' \subseteq Offset \X Session /\ crashes' \in 0 .. MaxCrash
        <3>1. filtered[w] \subseteq Session
            BY DEF WorkType
        <3>. QED
            BY <2>5, <3>1 DEF Handled
    <2>6. CASE SubmitReadConn(w)
        BY <2>5, <2>6, ReadConnWork DEF SubmitReadConn
    <2>7. CASE DrawSeq(w)
        BY <2>5, <2>7, DrawWork, SMTT(30) DEF DrawSeq
    <2>8. CASE Enqueue(w)
        BY <2>5, <2>8, EnqueueWork DEF Enqueue
    <2>. QED
        BY <1>3, <2>1, <2>2, <2>3, <2>4, <2>6, <2>7, <2>8 DEF WorkerStep
<1>4. CASE Crash
    <2>1. Lost \subseteq Offset /\ scene.crashes \in 0 .. MaxCrash /\ crashes < scene.crashes
        BY <1>4, SceneOK DEF Lost, Crash
    <2>2. crashes + 1 \in 0 .. MaxCrash
        BY <2>1, BoundsOK
    <2>. QED
        BY <1>1, <1>4, <2>1, <2>2 DEF Crash
<1>. QED
    BY <1>1, <1>2, <1>3, <1>4 DEF Next, ConsumerStep, Consume, CommitMessages, Attach,
       Register, Write, LoseConn, vars

LEMMA TypeStep ==
    TypeOK /\ WorkInv /\ [Next]_vars => TypeOK' /\ WorkInv'
    BY KafkaTypeStep, WorkStep, SessStep, SendStep, RestStep DEF TypeOK

LEMMA TypeInvariant == Spec => [](TypeOK /\ WorkInv)
    BY TypeInit, TypeStep, PTL DEF Spec

(* Every variable of the downlink has its type in every state: neither
   downstreamCh nor a writeCh ever holds more than its capacity, and the
   fan-out never counts more refusals than there are sessions. *)
THEOREM TypeCorrect == Spec => []TypeOK
    BY TypeInvariant, PTL

-----------------------------------------------------------------------------
(* An accepted message is in one place at a time, the channel or one worker,
   and the channel is in the order of the partition. *)

Waits(m) == \E i \in DOMAIN downstreamCh : downstreamCh[i] = m

QueueInv ==
    \A i \in DOMAIN downstreamCh :
      /\ downstreamCh[i] <= fetchPos
      /\ \A j \in DOMAIN downstreamCh : i < j => downstreamCh[i] < downstreamCh[j]

JobInv ==
    \A w \in Worker : job[w] # 0 =>
      /\ job[w] <= fetchPos
      /\ \A i \in DOMAIN downstreamCh : job[w] < downstreamCh[i]
      /\ \A v \in Worker : job[v] = job[w] => v = w

PlaceInv == QueueInv /\ JobInv

LEMMA Appended ==
    ASSUME NEW s \in Seq(Offset), NEW m \in Offset
    PROVE  /\ Len(s) \in Nat /\ DOMAIN s = 1 .. Len(s)
           /\ DOMAIN Append(s, m) = 1 .. (Len(s) + 1)
           /\ \A i \in DOMAIN s : Append(s, m)[i] = s[i] /\ s[i] \in Offset
           /\ Append(s, m)[Len(s) + 1] = m
    OBVIOUS

LEMMA Shortened ==
    ASSUME NEW s \in Seq(Offset), s # << >>
    PROVE  /\ Len(s) \in Nat \ {0} /\ DOMAIN s = 1 .. Len(s)
           /\ DOMAIN Tail(s) = 1 .. (Len(s) - 1)
           /\ \A i \in DOMAIN Tail(s) : Tail(s)[i] = s[i + 1] /\ i + 1 \in DOMAIN s
           /\ \A i \in DOMAIN s : s[i] \in Offset /\ (i # 1 => i - 1 \in DOMAIN Tail(s))
           /\ Head(s) = s[1]
    BY BoundsOK

LEMMA Emptied ==
    ASSUME NEW s, s = << >>
    PROVE  DOMAIN s = {}
<1>1. s \in Seq(Offset) /\ Len(s) = 0
    OBVIOUS
<1>2. DOMAIN s = 1 .. Len(s)
    BY <1>1, LenProperties
<1>3. 1 .. 0 = {}
    OBVIOUS
<1>. QED
    BY <1>1, <1>2, <1>3

(* What the steps do to the places. *)
Admits ==
    /\ fetchPos' = fetchPos + 1 /\ fetchPos < MaxOffset /\ UNCHANGED workVars
    /\ \/ downstreamCh' = downstreamCh /\ accepted' = accepted
       \/ /\ downstreamCh' = Append(downstreamCh, fetchPos')
          /\ accepted' = [accepted EXCEPT ![fetchPos'] = @ + 1]

Rests == UNCHANGED << fetchPos, downstreamCh, workVars, accepted >>

Forgets ==
    /\ downstreamCh' = << >> /\ accepted' = accepted
    /\ \A w \in Worker : job'[w] = 0

Takes(w) ==
    /\ TakeJob(w) /\ downstreamCh # << >> /\ downstreamCh' = Tail(downstreamCh)
    /\ job[w] = 0 /\ job'[w] \in {0, Head(downstreamCh)}
    /\ OthersRest(w) /\ UNCHANGED << fetchPos, accepted >>

Works(w) ==
    /\ OthersRest(w) /\ job'[w] \in {0, job[w]}
    /\ UNCHANGED << fetchPos, downstreamCh, accepted >>

LEMMA Moves ==
    ASSUME TypeOK, WorkInv, [Next]_vars
    PROVE  Admits \/ Rests \/ Forgets \/ \E w \in Worker : Takes(w) \/ Works(w)
<1>1. CASE Consume
    BY <1>1 DEF Consume, Admits
<1>2. CASE CommitMessages
    BY <1>2 DEF CommitMessages, Rests
<1>3. CASE Crash
    BY <1>3 DEF Crash, Forgets
<1>4. ASSUME NEW s \in Session, Attach(s) \/ Register(s) \/ Write(s) \/ LoseConn(s)
      PROVE  Rests
    BY <1>4 DEF Attach, Register, Write, LoseConn, Rests
<1>5. CASE UNCHANGED vars
    BY <1>5 DEF vars, Rests
<1>6. ASSUME NEW w \in Worker, TakeJob(w) PROVE Takes(w)
    BY <1>6, TakeWork DEF Takes, TakeJob
<1>7. ASSUME NEW w \in Worker, WorkerStep(w), ~TakeJob(w) PROVE Works(w)
    <2>1. UNCHANGED << fetchPos, downstreamCh, accepted >>
        BY <1>7 DEF WorkerStep, Route, Filter, StoreOffline, SubmitReadConn, DrawSeq,
           Enqueue
    <2>2. OthersRest(w) /\ job'[w] \in {0, job[w]}
        BY <1>7, RouteWork, FilterWork, StoreWork, ReadConnWork, DrawWork, EnqueueWork
           DEF WorkerStep, Handled
    <2>. QED
        BY <2>1, <2>2 DEF Works
<1>. QED
    BY <1>1, <1>2, <1>3, <1>4, <1>5, <1>6, <1>7 DEF Next, ConsumerStep

LEMMA PlaceTypes ==
    ASSUME TypeOK
    PROVE  /\ fetchPos \in Nat /\ downstreamCh \in Seq(Offset)
           /\ fetchPos < MaxOffset => fetchPos + 1 \in Offset
           /\ \A i \in DOMAIN downstreamCh :
                downstreamCh[i] \in Offset /\ downstreamCh[i] \in Nat
           /\ \A m \in Offset : m \in Nat /\ m # 0
           /\ job \in [Worker -> 0 .. MaxOffset]
           /\ \A w \in Worker : job[w] \in Nat /\ (job[w] # 0 => job[w] \in Offset)
           /\ accepted \in [Offset -> Nat]
<1>1. /\ downstreamCh \in Seq(Offset) /\ job \in [Worker -> 0 .. MaxOffset]
      /\ committed \in 0 .. MaxOffset /\ fetchPos \in committed .. MaxOffset
      /\ accepted \in [Offset -> Nat]
    BY DEF TypeOK, KafkaType, WorkType
<1>2. \A i \in DOMAIN downstreamCh : downstreamCh[i] \in Offset
    BY <1>1
<1>3. \A w \in Worker : job[w] \in Nat /\ (job[w] # 0 => job[w] \in Offset)
    BY <1>1, BoundsOK DEF Offset
<1>4. fetchPos \in Nat /\ (fetchPos < MaxOffset => fetchPos + 1 \in Offset)
    BY <1>1, BoundsOK DEF Offset
<1>. QED
    BY <1>1, <1>2, <1>3, <1>4, BoundsOK

LEMMA PlaceStep ==
    TypeOK /\ WorkInv /\ PlaceInv /\ [Next]_vars => PlaceInv'
<1>. SUFFICES ASSUME TypeOK, WorkInv, PlaceInv, [Next]_vars PROVE PlaceInv'
    OBVIOUS
<1>. USE PlaceTypes DEF PlaceInv, QueueInv, JobInv
<1>1. CASE Admits
    <2>1. PICK m \in Offset : m = fetchPos + 1
        BY <1>1 DEF Admits
    <2>2. fetchPos' = m /\ job' = job /\ fetchPos < m /\ m \in Nat
        BY <1>1, <2>1 DEF Admits
    <2>3. CASE downstreamCh' = downstreamCh
        <3>1. QueueInv'
            BY <2>2, <2>3
        <3>2. JobInv'
            BY <2>2, <2>3
        <3>. QED
            BY <3>1, <3>2
    <2>4. CASE downstreamCh' = Append(downstreamCh, m)
        <3>1. /\ Len(downstreamCh) \in Nat /\ DOMAIN downstreamCh = 1 .. Len(downstreamCh)
              /\ DOMAIN downstreamCh' = 1 .. (Len(downstreamCh) + 1)
              /\ \A i \in DOMAIN downstreamCh : downstreamCh'[i] = downstreamCh[i]
              /\ downstreamCh'[Len(downstreamCh) + 1] = m
            BY <2>4, Appended
        <3>2. ASSUME NEW i \in DOMAIN downstreamCh'
              PROVE  /\ downstreamCh'[i] <= m
                     /\ \A j \in DOMAIN downstreamCh' : i < j => downstreamCh'[i] < downstreamCh'[j]
            <4>1. CASE i = Len(downstreamCh) + 1
                BY <2>2, <3>1, <4>1
            <4>2. CASE i \in DOMAIN downstreamCh
                <5>1. /\ downstreamCh'[i] = downstreamCh[i] /\ downstreamCh[i] <= fetchPos
                      /\ downstreamCh[i] \in Nat /\ fetchPos \in Nat
                    BY <3>1, <4>2
                <5>2. downstreamCh[i] < m
                    BY <2>2, <4>2, <5>1
                <5>3. ASSUME NEW j \in DOMAIN downstreamCh', i < j
                      PROVE  downstreamCh'[i] < downstreamCh'[j]
                    <6>1. j \in DOMAIN downstreamCh \/ j = Len(downstreamCh) + 1
                        BY <3>1
                    <6>2. CASE j \in DOMAIN downstreamCh
                        <7>1. downstreamCh[i] < downstreamCh[j]
                            BY <4>2, <5>3, <6>2
                        <7>. QED
                            BY <3>1, <5>1, <6>2, <7>1
                    <6>. QED
                        BY <3>1, <5>1, <5>2, <6>1, <6>2
                <5>. QED
                    BY <2>2, <4>2, <5>1, <5>2, <5>3
            <4>. QED
                BY <3>1, <4>1, <4>2
        <3>3. JobInv'
            BY <2>2, <3>1
        <3>. QED
            BY <2>2, <3>2, <3>3
    <2>. QED
        BY <1>1, <2>2, <2>3, <2>4 DEF Admits
<1>2. CASE Rests
    BY <1>2 DEF Rests
<1>3. CASE Forgets
    BY <1>3, Emptied DEF Forgets
<1>4. ASSUME NEW w \in Worker, Takes(w) PROVE PlaceInv'
    <2>1. /\ job'[w] \in {0, downstreamCh[1]} /\ 1 \in DOMAIN downstreamCh
          /\ \A i \in DOMAIN downstreamCh' :
               downstreamCh'[i] = downstreamCh[i + 1] /\ i + 1 \in DOMAIN downstreamCh
          /\ DOMAIN downstreamCh \subseteq Nat /\ DOMAIN downstreamCh' \subseteq Nat \ {0}
          /\ fetchPos' = fetchPos
        BY <1>4, Shortened DEF Takes
    <2>2. \A v \in Worker : v # w => job'[v] = job[v]
        BY <1>4 DEF Takes, OthersRest
    <2>3. QueueInv'
        BY <2>1
    <2>4. ASSUME NEW v \in Worker, job'[v] # 0 PROVE job'[v] <= fetchPos
        BY <2>1, <2>2, <2>4
    <2>5. ASSUME NEW v \in Worker, job'[v] # 0, NEW i \in DOMAIN downstreamCh'
          PROVE  job'[v] < downstreamCh'[i]
        <3>1. downstreamCh'[i] = downstreamCh[i + 1] /\ i + 1 \in DOMAIN downstreamCh /\ 1 < i + 1
            BY <2>1
        <3>2. CASE v = w
            BY <2>1, <2>5, <3>1, <3>2
        <3>3. CASE v # w
            BY <2>2, <2>5, <3>1, <3>3
        <3>. QED
            BY <3>2, <3>3
    <2>6. ASSUME NEW v \in Worker, NEW u \in Worker, job'[v] # 0, job'[u] = job'[v]
          PROVE  u = v
        <3>1. \A x \in Worker : job[x] # 0 => job[x] < downstreamCh[1] /\ downstreamCh[1] \in Nat
            BY <2>1
        <3>. QED
            BY <2>1, <2>2, <2>6, <3>1
    <2>. QED
        BY <2>1, <2>3, <2>4, <2>5, <2>6
<1>5. ASSUME NEW w \in Worker, Works(w) PROVE PlaceInv'
    <2>1. \A v \in Worker : job'[v] = 0 \/ job'[v] = job[v]
        BY <1>5 DEF Works, OthersRest
    <2>. QED
        BY <1>5, <2>1 DEF Works
<1>. QED
    BY <1>1, <1>2, <1>3, <1>4, <1>5, Moves

LEMMA PlaceInit ==
    Init => PlaceInv
<1>. SUFFICES ASSUME Init PROVE PlaceInv
    OBVIOUS
<1>1. DOMAIN downstreamCh = {}
    BY Emptied DEF Init
<1>2. job = [w \in Worker |-> 0]
    BY DEF Init
<1>. QED
    BY <1>1, <1>2 DEF PlaceInv, QueueInv, JobInv

LEMMA OnePlace ==
    ASSUME TypeOK, PlaceInv, NEW w \in Worker, job[w] # 0
    PROVE  ~Waits(job[w]) /\ \A v \in Worker : job[v] = job[w] => v = w
    BY PlaceTypes DEF PlaceInv, JobInv, Waits

-----------------------------------------------------------------------------
(* Recipients. *)

(* Worker w still has to deal with session s for message m. *)
Aims(w, m, s) == job[w] = m /\ (stage[w] = "route" \/ s \in targets[w] \cup filtered[w])

Pending(m, s) == Waits(m) \/ \E w \in Worker : Aims(w, m, s)

AimInv ==
    \A w \in Worker : job[w] # 0 =>
      /\ targets[w] \subseteq log[job[w]].to
      /\ filtered[w] \subseteq log[job[w]].to \ log[job[w]].exclude

CopyInv(m, s) ==
    /\ put[m][s] > 0 => s \in log[m].to \ log[m].exclude
    /\ put[m][s] <= accepted[m]
    /\ Pending(m, s) => put[m][s] < accepted[m]

RecipientInv == AimInv /\ \A m \in Offset, s \in Session : CopyInv(m, s)

LEMMA AimStep ==
    TypeOK /\ WorkInv /\ AimInv /\ [Next]_vars => AimInv'
<1>. SUFFICES ASSUME TypeOK, WorkInv, AimInv, [Next]_vars PROVE AimInv'
    OBVIOUS
<1>0. log' = log
    BY RestStep DEF log
<1>1. ASSUME NEW w \in Worker, OthersRest(w),
             job'[w] # 0 => /\ targets'[w] \subseteq log[job'[w]].to
                            /\ filtered'[w] \subseteq log[job'[w]].to \ log[job'[w]].exclude
      PROVE  AimInv'
    BY <1>0, <1>1 DEF AimInv, OthersRest
<1>2. ASSUME NEW w \in Worker, TakeJob(w) PROVE AimInv'
    BY <1>1, <1>2, TakeWork
<1>3. ASSUME NEW w \in Worker, Route(w) PROVE AimInv'
    BY <1>1, <1>3, RouteWork DEF Kind
<1>4. ASSUME NEW w \in Worker, Filter(w) PROVE AimInv'
    BY <1>1, <1>4, FilterWork, PlaceTypes DEF Kind, AimInv
<1>5. ASSUME NEW w \in Worker, StoreOffline(w) PROVE AimInv'
    BY <1>1, <1>5, StoreWork
<1>6. ASSUME NEW w \in Worker, OthersRest(w), Handled(w), job[w] \in Offset PROVE AimInv'
    BY <1>1, <1>6, PlaceTypes DEF Handled, AimInv
<1>7. ASSUME NEW w \in Worker, SubmitReadConn(w) \/ DrawSeq(w) \/ Enqueue(w) PROVE AimInv'
    BY <1>6, <1>7, ReadConnWork, DrawWork, EnqueueWork
<1>8. CASE UNCHANGED workVars
    BY <1>0, <1>8 DEF AimInv
<1>9. CASE Crash
    BY <1>9 DEF Crash, AimInv
<1>. QED
    BY <1>2, <1>3, <1>4, <1>5, <1>7, <1>8, <1>9 DEF Next, ConsumerStep, Consume,
       CommitMessages, WorkerStep, Attach, Register, Write, LoseConn, vars

(* Enqueue puts one copy of its message on the queue of its target. *)
Puts(w) == put' = [put EXCEPT ![job[w]][dest[w][1]] = @ + 1]

LEMMA PutEffect ==
    ASSUME TypeOK, NEW w \in Worker, NEW m \in Offset, NEW s \in Session,
           job[w] \in Offset, dest[w][1] \in Session, Puts(w)
    PROVE  /\ put[m][s] \in Nat /\ put'[m][s] \in Nat
           /\ put'[m][s] = IF m = job[w] /\ s = dest[w][1] THEN put[m][s] + 1 ELSE put[m][s]
<1>1. put \in [Offset -> [Session -> Nat]]
    BY DEF TypeOK, SendType
<1>. QED
    BY <1>1 DEF Puts

LEMMA WaitsTail ==
    ASSUME TypeOK, NEW w \in Worker, Takes(w), NEW m \in Offset
    PROVE  /\ Waits(m)' => Waits(m)
           /\ job'[w] = m => Waits(m)
           /\ Waits(m) => Waits(m)' \/ m = Head(downstreamCh)
<1>1. /\ downstreamCh \in Seq(Offset) /\ downstreamCh # << >>
      /\ downstreamCh' = Tail(downstreamCh) /\ job'[w] \in {0, Head(downstreamCh)} /\ m # 0
    BY PlaceTypes DEF Takes
<1>2. /\ \A i \in DOMAIN downstreamCh' :
           downstreamCh'[i] = downstreamCh[i + 1] /\ i + 1 \in DOMAIN downstreamCh
      /\ DOMAIN downstreamCh \subseteq Nat
      /\ \A i \in DOMAIN downstreamCh : i # 1 => i - 1 \in DOMAIN downstreamCh'
      /\ 1 \in DOMAIN downstreamCh /\ Head(downstreamCh) = downstreamCh[1]
    BY <1>1, Shortened
<1>3. Waits(m)' => Waits(m)
    BY <1>2 DEF Waits
<1>4. job'[w] = m => Waits(m)
    BY <1>1, <1>2 DEF Waits
<1>5. ASSUME NEW i \in DOMAIN downstreamCh, downstreamCh[i] = m, i # 1 PROVE Waits(m)'
    <2>1. i - 1 \in DOMAIN downstreamCh' /\ (i - 1) + 1 = i
        BY <1>2, <1>5
    <2>2. downstreamCh'[i - 1] = downstreamCh[(i - 1) + 1]
        BY <1>2, <2>1
    <2>. QED
        BY <1>5, <2>1, <2>2 DEF Waits
<1>. QED
    BY <1>2, <1>3, <1>4, <1>5 DEF Waits

LEMMA WaitsAppend ==
    ASSUME TypeOK, Admits, NEW m \in Offset
    PROVE  /\ Waits(m) => Waits(m)'
           /\ Waits(m)' => Waits(m) \/ accepted'[m] = accepted[m] + 1
           /\ accepted'[m] \in Nat /\ accepted[m] \in Nat /\ accepted[m] <= accepted'[m]
           /\ accepted'[m] # accepted[m] => Waits(m)'
<1>1. PICK n \in Offset : n = fetchPos + 1
    BY PlaceTypes DEF Admits
<1>2. fetchPos' = n /\ accepted \in [Offset -> Nat] /\ downstreamCh \in Seq(Offset)
    BY <1>1, PlaceTypes DEF Admits
<1>3. CASE downstreamCh' = downstreamCh /\ accepted' = accepted
    BY <1>2, <1>3 DEF Waits
<1>4. CASE /\ downstreamCh' = Append(downstreamCh, n)
           /\ accepted' = [accepted EXCEPT ![n] = @ + 1]
    <2>1. /\ Len(downstreamCh) \in Nat /\ DOMAIN downstreamCh = 1 .. Len(downstreamCh)
          /\ DOMAIN downstreamCh' = 1 .. (Len(downstreamCh) + 1)
          /\ \A i \in DOMAIN downstreamCh : downstreamCh'[i] = downstreamCh[i]
          /\ downstreamCh'[Len(downstreamCh) + 1] = n
        BY <1>2, <1>4, Appended
    <2>2. Waits(m) => Waits(m)'
        BY <2>1 DEF Waits
    <2>3. Waits(m)' => Waits(m) \/ m = n
        BY <2>1 DEF Waits
    <2>4. m = n => Waits(m)'
        BY <2>1 DEF Waits
    <2>5. /\ accepted[m] \in Nat
          /\ accepted'[m] = IF m = n THEN accepted[m] + 1 ELSE accepted[m]
        BY <1>2, <1>4
    <2>. QED
        BY <2>2, <2>3, <2>4, <2>5
<1>. QED
    BY <1>2, <1>3, <1>4 DEF Admits

LEMMA CopyStep ==
    ASSUME TypeOK, WorkInv, PlaceInv, RecipientInv, [Next]_vars,
           NEW m \in Offset, NEW s \in Session
    PROVE  CopyInv(m, s)'
<1>0. /\ log' = log /\ CopyInv(m, s) /\ put[m][s] \in Nat /\ accepted[m] \in Nat
    BY RestStep DEF RecipientInv, TypeOK, SendType, KafkaType, log
<1>1. ASSUME put' = put, accepted' = accepted, Pending(m, s)' => Pending(m, s)
      PROVE  CopyInv(m, s)'
    BY <1>0, <1>1 DEF CopyInv
<1>2. ASSUME NEW w \in Worker, OthersRest(w), put' = put,
             UNCHANGED << downstreamCh, accepted >>, job[w] \in Offset,
             job'[w] \in {0, job[w]}, Aims(w, m, s)' => Aims(w, m, s)
      PROVE  CopyInv(m, s)'
    <2>1. \A v \in Worker : v # w => (Aims(v, m, s)' <=> Aims(v, m, s))
        BY <1>2 DEF OthersRest, Aims
    <2>2. Waits(m)' <=> Waits(m)
        BY <1>2 DEF Waits
    <2>. QED
        BY <1>1, <1>2, <2>1, <2>2 DEF Pending
<1>3. CASE Consume
    <2>1. Admits /\ put' = put /\ UNCHANGED workVars
        BY <1>3 DEF Consume, Admits
    <2>2. Pending(m, s)' => Pending(m, s) \/ accepted'[m] = accepted[m] + 1
        BY <2>1, WaitsAppend DEF Pending, Aims
    <2>3. accepted[m] <= accepted'[m] /\ accepted'[m] \in Nat
        BY <2>1, WaitsAppend
    <2>. QED
        BY <1>0, <2>1, <2>2, <2>3 DEF CopyInv
<1>4. CASE UNCHANGED << downstreamCh, workVars, accepted, put >>
    BY <1>1, <1>4 DEF Pending, Aims, Waits
<1>5. CASE Crash
    <2>1. DOMAIN downstreamCh' = {} /\ \A w \in Worker : job'[w] = 0
        BY <1>5, Emptied DEF Crash
    <2>2. ~Pending(m, s)'
        BY <2>1, PlaceTypes DEF Pending, Aims, Waits
    <2>. QED
        BY <1>1, <1>5, <2>2 DEF Crash
<1>6. ASSUME NEW w \in Worker, TakeJob(w) PROVE CopyInv(m, s)'
    <2>1. Takes(w) /\ put' = put /\ accepted' = accepted
        BY <1>6, TakeWork DEF Takes, TakeJob
    <2>2. \A v \in Worker : v # w => (Aims(v, m, s)' <=> Aims(v, m, s))
        BY <2>1 DEF Takes, OthersRest, Aims
    <2>3. Aims(w, m, s)' => Waits(m)
        BY <2>1, WaitsTail DEF Aims
    <2>. QED
        BY <1>1, <2>1, <2>2, <2>3, WaitsTail DEF Pending
<1>7. ASSUME NEW w \in Worker, Route(w) PROVE CopyInv(m, s)'
    <2>1. Aims(w, m, s)' => Aims(w, m, s)
        BY <1>7, RouteWork DEF Aims
    <2>. QED
        BY <1>2, <1>7, <2>1, RouteWork DEF Route
<1>8. ASSUME NEW w \in Worker, Filter(w) PROVE CopyInv(m, s)'
    <2>1. Aims(w, m, s)' => Aims(w, m, s)
        BY <1>8, FilterWork, PlaceTypes DEF Aims
    <2>. QED
        BY <1>2, <1>8, <2>1, FilterWork DEF Filter
<1>9. ASSUME NEW w \in Worker, StoreOffline(w) PROVE CopyInv(m, s)'
    <2>1. ~Aims(w, m, s)'
        BY <1>9, StoreWork, PlaceTypes DEF Aims
    <2>. QED
        BY <1>2, <1>9, <2>1, StoreWork DEF StoreOffline
<1>10. ASSUME NEW w \in Worker, OthersRest(w), Handled(w), job[w] \in Offset, put' = put,
              UNCHANGED << downstreamCh, accepted >>
       PROVE  CopyInv(m, s)'
    <2>1. Aims(w, m, s)' => Aims(w, m, s)
        BY <1>10, PlaceTypes DEF Aims, Handled
    <2>. QED
        BY <1>2, <1>10, <2>1 DEF Handled
<1>11. ASSUME NEW w \in Worker, SubmitReadConn(w) \/ DrawSeq(w) PROVE CopyInv(m, s)'
    BY <1>10, <1>11, ReadConnWork, DrawWork DEF SubmitReadConn, DrawSeq
<1>12. ASSUME NEW w \in Worker, Enqueue(w) PROVE CopyInv(m, s)'
    <2>1. /\ OthersRest(w) /\ Handled(w) /\ job[w] \in Offset /\ job[w] # 0
          /\ stage'[w] \in {"idle", "fanout"} /\ accepted' = accepted
          /\ downstreamCh' = downstreamCh /\ WorkType
        BY <1>12, EnqueueWork, PlaceTypes DEF Enqueue, TypeOK
    <2>2. dest[w][1] \in Session /\ dest[w][1] \in filtered[w]
        BY <1>12, <2>1, DestOK DEF Enqueue
    <2>3. CASE Puts(w) /\ filtered'[w] = filtered[w] \ {dest[w][1]}
        <3>1. /\ put'[m][s] \in Nat
              /\ put'[m][s] = IF m = job[w] /\ s = dest[w][1] THEN put[m][s] + 1 ELSE put[m][s]
            BY <2>1, <2>2, <2>3, PutEffect
        <3>2. CASE m = job[w] /\ s = dest[w][1]
            <4>1. Aims(w, m, s)
                BY <2>2, <3>2 DEF Aims
            <4>2. put[m][s] < accepted[m]
                BY <1>0, <4>1 DEF CopyInv, Pending
            <4>3. s \in log[m].to \ log[m].exclude
                BY <2>1, <2>2, <3>2 DEF RecipientInv, AimInv
            <4>4. ~Pending(m, s)'
                <5>1. ~Waits(m)'
                    BY <2>1, <3>2, OnePlace DEF Waits
                <5>2. ~Aims(w, m, s)'
                    BY <2>1, <2>3, <3>2 DEF Aims, Handled
                <5>3. \A v \in Worker : v # w => job'[v] # m
                    BY <2>1, <3>2, OnePlace DEF OthersRest
                <5>. QED
                    BY <5>1, <5>2, <5>3 DEF Pending, Aims
            <4>. QED
                BY <1>0, <2>1, <3>1, <3>2, <4>2, <4>3, <4>4 DEF CopyInv
        <3>3. CASE ~(m = job[w] /\ s = dest[w][1])
            <4>1. Aims(w, m, s)' => Aims(w, m, s)
                BY <2>1, PlaceTypes DEF Aims, Handled
            <4>2. \A v \in Worker : v # w => (Aims(v, m, s)' <=> Aims(v, m, s))
                BY <2>1 DEF OthersRest, Aims
            <4>3. Pending(m, s)' => Pending(m, s)
                BY <2>1, <4>1, <4>2 DEF Pending, Waits
            <4>. QED
                BY <1>0, <2>1, <3>1, <3>3, <4>3 DEF CopyInv
        <3>. QED
            BY <3>2, <3>3
    <2>4. CASE UNCHANGED sendVars
        BY <1>10, <2>1, <2>4
    <2>. QED
        BY <1>12, <2>3, <2>4, EnqueueWork, SMTT(30) DEF Puts
<1>. QED
    BY <1>3, <1>4, <1>5, <1>6, <1>7, <1>8, <1>9, <1>11, <1>12 DEF Next, ConsumerStep,
       CommitMessages, WorkerStep, Attach, Register, Write, LoseConn, vars

(* RightRecipients for every partition: the channel and the workers hold at
   most one copy of a message for a session, and each copy was accepted. *)
THEOREM RecipientsCorrect == Spec => []RightRecipients
<1>. DEFINE I == TypeOK /\ WorkInv /\ PlaceInv /\ RecipientInv
<1>1. ASSUME Init PROVE I
    <2>1. job = [w \in Worker |-> 0]
        BY <1>1 DEF Init
    <2>2. AimInv
        BY <2>1 DEF AimInv
    <2>3. ASSUME NEW m \in Offset, NEW s \in Session PROVE CopyInv(m, s)
        <3>1. put[m][s] = 0 /\ accepted[m] = 0
            BY <1>1 DEF Init
        <3>2. DOMAIN downstreamCh = {}
            BY <1>1, Emptied DEF Init
        <3>3. ~Pending(m, s)
            BY <2>1, <3>2, BoundsOK DEF Pending, Aims, Waits
        <3>. QED
            BY <3>1, <3>3 DEF CopyInv
    <2>. QED
        BY <1>1, <2>2, <2>3, TypeInit, PlaceInit DEF RecipientInv
<1>2. ASSUME I, [Next]_vars PROVE I'
    BY <1>2, TypeStep, PlaceStep, AimStep, CopyStep DEF RecipientInv
<1>3. I => RightRecipients
    BY DEF RecipientInv, CopyInv, RightRecipients
<1>. QED
    BY <1>1, <1>2, <1>3, PTL DEF Spec

-----------------------------------------------------------------------------
(* Losses. *)

(* The message may be kept for its receivers. *)
Kept(m) ==
    LET k == log[m] IN k.form \in {"ok", "nopool"} /\ k.offline /\ k.qos = 1 /\ ~k.expires

Accounted(m, s) == put[m][s] > 0 \/ << m, s >> \in missed

Explained(m) ==
    \/ m \in stored
    \/ owed[m] = {} /\ \E s \in Session : << m, s >> \in missed
    \/ owed[m] # {} /\ \A s \in owed[m] \ log[m].exclude : Accounted(m, s)

(* Worker w is on the way to explain what becomes of m. *)
Tracks(w, m) ==
    /\ job[w] = m
    /\ \/ stage[w] \in {"route", "offline"}
       \/ /\ owed[m] # {}
          /\ \/ m \in stored
             \/ \A s \in owed[m] \ log[m].exclude :
                  s \in targets[w] \cup filtered[w] \/ Accounted(m, s)

LossInv(m) ==
    Kept(m) /\ accepted[m] > 0 =>
      Waits(m) \/ (\E w \in Worker : Tracks(w, m)) \/ Explained(m)

(* A step that only adds to the account. *)
Adds(m) ==
    /\ owed'[m] = owed[m] /\ stored \subseteq stored'
    /\ \A s \in Session : Accounted(m, s) => Accounted(m, s)'
    /\ missed \subseteq missed'

LEMMA AddsKeeps ==
    ASSUME TypeOK, WorkInv, [Next]_vars, NEW m \in Offset, Adds(m)
    PROVE  Explained(m) => Explained(m)'
<1>1. log' = log /\ owed[m] \subseteq Session
    BY RestStep DEF TypeOK, log
<1>. QED
    BY <1>1 DEF Explained, Adds

LEMMA OthersTrack ==
    ASSUME TypeOK, WorkInv, [Next]_vars, NEW m \in Offset, Adds(m),
           NEW w \in Worker, OthersRest(w), NEW v \in Worker, v # w, Tracks(v, m)
    PROVE  Tracks(v, m)'
<1>1. log' = log /\ owed[m] \subseteq Session
    BY RestStep DEF TypeOK, log
<1>2. /\ job'[v] = job[v] /\ stage'[v] = stage[v]
      /\ targets'[v] = targets[v] /\ filtered'[v] = filtered[v]
    BY DEF OthersRest
<1>. QED
    BY <1>1, <1>2 DEF Tracks, Adds

(* A step of a worker that has another message. *)
LEMMA NotMine ==
    ASSUME TypeOK, WorkInv, [Next]_vars, NEW m \in Offset, LossInv(m), Adds(m),
           NEW w \in Worker, OthersRest(w), job[w] # m, accepted' = accepted,
           Waits(m) => Waits(m)'
    PROVE  LossInv(m)'
<1>1. log' = log
    BY RestStep DEF log
<1>2. ASSUME NEW v \in Worker, Tracks(v, m) PROVE Tracks(v, m)'
    <2>1. v # w
        BY <1>2 DEF Tracks
    <2>. QED
        BY <1>2, <2>1, OthersTrack
<1>3. Kept(m)' <=> Kept(m)
    BY <1>1 DEF Kept
<1>. QED
    BY <1>2, <1>3, AddsKeeps DEF LossInv

(* A step of the worker that has the message: either the message was
   explained before, or the worker is the one that tracks it. *)
LEMMA Mine ==
    ASSUME TypeOK, WorkInv, PlaceInv, [Next]_vars, NEW m \in Offset, LossInv(m),
           NEW w \in Worker, job[w] = m, accepted' = accepted,
           Explained(m) => Explained(m)',
           Kept(m) /\ Tracks(w, m) => Tracks(w, m)' \/ Explained(m)'
    PROVE  LossInv(m)'
<1>1. log' = log /\ m # 0
    BY RestStep, PlaceTypes DEF log
<1>2. ~Waits(m) /\ \A v \in Worker : Tracks(v, m) => v = w
    BY <1>1, OnePlace DEF Tracks
<1>3. Kept(m)' <=> Kept(m)
    BY <1>1 DEF Kept
<1>. QED
    BY <1>2, <1>3 DEF LossInv

LEMMA SameAccount ==
    ASSUME NEW m \in Offset, owed'[m] = owed[m], stored \subseteq stored',
           missed \subseteq missed', put'[m] = put[m]
    PROVE  Adds(m)
    BY DEF Adds, Accounted

LEMMA TakeLoss ==
    ASSUME TypeOK, WorkInv, PlaceInv, [Next]_vars, NEW m \in Offset, LossInv(m),
           NEW w \in Worker, TakeJob(w)
    PROVE  LossInv(m)'
<1>1. Takes(w) /\ UNCHANGED << put, owed, stored, missed, accepted >> /\ OthersRest(w)
    BY TakeWork DEF Takes, TakeJob
<1>2. Adds(m)
    BY <1>1, SameAccount
<1>3. job[w] # m
    BY <1>1, PlaceTypes DEF Takes
<1>4. CASE Waits(m) => Waits(m)'
    BY <1>1, <1>2, <1>3, <1>4, NotMine
<1>5. CASE m = Head(downstreamCh) /\ Kept(m)
    <2>1. Good(m)
        BY <1>5 DEF Good, Kept
    <2>2. job'[w] = m /\ stage'[w] = "route"
        BY <1>5, <2>1, TakeWork, PlaceTypes
    <2>. QED
        BY <2>2 DEF LossInv, Tracks
<1>6. CASE ~Kept(m)
    BY <1>6, RestStep DEF LossInv, Kept, log
<1>. QED
    BY <1>1, <1>4, <1>5, <1>6, WaitsTail

LEMMA RouteLoss ==
    ASSUME TypeOK, WorkInv, PlaceInv, [Next]_vars, NEW m \in Offset, LossInv(m),
           NEW w \in Worker, Route(w)
    PROVE  LossInv(m)'
<1>1. /\ UNCHANGED << put, stored, missed, accepted, downstreamCh, job >>
      /\ OthersRest(w) /\ job[w] \in Offset
      /\ owed' = [owed EXCEPT ![job[w]] = targets'[w]] /\ owed \in [Offset -> SUBSET Session]
      /\ stage'[w] = IF targets'[w] = {} THEN "offline" ELSE "filter"
    BY RouteWork DEF Route, TypeOK
<1>2. CASE job[w] = m
    <2>1. Tracks(w, m)'
        BY <1>1, <1>2 DEF Tracks
    <2>. QED
        BY <2>1 DEF LossInv
<1>3. CASE job[w] # m
    <2>1. Adds(m)
        BY <1>1, <1>3, SameAccount
    <2>. QED
        BY <1>1, <1>3, <2>1, NotMine DEF Waits
<1>. QED
    BY <1>2, <1>3

LEMMA FilterLoss ==
    ASSUME TypeOK, WorkInv, PlaceInv, [Next]_vars, NEW m \in Offset, LossInv(m),
           NEW w \in Worker, Filter(w)
    PROVE  LossInv(m)'
<1>1. /\ UNCHANGED << put, stored, owed, accepted, downstreamCh >>
      /\ OthersRest(w) /\ job[w] \in Offset /\ stage[w] = "filter"
      /\ missed \subseteq missed' /\ job'[w] \in {0, job[w]} /\ WorkType' /\ WorkInv'
      /\ log' = log /\ owed[m] \subseteq Session
    BY FilterWork, RestStep DEF Filter, TypeOK, log
<1>2. Adds(m)
    BY <1>1, SameAccount
<1>3. CASE job[w] = m
    <2>1. \A t \in targets[w] \cup filtered[w] :
            \/ t \in targets'[w] \cup filtered'[w]
            \/ t \in log[m].exclude \/ << m, t >> \in missed'
        BY <1>3, FilterWork DEF Kind
    <2>2. job'[w] = 0 => targets'[w] \cup filtered'[w] = {}
        BY <1>1 DEF WorkType, WorkInv, WorkerOK
    <2>3. ASSUME Tracks(w, m)
          PROVE  /\ owed'[m] # {}
                 /\ \/ m \in stored'
                    \/ \A s \in owed'[m] \ log'[m].exclude :
                         s \in targets'[w] \cup filtered'[w] \/ Accounted(m, s)'
        BY <1>1, <1>2, <2>1, <2>3 DEF Tracks, Adds, Accounted
    <2>4. Tracks(w, m) => Tracks(w, m)' \/ Explained(m)'
        BY <1>1, <1>3, <2>2, <2>3 DEF Tracks, Explained
    <2>. QED
        BY <1>1, <1>2, <1>3, <2>4, Mine, AddsKeeps
<1>4. CASE job[w] # m
    BY <1>1, <1>2, <1>4, NotMine DEF Waits
<1>. QED
    BY <1>3, <1>4

LEMMA StoreLoss ==
    ASSUME TypeOK, WorkInv, PlaceInv, [Next]_vars, NEW m \in Offset, LossInv(m),
           NEW w \in Worker, StoreOffline(w)
    PROVE  LossInv(m)'
<1>1. /\ UNCHANGED << put, missed, owed, accepted, downstreamCh >>
      /\ OthersRest(w) /\ stored \subseteq stored'
    BY StoreWork DEF StoreOffline
<1>2. Adds(m)
    BY <1>1, SameAccount
<1>3. CASE job[w] = m
    <2>1. Kept(m) => m \in stored'
        BY <1>3, StoreWork DEF Kept, Kind
    <2>2. Kept(m) => Explained(m)'
        BY <2>1 DEF Explained
    <2>. QED
        BY <1>1, <1>2, <1>3, <2>2, Mine, AddsKeeps
<1>4. CASE job[w] # m
    BY <1>1, <1>2, <1>4, NotMine DEF Waits
<1>. QED
    BY <1>3, <1>4

(* A submission that accounts for the targets it takes out of the fan-out. *)
LEMMA HandledLoss ==
    ASSUME TypeOK, WorkInv, PlaceInv, [Next]_vars, NEW m \in Offset, LossInv(m),
           NEW w \in Worker, stage[w] \in {"fanout", "draw", "send"},
           OthersRest(w), Handled(w), WorkType', WorkInv', Adds(m),
           UNCHANGED << owed, accepted, downstreamCh >>,
           job[w] = m /\ Kept(m) =>
             \A t \in filtered[w] \ filtered'[w] : Accounted(m, t)' \/ m \in stored'
    PROVE  LossInv(m)'
<1>1. /\ log' = log /\ owed[m] \subseteq Session /\ targets[w] = {}
    BY RestStep DEF TypeOK, log, WorkInv, WorkerOK
<1>2. CASE job[w] = m
    <2>1. job'[w] = 0 => filtered'[w] = {}
        BY DEF WorkType, WorkInv, WorkerOK
    <2>2. ASSUME Tracks(w, m), Kept(m)
          PROVE  /\ owed'[m] # {}
                 /\ \/ m \in stored'
                    \/ \A s \in owed'[m] \ log'[m].exclude :
                         s \in filtered'[w] \/ Accounted(m, s)'
        BY <1>1, <1>2, <2>2 DEF Tracks, Adds
    <2>3. Kept(m) /\ Tracks(w, m) => Tracks(w, m)' \/ Explained(m)'
        BY <1>2, <2>1, <2>2 DEF Tracks, Explained, Handled
    <2>. QED
        BY <1>2, <2>3, Mine, AddsKeeps
<1>3. CASE job[w] # m
    BY <1>3, NotMine DEF Waits
<1>. QED
    BY <1>2, <1>3

LEMMA NotPutLoss ==
    ASSUME TypeOK, WorkInv, PlaceInv, [Next]_vars, NEW m \in Offset, LossInv(m),
           NEW w \in Worker, stage[w] \in {"fanout", "draw", "send"},
           OthersRest(w), Handled(w), NotPut(w), WorkType', WorkInv', put' = put,
           UNCHANGED << owed, accepted, downstreamCh >>
    PROVE  LossInv(m)'
<1>1. Adds(m)
    BY SameAccount DEF Handled
<1>2. ASSUME job[w] = m, Kept(m), NEW t \in filtered[w] \ filtered'[w]
      PROVE  Accounted(m, t)' \/ m \in stored'
    BY <1>2 DEF NotPut, Kept, Kind, Accounted
<1>. QED
    BY <1>1, <1>2, HandledLoss

LEMMA EnqueueLoss ==
    ASSUME TypeOK, WorkInv, PlaceInv, [Next]_vars, NEW m \in Offset, LossInv(m),
           NEW w \in Worker, Enqueue(w)
    PROVE  LossInv(m)'
<1>1. /\ WorkType /\ WorkType' /\ WorkInv' /\ OthersRest(w) /\ Handled(w)
      /\ stage[w] = "send" /\ job[w] \in Offset
      /\ UNCHANGED << owed, accepted, downstreamCh >>
    BY EnqueueWork DEF Enqueue, TypeOK
<1>2. dest[w][1] \in Session
    BY <1>1, DestOK
<1>3. CASE NotPut(w) /\ UNCHANGED sendVars
    BY <1>1, <1>3, NotPutLoss
<1>4. CASE Puts(w) /\ filtered'[w] = filtered[w] \ {dest[w][1]} /\ missed' = missed
    <2>1. \A s \in Session :
            /\ put[m][s] \in Nat /\ put'[m][s] \in Nat
            /\ put'[m][s] = IF m = job[w] /\ s = dest[w][1] THEN put[m][s] + 1 ELSE put[m][s]
        BY <1>1, <1>2, <1>4, PutEffect
    <2>2. \A s \in Session : Accounted(m, s) => Accounted(m, s)'
        BY <1>4, <2>1 DEF Accounted
    <2>3. Adds(m)
        BY <1>1, <1>4, <2>2 DEF Adds, Handled
    <2>4. ASSUME job[w] = m, NEW t \in filtered[w] \ filtered'[w] PROVE Accounted(m, t)'
        <3>1. t = dest[w][1]
            BY <1>4, <2>4
        <3>2. put[m][t] \in Nat /\ put'[m][t] = put[m][t] + 1
            BY <1>2, <2>1, <2>4, <3>1
        <3>. QED
            BY <3>2 DEF Accounted
    <2>. QED
        BY <1>1, <2>3, <2>4, HandledLoss
<1>. QED
    BY <1>3, <1>4, EnqueueWork, SMTT(30) DEF Puts

(* A crash gives up what waits and what a worker has. *)
LEMMA CrashLoss ==
    ASSUME TypeOK, WorkInv, [Next]_vars, NEW m \in Offset, LossInv(m), Crash
    PROVE  LossInv(m)'
<1>1. /\ UNCHANGED << put, stored, owed, accepted >> /\ log' = log
      /\ missed' = missed \cup (Lost \X Session) /\ owed[m] \subseteq Session
    BY DEF Crash, log, TypeOK
<1>2. CASE m \in Lost
    <2>1. \A s \in Session : << m, s >> \in missed'
        BY <1>1, <1>2
    <2>2. \E s \in Session : TRUE
        BY DownlinkAssumption
    <2>3. Explained(m)'
        BY <1>1, <2>1, <2>2 DEF Explained, Accounted
    <2>. QED
        BY <2>3 DEF LossInv
<1>3. CASE m \notin Lost
    <2>1. ~Waits(m) /\ \A w \in Worker : ~Tracks(w, m)
        BY <1>3 DEF Lost, Waits, Tracks
    <2>2. Adds(m)
        BY <1>1, SameAccount
    <2>3. Explained(m) => Explained(m)'
        BY <2>2, AddsKeeps
    <2>. QED
        BY <1>1, <2>1, <2>3 DEF LossInv, Kept
<1>. QED
    BY <1>2, <1>3

LEMMA ConsumeLoss ==
    ASSUME TypeOK, WorkInv, [Next]_vars, NEW m \in Offset, LossInv(m), Consume
    PROVE  LossInv(m)'
<1>1. /\ Admits /\ UNCHANGED << workVars, put, stored, owed, missed >> /\ log' = log
    BY DEF Consume, Admits, log
<1>2. CASE accepted'[m] # accepted[m]
    BY <1>1, <1>2, WaitsAppend DEF LossInv
<1>3. CASE accepted'[m] = accepted[m]
    <2>1. Waits(m) => Waits(m)'
        BY <1>1, WaitsAppend
    <2>2. \A w \in Worker : Tracks(w, m) => Tracks(w, m)'
        BY <1>1 DEF Tracks, Accounted
    <2>3. Explained(m) => Explained(m)'
        BY <1>1 DEF Explained, Accounted
    <2>4. Kept(m)' => Kept(m)
        BY <1>1 DEF Kept
    <2>. QED
        BY <1>3, <2>1, <2>2, <2>3, <2>4 DEF LossInv
<1>. QED
    BY <1>2, <1>3

LEMMA LossStep ==
    ASSUME TypeOK, WorkInv, PlaceInv, [Next]_vars, NEW m \in Offset, LossInv(m)
    PROVE  LossInv(m)'
<1>1. ASSUME NEW w \in Worker, SubmitReadConn(w) PROVE LossInv(m)'
    BY <1>1, ReadConnWork, NotPutLoss DEF SubmitReadConn
<1>2. ASSUME NEW w \in Worker, DrawSeq(w) PROVE LossInv(m)'
    BY <1>2, DrawWork, NotPutLoss DEF DrawSeq
<1>3. CASE UNCHANGED << scene, downstreamCh, workVars, put, stored, owed, missed, accepted >>
    <2>1. log' = log
        BY <1>3 DEF log
    <2>. QED
        BY <1>3, <2>1 DEF LossInv, Tracks, Explained, Accounted, Kept, Waits
<1>. QED
    BY <1>1, <1>2, <1>3, TakeLoss, RouteLoss, FilterLoss, StoreLoss, EnqueueLoss,
       CrashLoss, ConsumeLoss DEF Next, ConsumerStep, CommitMessages, WorkerStep,
       Attach, Register, Write, LoseConn, vars

(* What was fetched was handed to a pool once, or turned away. *)
RefusedInv == \A m \in Offset : m <= fetchPos => accepted[m] > 0 \/ m \in refused

LEMMA RefusedStep ==
    ASSUME TypeOK, WorkInv, RefusedInv, [Next]_vars
    PROVE  RefusedInv'
<1>0. /\ accepted \in [Offset -> Nat] /\ \A m \in Offset : m \in Nat
      /\ fetchPos \in Nat /\ committed \in Nat /\ committed <= fetchPos
    BY PlaceTypes, BoundsOK DEF TypeOK, KafkaType
<1>1. CASE Consume
    <2>1. fetchPos' = fetchPos + 1 /\ fetchPos + 1 \in Offset
        BY <1>1, PlaceTypes DEF Consume
    <2>2. \A m \in Offset : accepted[m] > 0 => accepted'[m] > 0
        BY <1>0, <1>1, <2>1 DEF Consume
    <2>3. refused \subseteq refused'
        BY <1>1 DEF Consume
    <2>4. accepted'[fetchPos + 1] > 0 \/ fetchPos + 1 \in refused'
        BY <1>0, <1>1, <2>1 DEF Consume
    <2>5. \A m \in Offset : m <= fetchPos + 1 => m <= fetchPos \/ m = fetchPos + 1
        BY <1>0
    <2>. QED
        BY <2>1, <2>2, <2>3, <2>4, <2>5 DEF RefusedInv
<1>2. CASE UNCHANGED << accepted, refused >> /\ fetchPos' \in {fetchPos, committed}
    BY <1>0, <1>2 DEF RefusedInv
<1>. QED
    BY <1>1, <1>2 DEF Next, ConsumerStep, CommitMessages, Crash, WorkerStep, TakeJob,
       Route, Filter, StoreOffline, SubmitReadConn, DrawSeq, Enqueue, Attach,
       Register, Write, LoseConn, vars

(* LossIsExplained for every partition: as long as a message that may be kept
   has no explanation it is in the channel, or with a worker that still has
   the sessions to which it is owed in its lists. *)
THEOREM LossCorrect == Spec => []LossIsExplained
<1>. DEFINE I == /\ TypeOK /\ WorkInv /\ PlaceInv /\ RefusedInv
                /\ \A m \in Offset : LossInv(m)
<1>1. ASSUME Init PROVE I
    <2>1. \A m \in Offset : accepted[m] = 0
        BY <1>1 DEF Init
    <2>2. RefusedInv
        BY <1>1, BoundsOK DEF Init, RefusedInv
    <2>. QED
        BY <1>1, <2>1, <2>2, TypeInit, PlaceInit DEF LossInv
<1>2. ASSUME I, [Next]_vars PROVE I'
    BY <1>2, TypeStep, PlaceStep, RefusedStep, LossStep DEF Offset
<1>3. ASSUME I PROVE LossIsExplained
    <2>1. ASSUME NEW m \in Offset, LossInv(m), Kept(m), accepted[m] > 0, ~InFlight(m)
          PROVE  Explained(m)
        BY <2>1 DEF LossInv, Tracks, Waits, InFlight, Lost
    <2>2. ASSUME NEW m \in Offset, m <= fetchPos
          PROVE  accepted[m] > 0 \/ (accepted[m] = 0 /\ m \in refused)
        BY <1>3, <2>2, PlaceTypes DEF RefusedInv
    <2>. QED
        BY <1>3, <2>1, <2>2 DEF LossIsExplained, Kept, Explained, Accounted
<1>. QED
    BY <1>1, <1>2, <1>3, PTL DEF Spec
-----------------------------------------------------------------------------
(* Sequence numbers. *)

Single(m) == Cardinality(log[m].to) = 1

OnWire(s, m) == \E i \in DOMAIN writeCh[s] : writeCh[s][i] = m

(* Worker w has drawn the number of m on the present connection of s. *)
Sends(w, s, m) == stage[w] = "send" /\ dest[w] = << s, made[s] >> /\ job[w] = m

Holds(s, m) == OnWire(s, m) \/ \E w \in Worker : Sends(w, s, m)

(* Message m goes, or went, over the present connection of s with number n. *)
Uses(s, m, n) == << m, n >> \in received[s] \/ (Holds(s, m) /\ seqId[m] = n)

(* A number that was drawn is used by one unicast message. *)
NumberInv(s) ==
    \A m \in Offset, n \in Nat : Single(m) /\ Uses(s, m, n) =>
      /\ n <= nextSendSeq[s]
      /\ \A k \in Offset : Single(k) /\ Uses(s, k, n) => k = m

WireInv(s) == \A m \in Offset : OnWire(s, m) => s \in log[m].to

(* A connection that somebody has is not newer than the newest one. *)
ConnInv ==
    /\ \A s \in Session : conn[s] <= made[s]
    /\ \A w \in Worker : stage[w] \in {"draw", "send"} => dest[w][2] <= made[dest[w][1]]

SeqInv == ConnInv /\ \A s \in Session : NumberInv(s) /\ WireInv(s)

LEMMA OneReceiver ==
    ASSUME TypeOK, NEW m \in Offset, Single(m),
           NEW s \in log[m].to, NEW t \in log[m].to
    PROVE  s = t
<1>1. log[m].to \subseteq Session
    BY SceneOK, KindOK DEF TypeOK
<1>2. IsFiniteSet(log[m].to)
    BY <1>1, SessionFinite
<1>3. PICK x : log[m].to = {x}
    BY <1>2, FS_Singleton DEF Single
<1>. QED
    BY <1>3

(* At most one number more is in use, the one just drawn. *)
LEMMA NumberKept ==
    ASSUME TypeOK, NEW s \in Session, NumberInv(s), log' = log,
           nextSendSeq'[s] \in Nat, nextSendSeq'[s] >= nextSendSeq[s], NEW j,
           \A m \in Offset, n \in Nat : Single(m) /\ Uses(s, m, n)' =>
             \/ Uses(s, m, n)
             \/ m = j /\ n = nextSendSeq[s] + 1 /\ n <= nextSendSeq'[s]
    PROVE  NumberInv(s)'
<1>1. nextSendSeq[s] \in Nat
    BY DEF TypeOK, SendType
<1>2. \A m \in Offset : Single(m)' <=> Single(m)
    BY DEF Single
<1>3. SUFFICES ASSUME NEW m \in Offset, NEW n \in Nat, Single(m), Uses(s, m, n)'
               PROVE  /\ n <= nextSendSeq'[s]
                      /\ \A k \in Offset : Single(k) /\ Uses(s, k, n)' => k = m
    BY <1>2 DEF NumberInv
<1>4. \/ Uses(s, m, n)
      \/ m = j /\ n = nextSendSeq[s] + 1 /\ n <= nextSendSeq'[s]
    BY <1>3
<1>5. Uses(s, m, n) => n <= nextSendSeq[s]
    BY <1>3 DEF NumberInv
<1>6. ASSUME NEW k \in Offset, Single(k), Uses(s, k, n)' PROVE k = m
    <2>1. \/ Uses(s, k, n)
          \/ k = j /\ n = nextSendSeq[s] + 1
        BY <1>6
    <2>2. Uses(s, k, n) => n <= nextSendSeq[s]
        BY <1>6 DEF NumberInv
    <2>3. Uses(s, k, n) /\ Uses(s, m, n) => k = m
        BY <1>3, <1>6 DEF NumberInv
    <2>. QED
        BY <1>1, <1>4, <1>5, <2>1, <2>2, <2>3
<1>. QED
    BY <1>1, <1>4, <1>5, <1>6

(* Nothing new on the connection. *)
LEMMA QuietSeq ==
    ASSUME TypeOK, NEW s \in Session, NumberInv(s), WireInv(s), log' = log,
           nextSendSeq'[s] = nextSendSeq[s], received'[s] \subseteq received[s],
           \A m \in Offset : OnWire(s, m)' => OnWire(s, m),
           \A m \in Offset : Holds(s, m)' => Holds(s, m),
           \A m \in Offset : Single(m) /\ Holds(s, m) => seqId'[m] = seqId[m]
    PROVE  NumberInv(s)' /\ WireInv(s)'
<1>1. WireInv(s)'
    BY DEF WireInv
<1>2. nextSendSeq'[s] \in Nat /\ nextSendSeq'[s] >= nextSendSeq[s]
    BY DEF TypeOK, SendType
<1>3. ASSUME NEW m \in Offset, NEW n \in Nat, Single(m), Uses(s, m, n)'
      PROVE  Uses(s, m, n)
    BY <1>3 DEF Uses
<1>. QED
    BY <1>1, <1>2, <1>3, NumberKept

(* A worker step that draws no number and puts nothing on a queue. *)
LEMMA IdleSeq ==
    ASSUME TypeOK, NEW s \in Session, NumberInv(s), WireInv(s), log' = log,
           NEW w \in Worker, OthersRest(w), stage'[w] # "send",
           UNCHANGED << made, writeCh, nextSendSeq, seqId, received >>
    PROVE  NumberInv(s)' /\ WireInv(s)'
<1>1. \A m \in Offset : OnWire(s, m)' <=> OnWire(s, m)
    BY DEF OnWire
<1>2. ASSUME NEW m \in Offset, NEW v \in Worker, Sends(v, s, m)' PROVE Sends(v, s, m)
    <2>1. v # w
        BY <1>2 DEF Sends
    <2>2. stage'[v] = stage[v] /\ dest'[v] = dest[v] /\ job'[v] = job[v]
        BY <2>1 DEF OthersRest
    <2>. QED
        BY <1>2, <2>2 DEF Sends
<1>3. \A m \in Offset : Holds(s, m)' => Holds(s, m)
    BY <1>1, <1>2 DEF Holds
<1>. QED
    BY <1>1, <1>3, QuietSeq

(* Connection.Submit draws a number: new on its connection, and the message
   has no other receiver whose number it could overwrite. *)
LEMMA DrawSeqNumbers ==
    ASSUME TypeOK, WorkInv, AimInv, NEW s \in Session, NumberInv(s), WireInv(s), log' = log,
           NEW w \in Worker, DrawSeq(w)
    PROVE  NumberInv(s)' /\ WireInv(s)'
<1>. DEFINE d == dest[w][1]
            j == job[w]
<1>1. stage[w] = "draw" /\ OthersRest(w) /\ j \in Offset /\ made' = made
    BY DrawWork DEF DrawSeq
<1>2. CASE stage'[w] \in {"idle", "fanout"} /\ UNCHANGED sendVars
    BY <1>1, <1>2, IdleSeq
<1>3. CASE /\ stage'[w] = "send" /\ dest' = dest /\ job' = job
           /\ nextSendSeq' = [nextSendSeq EXCEPT ![d] = @ + 1]
           /\ seqId' = [seqId EXCEPT ![j] = nextSendSeq[d] + 1]
           /\ UNCHANGED << writeCh, received >>
    <2>1. d \in Session /\ d \in filtered[w] /\ d \in log[j].to
        <3>1. d \in Session /\ d \in filtered[w]
            BY <1>1, DestOK DEF TypeOK
        <3>2. filtered[w] \subseteq log[j].to
            BY <1>1, PlaceTypes DEF AimInv
        <3>. QED
            BY <3>1, <3>2
    <2>2. /\ nextSendSeq \in [Session -> Nat] /\ seqId \in [Offset -> Nat]
          /\ nextSendSeq[s] \in Nat
        BY DEF TypeOK, SendType
    <2>3. \A m \in Offset : OnWire(s, m)' <=> OnWire(s, m)
        BY <1>3 DEF OnWire
    <2>4. ASSUME NEW m \in Offset, NEW v \in Worker, v # w
          PROVE  Sends(v, s, m)' <=> Sends(v, s, m)
        <3>1. stage'[v] = stage[v] /\ dest'[v] = dest[v] /\ job'[v] = job[v]
            BY <1>1, <2>4 DEF OthersRest
        <3>. QED
            BY <1>1, <3>1 DEF Sends
    <2>5. WireInv(s)'
        BY <2>3 DEF WireInv
    <2>6. CASE s = d
        <3>1. nextSendSeq'[s] = nextSendSeq[s] + 1 /\ seqId'[j] = nextSendSeq[s] + 1
            BY <1>1, <1>3, <2>1, <2>2, <2>6
        <3>2. ASSUME NEW m \in Offset, NEW n \in Nat, Uses(s, m, n)'
              PROVE  \/ Uses(s, m, n)
                     \/ m = j /\ n = nextSendSeq[s] + 1 /\ n <= nextSendSeq'[s]
            <4>1. CASE m = j
                BY <1>3, <2>2, <3>1, <3>2, <4>1 DEF Uses
            <4>2. CASE m # j
                <5>1. seqId'[m] = seqId[m]
                    BY <1>3, <2>2, <4>2
                <5>2. Holds(s, m)' => Holds(s, m)
                    BY <1>3, <2>3, <2>4, <4>2 DEF Holds, Sends
                <5>. QED
                    BY <1>3, <3>2, <5>1, <5>2 DEF Uses
            <4>. QED
                BY <4>1, <4>2
        <3>3. nextSendSeq'[s] \in Nat /\ nextSendSeq'[s] >= nextSendSeq[s]
            BY <2>2, <3>1
        <3>4. NumberInv(s)'
            BY <3>2, <3>3, NumberKept
        <3>. QED
            BY <2>5, <3>4
    <2>7. CASE s # d
        <3>1. nextSendSeq'[s] = nextSendSeq[s]
            BY <1>3, <2>1, <2>2, <2>7
        <3>2. ASSUME NEW m \in Offset, Sends(w, s, m)' PROVE FALSE
            <4>1. dest[w] = << s, made[s] >>
                BY <1>1, <1>3, <3>2 DEF Sends
            <4>. QED
                BY <2>7, <4>1
        <3>3. \A m \in Offset : Holds(s, m)' => Holds(s, m)
            BY <2>3, <2>4, <3>2 DEF Holds
        <3>4. ASSUME Single(j), Holds(s, j) PROVE FALSE
            <4>1. CASE OnWire(s, j)
                BY <1>1, <2>1, <2>7, <3>4, <4>1, OneReceiver DEF WireInv
            <4>2. ASSUME NEW v \in Worker, Sends(v, s, j) PROVE FALSE
                <5>1. stage[v] = "send" /\ dest[v] = << s, made[s] >> /\ job[v] = j
                    BY <4>2 DEF Sends
                <5>2. s \in filtered[v]
                    BY <5>1, DestOK DEF TypeOK
                <5>3. s \in log[j].to
                    BY <1>1, <5>1, <5>2, PlaceTypes DEF AimInv
                <5>. QED
                    BY <1>1, <2>1, <2>7, <3>4, <5>3, OneReceiver
            <4>. QED
                BY <3>4, <4>1, <4>2 DEF Holds
        <3>5. \A m \in Offset : Single(m) /\ Holds(s, m) => seqId'[m] = seqId[m]
            BY <1>3, <2>2, <3>4
        <3>. QED
            BY <1>3, <2>3, <3>1, <3>3, <3>5, QuietSeq
    <2>. QED
        BY <2>6, <2>7
<1>. QED
    BY <1>2, <1>3, DrawWork

(* The message moves from the worker to the queue with its number. *)
LEMMA EnqueueNumbers ==
    ASSUME TypeOK, WorkInv, AimInv, NEW s \in Session, NumberInv(s), WireInv(s), log' = log,
           NEW w \in Worker, Enqueue(w)
    PROVE  NumberInv(s)' /\ WireInv(s)'
<1>. DEFINE d == dest[w][1]
            j == job[w]
<1>1. /\ stage[w] = "send" /\ OthersRest(w) /\ j \in Offset /\ made' = made
      /\ stage'[w] \in {"idle", "fanout"}
    BY EnqueueWork DEF Enqueue
<1>2. CASE UNCHANGED << writeCh, nextSendSeq, seqId, received >>
    BY <1>1, <1>2, IdleSeq
<1>3. CASE /\ made[d] = dest[w][2] /\ writeCh' = [writeCh EXCEPT ![d] = Append(@, j)]
           /\ UNCHANGED << nextSendSeq, seqId, received >>
    <2>1. d \in Session /\ d \in log[j].to /\ dest[w] = << d, made[d] >>
        <3>1. d \in Session /\ d \in filtered[w] /\ dest[w] \in Session \X (1 .. MaxConn)
            BY <1>1, DestOK DEF TypeOK
        <3>2. filtered[w] \subseteq log[j].to
            BY <1>1, PlaceTypes DEF AimInv
        <3>. QED
            BY <1>3, <3>1, <3>2
    <2>2. writeCh \in [Session -> Seq(Offset)] /\ seqId \in [Offset -> Nat]
        BY DEF TypeOK, SendType
    <2>3. ASSUME NEW m \in Offset, OnWire(s, m)'
          PROVE  OnWire(s, m) \/ (m = j /\ s = d)
        <3>1. CASE s = d
            <4>1. writeCh'[s] = Append(writeCh[s], j) /\ writeCh[s] \in Seq(Offset)
                BY <1>3, <2>2, <3>1
            <4>. QED
                BY <1>1, <2>3, <3>1, <4>1, Appended DEF OnWire
        <3>2. CASE s # d
            BY <1>3, <2>2, <2>3, <3>2 DEF OnWire
        <3>. QED
            BY <3>1, <3>2
    <2>4. s = d => Sends(w, s, j)
        BY <1>1, <2>1 DEF Sends
    <2>5. ASSUME NEW m \in Offset, NEW v \in Worker, Sends(v, s, m)' PROVE Sends(v, s, m)
        <3>1. v # w
            BY <1>1, <2>5 DEF Sends
        <3>2. stage'[v] = stage[v] /\ dest'[v] = dest[v] /\ job'[v] = job[v]
            BY <1>1, <3>1 DEF OthersRest
        <3>. QED
            BY <1>1, <2>5, <3>2 DEF Sends
    <2>6. \A m \in Offset : Holds(s, m)' => Holds(s, m)
        BY <2>3, <2>4, <2>5 DEF Holds
    <2>7. WireInv(s)'
        BY <2>1, <2>3 DEF WireInv
    <2>8. nextSendSeq'[s] \in Nat /\ nextSendSeq'[s] >= nextSendSeq[s]
        BY <1>3 DEF TypeOK, SendType
    <2>9. \A m \in Offset, n \in Nat : Uses(s, m, n)' => Uses(s, m, n)
        BY <1>3, <2>6 DEF Uses
    <2>. QED
        BY <2>7, <2>8, <2>9, NumberKept
<1>. QED
    BY <1>2, <1>3, EnqueueWork

(* The writeLoop takes the head of the queue with the number it has. *)
LEMMA WriteNumbers ==
    ASSUME TypeOK, NEW s \in Session, NumberInv(s), WireInv(s), log' = log,
           NEW t \in Session, Write(t)
    PROVE  NumberInv(s)' /\ WireInv(s)'
<1>1. /\ writeCh[t] # << >> /\ writeCh' = [writeCh EXCEPT ![t] = Tail(@)]
      /\ received' = [received EXCEPT ![t] = @ \cup {<< Head(writeCh[t]), seqId[Head(writeCh[t])] >>}]
      /\ UNCHANGED << workVars, made, nextSendSeq, seqId >>
    BY DEF Write
<1>2. /\ writeCh \in [Session -> Seq(Offset)] /\ seqId \in [Offset -> Nat]
      /\ received \in [Session -> SUBSET (Offset \X Nat)]
    BY DEF TypeOK, SendType
<1>3. ASSUME NEW m \in Offset, OnWire(s, m)' PROVE OnWire(s, m)
    <2>1. CASE s = t
        <3>1. writeCh'[s] = Tail(writeCh[s]) /\ writeCh[s] \in Seq(Offset) /\ writeCh[s] # << >>
            BY <1>1, <1>2, <2>1
        <3>2. \A i \in DOMAIN writeCh'[s] :
                writeCh'[s][i] = writeCh[s][i + 1] /\ i + 1 \in DOMAIN writeCh[s]
            BY <3>1, Shortened
        <3>. QED
            BY <1>3, <3>2 DEF OnWire
    <2>2. CASE s # t
        BY <1>1, <1>2, <1>3, <2>2 DEF OnWire
    <2>. QED
        BY <2>1, <2>2
<1>4. \A m \in Offset : Holds(s, m)' => Holds(s, m)
    BY <1>1, <1>3 DEF Holds, Sends
<1>5. WireInv(s)'
    BY <1>3 DEF WireInv
<1>6. ASSUME NEW m \in Offset, NEW n \in Nat, << m, n >> \in received'[s]
      PROVE  Uses(s, m, n)
    <2>1. CASE s = t
        <3>1. /\ writeCh[s] \in Seq(Offset) /\ writeCh[s] # << >>
              /\ received'[s] = received[s] \cup {<< Head(writeCh[s]), seqId[Head(writeCh[s])] >>}
            BY <1>1, <1>2, <2>1
        <3>2. Head(writeCh[s]) = writeCh[s][1] /\ 1 \in DOMAIN writeCh[s]
            BY <3>1, Shortened
        <3>3. OnWire(s, Head(writeCh[s]))
            BY <3>2 DEF OnWire
        <3>. QED
            BY <1>6, <3>1, <3>3 DEF Uses, Holds
    <2>2. CASE s # t
        BY <1>1, <1>2, <1>6, <2>2 DEF Uses
    <2>. QED
        BY <2>1, <2>2
<1>7. \A m \in Offset, n \in Nat : Uses(s, m, n)' => Uses(s, m, n)
    BY <1>1, <1>4, <1>6 DEF Uses
<1>8. nextSendSeq'[s] \in Nat /\ nextSendSeq'[s] >= nextSendSeq[s]
    BY <1>1 DEF TypeOK, SendType
<1>. QED
    BY <1>5, <1>7, <1>8, NumberKept

(* A new connection starts with nothing. *)
LEMMA NothingUsed ==
    ASSUME NEW s \in Session, writeCh'[s] = << >>, received'[s] = {},
           \A w \in Worker : stage'[w] = "send" => dest'[w] # << s, made'[s] >>
    PROVE  NumberInv(s)' /\ WireInv(s)'
<1>1. \A m : ~OnWire(s, m)'
    BY Emptied DEF OnWire
<1>2. \A m : ~Holds(s, m)'
    BY <1>1 DEF Holds, Sends
<1>3. \A m, n : ~Uses(s, m, n)'
    BY <1>2 DEF Uses
<1>. QED
    BY <1>1, <1>3 DEF NumberInv, WireInv

LEMMA AttachNumbers ==
    ASSUME TypeOK, WorkInv, ConnInv, NEW s \in Session, NumberInv(s), WireInv(s), log' = log,
           NEW t \in Session, Attach(t)
    PROVE  NumberInv(s)' /\ WireInv(s)'
<1>1. /\ made' = [made EXCEPT ![t] = @ + 1] /\ writeCh' = [writeCh EXCEPT ![t] = << >>]
      /\ nextSendSeq' = [nextSendSeq EXCEPT ![t] = 0]
      /\ received' = [received EXCEPT ![t] = {}] /\ UNCHANGED << workVars, seqId >>
    BY DEF Attach
<1>2. /\ made \in [Session -> 0 .. MaxConn] /\ writeCh \in [Session -> Seq(Offset)]
      /\ nextSendSeq \in [Session -> Nat]
      /\ received \in [Session -> SUBSET (Offset \X Nat)]
    BY DEF TypeOK, SessType, SendType
<1>3. CASE s = t
    <2>1. /\ writeCh'[s] = << >> /\ received'[s] = {} /\ made'[s] = made[s] + 1
          /\ made[s] \in Nat
        BY <1>1, <1>2, <1>3
    <2>2. ASSUME NEW w \in Worker, stage'[w] = "send", dest'[w] = << s, made'[s] >>
          PROVE  FALSE
        <3>1. stage[w] = "send" /\ dest[w][1] = s /\ dest[w][2] = made[s] + 1
            BY <1>1, <2>1, <2>2
        <3>2. dest[w][2] <= made[s]
            BY <3>1 DEF ConnInv
        <3>. QED
            BY <2>1, <3>1, <3>2
    <2>. QED
        BY <2>1, <2>2, NothingUsed
<1>4. CASE s # t
    <2>1. /\ writeCh'[s] = writeCh[s] /\ received'[s] = received[s] /\ made'[s] = made[s]
          /\ nextSendSeq'[s] = nextSendSeq[s]
        BY <1>1, <1>2, <1>4
    <2>2. \A m \in Offset : OnWire(s, m)' <=> OnWire(s, m)
        BY <2>1 DEF OnWire
    <2>3. \A m \in Offset : Holds(s, m)' <=> Holds(s, m)
        BY <1>1, <2>1, <2>2 DEF Holds, Sends
    <2>. QED
        BY <1>1, <2>1, <2>2, <2>3, QuietSeq
<1>. QED
    BY <1>3, <1>4

(* AttachConn makes a connection newer than those the workers have read. *)
LEMMA ConnStep ==
    TypeOK /\ WorkInv /\ ConnInv /\ [Next]_vars => ConnInv'
<1>. SUFFICES ASSUME TypeOK, WorkInv, ConnInv, [Next]_vars PROVE ConnInv'
    OBVIOUS
<1>0. /\ made \in [Session -> 0 .. MaxConn] /\ conn \in [Session -> 0 .. MaxConn]
      /\ WorkType
    BY DEF TypeOK, SessType
<1>1. \A w \in Worker : stage[w] \in {"draw", "send"} =>
        dest[w][1] \in Session /\ dest[w][2] \in Nat
    BY <1>0, DestOK, BoundsOK
<1>2. ASSUME NEW w \in Worker, WorkerStep(w) PROVE ConnInv'
    <2>1. UNCHANGED << conn, made >>
        BY <1>2 DEF WorkerStep, TakeJob, Route, Filter, StoreOffline, SubmitReadConn,
           DrawSeq, Enqueue
    <2>2. OthersRest(w)
        BY <1>2, TakeWork, RouteWork, FilterWork, StoreWork, ReadConnWork, DrawWork,
           EnqueueWork DEF WorkerStep
    <2>3. ASSUME stage'[w] \in {"draw", "send"} PROVE dest'[w][2] <= made[dest'[w][1]]
        <3>1. CASE SubmitReadConn(w)
            <4>1. stage'[w] = "draw" /\ dest'[w][2] = conn[dest'[w][1]] /\ WorkType' /\ WorkInv'
                BY <2>3, <3>1, ReadConnWork
            <4>2. dest'[w][1] \in Session
                BY <4>1 DEF WorkInv, WorkerOK
            <4>. QED
                BY <4>1, <4>2 DEF ConnInv
        <3>2. CASE DrawSeq(w)
            <4>1. stage[w] = "draw" /\ dest' = dest
                BY <2>3, <3>2, DrawWork
            <4>. QED
                BY <4>1 DEF ConnInv
        <3>3. CASE TakeJob(w)
            <4>1. stage'[w] \in {"idle", "route"}
                BY <1>0, <3>3 DEF TakeJob, WorkType
            <4>. QED
                BY <2>3, <4>1
        <3>4. CASE StoreOffline(w)
            <4>1. stage'[w] = "idle"
                BY <1>0, <3>4, FinishWork DEF StoreOffline
            <4>. QED
                BY <2>3, <4>1
        <3>. QED
            BY <1>2, <2>3, <3>1, <3>2, <3>3, <3>4, RouteWork, FilterWork, EnqueueWork
               DEF WorkerStep
    <2>4. ASSUME NEW v \in Worker, stage'[v] \in {"draw", "send"}, v # w
          PROVE  dest'[v][2] <= made[dest'[v][1]]
        <3>1. stage'[v] = stage[v] /\ dest'[v] = dest[v]
            BY <2>2, <2>4 DEF OthersRest
        <3>. QED
            BY <2>4, <3>1 DEF ConnInv
    <2>. QED
        BY <2>1, <2>3, <2>4 DEF ConnInv
<1>3. ASSUME NEW s \in Session, Attach(s) PROVE ConnInv'
    <2>1. /\ made' = [made EXCEPT ![s] = @ + 1] /\ conn' = [conn EXCEPT ![s] = made[s] + 1]
          /\ UNCHANGED << stage, dest >>
        BY <1>3 DEF Attach
    <2>2. ASSUME NEW t \in Session
          PROVE  /\ conn'[t] <= made'[t] /\ made[t] <= made'[t]
                 /\ made[t] \in Nat /\ made'[t] \in Nat
        BY <1>0, <2>1, BoundsOK DEF ConnInv
    <2>3. ASSUME NEW w \in Worker, stage[w] \in {"draw", "send"}
          PROVE  dest[w][2] <= made'[dest[w][1]]
        <3>1. PICK t \in Session : t = dest[w][1]
            BY <1>1, <2>3
        <3>2. dest[w][2] \in Nat /\ dest[w][2] <= made[t]
            BY <1>1, <2>3, <3>1 DEF ConnInv
        <3>. QED
            BY <2>2, <3>1, <3>2
    <2>. QED
        BY <2>1, <2>2, <2>3 DEF ConnInv
<1>4. ASSUME NEW s \in Session, LoseConn(s) PROVE ConnInv'
    <2>1. conn' = [conn EXCEPT ![s] = 0] /\ UNCHANGED << made, stage, dest >>
        BY <1>4 DEF LoseConn
    <2>2. ASSUME NEW t \in Session PROVE conn'[t] <= made[t]
        BY <1>0, <2>1, BoundsOK DEF ConnInv
    <2>. QED
        BY <2>1, <2>2 DEF ConnInv
<1>5. CASE Crash
    <2>1. /\ conn' = [s \in Session |-> 0] /\ made' = made
          /\ stage' = [w \in Worker |-> "idle"]
        BY <1>5 DEF Crash
    <2>. QED
        BY <1>0, <2>1, BoundsOK DEF ConnInv
<1>6. CASE UNCHANGED << conn, made, stage, dest >>
    BY <1>6 DEF ConnInv
<1>. QED
    BY <1>2, <1>3, <1>4, <1>5, <1>6 DEF Next, ConsumerStep, Consume, CommitMessages,
       Register, Write, vars

LEMMA SeqStep ==
    TypeOK /\ WorkInv /\ AimInv /\ SeqInv /\ [Next]_vars => SeqInv'
<1>. SUFFICES ASSUME TypeOK, WorkInv, AimInv, SeqInv, [Next]_vars, NEW s \in Session
              PROVE  NumberInv(s)' /\ WireInv(s)'
    BY ConnStep DEF SeqInv
<1>. ConnInv /\ NumberInv(s) /\ WireInv(s) /\ WorkType
    BY DEF SeqInv, TypeOK
<1>0. log' = log
    BY RestStep DEF log
<1>1. ASSUME NEW w \in Worker, WorkerStep(w), ~DrawSeq(w), ~Enqueue(w)
      PROVE  NumberInv(s)' /\ WireInv(s)'
    <2>1. OthersRest(w)
        BY <1>1, TakeWork, RouteWork, FilterWork, StoreWork, ReadConnWork DEF WorkerStep
    <2>2. stage'[w] # "send"
        <3>1. TakeJob(w) => stage'[w] \in {"idle", "route"}
            BY DEF TakeJob, WorkType
        <3>2. StoreOffline(w) => stage'[w] = "idle"
            BY FinishWork DEF StoreOffline
        <3>. QED
            BY <1>1, <3>1, <3>2, RouteWork, FilterWork, ReadConnWork DEF WorkerStep
    <2>3. UNCHANGED << made, writeCh, nextSendSeq, seqId, received >>
        BY <1>1 DEF WorkerStep, TakeJob, Route, Filter, StoreOffline, SubmitReadConn
    <2>. QED
        BY <1>0, <2>1, <2>2, <2>3, IdleSeq
<1>2. CASE Crash
    <2>1. /\ writeCh' = [t \in Session |-> << >>] /\ received' = [t \in Session |-> {}]
          /\ stage' = [w \in Worker |-> "idle"]
        BY <1>2 DEF Crash
    <2>. QED
        BY <2>1, NothingUsed
<1>3. CASE UNCHANGED << workVars, made, writeCh, nextSendSeq, seqId, received >>
    <2>1. \A m \in Offset : OnWire(s, m)' <=> OnWire(s, m)
        BY <1>3 DEF OnWire
    <2>2. \A m \in Offset : Holds(s, m)' <=> Holds(s, m)
        BY <1>3, <2>1 DEF Holds, Sends
    <2>. QED
        BY <1>0, <1>3, <2>1, <2>2, QuietSeq
<1>. QED
    BY <1>0, <1>1, <1>2, <1>3, DrawSeqNumbers, EnqueueNumbers, WriteNumbers, AttachNumbers
       DEF Next, ConsumerStep, Consume, CommitMessages, Register, LoseConn, vars

(* UnicastSeqIdsDiffer, for any number of workers: the numbers of a connection
   are drawn one after the other, the message keeps the one it has drawn until
   the writeLoop reads it, and a connection that was replaced meanwhile shares
   neither its queue nor its numbers with its successor. *)
THEOREM SeqIdsCorrect == Spec => []UnicastSeqIdsDiffer
<1>. DEFINE I == TypeOK /\ WorkInv /\ AimInv /\ SeqInv
<1>1. ASSUME Init PROVE I
    <2>1. AimInv
        BY <1>1 DEF Init, AimInv
    <2>2. ConnInv
        BY <1>1 DEF Init, ConnInv
    <2>3. /\ writeCh = [s \in Session |-> << >>] /\ received = [s \in Session |-> {}]
          /\ stage = [w \in Worker |-> "idle"]
        BY <1>1 DEF Init
    <2>4. ASSUME NEW s \in Session PROVE NumberInv(s) /\ WireInv(s)
        <3>1. \A m : ~OnWire(s, m)
            BY <2>3, Emptied DEF OnWire
        <3>2. \A m, n : ~Uses(s, m, n)
            BY <2>3, <3>1 DEF Uses, Holds, Sends
        <3>. QED
            BY <3>1, <3>2 DEF NumberInv, WireInv
    <2>. QED
        BY <1>1, <2>1, <2>2, <2>4, TypeInit DEF SeqInv
<1>2. ASSUME I, [Next]_vars PROVE I'
    BY <1>2, TypeStep, AimStep, SeqStep
<1>3. ASSUME I PROVE UnicastSeqIdsDiffer
    <2>1. SUFFICES ASSUME NEW s \in Session, NEW p \in received[s], NEW q \in received[s],
                          p # q, Single(p[1]), Single(q[1]), p[2] = q[2]
                   PROVE  FALSE
        BY DEF UnicastSeqIdsDiffer, Single
    <2>2. p \in Offset \X Nat /\ q \in Offset \X Nat
        BY <1>3 DEF TypeOK, SendType
    <2>3. PICK m \in Offset, k \in Offset, n \in Nat : p = << m, n >> /\ q = << k, n >>
        BY <2>1, <2>2
    <2>4. Single(m) /\ Single(k) /\ Uses(s, m, n) /\ Uses(s, k, n)
        BY <2>1, <2>3 DEF Uses
    <2>5. k = m
        BY <1>3, <2>4 DEF SeqInv, NumberInv
    <2>. QED
        BY <2>1, <2>3, <2>5
<1>. QED
    BY <1>1, <1>2, <1>3, PTL DEF Spec

-----------------------------------------------------------------------------
(* The abstract specification: every step is a step of Fanout. *)

LEMMA HeldIs ==
    /\ \A m \in Offset : m \in Lost <=> Waits(m) \/ \E w \in Worker : job[w] = m
    /\ \A m \in Offset : m \in Lost' <=> Waits(m)' \/ \E w \in Worker : job'[w] = m
    /\ Lost \subseteq Offset /\ Lost' \subseteq Offset
    BY DEF Lost, Waits, Offset

LEMMA DueIs ==
    ASSUME NEW m, NEW s
    PROVE  /\ s \in Due(m) <=> /\ s \in Session
                               /\ \/ s \in Addressed(m) /\ Waits(m)
                                  \/ \E w \in Worker : job[w] = m /\ s \in Left(w)
           /\ s \in Due(m)' <=> /\ s \in Session
                                /\ \/ s \in Addressed(m)' /\ Waits(m)'
                                   \/ \E w \in Worker : job'[w] = m /\ s \in Left(w)'
    BY DEF Due, Waits

LEMMA LeftKept ==
    ASSUME NEW w \in Worker, OthersRest(w), log' = log, NEW v \in Worker, v # w
    PROVE  Left(v)' = Left(v) /\ job'[v] = job[v]
<1>1. /\ job'[v] = job[v] /\ stage'[v] = stage[v]
      /\ targets'[v] = targets[v] /\ filtered'[v] = filtered[v]
    BY DEF OthersRest
<1>. QED
    BY <1>1 DEF Left, Addressed, Kind

(* A step of the worker that has m, and what it leaves to be done. *)
LEMMA LeavesRefines ==
    ASSUME TypeOK, PlaceInv, NEW w \in Worker, NEW m \in Offset, job[w] = m, OthersRest(w),
           log' = log, downstreamCh' = downstreamCh, job'[w] \in {0, m},
           NEW S \in SUBSET Session, job'[w] = m => S = Left(w)' \cap Session,
           job'[w] = 0 => S = {}
    PROVE  Abstract!Leaves(m, S) /\ Due(m) = Left(w) \cap Session
<1>1. m # 0 /\ ~Waits(m) /\ \A v \in Worker : job[v] = m => v = w
    BY PlaceTypes, OnePlace
<1>2. \A n : Waits(n)' <=> Waits(n)
    BY DEF Waits
<1>3. \A v \in Worker : v # w => Left(v)' = Left(v) /\ job'[v] = job[v]
    BY LeftKept
<1>4. Due(m) = Left(w) \cap Session
    BY <1>1, DueIs
<1>5. Due(m)' = S
    <2>1. \A t : t \in Due(m)' <=> t \in Session /\ job'[w] = m /\ t \in Left(w)'
        BY <1>1, <1>2, <1>3, DueIs
    <2>. QED
        BY <1>1, <2>1
<1>6. ASSUME NEW n \in Offset, n # m PROVE Due(n)' = Due(n) /\ (n \in Lost' <=> n \in Lost)
    <2>1. n # 0 /\ Addressed(n)' = Addressed(n) /\ job'[w] # n /\ job[w] # n
        BY <1>6, PlaceTypes DEF Addressed
    <2>2. \A t : t \in Due(n)' <=> t \in Due(n)
        BY <1>2, <1>3, <2>1, DueIs
    <2>. QED
        BY <1>2, <1>3, <2>1, <2>2, HeldIs
<1>7. m \in Lost /\ (m \in Lost' <=> job'[w] = m)
    BY <1>1, <1>2, <1>3, HeldIs
<1>8. Lost' = Lost \/ (S = {} /\ Lost' = Lost \ {m})
    <2>1. CASE job'[w] = m
        BY <1>6, <1>7, <2>1, HeldIs
    <2>2. CASE job'[w] = 0
        BY <1>1, <1>6, <1>7, <2>2, HeldIs
    <2>. QED
        BY <2>1, <2>2
<1>9. [n \in Offset |-> Due(n)'] = [[n \in Offset |-> Due(n)] EXCEPT ![m] = S]
    BY <1>5, <1>6
<1>. QED
    BY <1>4, <1>7, <1>8, <1>9 DEF Abstract!Leaves

LEMMA GiveUpRefines ==
    ASSUME TypeOK, PlaceInv, NEW w \in Worker, job[w] \in Offset, OthersRest(w),
           log' = log, job'[w] \in {0, job[w]},
           job'[w] # 0 => Left(w)' \subseteq Left(w),
           stored \subseteq stored', stored' \subseteq stored \cup {job[w]},
           UNCHANGED << downstreamCh, fetchPos, committed, put >>
    PROVE  Abstract!Next
<1>1. PICK m \in Offset : m = job[w]
    OBVIOUS
<1>2. PICK S \in SUBSET Session :
        S = IF job'[w] = 0 THEN {} ELSE Left(w)' \cap Session
    OBVIOUS
<1>3. m # 0
    BY PlaceTypes
<1>4. Abstract!Leaves(m, S) /\ Due(m) = Left(w) \cap Session
    BY <1>1, <1>2, <1>3, LeavesRefines
<1>5. S \subseteq Due(m)
    BY <1>1, <1>2, <1>3, <1>4
<1>6. stored' \in {stored, stored \cup {m}}
    BY <1>1
<1>7. Abstract!GiveUp(m, S)
    BY <1>4, <1>5, <1>6 DEF Abstract!GiveUp, Addressed
<1>. QED
    BY <1>7 DEF Abstract!Next

LEMMA EnqueueRefines ==
    ASSUME TypeOK, WorkInv, PlaceInv, AimInv, [Next]_vars, NEW w \in Worker, Enqueue(w), Puts(w),
           filtered'[w] = filtered[w] \ {dest[w][1]}, stored' = stored
    PROVE  Abstract!Next
<1>1. /\ OthersRest(w) /\ Handled(w) /\ WorkType /\ WorkType' /\ WorkInv' /\ stage[w] = "send"
      /\ stage'[w] \in {"idle", "fanout"}
      /\ UNCHANGED << downstreamCh, fetchPos, committed >>
    BY EnqueueWork DEF Enqueue, TypeOK
<1>2. log' = log
    BY RestStep DEF log
<1>3. PICK m \in Offset : m = job[w]
    BY EnqueueWork
<1>4. PICK r \in Session : r = dest[w][1] /\ r \in filtered[w]
    BY <1>1, DestOK
<1>5. m # 0 /\ targets[w] = {} /\ targets'[w] = {} /\ job'[w] \in {0, m}
    BY <1>1, <1>3, PlaceTypes DEF Handled, WorkInv, WorkerOK
<1>6. Left(w) = filtered[w] /\ filtered[w] \subseteq Session
    BY <1>1, <1>3, <1>5 DEF Left, AimInv, Kind, WorkType
<1>7. PICK S \in SUBSET Session : S = filtered[w] \ {r}
    BY <1>6
<1>8. job'[w] = m => S = Left(w)' \cap Session
    BY <1>1, <1>2, <1>3, <1>4, <1>5, <1>6, <1>7 DEF Left, AimInv, Kind
<1>9. job'[w] = 0 => S = {}
    BY <1>1, <1>4, <1>7 DEF WorkType, WorkInv, WorkerOK
<1>10. Abstract!Leaves(m, S) /\ Due(m) = filtered[w]
    <2>1. Abstract!Leaves(m, S) /\ Due(m) = Left(w) \cap Session
        BY <1>1, <1>2, <1>3, <1>5, <1>8, <1>9, LeavesRefines
    <2>. QED
        BY <1>6, <2>1
<1>11. put' = [put EXCEPT ![m][r] = @ + 1]
    BY <1>3, <1>4 DEF Puts
<1>12. Abstract!Deliver(m, r)
    BY <1>1, <1>2, <1>4, <1>7, <1>10, <1>11 DEF Abstract!Deliver, Addressed
<1>. QED
    BY <1>12, SMTT(30) DEF Abstract!Next

LEMMA TakeRefines ==
    ASSUME TypeOK, WorkInv, PlaceInv, [Next]_vars, NEW w \in Worker, TakeJob(w)
    PROVE  Abstract!Next
<1>1. /\ Takes(w)
      /\ OthersRest(w)
      /\ job'[w] # 0 => stage'[w] = "route"
      /\ UNCHANGED << fetchPos, committed, put, stored >>
    BY TakeWork DEF Takes, TakeJob
<1>2. log' = log
    BY RestStep DEF log
<1>3. /\ downstreamCh \in Seq(Offset) /\ downstreamCh # << >>
      /\ downstreamCh' = Tail(downstreamCh) /\ job[w] = 0
      /\ job'[w] \in {0, Head(downstreamCh)}
    BY <1>1, TakeWork
<1>4. /\ \A i \in DOMAIN downstreamCh' :
           downstreamCh'[i] = downstreamCh[i + 1] /\ i + 1 \in DOMAIN downstreamCh /\ 1 < i + 1
      /\ 1 \in DOMAIN downstreamCh /\ Head(downstreamCh) = downstreamCh[1]
      /\ downstreamCh[1] \in Offset
    BY <1>3, Shortened
<1>5. PICK m \in Offset : m = downstreamCh[1]
    BY <1>4
<1>6. m \in Nat /\ m # 0 /\ Waits(m) /\ \A v \in Worker : job[v] # m
    <2>1. Waits(m)
        BY <1>4, <1>5 DEF Waits
    <2>. QED
        BY <2>1, PlaceTypes, OnePlace
<1>7. ~Waits(m)'
    <2>1. SUFFICES ASSUME NEW i \in DOMAIN downstreamCh', downstreamCh'[i] = m PROVE FALSE
        BY DEF Waits
    <2>2. downstreamCh[1] < downstreamCh[i + 1]
        BY <1>4 DEF PlaceInv, QueueInv
    <2>. QED
        BY <1>4, <1>5, <1>6, <2>1, <2>2
<1>8. \A v \in Worker : v # w => Left(v)' = Left(v) /\ job'[v] = job[v]
    BY <1>1, <1>2, LeftKept
<1>9. job'[w] \in {0, m} /\ (job'[w] = m => Left(w)' = Addressed(m))
    BY <1>1, <1>2, <1>3, <1>4, <1>5, <1>6 DEF Left, Addressed
<1>10. Due(m) = Addressed(m) \cap Session
    BY <1>6, DueIs
<1>11. PICK S \in SUBSET Session : S = IF job'[w] = m THEN Addressed(m) \cap Session ELSE {}
    OBVIOUS
<1>12. Due(m)' = S
    <2>1. \A t : t \in Due(m)' <=> t \in Session /\ job'[w] = m /\ t \in Left(w)'
        BY <1>6, <1>7, <1>8, DueIs
    <2>. QED
        BY <1>9, <1>11, <2>1
<1>13. ASSUME NEW n \in Offset, n # m PROVE Due(n)' = Due(n) /\ (n \in Lost' <=> n \in Lost)
    <2>1. n # 0 /\ Addressed(n)' = Addressed(n) /\ job'[w] # n /\ job[w] # n
        BY <1>2, <1>3, <1>9, <1>13, PlaceTypes DEF Addressed
    <2>2. Waits(n)' <=> Waits(n)
        BY <1>1, <1>4, <1>5, <1>13, WaitsTail DEF Takes
    <2>3. \A t : t \in Due(n)' <=> t \in Due(n)
        BY <1>8, <2>1, <2>2, DueIs
    <2>. QED
        BY <1>8, <2>1, <2>2, <2>3, HeldIs
<1>14. m \in Lost /\ (m \in Lost' <=> job'[w] = m)
    BY <1>6, <1>7, <1>8, HeldIs
<1>15. Lost' = Lost \/ (S = {} /\ Lost' = Lost \ {m})
    <2>1. CASE job'[w] = m
        BY <1>13, <1>14, <2>1, HeldIs
    <2>2. CASE job'[w] # m
        BY <1>11, <1>13, <1>14, <2>2, HeldIs
    <2>. QED
        BY <2>1, <2>2
<1>16. [n \in Offset |-> Due(n)'] = [[n \in Offset |-> Due(n)] EXCEPT ![m] = S]
    BY <1>12, <1>13
<1>17. Abstract!Leaves(m, S)
    BY <1>14, <1>15, <1>16 DEF Abstract!Leaves
<1>18. S \subseteq Due(m)
    BY <1>10, <1>11
<1>19. Abstract!GiveUp(m, S)
    BY <1>1, <1>2, <1>17, <1>18 DEF Abstract!GiveUp, Addressed
<1>. QED
    BY <1>19 DEF Abstract!Next

LEMMA WorkerRefines ==
    ASSUME TypeOK, WorkInv, PlaceInv, AimInv, [Next]_vars, NEW w \in Worker, WorkerStep(w)
    PROVE  Abstract!Next
<1>0. log' = log /\ WorkType
    BY RestStep DEF log, TypeOK
<1>1. CASE TakeJob(w)
    BY <1>1, TakeRefines
<1>2. CASE Route(w)
    <2>1. /\ OthersRest(w) /\ job[w] \in Offset /\ job' = job /\ filtered'[w] = {}
          /\ stage[w] = "route" /\ stage'[w] \in {"offline", "filter"}
          /\ targets'[w] \subseteq Kind(w).to
        BY <1>2, RouteWork
    <2>2. Left(w)' \subseteq Left(w)
        BY <1>0, <2>1 DEF Left, Addressed, Kind
    <2>. QED
        BY <1>0, <1>2, <2>1, <2>2, GiveUpRefines DEF Route
<1>3. CASE Filter(w)
    <2>1. /\ OthersRest(w) /\ job[w] \in Offset /\ job'[w] \in {0, job[w]}
          /\ stage[w] = "filter" /\ stage'[w] # "route"
          /\ targets'[w] \cup filtered'[w] \subseteq targets[w] \cup filtered[w]
        BY <1>3, FilterWork
    <2>2. job'[w] # 0 => Left(w)' \subseteq Left(w)
        BY <1>0, <2>1 DEF Left, Kind
    <2>. QED
        BY <1>0, <1>3, <2>1, <2>2, GiveUpRefines DEF Filter
<1>4. CASE StoreOffline(w)
    BY <1>0, <1>4, StoreWork, GiveUpRefines DEF StoreOffline
<1>5. ASSUME OthersRest(w), Handled(w), job[w] \in Offset, put' = put,
             stage[w] \in {"fanout", "draw", "send"},
             UNCHANGED << downstreamCh, fetchPos, committed >>
      PROVE  Abstract!Next
    <2>1. job'[w] # 0 => Left(w)' \subseteq Left(w)
        BY <1>0, <1>5 DEF Handled, Left, Kind
    <2>. QED
        BY <1>0, <1>5, <2>1, GiveUpRefines DEF Handled
<1>6. CASE SubmitReadConn(w) \/ DrawSeq(w)
    BY <1>5, <1>6, ReadConnWork, DrawWork DEF SubmitReadConn, DrawSeq
<1>7. CASE Enqueue(w)
    <2>1. CASE UNCHANGED sendVars
        BY <1>5, <1>7, <2>1, EnqueueWork DEF Enqueue
    <2>2. CASE Puts(w) /\ filtered'[w] = filtered[w] \ {dest[w][1]} /\ stored' = stored
        BY <1>7, <2>2, EnqueueRefines
    <2>. QED
        BY <1>7, <2>1, <2>2, EnqueueWork DEF Puts
<1>. QED
    BY <1>1, <1>2, <1>3, <1>4, <1>6, <1>7 DEF WorkerStep

LEMMA ConsumeRefines ==
    ASSUME TypeOK, WorkInv, PlaceInv, [Next]_vars, Consume
    PROVE  Abstract!Next
<1>1. /\ fetchPos < MaxOffset /\ fetchPos' = fetchPos + 1
      /\ UNCHANGED << committed, workVars, put, stored >> /\ log' = log
    BY DEF Consume, log
<1>2. PICK m \in Offset : m = fetchPos + 1
    BY <1>1, PlaceTypes
<1>3. \A w \in Worker : Left(w)' = Left(w)
    BY <1>1 DEF Left, Addressed, Kind
<1>4. CASE downstreamCh' = downstreamCh
    <2>1. \A n \in Offset : Due(n)' = Due(n)
        BY <1>1, <1>3, <1>4 DEF Due, Addressed
    <2>2. Lost' = Lost
        BY <1>1, <1>4 DEF Lost
    <2>3. Abstract!PassOver
        BY <1>1, <1>2, <2>1, <2>2 DEF Abstract!PassOver, Addressed
    <2>. QED
        BY <2>3 DEF Abstract!Next
<1>5. CASE downstreamCh' = Append(downstreamCh, m)
    <2>1. /\ Len(downstreamCh) \in Nat /\ DOMAIN downstreamCh = 1 .. Len(downstreamCh)
          /\ DOMAIN downstreamCh' = 1 .. (Len(downstreamCh) + 1)
          /\ \A i \in DOMAIN downstreamCh : downstreamCh'[i] = downstreamCh[i]
          /\ downstreamCh'[Len(downstreamCh) + 1] = m
        BY <1>5, PlaceTypes, Appended
    <2>2. Waits(m)' /\ \A n \in Offset : n # m => (Waits(n)' <=> Waits(n))
        BY <2>1 DEF Waits
    <2>3. ~Waits(m) /\ \A w \in Worker : job[w] # m
        BY <1>2, PlaceTypes DEF Waits, PlaceInv, QueueInv, JobInv
    <2>4. Due(m)' = Addressed(m) \cap Session
        <3>1. \A t : t \in Due(m)' <=> t \in Session /\ t \in Addressed(m)
            BY <1>1, <2>2, <2>3, DueIs DEF Addressed
        <3>. QED
            BY <3>1
    <2>5. Addressed(m) \subseteq Session
        BY <1>2, KindOK, SceneOK DEF TypeOK, Addressed, log
    <2>6. ASSUME NEW n \in Offset, n # m PROVE Due(n)' = Due(n) /\ (n \in Lost' <=> n \in Lost)
        <3>1. \A t : t \in Due(n)' <=> t \in Due(n)
            BY <1>1, <1>3, <2>2, <2>6, DueIs DEF Addressed
        <3>. QED
            BY <1>1, <2>2, <2>6, <3>1, HeldIs
    <2>7. m \notin Lost /\ Lost' = Lost \cup {m}
        BY <2>2, <2>3, <2>6, HeldIs
    <2>8. [n \in Offset |-> Due(n)'] = [[n \in Offset |-> Due(n)] EXCEPT ![m] = Addressed(m)]
        BY <2>4, <2>5, <2>6
    <2>9. Abstract!TakeOn(m)
        BY <1>1, <1>2, <2>7, <2>8 DEF Abstract!TakeOn, Addressed
    <2>. QED
        BY <2>9 DEF Abstract!Next
<1>. QED
    BY <1>2, <1>4, <1>5 DEF Consume

LEMMA FanoutStep ==
    ASSUME TypeOK, WorkInv, PlaceInv, AimInv, [Next]_vars
    PROVE  [Abstract!Next]_(Abstract!vars)
<1>0. log' = log
    BY RestStep DEF log
<1>1. CASE CommitMessages
    <2>1. \A n \in Offset : Due(n)' = Due(n)
        BY <1>0, <1>1 DEF CommitMessages, Due, Addressed, Left, Kind
    <2>2. Lost' = Lost
        BY <1>1 DEF CommitMessages, Lost
    <2>3. CASE committed' = fetchPos
        <3>1. Abstract!Commit
            BY <1>0, <1>1, <2>1, <2>2, <2>3 DEF CommitMessages, Abstract!Commit, Addressed
        <3>. QED
            BY <3>1 DEF Abstract!Next
    <2>4. CASE committed' = committed
        BY <1>0, <1>1, <2>1, <2>2, <2>4 DEF CommitMessages, Abstract!vars, Addressed
    <2>. QED
        BY <1>1, <2>3, <2>4 DEF CommitMessages
<1>2. CASE Crash
    <2>1. DOMAIN downstreamCh' = {} /\ \A w \in Worker : job'[w] = 0
        BY <1>2, Emptied DEF Crash
    <2>2. \A n \in Offset : n # 0
        BY PlaceTypes
    <2>3. \A n \in Offset : Due(n)' = {}
        BY <2>1, <2>2 DEF Due
    <2>4. Lost' = {}
        BY <2>1, <2>2 DEF Lost
    <2>5. Abstract!Crash
        BY <1>0, <1>2, <2>3, <2>4 DEF Crash, Abstract!Crash, Addressed
    <2>. QED
        BY <2>5 DEF Abstract!Next
<1>3. CASE UNCHANGED << fetchPos, committed, downstreamCh, workVars, put, stored >>
    <2>1. \A n \in Offset : Due(n)' = Due(n)
        BY <1>0, <1>3 DEF Due, Addressed, Left, Kind
    <2>2. Lost' = Lost
        BY <1>3 DEF Lost
    <2>. QED
        BY <1>0, <1>3, <2>1, <2>2 DEF Abstract!vars, Addressed
<1>. QED
    BY <1>1, <1>2, <1>3, WorkerRefines, ConsumeRefines DEF Next, ConsumerStep, Attach,
       Register, Write, LoseConn, vars

(* The consumer, the channel and any number of workers implement Fanout: a
   message is in the channel or with one worker, so that it is taken on once
   until a crash, and each session leaves the worker's lists with its copy, so
   that it gets no second one, whatever becomes of its connections. *)
THEOREM FanoutRefinement == Spec => FansOutOnce
<1>. DEFINE I == TypeOK /\ WorkInv /\ PlaceInv /\ AimInv
<1>1. ASSUME Init PROVE I /\ Abstract!Init
    <2>1. job = [w \in Worker |-> 0] /\ DOMAIN downstreamCh = {}
        BY <1>1, Emptied DEF Init
    <2>2. \A m \in Offset : m # 0
        BY BoundsOK DEF Offset
    <2>3. AimInv
        BY <2>1 DEF AimInv
    <2>4. \A m \in Offset : Due(m) = {}
        BY <2>1, <2>2 DEF Due
    <2>5. Lost = {}
        BY <2>1, <2>2 DEF Lost
    <2>6. \A m \in Offset : Addressed(m) \subseteq Session
        BY <1>1, KindOK, SceneOK DEF Init, Addressed, log
    <2>7. Abstract!Init
        BY <1>1, <2>4, <2>5, <2>6 DEF Init, Abstract!Init
    <2>. QED
        BY <1>1, <2>3, <2>7, TypeInit, PlaceInit
<1>2. ASSUME I, [Next]_vars PROVE I' /\ [Abstract!Next]_(Abstract!vars)
    BY <1>2, TypeStep, PlaceStep, AimStep, FanoutStep
<1>. HIDE DEF I
<1>. QED
    BY <1>1, <1>2, PTL DEF Spec, FansOutOnce, Abstract!Spec
=============================================================================
