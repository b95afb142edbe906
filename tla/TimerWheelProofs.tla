-------------------------- MODULE TimerWheelProofs ---------------------------
(***************************************************************************)
(* Proofs about the timer wheel, for any number of keys, callers, tasks    *)
(* and instants: type correctness, the agreement of map and heap, that a   *)
(* cancelled task never runs, that no wake-up is lost, and that the wheel  *)
(* implements module Timer.                                                *)
(***************************************************************************)
EXTENDS TimerWheel, SequenceTheorems, TLAPS

\* What every action but Schedule leaves alone, and what Schedule does to the
\* allocated tasks: one more, the others unchanged.
LEMMA ScheduleAppends ==
    ASSUME TypeOK,
           NEW g \in Goroutine, NEW k \in Key, NEW d \in Time,
           Schedule(g, k, d)
    PROVE  /\ task' \in Seq([key : Key, due : Time])
           /\ Len(task) \in Nat
           /\ Len(task') = Len(task) + 1
           /\ \A i \in 1 .. Len(task) : task'[i] = task[i]
           /\ task'[Len(task) + 1] = [key |-> k, due |-> d]
<1>1. task' = Append(task, [key |-> k, due |-> d])
    BY DEF Schedule
<1>2. task \in Seq([key : Key, due : Time])
    BY DEF TypeOK
<1>3. [key |-> k, due |-> d] \in [key : Key, due : Time]
    OBVIOUS
<1>. QED
    BY <1>1, <1>2, <1>3

\* An allocated task has a key of the shard and a due time.
LEMMA TaskFields ==
    ASSUME TypeOK, NEW i \in 1 .. Len(task)
    PROVE  task[i].key \in Key /\ task[i].due \in Time
<1>1. task \in Seq([key : Key, due : Time])
    BY DEF TypeOK
<1>2. task[i] \in [key : Key, due : Time]
    BY <1>1, ElementOfSeq
<1>. QED
    BY <1>2

\* The sweep removes cancelled items only.
LEMMA SweepsAreDead ==
    ASSUME NEW L, NEW S \in Sweeps(L)
    PROVE  S \subseteq queue \cap cancelled
BY DEF Sweeps

LEMMA TypeStep ==
    TypeOK /\ [Next]_vars => TypeOK'
<1>. SUFFICES ASSUME TypeOK, [Next]_vars
             PROVE  TypeOK'
    OBVIOUS
<1>. USE TimerAssumption
<1>1. ASSUME NEW g \in Goroutine, NEW k \in Key, NEW d \in Time, Schedule(g, k, d)
      PROVE  TypeOK'
    <2>1. /\ task' \in Seq([key : Key, due : Time])
          /\ Len(task) \in Nat
          /\ Len(task') = Len(task) + 1
        BY <1>1, ScheduleAppends
    <2>2. 1 .. Len(task) \subseteq 1 .. Len(task')
        BY <2>1
    <2>3. Len(task) + 1 \in 1 .. Len(task')
        BY <2>1
    <2>4. Len(task') <= MaxTask
        BY <1>1, <2>1 DEF Schedule
    <2>5. cancelled' \subseteq 1 .. Len(task')
        BY <1>1, <2>2 DEF TypeOK, Schedule, Replaced
    <2>6. tasks' \in [Key -> (1 .. Len(task')) \cup {NoTask}]
        BY <1>1, <2>2, <2>3 DEF TypeOK, Schedule
    <2>. QED
        BY <1>1, <2>1, <2>2, <2>3, <2>4, <2>5, <2>6 DEF TypeOK, Schedule, Replaced, runVars
<1>2. ASSUME NEW g \in Goroutine, NEW k \in Key, Cancel(g, k)
      PROVE  TypeOK'
    BY <1>2 DEF TypeOK, Cancel, runVars
<1>3. ASSUME NEW g \in Goroutine, Signal(g)
      PROVE  TypeOK'
    BY <1>3 DEF TypeOK, Signal, runVars, queueVars
<1>4. CASE Start
    BY <1>4 DEF TypeOK, Start, queueVars, PC
<1>5. CASE Stop
    BY <1>5 DEF TypeOK, Stop, runVars, queueVars
<1>6. CASE NextTask
    <2>1. queue' \subseteq queue
        BY <1>6 DEF NextTask
    <2>2. next' \in (1 .. Len(task)) \cup {NoTask} /\ pc' \in PC
        BY <1>6 DEF NextTask, Heads, TypeOK, PC
    <2>. QED
        BY <1>6, <2>1, <2>2 DEF TypeOK, NextTask
<1>7. CASE Wake
    BY <1>7 DEF TypeOK, Wake, queueVars, PC
<1>8. CASE TimerC
    BY <1>8 DEF TypeOK, TimerC, queueVars, PC
<1>9. CASE Done
    BY <1>9 DEF TypeOK, Done, queueVars, PC
<1>10. CASE PopDue
    <2>1. queue' \subseteq queue /\ ready' \subseteq queue
        BY <1>10 DEF PopDue, DueItems, Unindex
    <2>2. tasks' \in [Key -> (1 .. Len(task)) \cup {NoTask}]
        BY <1>10 DEF PopDue, DueItems, Unindex, TypeOK
    <2>. QED
        BY <1>10, <2>1, <2>2 DEF TypeOK, PopDue, DueItems, Unindex, PC
<1>11. ASSUME NEW i \in ready, Exec(i)
       PROVE  TypeOK'
    <2>1. fired' \subseteq fired \cup {i} /\ ready' \subseteq ready
        BY <1>11 DEF Exec
    <2>2. pc' \in PC
        BY <1>11 DEF Exec, TypeOK, PC
    <2>3. /\ UNCHANGED << task, cancelled, tasks, queue, wakeCh, now >>
          /\ UNCHANGED << signalling, next, stopped >>
        BY <1>11 DEF Exec, queueVars
    <2>. QED
        BY <2>1, <2>2, <2>3 DEF TypeOK
<1>12. CASE HandlerReturns
    BY <1>12 DEF TypeOK, HandlerReturns, queueVars, PC
<1>13. CASE LoopEnd
    BY <1>13 DEF TypeOK, LoopEnd, queueVars, PC
<1>14. CASE Tick
    BY <1>14 DEF TypeOK, Tick, runVars, queueVars, Time
<1>15. CASE UNCHANGED vars
    BY <1>15 DEF TypeOK, vars
<1>. QED
    BY <1>1, <1>2, <1>3, <1>4, <1>5, <1>6, <1>7, <1>8, <1>9, <1>10, <1>11,
       <1>12, <1>13, <1>14, <1>15 DEF Next, Run

LEMMA TypeInit ==
    Init => TypeOK
<1>. SUFFICES ASSUME Init PROVE TypeOK
    OBVIOUS
<1>1. task \in Seq([key : Key, due : Time]) /\ Len(task) = 0
    BY DEF Init
<1>2. now \in Time /\ Len(task) <= MaxTask
    BY <1>1, TimerAssumption DEF Init, Time
<1>3. tasks \in [Key -> (1 .. Len(task)) \cup {NoTask}]
    BY DEF Init
<1>4. wakeCh \in BOOLEAN /\ stopped \in BOOLEAN /\ pc \in PC
    BY DEF Init, PC
<1>. QED
    BY <1>1, <1>2, <1>3, <1>4 DEF Init, TypeOK

\* Type correctness of the wheel (timer/wheel.go).
THEOREM TypeCorrect ==
    Spec => []TypeOK
BY TypeInit, TypeStep, PTL DEF Spec

------------------------------------------------------------------------------
\* What `run` holds in its local variables, by its position in the loop.
RunControl ==
    /\ pc \notin {"exec", "handler"} => ready = {}
    /\ pc = "timer" => next # NoTask

\* The heap part of the inductive invariant.  Neither conjunct is inductive
\* alone: that Schedule and Cancel flag no item that run has taken needs the
\* agreement of map and heap and the disjointness of heap and ready.
HeapInv ==
    /\ TypeOK
    /\ IndexAgreesWithHeap
    /\ CancelledNeverRuns
    /\ RunsAtMostOnce
    /\ RunControl

LEMMA HeapInit ==
    Init => HeapInv
<1>. SUFFICES ASSUME Init PROVE HeapInv
    OBVIOUS
<1>1. TypeOK
    BY TypeInit
<1>2. IndexAgreesWithHeap
    BY DEF Init, IndexAgreesWithHeap
<1>3. CancelledNeverRuns /\ RunsAtMostOnce /\ RunControl
    BY DEF Init, CancelledNeverRuns, RunsAtMostOnce, RunControl
<1>. QED
    BY <1>1, <1>2, <1>3 DEF HeapInv

\* Steps that touch neither the heap nor what run has taken keep HeapInv.
LEMMA HeapFrame ==
    ASSUME HeapInv, TypeOK', RunControl',
           UNCHANGED << task, cancelled, tasks, queue, ready, fired >>
    PROVE  HeapInv'
<1>1. IndexAgreesWithHeap'
    BY DEF HeapInv, IndexAgreesWithHeap, Key_
<1>2. CancelledNeverRuns' /\ RunsAtMostOnce'
    BY DEF HeapInv, CancelledNeverRuns, RunsAtMostOnce
<1>. QED
    BY <1>1, <1>2 DEF HeapInv

LEMMA ScheduleHeap ==
    ASSUME HeapInv, TypeOK',
           NEW g \in Goroutine, NEW k \in Key, NEW d \in Time, Schedule(g, k, d)
    PROVE  HeapInv'
<1>. USE TimerAssumption
<1>0. TypeOK
    BY DEF HeapInv
<1>. DEFINE new == Len(task) + 1
<1>1. /\ Len(task) \in Nat
      /\ \A i \in 1 .. Len(task) : task'[i] = task[i]
      /\ task'[new] = [key |-> k, due |-> d]
    BY <1>0, ScheduleAppends
<1>2. /\ queue \subseteq 1 .. Len(task)
      /\ cancelled \subseteq 1 .. Len(task)
      /\ ready \subseteq 1 .. Len(task)
      /\ fired \subseteq 1 .. Len(task)
      /\ new \notin 1 .. Len(task)
      /\ new # NoTask
    BY <1>0, <1>1 DEF TypeOK
<1>3. /\ cancelled' = cancelled \cup ({tasks[k]} \ {NoTask})
      /\ tasks' = [tasks EXCEPT ![k] = new]
      /\ queue' = queue \cup {new}
      /\ ready' = ready /\ fired' = fired /\ pc' = pc /\ next' = next
    BY DEF Schedule, Replaced, runVars
<1>4. tasks[k] # NoTask => tasks[k] \in queue \ cancelled
    BY DEF HeapInv, IndexAgreesWithHeap
<1>5. CancelledNeverRuns' /\ RunsAtMostOnce' /\ RunControl'
    BY <1>2, <1>3, <1>4 DEF HeapInv, CancelledNeverRuns, RunsAtMostOnce, RunControl
<1>6. new \in queue' \ cancelled'
    BY <1>2, <1>3, <1>4
<1>7. ASSUME NEW j \in Key, tasks'[j] # NoTask
      PROVE  tasks'[j] \in queue' \ cancelled' /\ task'[tasks'[j]].key = j
    <2>1. CASE j = k
        BY <1>1, <1>3, <1>6, <2>1, <1>0 DEF TypeOK
    <2>2. CASE j # k
        <3>1. tasks'[j] = tasks[j]
            BY <1>3, <2>2, <1>0 DEF TypeOK
        <3>2. tasks[j] \in queue \ cancelled /\ task[tasks[j]].key = j
            BY <1>7, <3>1 DEF HeapInv, IndexAgreesWithHeap, Key_
        <3>3. tasks[j] # tasks[k]
            <4>1. CASE tasks[k] = NoTask
                BY <1>7, <3>1, <4>1
            <4>2. CASE tasks[k] # NoTask
                <5>1. task[tasks[k]].key = k
                    BY <4>2 DEF HeapInv, IndexAgreesWithHeap, Key_
                <5>. QED
                    BY <2>2, <3>2, <5>1
            <4>. QED
                BY <4>1, <4>2
        <3>4. tasks[j] \in queue' \ cancelled'
            BY <3>2, <3>3, <1>3
        <3>5. task'[tasks[j]] = task[tasks[j]]
            BY <3>2, <1>1, <1>2
        <3>. QED
            BY <3>1, <3>2, <3>4, <3>5
    <2>. QED
        BY <2>1, <2>2
<1>8. ASSUME NEW i \in queue' \ cancelled'
      PROVE  tasks'[task'[i].key] = i
    <2>1. CASE i = new
        BY <1>1, <1>3, <2>1, <1>0 DEF TypeOK
    <2>2. CASE i # new
        <3>1. i \in queue \ cancelled /\ i # tasks[k]
            BY <1>3, <1>8, <1>2, <2>2
        <3>2. tasks[task[i].key] = i /\ task'[i] = task[i]
            BY <3>1, <1>1, <1>2 DEF HeapInv, IndexAgreesWithHeap, Key_
        <3>3. task[i].key # k
            BY <3>1, <3>2
        <3>4. task[i].key \in Key
            BY <3>1, <1>2, <1>0, TaskFields
        <3>. QED
            BY <3>2, <3>3, <3>4, <1>3, <1>0 DEF TypeOK
    <2>. QED
        BY <2>1, <2>2
<1>9. IndexAgreesWithHeap'
    BY <1>7, <1>8 DEF IndexAgreesWithHeap, Key_
<1>. QED
    BY <1>5, <1>9 DEF HeapInv

LEMMA CancelHeap ==
    ASSUME HeapInv, TypeOK', NEW g \in Goroutine, NEW k \in Key, Cancel(g, k)
    PROVE  HeapInv'
<1>0. TypeOK
    BY DEF HeapInv
<1>1. /\ tasks[k] # NoTask
      /\ cancelled' = cancelled \cup {tasks[k]}
      /\ tasks' = [tasks EXCEPT ![k] = NoTask]
      /\ UNCHANGED << task, queue, ready, fired, pc, next >>
    BY DEF Cancel, runVars
<1>2. tasks[k] \in queue \ cancelled /\ task[tasks[k]].key = k
    BY <1>1 DEF HeapInv, IndexAgreesWithHeap, Key_
<1>3. CancelledNeverRuns' /\ RunsAtMostOnce' /\ RunControl'
    BY <1>1, <1>2 DEF HeapInv, CancelledNeverRuns, RunsAtMostOnce, RunControl
<1>4. ASSUME NEW j \in Key, tasks'[j] # NoTask
      PROVE  tasks'[j] \in queue' \ cancelled' /\ task'[tasks'[j]].key = j
    <2>1. j # k /\ tasks'[j] = tasks[j]
        BY <1>1, <1>4, <1>0 DEF TypeOK
    <2>2. tasks[j] \in queue \ cancelled /\ task[tasks[j]].key = j
        BY <2>1, <1>4 DEF HeapInv, IndexAgreesWithHeap, Key_
    <2>. QED
        BY <1>1, <1>2, <2>1, <2>2
<1>5. ASSUME NEW i \in queue' \ cancelled'
      PROVE  tasks'[task'[i].key] = i
    <2>1. i \in queue \ cancelled /\ i # tasks[k]
        BY <1>1, <1>5
    <2>2. tasks[task[i].key] = i
        BY <2>1 DEF HeapInv, IndexAgreesWithHeap, Key_
    <2>3. task[i].key \in Key
        <3>1. i \in 1 .. Len(task)
            BY <2>1, <1>0 DEF TypeOK
        <3>. QED
            BY <3>1, <1>0, TaskFields
    <2>. QED
        BY <1>1, <2>1, <2>2, <2>3, <1>0 DEF TypeOK
<1>6. IndexAgreesWithHeap'
    BY <1>4, <1>5 DEF IndexAgreesWithHeap, Key_
<1>. QED
    BY <1>3, <1>6 DEF HeapInv

LEMMA NextTaskHeap ==
    ASSUME HeapInv, TypeOK', NextTask
    PROVE  HeapInv'
<1>1. PICK S \in Sweeps(queue \ cancelled) : queue' = queue \ S
    BY DEF NextTask
<1>2. queue' \ cancelled = queue \ cancelled /\ queue' \subseteq queue
    BY <1>1, SweepsAreDead
<1>3. UNCHANGED << task, cancelled, tasks, ready, fired >>
    BY DEF NextTask
<1>4. IndexAgreesWithHeap'
    BY <1>2, <1>3 DEF HeapInv, IndexAgreesWithHeap, Key_
<1>5. CancelledNeverRuns' /\ RunsAtMostOnce'
    BY <1>2, <1>3 DEF HeapInv, CancelledNeverRuns, RunsAtMostOnce
<1>6. RunControl'
    <2>1. ready = {}
        BY DEF NextTask, HeapInv, RunControl
    <2>2. CASE queue \ cancelled = {}
        BY <1>3, <2>1, <2>2 DEF NextTask, RunControl
    <2>3. CASE queue \ cancelled # {}
        <3>1. next' \in queue
            BY <2>3 DEF NextTask, Heads
        <3>2. next' # NoTask
            BY <3>1, TimerAssumption DEF HeapInv, TypeOK
        <3>. QED
            BY <1>3, <2>1, <3>2 DEF RunControl
    <2>. QED
        BY <2>2, <2>3
<1>. QED
    BY <1>4, <1>5, <1>6 DEF HeapInv

LEMMA PopDueHeap ==
    ASSUME HeapInv, TypeOK', PopDue
    PROVE  HeapInv'
<1>0. TypeOK
    BY DEF HeapInv
<1>. DEFINE Live == queue \ cancelled
            DueNow == {i \in Live : Due(i) <= now}
<1>1. PICK S \in Sweeps(Live \ DueNow) : queue' = queue \ (S \cup DueNow)
    BY DEF PopDue, DueItems, Unindex
<1>2. queue' \ cancelled = Live \ DueNow /\ queue' \subseteq queue \ DueNow
    BY <1>1, SweepsAreDead
<1>3. /\ UNCHANGED << task, cancelled, fired >>
      /\ ready' = DueNow
      /\ pc' = "exec"
      /\ tasks' = [k \in Key |-> IF tasks[k] \in DueNow THEN NoTask ELSE tasks[k]]
    BY DEF PopDue, DueItems, Unindex
<1>. HIDE DEF DueNow
<1>4. DueNow \subseteq Live
    BY DEF DueNow
<1>5. CancelledNeverRuns' /\ RunsAtMostOnce'
    BY <1>2, <1>3, <1>4 DEF HeapInv, CancelledNeverRuns, RunsAtMostOnce
<1>6. ASSUME NEW j \in Key, tasks'[j] # NoTask
      PROVE  tasks'[j] \in queue' \ cancelled' /\ task'[tasks'[j]].key = j
    <2>1. tasks'[j] = tasks[j] /\ tasks[j] \notin DueNow
        BY <1>3, <1>6
    <2>2. tasks[j] \in Live /\ task[tasks[j]].key = j
        BY <2>1, <1>6 DEF HeapInv, IndexAgreesWithHeap, Key_
    <2>. QED
        BY <1>2, <1>3, <2>1, <2>2
<1>7. ASSUME NEW i \in queue' \ cancelled'
      PROVE  tasks'[task'[i].key] = i
    <2>1. i \in Live \ DueNow
        BY <1>2, <1>3, <1>7
    <2>2. tasks[task[i].key] = i
        BY <2>1 DEF HeapInv, IndexAgreesWithHeap, Key_
    <2>3. task[i].key \in Key
        <3>1. i \in 1 .. Len(task)
            BY <2>1, <1>0 DEF TypeOK
        <3>. QED
            BY <3>1, <1>0, TaskFields
    <2>. QED
        BY <1>3, <2>1, <2>2, <2>3
<1>8. IndexAgreesWithHeap'
    BY <1>6, <1>7 DEF IndexAgreesWithHeap, Key_
<1>9. RunControl'
    BY <1>3 DEF RunControl
<1>. QED
    BY <1>5, <1>8, <1>9 DEF HeapInv

LEMMA ExecHeap ==
    ASSUME HeapInv, TypeOK', NEW i \in ready, Exec(i)
    PROVE  HeapInv'
<1>1. /\ ready' = ready \ {i}
      /\ fired' \subseteq fired \cup {i}
      /\ UNCHANGED << task, cancelled, tasks, queue >>
      /\ pc' \in {"exec", "handler"}
    BY DEF Exec, queueVars
<1>2. IndexAgreesWithHeap'
    BY <1>1 DEF HeapInv, IndexAgreesWithHeap, Key_
<1>3. CancelledNeverRuns' /\ RunsAtMostOnce'
    BY <1>1 DEF HeapInv, CancelledNeverRuns, RunsAtMostOnce
<1>4. RunControl'
    BY <1>1 DEF RunControl
<1>. QED
    BY <1>2, <1>3, <1>4 DEF HeapInv

LEMMA HeapStep ==
    HeapInv /\ [Next]_vars => HeapInv'
<1>. SUFFICES ASSUME HeapInv, [Next]_vars
             PROVE  HeapInv'
    OBVIOUS
<1>0. TypeOK'
    BY TypeStep DEF HeapInv
<1>1. ASSUME NEW g \in Goroutine, NEW k \in Key, NEW d \in Time, Schedule(g, k, d)
      PROVE  HeapInv'
    BY <1>0, <1>1, ScheduleHeap
<1>2. ASSUME NEW g \in Goroutine, NEW k \in Key, Cancel(g, k)
      PROVE  HeapInv'
    BY <1>0, <1>2, CancelHeap
<1>3. ASSUME NEW g \in Goroutine, Signal(g)
      PROVE  HeapInv'
    <2>1. RunControl'
        BY <1>3 DEF HeapInv, RunControl, Signal, runVars
    <2>. QED
        BY <1>0, <1>3, <2>1, HeapFrame DEF Signal, queueVars, runVars
<1>4. CASE NextTask
    BY <1>0, <1>4, NextTaskHeap
<1>5. CASE PopDue
    BY <1>0, <1>5, PopDueHeap
<1>6. ASSUME NEW i \in ready, Exec(i)
      PROVE  HeapInv'
    BY <1>0, <1>6, ExecHeap
<1>7. CASE Start \/ Wake \/ TimerC \/ Done
    <2>1. RunControl'
        BY <1>7 DEF HeapInv, RunControl, Start, Wake, TimerC, Done
    <2>. QED
        BY <1>0, <1>7, <2>1, HeapFrame DEF Start, Wake, TimerC, Done, queueVars
<1>8. CASE HandlerReturns \/ LoopEnd
    <2>1. RunControl'
        BY <1>8 DEF HeapInv, RunControl, HandlerReturns, LoopEnd
    <2>. QED
        BY <1>0, <1>8, <2>1, HeapFrame DEF HandlerReturns, LoopEnd, queueVars
<1>9. CASE Stop \/ Tick \/ UNCHANGED vars
    <2>1. RunControl'
        BY <1>9 DEF HeapInv, RunControl, Stop, Tick, runVars, vars
    <2>. QED
        BY <1>0, <1>9, <2>1, HeapFrame DEF Stop, Tick, queueVars, runVars, vars
<1>. QED
    BY <1>1, <1>2, <1>3, <1>4, <1>5, <1>6, <1>7, <1>8, <1>9 DEF Next, Run

LEMMA HeapInvariant ==
    Spec => []HeapInv
BY HeapInit, HeapStep, PTL DEF Spec

\* The map of keys and the heap always agree on the live tasks, for any
\* interleaving of schedule, cancel and popDue.
THEOREM IndexCorrect ==
    Spec => []IndexAgreesWithHeap
<1>1. HeapInv => IndexAgreesWithHeap
    BY DEF HeapInv
<1>. QED
    BY <1>1, HeapInvariant, PTL

\* No handler runs for a cancelled or replaced task, and the unlocked read of
\* item.cancelled in run is never concurrent with a write.
THEOREM CancelCorrect ==
    Spec => []CancelledNeverRuns
<1>1. HeapInv => CancelledNeverRuns
    BY DEF HeapInv
<1>. QED
    BY <1>1, HeapInvariant, PTL

\* No handler is called twice for one task.
THEOREM AtMostOnceCorrect ==
    Spec => []RunsAtMostOnce
<1>1. HeapInv => RunsAtMostOnce
    BY DEF HeapInv
<1>. QED
    BY <1>1, HeapInvariant, PTL

------------------------------------------------------------------------------
\* Steps of Schedule keep the due times of the tasks that exist.
LEMMA DueStable ==
    ASSUME TypeOK, [Next]_vars, NEW i \in 1 .. Len(task)
    PROVE  Due(i)' = Due(i)
<1>1. ASSUME NEW g \in Goroutine, NEW k \in Key, NEW d \in Time, Schedule(g, k, d)
      PROVE  task'[i] = task[i]
    BY <1>1, ScheduleAppends
<1>2. CASE task' = task
    BY <1>2 DEF Due
<1>3. task' = task \/ \E g \in Goroutine, k \in Key, d \in Time : Schedule(g, k, d)
    BY DEF Next, Run, Cancel, Signal, Start, Stop, NextTask, Wake, TimerC, Done,
           PopDue, Exec, HandlerReturns, LoopEnd, Tick, queueVars, vars
<1>. QED
    BY <1>1, <1>2, <1>3 DEF Due

LEMMA NeverEarlyStep ==
    TypeOK /\ NeverEarly /\ [Next]_vars => NeverEarly'
<1>. SUFFICES ASSUME TypeOK, NeverEarly, [Next]_vars,
                    NEW i \in (ready \cup fired)'
             PROVE  Due(i)' <= now'
    BY DEF NeverEarly
<1>1. now \in Int /\ now' \in Int /\ now <= now'
    <2>1. now \in 0 .. MaxTime
        BY DEF TypeOK, Time
    <2>2. now' = now \/ now' = now + 1
        BY DEF Next, Run, Schedule, Cancel, Signal, Start, Stop, NextTask, Wake, TimerC,
               Done, PopDue, Exec, HandlerReturns, LoopEnd, Tick, vars
    <2>. QED
        BY <2>1, <2>2
<1>2. CASE i \in ready \cup fired
    <2>1. i \in 1 .. Len(task) /\ Due(i) <= now
        BY <1>2 DEF TypeOK, NeverEarly
    <2>2. Due(i) \in Int
        BY <2>1, TaskFields DEF Due, Time
    <2>. QED
        BY <1>1, <2>1, <2>2, DueStable
<1>3. CASE i \notin ready \cup fired
    <2>1. PopDue
        BY <1>3 DEF Next, Run, Schedule, Cancel, Signal, Start, Stop, NextTask, Wake, TimerC,
               Done, Exec, HandlerReturns, LoopEnd, Tick, runVars, vars
    <2>2. i \in queue /\ Due(i) <= now /\ task' = task /\ now' = now
        BY <1>3, <2>1 DEF PopDue, DueItems, Unindex
    <2>. QED
        BY <2>2 DEF Due
<1>. QED
    BY <1>2, <1>3

\* A handler never runs before its task is due.
THEOREM NeverEarlyCorrect ==
    Spec => []NeverEarly
<1>1. Init => NeverEarly
    BY DEF Init, NeverEarly
<1>. QED
    BY <1>1, NeverEarlyStep, TypeCorrect, PTL DEF Spec

------------------------------------------------------------------------------
\* While run is not waiting in a select, NoLostWakeup asks for nothing; while
\* it is, a step that adds a live item leaves a signal behind.
LEMMA WakeupStep ==
    HeapInv /\ HeapInv' /\ NoLostWakeup /\ [Next]_vars => NoLostWakeup'
<1>. SUFFICES ASSUME HeapInv, HeapInv', NoLostWakeup, [Next]_vars,
                    NEW i \in (queue \ cancelled)',
                    (pc = "sleep" \/ (pc = "timer" /\ Due(i) < Due(next)))'
             PROVE  (wakeCh \/ signalling # {})'
    BY DEF NoLostWakeup
<1>0. TypeOK
    BY DEF HeapInv
<1>1. ASSUME NEW g \in Goroutine,
             (\E k \in Key, d \in Time : Schedule(g, k, d)) \/ (\E k \in Key : Cancel(g, k))
      PROVE  (signalling # {})'
    BY <1>1 DEF Schedule, Cancel
<1>2. ASSUME NEW g \in Goroutine, Signal(g)
      PROVE  wakeCh'
    BY <1>2 DEF Signal
<1>3. CASE NextTask
    <2>. DEFINE Live == queue \ cancelled
    <2>1. i \in Live /\ Live # {}
        BY <1>3 DEF NextTask
    <2>2. pc' = "timer" /\ next' \in Heads(Live) /\ task' = task
        BY <1>3, <2>1 DEF NextTask
    <2>3. task[next'].due <= task[i].due
        BY <2>1, <2>2 DEF Heads, Due
    <2>4. i \in 1 .. Len(task) /\ next' \in 1 .. Len(task)
        BY <1>0, <2>1, <2>2 DEF TypeOK, Heads
    <2>5. task[i].due \in Int /\ task[next'].due \in Int
        BY <1>0, <2>4, TaskFields DEF Time
    <2>6. task[i].due < task[next'].due
        BY <2>2 DEF Due
    <2>. QED
        BY <2>3, <2>5, <2>6
<1>4. CASE Wake \/ TimerC \/ Done \/ PopDue \/ HandlerReturns \/ LoopEnd \/ Start
    BY <1>4 DEF Wake, TimerC, Done, PopDue, HandlerReturns, LoopEnd, Start
<1>5. ASSUME NEW j \in ready, Exec(j)
      PROVE  FALSE
    BY <1>5 DEF Exec
<1>6. CASE Stop \/ Tick \/ UNCHANGED vars
    <2>1. UNCHANGED << task, cancelled, queue, pc, next, wakeCh, signalling >>
        BY <1>6 DEF Stop, Tick, queueVars, runVars, vars
    <2>2. i \in queue \ cancelled /\ (pc = "sleep" \/ (pc = "timer" /\ Due(i) < Due(next)))
        BY <2>1 DEF Due
    <2>. QED
        BY <2>1, <2>2 DEF NoLostWakeup
<1>. QED
    BY <1>1, <1>2, <1>3, <1>4, <1>5, <1>6 DEF Next, Run

\* run never oversleeps: with a live task it has not reckoned with, a token is
\* in wakeCh or about to be sent, although signal drops tokens.
THEOREM WakeupCorrect ==
    Spec => []NoLostWakeup
<1>1. Init => NoLostWakeup
    BY DEF Init, NoLostWakeup
<1>. QED
    BY <1>1, WakeupStep, HeapInvariant, PTL DEF Spec

------------------------------------------------------------------------------
(* The wheel implements module Timer: tasks is what is armed and ready what *)
(* was handed over.                                                         *)

LEMMA RefinementInit ==
    Init => Abstract!Init
BY DEF Init, Abstract!Init

LEMMA PopDueIsExpire ==
    ASSUME HeapInv, PopDue
    PROVE  Abstract!Expire
<1>0. TypeOK
    BY DEF HeapInv
<1>. DEFINE DueNow == {i \in queue \ cancelled : Due(i) <= now}
            DueKeys == {k \in Key : tasks[k] # NoTask /\ task[tasks[k]].due <= now}
<1>1. /\ tasks' = [k \in Key |-> IF tasks[k] \in DueNow THEN NoTask ELSE tasks[k]]
      /\ ready' = DueNow
      /\ UNCHANGED << task, now, fired >>
      /\ ready = {}
    BY DEF PopDue, DueItems, Unindex, HeapInv, RunControl
<1>2. \A k \in Key : tasks[k] \in DueNow <=> k \in DueKeys
    <2>. TAKE k \in Key
    <2>1. ASSUME tasks[k] \in DueNow PROVE k \in DueKeys
        <3>1. tasks[k] \in queue
            BY <2>1
        <3>2. tasks[k] # NoTask
            <4>1. tasks[k] \in 1 .. Len(task)
                BY <3>1, <1>0 DEF TypeOK
            <4>2. tasks[k] \in Nat
                BY <4>1
            <4>. QED
                BY <4>2, TimerAssumption
        <3>. QED
            BY <2>1, <3>2 DEF Due
    <2>2. ASSUME k \in DueKeys PROVE tasks[k] \in DueNow
        BY <2>2 DEF Due, HeapInv, IndexAgreesWithHeap
    <2>. QED
        BY <2>1, <2>2
<1>3. DueNow = {tasks[k] : k \in DueKeys}
    <2>1. ASSUME NEW i \in DueNow PROVE i \in {tasks[k] : k \in DueKeys}
        <3>1. i \in queue \ cancelled
            BY <2>1
        <3>2. tasks[task[i].key] = i
            BY <3>1 DEF HeapInv, IndexAgreesWithHeap, Key_
        <3>3. i \in 1 .. Len(task)
            BY <3>1, <1>0 DEF TypeOK
        <3>4. task[i].key \in Key
            BY <3>3, <1>0, TaskFields
        <3>. QED
            BY <2>1, <3>2, <3>4, <1>2
    <2>2. ASSUME NEW k \in DueKeys PROVE tasks[k] \in DueNow
        BY <1>2
    <2>. HIDE DEF DueNow, DueKeys
    <2>. QED
        BY <2>1, <2>2
<1>. HIDE DEF DueNow
<1>4. tasks' = [k \in Key |-> IF k \in DueKeys THEN NoTask ELSE tasks[k]]
    BY <1>1, <1>2
<1>5. ready' = ready \cup {tasks[k] : k \in DueKeys}
    BY <1>1, <1>3
<1>. QED
    BY <1>1, <1>4, <1>5 DEF Abstract!Expire

\* Every step of the wheel is a step of the abstract timer or a stutter.
LEMMA RefinementStep ==
    HeapInv /\ [Next]_vars => [Abstract!Next]_(Abstract!vars)
<1>. SUFFICES ASSUME HeapInv, [Next]_vars
             PROVE  [Abstract!Next]_(Abstract!vars)
    OBVIOUS
<1>1. ASSUME NEW g \in Goroutine, NEW k \in Key, NEW d \in Time, Schedule(g, k, d)
      PROVE  Abstract!Next
    <2>1. Abstract!Schedule(k, d)
        BY <1>1 DEF Schedule, Abstract!Schedule, runVars
    <2>2. d \in Abstract!Time
        BY DEF Time, Abstract!Time
    <2>. QED
        BY <2>1, <2>2 DEF Abstract!Next
<1>2. ASSUME NEW g \in Goroutine, NEW k \in Key, Cancel(g, k)
      PROVE  Abstract!Next
    <2>1. Abstract!Cancel(k)
        BY <1>2 DEF Cancel, Abstract!Cancel, runVars
    <2>. QED
        BY <2>1 DEF Abstract!Next
<1>3. CASE PopDue
    BY <1>3, PopDueIsExpire DEF Abstract!Next
<1>4. ASSUME NEW i \in ready, Exec(i)
      PROVE  Abstract!Next
    <2>1. i \notin cancelled /\ i \notin fired
        BY DEF HeapInv, CancelledNeverRuns, RunsAtMostOnce
    <2>2. Abstract!Fire(i)
        BY <1>4, <2>1 DEF Exec, Abstract!Fire, queueVars
    <2>. QED
        BY <2>2 DEF Abstract!Next
<1>5. CASE Tick
    <2>1. now' \in Abstract!Time
        BY <1>5, TimerAssumption DEF Tick, HeapInv, TypeOK, Time, Abstract!Time
    <2>2. Abstract!Tick
        BY <1>5, <2>1 DEF Tick, Abstract!Tick, queueVars, runVars
    <2>. QED
        BY <2>2 DEF Abstract!Next
<1>6. CASE NextTask \/ Wake \/ TimerC \/ Done \/ HandlerReturns \/ LoopEnd \/ Start
    BY <1>6 DEF NextTask, Wake, TimerC, Done, HandlerReturns, LoopEnd, Start,
                queueVars, Abstract!vars
<1>7. CASE Stop \/ (\E g \in Goroutine : Signal(g)) \/ UNCHANGED vars
    BY <1>7 DEF Stop, Signal, vars, queueVars, runVars, Abstract!vars
<1>. QED
    BY <1>1, <1>2, <1>3, <1>4, <1>5, <1>6, <1>7 DEF Next, Run

\* The heap, the channel and the goroutine of timer/wheel.go implement the
\* promise of module Timer.
THEOREM WheelImplementsTimer ==
    Spec => AbstractSpec
BY RefinementInit, RefinementStep, HeapInvariant, PTL DEF Spec, AbstractSpec, Abstract!Spec
==============================================================================
