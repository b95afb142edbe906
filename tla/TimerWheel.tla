----------------------------- MODULE TimerWheel ------------------------------
(***************************************************************************)
(* One shard of the gateway's timer (gateway/internal/timer): a map from   *)
(* keys to tasks and a heap ordered by due time, both under one mutex, a   *)
(* wake-up channel of capacity one, and the goroutine `run` that sleeps    *)
(* until the earliest task is due and then calls the handlers of the due   *)
(* tasks one after another.  Keys hash to a fixed shard, so that shards    *)
(* share no state.                                                         *)
(*                                                                         *)
(* A *wheelTask is named by its allocation index; `task` holds its fields  *)
(* and `cancelled` its flag.  A step under w.mu is one action; the signal  *)
(* that follows the unlock is an action of its own.  The heap is a set:    *)
(* its head is any member with the least due time.  Scheduling with an     *)
(* empty key or a nil handler returns an error and changes nothing.        *)
(***************************************************************************)
EXTENDS Integers, Sequences, FiniteSets

CONSTANTS
    Key,         \* task keys of this shard
    Caller,      \* goroutines that call Schedule and Cancel
    Runner,      \* the goroutine of `run`; a handler may call Schedule too
    NoTask,      \* nil
    MaxTask,     \* bound: tasks accepted over a behaviour
    MaxTime      \* bound: the clock runs over 0 .. MaxTime

ASSUME TimerAssumption ==
    /\ MaxTask \in Nat
    /\ MaxTime \in Nat
    /\ NoTask \notin Nat
    /\ Runner \notin Caller

Goroutine == Caller \cup {Runner}
Item == 1 .. MaxTask
Time == 0 .. MaxTime

VARIABLES
    task,        \* Seq([key, due]): the wheelTasks allocated so far
    cancelled,   \* the items whose cancelled flag is set
    tasks,       \* w.tasks
    queue,       \* w.queue
    wakeCh,      \* does w.wakeCh hold its one token?
    now,         \* the wall clock
    signalling,  \* goroutines between w.mu.Unlock() and the end of signal()
    pc,          \* where `run` is
    next,        \* the item nextTask returned, while the timer for it runs
    ready,       \* what popDue returned and the loop has not reached
    fired,       \* history: items whose handler was called
    stopped      \* ctx is done

queueVars == << task, cancelled, tasks, queue >>
runVars == << pc, next, ready, fired >>
vars == << task, cancelled, tasks, queue, wakeCh, now, signalling,
           pc, next, ready, fired, stopped >>

Key_(i) == task[i].key
Due(i) == task[i].due

PC == {"new", "next", "sleep", "timer", "popDue", "exec", "handler", "exit"}

TypeOK ==
    /\ task \in Seq([key : Key, due : Time])
    /\ Len(task) <= MaxTask
    /\ cancelled \subseteq 1 .. Len(task)
    /\ tasks \in [Key -> (1 .. Len(task)) \cup {NoTask}]
    /\ queue \subseteq 1 .. Len(task)
    /\ wakeCh \in BOOLEAN
    /\ now \in Time
    /\ signalling \subseteq Goroutine
    /\ pc \in PC
    /\ next \in (1 .. Len(task)) \cup {NoTask}
    /\ ready \subseteq 1 .. Len(task)
    /\ fired \subseteq 1 .. Len(task)
    /\ stopped \in BOOLEAN

Init ==
    /\ task = << >>
    /\ cancelled = {}
    /\ tasks = [k \in Key |-> NoTask]
    /\ queue = {}
    /\ wakeCh = FALSE
    /\ now = 0
    /\ signalling = {}
    /\ pc = "new"
    /\ next = NoTask
    /\ ready = {}
    /\ fired = {}
    /\ stopped = FALSE

------------------------------------------------------------------------------
(* The callers' side.                                                      *)

\* A goroutine that may enter the wheel: an outside caller, or `run` while it
\* is inside a handler (the ACK handler schedules the next timeout).
Free(g) ==
    /\ g \notin signalling
    /\ g = Runner => pc = "handler"

\* Deliberate fault of Replaced, for the mutation checks: the old task stays
\* alive.
ReplacedKept(k) == {}

\* The task schedule finds under the key, and cancels.
Replaced(k) == {tasks[k]} \ {NoTask}

\* A zero DueAt, and any instant in the past, is due at once.
Schedule(g, k, d) ==
    /\ Free(g)
    /\ Len(task) < MaxTask
    /\ cancelled' = cancelled \cup Replaced(k)
    /\ task' = Append(task, [key |-> k, due |-> d])
    /\ tasks' = [tasks EXCEPT ![k] = Len(task) + 1]
    /\ queue' = queue \cup {Len(task) + 1}
    /\ signalling' = signalling \cup {g}
    /\ UNCHANGED << wakeCh, now, runVars, stopped >>

\* Cancelling a key without a task returns false and changes nothing.
Cancel(g, k) ==
    /\ Free(g)
    /\ tasks[k] # NoTask
    /\ cancelled' = cancelled \cup {tasks[k]}
    /\ tasks' = [tasks EXCEPT ![k] = NoTask]
    /\ signalling' = signalling \cup {g}
    /\ UNCHANGED << task, queue, wakeCh, now, runVars, stopped >>

\* Fault of Signal: the send is dropped though the channel is empty.
SignalDropped(g) ==
    /\ g \in signalling
    /\ signalling' = signalling \ {g}
    /\ UNCHANGED << queueVars, wakeCh, now, runVars, stopped >>

\* The non-blocking send: a full channel drops the token.
Signal(g) ==
    /\ g \in signalling
    /\ wakeCh' = TRUE
    /\ signalling' = signalling \ {g}
    /\ UNCHANGED << queueVars, now, runVars, stopped >>

------------------------------------------------------------------------------
(* The goroutine of `run`.                                                 *)

\* shardedScheduler.Start (once) spawns it.
Start ==
    /\ pc = "new"
    /\ pc' = "next"
    /\ UNCHANGED << queueVars, wakeCh, now, signalling, next, ready, fired, stopped >>

\* Before Start there is nothing to cancel, and Stop does nothing.
Stop ==
    /\ pc # "new"
    /\ ~stopped
    /\ stopped' = TRUE
    /\ UNCHANGED << queueVars, wakeCh, now, signalling, runVars >>

\* The heads of the heap among Q.
Heads(Q) == {i \in Q : \A j \in Q : Due(i) <= Due(j)}

\* The cancelled items that leave the heap when its heads are popped until
\* one of the live items Live is the head: those due before Live's heads and,
\* the heap leaving the order of ties open, any of those due at the same time.
Sweeps(Live) ==
    LET Dead == queue \cap cancelled
        Must == {i \in Dead : \A j \in Live : Due(i) < Due(j)}
        May  == {i \in Dead : \A j \in Live : Due(i) <= Due(j)}
    IN  {S \in SUBSET May : Must \subseteq S}

\* nextTask: the head of the heap, once cancelled heads are dropped.
NextTask ==
    LET Live == queue \ cancelled
    IN  /\ pc = "next"
        /\ \E S \in Sweeps(Live) : queue' = queue \ S
        /\ IF Live = {}
             THEN pc' = "sleep" /\ next' = NoTask
             ELSE pc' = "timer" /\ next' \in Heads(Live)
        /\ UNCHANGED << task, cancelled, tasks, wakeCh, now, signalling,
                        ready, fired, stopped >>

\* The receive from wakeCh, in either select.
Wake ==
    /\ pc \in {"sleep", "timer"}
    /\ wakeCh
    /\ wakeCh' = FALSE
    /\ pc' = "next"
    /\ next' = NoTask
    /\ UNCHANGED << queueVars, now, signalling, ready, fired, stopped >>

\* The time.Timer set for `next` expires.
TimerC ==
    /\ pc = "timer"
    /\ Due(next) <= now
    /\ pc' = "popDue"
    /\ next' = NoTask
    /\ UNCHANGED << queueVars, wakeCh, now, signalling, ready, fired, stopped >>

\* ctx.Done() in either select.
Done ==
    /\ pc \in {"sleep", "timer"}
    /\ stopped
    /\ pc' = "exit"
    /\ next' = NoTask
    /\ UNCHANGED << queueVars, wakeCh, now, signalling, ready, fired, stopped >>

\* Fault of DueItems: a task counts as due one tick too soon.
DueItemsEarly == {i \in queue \ cancelled : Due(i) <= now + 1}

\* The live items popDue finds due.
DueItems == {i \in queue \ cancelled : Due(i) <= now}

\* Fault of Unindex: popDue leaves its items in w.tasks.
UnindexNothing(S) == tasks

\* The map without the items S.
Unindex(S) == [k \in Key |-> IF tasks[k] \in S THEN NoTask ELSE tasks[k]]

\* Fault of PopDue: the due items are looked at and not popped.
PopDuePeeks ==
    /\ pc = "popDue"
    /\ tasks' = Unindex(DueItems)
    /\ ready' = DueItems
    /\ pc' = "exec"
    /\ UNCHANGED << task, cancelled, queue, wakeCh, now, signalling, next, fired, stopped >>

\* popDue(time.Now()): the due live items move to ready; cancelled items are
\* dropped until the head is live and not yet due.
PopDue ==
    LET DueNow == DueItems
    IN  /\ pc = "popDue"
        /\ \E S \in Sweeps((queue \ cancelled) \ DueNow) : queue' = queue \ (S \cup DueNow)
        /\ tasks' = Unindex(DueNow)
        /\ ready' = DueNow
        /\ pc' = "exec"
        /\ UNCHANGED << task, cancelled, wakeCh, now, signalling, next, fired, stopped >>

\* The loop over ready, in the order of due times: the handler of an item is
\* called unless its cancelled flag, read without the mutex, is set.
Exec(i) ==
    /\ pc = "exec"
    /\ i \in Heads(ready)
    /\ ready' = ready \ {i}
    /\ IF i \in cancelled
         THEN UNCHANGED << fired, pc >>
         ELSE fired' = fired \cup {i} /\ pc' = "handler"
    /\ UNCHANGED << queueVars, wakeCh, now, signalling, next, stopped >>

HandlerReturns ==
    /\ pc = "handler"
    /\ Runner \notin signalling
    /\ pc' = "exec"
    /\ UNCHANGED << queueVars, wakeCh, now, signalling, next, ready, fired, stopped >>

LoopEnd ==
    /\ pc = "exec"
    /\ ready = {}
    /\ pc' = "next"
    /\ UNCHANGED << queueVars, wakeCh, now, signalling, next, ready, fired, stopped >>

Tick ==
    /\ now < MaxTime
    /\ now' = now + 1
    /\ UNCHANGED << queueVars, wakeCh, signalling, runVars, stopped >>

------------------------------------------------------------------------------
Run ==
    \/ NextTask \/ Wake \/ TimerC \/ Done \/ PopDue
    \/ \E i \in ready : Exec(i)
    \/ HandlerReturns
    \/ LoopEnd

Next ==
    \/ \E g \in Goroutine, k \in Key, d \in Time : Schedule(g, k, d)
    \/ \E g \in Goroutine, k \in Key : Cancel(g, k)
    \/ \E g \in Goroutine : Signal(g)
    \/ Start
    \/ Stop
    \/ Run
    \/ Tick

Spec == Init /\ [][Next]_vars

\* The scheduler runs every runnable goroutine and the clock moves on; whether
\* a caller schedules, cancels or stops is up to it.
Fairness ==
    /\ WF_vars(Run)
    /\ WF_vars(Start)
    /\ WF_vars(Tick)
    /\ \A g \in Goroutine : WF_vars(Signal(g))

FairSpec == Spec /\ Fairness

------------------------------------------------------------------------------
(* Properties.                                                             *)

\* The map and the heap agree: the task of a key is the only live item of the
\* heap with that key, though schedule, cancel and popDue update them apart.
IndexAgreesWithHeap ==
    /\ \A k \in Key : tasks[k] # NoTask =>
           tasks[k] \in queue \ cancelled /\ Key_(tasks[k]) = k
    /\ \A i \in queue \ cancelled : tasks[Key_(i)] = i

\* A task that was cancelled (Cancel returned true) or replaced never reaches
\* its handler, and no item popDue took is cancelled afterwards: the unlocked
\* read of item.cancelled in run races with nothing.
CancelledNeverRuns == cancelled \cap (ready \cup fired) = {}

\* A task is waiting in the heap, taken by popDue or run, and never two of
\* these: no interleaving of run with schedule makes a handler run twice.
RunsAtMostOnce ==
    /\ queue \cap (ready \cup fired) = {}
    /\ ready \cap fired = {}

\* No lost wake-up: whenever `run` sleeps without a deadline while a task is
\* live, or with a deadline later than the earliest live task, a token is in
\* wakeCh or a goroutine is about to send one.
NoLostWakeup ==
    \A i \in queue \ cancelled :
        (pc = "sleep" \/ (pc = "timer" /\ Due(i) < Due(next)))
            => wakeCh \/ signalling # {}

\* A handler runs only at or after the due time of its task.
NeverEarly == \A i \in ready \cup fired : Due(i) <= now

\* Every accepted task is eventually run, cancelled or replaced, unless the
\* scheduler was stopped.
EveryTaskSettles ==
    \A i \in Item :
        i <= Len(task) ~> (i \in fired \cup cancelled \/ stopped)

\* The wheel implements the abstract timer.
Abstract == INSTANCE Timer WITH armed <- tasks, handed <- ready
AbstractSpec == Abstract!Spec
==============================================================================
