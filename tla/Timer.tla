-------------------------------- MODULE Timer --------------------------------
(***************************************************************************)
(* What a timer scheduler promises to its callers (types.Scheduler as the  *)
(* ACK scanner uses it), without the heap, the goroutine and the wake-up   *)
(* channel: every key has at most one armed task, scheduling a key again   *)
(* replaces its task, cancelling disarms it, and only a task that was      *)
(* armed until its due time is handed over for execution, once.            *)
(***************************************************************************)
EXTENDS Integers, Sequences

CONSTANTS
    Key,         \* task keys
    NoTask,      \* the absence of a task
    MaxTime      \* bound: the clock runs over 0 .. MaxTime

Time == 0 .. MaxTime

VARIABLES
    task,        \* every task accepted so far; a task is named by its index
    now,         \* the wall clock
    armed,       \* [Key -> task or NoTask]: the task that will run for a key
    handed,      \* tasks taken for execution whose turn has not come
    fired        \* tasks whose handler has been called

vars == << task, now, armed, handed, fired >>

Init ==
    /\ task = << >>
    /\ now = 0
    /\ armed = [k \in Key |-> NoTask]
    /\ handed = {}
    /\ fired = {}

Tick ==
    /\ now' \in Time
    /\ now' = now + 1
    /\ UNCHANGED << task, armed, handed, fired >>

Schedule(k, d) ==
    /\ task' = Append(task, [key |-> k, due |-> d])
    /\ armed' = [armed EXCEPT ![k] = Len(task) + 1]
    /\ UNCHANGED << now, handed, fired >>

Cancel(k) ==
    /\ armed[k] # NoTask
    /\ armed' = [armed EXCEPT ![k] = NoTask]
    /\ UNCHANGED << task, now, handed, fired >>

\* The due armed tasks leave the index together and wait for their turn.
Expire ==
    LET Due == {k \in Key : armed[k] # NoTask /\ task[armed[k]].due <= now}
    IN  /\ armed' = [k \in Key |-> IF k \in Due THEN NoTask ELSE armed[k]]
        /\ handed' = handed \cup {armed[k] : k \in Due}
        /\ UNCHANGED << task, now, fired >>

Fire(i) ==
    /\ i \in handed
    /\ i \notin fired
    /\ handed' = handed \ {i}
    /\ fired' = fired \cup {i}
    /\ UNCHANGED << task, now, armed >>

Next ==
    \/ Tick
    \/ \E k \in Key, d \in Time : Schedule(k, d)
    \/ \E k \in Key : Cancel(k)
    \/ Expire
    \/ \E i \in handed : Fire(i)

Spec == Init /\ [][Next]_vars
==============================================================================
