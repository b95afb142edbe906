------------------------------- MODULE Fanout --------------------------------
(***************************************************************************)
(* What handing the messages of a partition to their receivers promises,   *)
(* without pools, routes and connections.  Messages are fetched in order   *)
(* and taken on or passed over; one taken on is due to the receivers it is *)
(* wanted for, and whoever it is due to gets one copy, or none.  It may be *)
(* kept for later only while it is held.  A crash is the only step that    *)
(* goes back, and it goes back to the committed position: what was held is *)
(* due to nobody until it is fetched again.                                *)
(***************************************************************************)
EXTENDS Naturals

CONSTANTS
    Message,     \* the messages, 1 .. the last one
    Receiver

VARIABLES
    wanted,      \* [Message -> SUBSET Receiver]; it never changes
    position,    \* the last message fetched
    committed,   \* where a crash goes back to
    held,        \* messages taken on and not yet done with
    due,         \* [Message -> SUBSET Receiver]: who may still get a copy
    copies,      \* [Message -> [Receiver -> Nat]]
    kept         \* messages put aside for later

vars == << wanted, position, committed, held, due, copies, kept >>

Init ==
    /\ wanted \in [Message -> SUBSET Receiver]
    /\ position = 0
    /\ committed = 0
    /\ held = {}
    /\ due = [m \in Message |-> {}]
    /\ copies = [m \in Message |-> [r \in Receiver |-> 0]]
    /\ kept = {}

PassOver ==
    /\ position + 1 \in Message
    /\ position' = position + 1
    /\ UNCHANGED << wanted, committed, held, due, copies, kept >>

TakeOn(m) ==
    /\ m = position + 1
    /\ m \notin held
    /\ position' = m
    /\ held' = held \cup {m}
    /\ due' = [due EXCEPT ![m] = wanted[m]]
    /\ UNCHANGED << wanted, committed, copies, kept >>

Commit ==
    /\ committed' = position
    /\ UNCHANGED << wanted, position, held, due, copies, kept >>

\* After a step that leaves S of the receivers of m, m may be done with if S
\* is empty.
Leaves(m, S) ==
    /\ m \in held
    /\ due' = [due EXCEPT ![m] = S]
    /\ held' = held \/ (S = {} /\ held' = held \ {m})

Deliver(m, r) ==
    /\ r \in due[m]
    /\ copies' = [copies EXCEPT ![m][r] = @ + 1]
    /\ Leaves(m, due[m] \ {r})
    /\ UNCHANGED << wanted, position, committed, kept >>

GiveUp(m, S) ==
    /\ S \subseteq due[m]
    /\ Leaves(m, S)
    /\ kept' \in {kept, kept \cup {m}}
    /\ UNCHANGED << wanted, position, committed, copies >>

Crash ==
    /\ position' = committed
    /\ held' = {}
    /\ due' = [m \in Message |-> {}]
    /\ UNCHANGED << wanted, committed, copies, kept >>

Next ==
    \/ PassOver \/ Commit \/ Crash
    \/ \E m \in Message :
         \/ TakeOn(m)
         \/ \E r \in Receiver : Deliver(m, r)
         \/ \E S \in SUBSET Receiver : GiveUp(m, S)

Spec == Init /\ [][Next]_vars
==============================================================================
