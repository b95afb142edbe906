-------------------------------- MODULE Relay --------------------------------
(***************************************************************************)
(* What a gateway promises a client whose frames it relays to a log,       *)
(* without stages, queues and workers.  Frames are offered one after the   *)
(* other.  One that is to be relayed is accepted, refused or dropped; an   *)
(* accepted one is forwarded, fails or is dropped, and may be overtaken by *)
(* others meanwhile.  A fate is final, and what the log holds is exactly   *)
(* what was forwarded.                                                     *)
(***************************************************************************)
EXTENDS Naturals, Sequences

CONSTANT
    Frame        \* frames, numbered in the order in which they are offered

VARIABLES
    relayed,     \* the frames that are to be relayed; it never changes
    fate,        \* [Frame -> what has become of it]
    log          \* frames in the order in which they were forwarded

vars == << relayed, fate, log >>

Init ==
    /\ relayed \subseteq Frame
    /\ fate = [f \in Frame |-> "new"]
    /\ log = << >>

Becomes(f, from, to) ==
    /\ fate[f] = from
    /\ fate' = [fate EXCEPT ![f] = to]
    /\ UNCHANGED relayed

\* A frame may be thrown away unread, or be done with at once if it is not to
\* be relayed.
Offer(f) ==
    /\ \A g \in Frame : g < f => fate[g] \notin {"new", "offered"}
    /\ \/ Becomes(f, "new", "offered")
       \/ Becomes(f, "new", "dropped")
       \/ f \notin relayed /\ Becomes(f, "new", "handled")
    /\ UNCHANGED log

Handle(f) ==
    /\ f \notin relayed
    /\ Becomes(f, "offered", "handled")
    /\ UNCHANGED log

Decide(f) ==
    /\ f \in relayed
    /\ \/ Becomes(f, "offered", "accepted")
       \/ Becomes(f, "offered", "refused")
       \/ Becomes(f, "offered", "dropped")
    /\ UNCHANGED log

Forward(f) ==
    /\ Becomes(f, "accepted", "forwarded")
    /\ log' = Append(log, f)

GiveUp(f) ==
    /\ Becomes(f, "accepted", "failed") \/ Becomes(f, "accepted", "dropped")
    /\ UNCHANGED log

Next ==
    \E f \in Frame :
      Offer(f) \/ Handle(f) \/ Decide(f) \/ Forward(f) \/ GiveUp(f)

Spec == Init /\ [][Next]_vars
==============================================================================
