----------------------------- MODULE MCDownlink ------------------------------
(* Messages of every form, to one session and to a room of two. *)
EXTENDS Downlink, TLC

CONSTANTS s1, s2

Message(form, to, via) ==
    [form |-> form, to |-> to, via |-> via, exclude |-> {}, offline |-> TRUE,
     qos |-> 1, expires |-> FALSE]

Unicast == Message("ok", {s1}, "user")
Room    == Message("ok", {s1, s2}, "room")
Echo    == [Room EXCEPT !.exclude = {s2}, !.qos = 0]
Late    == [Unicast EXCEPT !.expires = TRUE]
Odd(f)  == Message(f, {s1}, "user")

MCMsgKind ==
    {Unicast, Room, Echo, Late}
      \cup { Odd(f) : f \in {"bare", "poison", "nopool", "nodest", "notrace"} }

Run(msgs, c1, c2, dies) ==
    [log |-> msgs, conns |-> (s1 :> c1) @@ (s2 :> c2), crashes |-> dies]

MCScenario ==
    {Run(<< Unicast, Unicast >>, 2, 0, 1),
     Run(<< Room, Unicast >>, 1, 1, 0), Run(<< Echo, Late >>, 1, 1, 0),
     Run(<< Odd("bare"), Unicast >>, 2, 0, 0),
     Run(<< Odd("notrace"), Unicast >>, 0, 0, 0),
     Run(<< Odd("poison"), Odd("nodest") >>, 0, 0, 1),
     Run(<< Odd("nopool"), Unicast >>, 0, 0, 1)}
=============================================================================
