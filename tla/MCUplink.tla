------------------------------ MODULE MCUplink -------------------------------
(* Frames with every defect the stages look for, alone and before others. *)
EXTENDS Uplink

Good == [type |-> "BUSINESS", id |-> "long", trace |-> "set", biz |-> "known",
         expires |-> FALSE]

Defect ==
    {[Good EXCEPT !.id = "none"], [Good EXCEPT !.expires = TRUE],
     [Good EXCEPT !.trace = "nil"],
     [Good EXCEPT !.trace = "empty"],
     [Good EXCEPT !.trace = "empty", !.id = "short"],
     [Good EXCEPT !.biz = "none"], [Good EXCEPT !.biz = "unknown"],
     [Good EXCEPT !.type = "garbage"], [Good EXCEPT !.type = "PING"],
     [Good EXCEPT !.type = "KICK"],
     [Good EXCEPT !.type = "KICK", !.trace = "nil"],
     [Good EXCEPT !.type = "other"]}

Run(fs, wired, limiter, ws) ==
    [frames |-> fs, wired |-> wired, limiter |-> limiter, workers |-> ws]

MCScenario ==
    { Run(<< d, Good >>, TRUE, FALSE, Worker) : d \in Defect }
      \cup { Run(<< Good, Good, Good >>, TRUE, l, {w}) : l \in BOOLEAN, w \in Worker }
      \cup {Run(<< Good, Good >>, FALSE, FALSE, Worker),
            Run(<< Good, Good, Good >>, TRUE, FALSE, Worker)}
=============================================================================
