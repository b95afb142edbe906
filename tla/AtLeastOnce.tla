----------------------------- MODULE AtLeastOnce -----------------------------
(***************************************************************************)
(* What at-least-once delivery promises for the messages of one session,   *)
(* without timers, indexes and goroutines.  A message is new until it is   *)
(* submitted, open while it may still be sent, and then settled for good.  *)
(* An open message is sent any number of times, over any connections; one  *)
(* that may be kept is settled only when the client has it, the offline    *)
(* store has it, the store failed, or the session was closed over it.      *)
(***************************************************************************)
CONSTANTS
    Msg,         \* messages
    Kept,        \* those that may be stored offline
    Conn         \* connections of the session

VARIABLES
    status,      \* [Msg -> {"new", "open", "settled"}]
    inFlight,    \* SUBSET (Conn \X Msg): sent and not yet received or lost
    received,    \* messages the client has got
    stored,      \* messages in the offline store
    lost         \* messages that a failing store or a closed session lost

vars == << status, inFlight, received, stored, lost >>

Init ==
    /\ status = [m \in Msg |-> "new"]
    /\ inFlight = {}
    /\ received = {}
    /\ stored = {}
    /\ lost = {}

Accept(m) ==
    /\ status[m] = "new"
    /\ status' = [status EXCEPT ![m] = "open"]
    /\ UNCHANGED << inFlight, received, stored, lost >>

Send(c, m) ==
    /\ status[m] = "open"
    /\ inFlight' = inFlight \cup {<< c, m >>}
    /\ UNCHANGED << status, received, stored, lost >>

Receive(c, m) ==
    /\ << c, m >> \in inFlight
    /\ inFlight' = inFlight \ {<< c, m >>}
    /\ received' = received \cup {m}
    /\ UNCHANGED << status, stored, lost >>

Lose(c) ==
    /\ inFlight' = {f \in inFlight : f[1] # c}
    /\ UNCHANGED << status, received, stored, lost >>

\* A message that cannot be sent now is stored if it may be and the store
\* takes it, and perhaps tried again.
Store(m) ==
    /\ status[m] = "open"
    /\ \/ stored' = stored \cup ({m} \cap Kept) /\ UNCHANGED lost
       \/ lost' = lost \cup ({m} \cap Kept) /\ UNCHANGED stored
    /\ status' \in {status, [status EXCEPT ![m] = "settled"]}
    /\ UNCHANGED << inFlight, received >>

Settle(m) ==
    /\ status[m] = "open"
    /\ m \in Kept => m \in received \cup stored \cup lost
    /\ status' = [status EXCEPT ![m] = "settled"]
    /\ UNCHANGED << inFlight, received, stored, lost >>

\* Closing the session loses some of the open messages; those that nobody is
\* about to send again are settled.
Close ==
    /\ \E D \in SUBSET {m \in Msg : status[m] = "open"} :
          /\ lost' = lost \cup D
          /\ \E S \in SUBSET D :
                status' = [m \in Msg |-> IF m \in S THEN "settled" ELSE status[m]]
    /\ UNCHANGED << inFlight, received, stored >>

Next ==
    \/ \E m \in Msg : Accept(m) \/ Store(m) \/ Settle(m)
    \/ \E c \in Conn : Lose(c) \/ \E m \in Msg : Send(c, m) \/ Receive(c, m)
    \/ Close

Spec == Init /\ [][Next]_vars
==============================================================================
