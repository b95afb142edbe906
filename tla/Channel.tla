------------------------------- MODULE Channel -------------------------------
(***************************************************************************)
(* What a connection promises its reader, without bytes, headers and       *)
(* codecs: a queue of the messages sent, taken from the front one by one.  *)
(* A readable message is delivered, by its number, when it is taken; an    *)
(* unreadable one is skipped, and a perishable one may be.  Nothing is     *)
(* taken from a peer whose framing is not understood.                      *)
(***************************************************************************)
EXTENDS Naturals, Sequences

CONSTANTS
    Kind,         \* kinds of messages
    Readable,     \* the kinds that are delivered
    Perishable    \* the readable kinds that can be too old to be delivered

VARIABLES
    understood,   \* the peer's framing is the reader's; it never changes
    sent,         \* kinds of the messages sent, oldest first
    taken,        \* how many of them were taken
    delivered     \* numbers of those delivered, oldest first

vars == << understood, sent, taken, delivered >>

Init ==
    /\ understood \in BOOLEAN
    /\ sent = << >>
    /\ taken = 0
    /\ delivered = << >>

Send(k) ==
    /\ sent' = Append(sent, k)
    /\ UNCHANGED << understood, taken, delivered >>

Take ==
    /\ understood
    /\ taken < Len(sent)
    /\ taken' = taken + 1
    /\ \/ sent[taken + 1] \in Readable /\ delivered' = Append(delivered, taken + 1)
       \/ sent[taken + 1] \notin Readable \ Perishable /\ UNCHANGED delivered
    /\ UNCHANGED << understood, sent >>

Next == (\E k \in Kind : Send(k)) \/ Take

Spec == Init /\ [][Next]_vars
==============================================================================
