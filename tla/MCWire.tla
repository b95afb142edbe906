-------------------------------- MODULE MCWire --------------------------------
(* The two checks of what crosses the wire, in one state space: the frames *)
(* of a connection (no request), or the validation of one message.         *)
EXTENDS Framing, Validation

WireInit ==
    \/ Init /\ request = Nil /\ validated = Nil /\ validatedAll = Nil
    \/ ValidationInit /\ Init /\ link = "ws"

WireNext ==
    \/ request = Nil /\ Next /\ UNCHANGED validationVars
    \/ request # Nil /\ ValidationNext /\ UNCHANGED vars

WireSpec ==
    /\ WireInit
    /\ [][WireNext]_<<vars, validationVars>>
    /\ WF_<<vars, validationVars>>(request = Nil /\ ReaderStep /\ UNCHANGED validationVars)
================================================================================
