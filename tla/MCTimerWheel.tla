---------------------------- MODULE MCTimerWheel -----------------------------
(* The timer wheel with two keys, one outside caller besides the handlers  *)
(* and three tasks: a task can be replaced, and its replacement cancelled  *)
(* or run, while a task of the other key is pending.                       *)
EXTENDS TimerWheel
==============================================================================
