------------------------------ MODULE MCUiTask ------------------------------
(* Three gestures, so that one can be asleep, one wake and one follow, and *)
(* the queue of twelve that the code has, so that nothing of them is lost; *)
(* the clock passes the timeout twice (MCWakeGuard.cfg).                   *)
EXTENDS UiTask
=============================================================================
