--------------------------- MODULE MCServerMonitor ---------------------------
(* Values shared by the instances of ServerMonitor.  One tick stands for    *)
(* about fifteen seconds: HTTPS poll 1, stale 1, zombie 2, offline and      *)
(* saver poll 3; early reconnect delays are below a tick.                   *)
EXTENDS ServerMonitor

OneSource == {1}
TwoSources == {1, 2}
OneStamp == {<<1, 0>>}
TwoStamps == {<<1, 1>>, <<2, 0>>}
NoChannels == {}
\* 1 s, 2 s, 4 s, 8 s round to nothing; 16 s and 30 s do not.
Delays == [n \in 0 .. FailCap |-> IF n < 2 THEN 0 ELSE 1]
NeverSaver == {FALSE}
=============================================================================
