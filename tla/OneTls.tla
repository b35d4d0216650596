-------------------------------- MODULE OneTls --------------------------------
(***************************************************************************)
(* What the firmware promises about TLS: the ESP32-C3 has memory for one   *)
(* session, so the WSS client, the HTTPS poll and the OTA transfer take    *)
(* turns.  The single token passes only through "none": whoever holds it   *)
(* gives it up before another takes it.  ServerMonitor.tla implements this *)
(* without a lock, by a join, a program order and a pause handshake.       *)
(***************************************************************************)
Users == {"wss", "http", "ota"}

VARIABLE owner

Init == owner = "none"

Acquire(u) == owner = "none" /\ owner' = u
Release(u) == owner = u /\ owner' = "none"

Next == \E u \in Users : Acquire(u) \/ Release(u)

Spec == Init /\ [][Next]_owner
=============================================================================
