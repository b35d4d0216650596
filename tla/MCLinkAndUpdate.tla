--------------------------- MODULE MCLinkAndUpdate ---------------------------
(* The instance of LinkAndUpdate in MCLinkAndUpdate.cfg.                   *)
(*                                                                         *)
(* Store: a queue of one for two forms, which shows a form overtaking a    *)
(* setting, a setting overtaking a form, and a form that finds no room.    *)
(* Wi-Fi: two ticks for setup and for an attempt, so that both deadlines   *)
(* can fall before, between and after the events of the driver; two retry  *)
(* times.  OTA: the version shipped, a newer one that fails its health     *)
(* check, and a good one newer still; two servers.                         *)
EXTENDS LinkAndUpdate

MCRetry == [n \in 0 .. 1 |-> n + 1]
=============================================================================
