----------------------------- MODULE MCInterface -----------------------------
(* The instance of Interface in MCInterface.cfg.                           *)
(*                                                                         *)
(* Voice: a server clip and a critical one; one place in each queue shows  *)
(* full and empty; the critical window is twice the normal one, as 60 s is *)
(* to 30 s.  Screen: two gestures, one to wake and one to follow; a queue  *)
(* of two; a clock that passes the timeout twice.  Menus: three changes    *)
(* are enough for one to overtake another, for a key to act on a stale     *)
(* copy, and for a full queue to lose one while others wait behind it; the *)
(* mute key, a volume the portal has set, and the timeout.                 *)
EXTENDS Interface

VoiceClips == {4, 14}
VoiceLevel == [c \in VoiceClips |-> IF c = 14 THEN 2 ELSE 0]
VoiceCategory == [c \in VoiceClips |-> IF c = 14 THEN "critical" ELSE "server"]
=============================================================================
