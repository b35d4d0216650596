----------------------------- MODULE MCOtaSlots -----------------------------
(* What is confirmed and what is installed (MCConfirm.cfg): three versions,*)
(* so that one can be armed, confirmed, and replaced by another before the *)
(* installation begins; two servers.                                       *)
EXTENDS OtaSlots
=============================================================================
