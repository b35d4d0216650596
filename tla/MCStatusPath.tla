----------------------------- MODULE MCStatusPath -----------------------------
(* The instance of StatusPath in MCStatusPath.cfg.                         *)
(*                                                                         *)
(* Feed: two servers, an agent that restarts its sequence (timestamp 2     *)
(* starts at 0 again), two channels.  Assembler: a buffer of four bytes    *)
(* against frames of up to five in chunks of up to two, so that messages   *)
(* fit exactly, overflow in one frame and in the sum of several, and are   *)
(* cut off anywhere.  Agent: two connections, two channels that may become *)
(* hot together, two samples.  Deadline: two socket numbers, so that one   *)
(* may be in use elsewhere and the other may change hands; two ticks of    *)
(* patience tell "not yet" from "passed".                                  *)
EXTENDS StatusPath

MCStamps == {<<1, 0>>, <<1, 1>>, <<2, 0>>}
=============================================================================
