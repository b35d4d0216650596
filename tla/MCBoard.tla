------------------------------- MODULE MCBoard -------------------------------
(* The instance of Board in MCBoard.cfg.                                   *)
(*                                                                         *)
(* Codec: two formats, so that it is closed and opened again; a volume in  *)
(* range and one out of it.  Buttons: two callers, and the voltages on     *)
(* both sides of every window's edge.  Gauge: two bytes show a profile     *)
(* that is half written, two polls one that is not the last; a charge on   *)
(* either side of the alarm, one of them its bound.  Page: two entries,    *)
(* one of them the page; two deep sleeps, so that the count of the first   *)
(* is the start of the second.  Display: two pins show one that fails      *)
(* beside one that does not.  Tone: two chunks, one before a stop and one  *)
(* that must not follow it.                                                *)
EXTENDS Board
=============================================================================
