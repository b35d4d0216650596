--------------------------- MODULE MCConfigCenter ---------------------------
(* What is saved and what the station uses (MCSaveConnect.cfg): two sets of*)
(* credentials and one volume, since only the former are compared; three   *)
(* forms for a queue of two: a setting overtaking a form, a form behind a  *)
(* form and one that finds no room.                                        *)
EXTENDS ConfigCenter
=============================================================================
