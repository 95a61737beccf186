----------------------------- MODULE MCFraming -----------------------------
(* Instances of Framing for TLC.                                           *)
EXTENDS Framing

(* The ids at both ends of the range, of which 9999 has no handler, and    *)
(* next to them; lengths beyond the limit, of a body that is not there     *)
(* (0), of an empty buffer (-1) and of none (-2).                          *)
Headers ==
  [id : {1001}, len : {-2, -1, 0, 2, 3}] \cup [id : {1000, 9999, 10000}, len : {2}]
=============================================================================
