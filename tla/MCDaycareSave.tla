--------------------------- MODULE MCDaycareSave ---------------------------
(* Two species the player may have. *)
EXTENDS DaycareSave
CONSTANTS m1, m2
=============================================================================
