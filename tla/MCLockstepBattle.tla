------------------------- MODULE MCLockstepBattle -------------------------
(* LockstepBattle for TLC.                                                 *)
EXTENDS LockstepBattle

CONSTANTS m1, m2
MCMoves == {m1, m2}

=============================================================================
