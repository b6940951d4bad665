------------------------- MODULE MCServerAuthBattle -------------------------
(* ServerAuthBattle for TLC: two moves, told apart only by their names.    *)
EXTENDS ServerAuthBattle

CONSTANTS m1, m2

MCMoves == {m1, m2}
MoveSymmetry == Permutations(MCMoves)

=============================================================================
