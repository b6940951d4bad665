-------------------------- MODULE MCPacketHistory --------------------------
(* PacketHistory for TLC.                                                  *)
EXTENDS PacketHistory, TLC

IdSymmetry == Permutations(Ids)
NodeSymmetry == Permutations(Others)

=============================================================================
