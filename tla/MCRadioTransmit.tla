--------------------------- MODULE MCRadioTransmit ---------------------------
(* A packet of ours, one that we relay and an urgent one of ours. *)
EXTENDS RadioTransmit

Pkt(id, priority, ours, hop) ==
    [id |-> id, priority |-> priority, ours |-> ours, hop |-> hop, late |-> FALSE]

MCPackets == {Pkt(1, 1, TRUE, 3), Pkt(2, 1, FALSE, 1), Pkt(3, 2, TRUE, 3)}
=============================================================================
