---------------------------- MODULE MeshChannel ----------------------------
(***************************************************************************)
(* One direction of the link between two MonsterMesh nodes: the sender's   *)
(* MeshtasticTransport TX queue, the radio hops (or the MQTT bridge) and   *)
(* the receiver's dispatch, seen as one bounded sequence of packets.       *)
(*                                                                         *)
(* The queue drops a packet when it is full (queueSend gives up after      *)
(* 50 ms), the air loses packets, and a path with several routes or an     *)
(* MQTT hop delivers them out of order.  It never duplicates one: the      *)
(* router drops a packet id it has already seen, so a packet arrives twice *)
(* only when its sender sent it twice.                                     *)
(***************************************************************************)
EXTENDS Naturals, SequencesExt

CONSTANTS
    QueueDepth,   \* packets one direction can hold (TX_QUEUE_DEPTH is 16)
    Reorder       \* TRUE: multi-hop or MQTT path; FALSE: direct radio link

ASSUME ChannelAssumption == QueueDepth \in Nat \ {0} /\ Reorder \in BOOLEAN

\* queueSend: append, or drop the packet when the queue is full.
Enqueue(ch, m) == IF Len(ch) < QueueDepth THEN Append(ch, m) ELSE ch

\* The positions whose packet the receiver may be handed next.
Deliverable(ch) == {i \in DOMAIN ch : Reorder \/ i = 1}

\* dropPendingSends: the last packets of ch never left the TX queue and are
\* discarded; the first k are already on the air.
DropPendingSends(ch) == {SubSeq(ch, 1, k) : k \in 0 .. Len(ch)}

\* One packet of ch is lost on the air.
Losses(ch) == {RemoveAt(ch, i) : i \in DOMAIN ch}

=============================================================================
