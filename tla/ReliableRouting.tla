--------------------------- MODULE ReliableRouting ---------------------------
(***************************************************************************)
(* The routers of the mesh: what a node does with a packet it sends, hears *)
(* or has to repeat (Router, FloodingRouter, NextHopRouter and             *)
(* ReliableRouter, one object on every node).                              *)
(*                                                                         *)
(* A handler runs to its end on the main loop, so each is an operator from *)
(* the record of its node to the record it leaves: History, Send, Handle   *)
(* and so on take the node n, its record s and a packet p.  Nodes meet     *)
(* only on the air, where each neighbour may miss a transmission.          *)
(*                                                                         *)
(* All nodes share the channel key, so every packet is decoded.  The order *)
(* of the transmit queue is RadioTransmit's subject and left open here, as *)
(* are the eviction of history entries and the six places a record has for *)
(* relayers, PacketHistory's.                                              *)
(***************************************************************************)
EXTENDS Integers, FiniteSets, SequencesExt

CONSTANTS Nodes,        \* node numbers; next_hop and relay_node keep their
                        \* last bytes, which are taken to be distinct
          Networks,     \* who hears whom, who has the role ROUTER and who has
                        \* which ROUTERs as favourites
          Dests,        \* destinations of the packets the phone sends
          Senders,      \* nodes with a phone that sends
          HopLimit,     \* config.lora.hop_limit
          MaxInbox,     \* MAX_RX_FROMRADIO
          ReliableRetx, \* NUM_RELIABLE_RETX
          RelayRetx,    \* NUM_INTERMEDIATE_RETX
          MaxSends,     \* bound: packets each phone sends
          MaxFaults,    \* bound: receptions lost and timers that run out while
                        \* packets are on their way
          None, Broadcast

ASSUME NetworkAssumption ==
    /\ Networks \subseteq [links: SUBSET (Nodes \X Nodes), routers: SUBSET Nodes,
                           favourites: SUBSET (Nodes \X Nodes)]
    /\ \A w \in Networks : \A l \in w.links :
          l[1] # l[2] /\ <<l[2], l[1]>> \in w.links
    /\ Senders \subseteq Nodes
    /\ Dests \subseteq Nodes \cup {Broadcast}
    /\ None \notin Nodes /\ Broadcast \notin Nodes
    /\ {HopLimit, MaxInbox, ReliableRetx} \subseteq Nat \ {0}
    /\ {MaxSends, MaxFaults} \subseteq Nat

\* NUM_INTERMEDIATE_RETX is 2 and NUM_RELIABLE_RETX is 3.
ASSUME RetxAssumption == RelayRetx \in 2..ReliableRetx

VARIABLES net,      \* the network, a member of Networks
          node,     \* the state each node keeps in RAM, see NodeState
          faults,   \* receptions lost and early timers, up to MaxFaults
          sent,     \* history: [n -> ids of the reliable packets its phone sent]
          got,      \* history: [n -> keys of the packets its modules handled]
          told      \* history: [n -> <<id, verdict>> its phone was told]

vars == <<net, node, faults, sent, got, told>>

Neighbours(n) == {m \in Nodes : <<n, m>> \in net.links}

\* Links from n to m on the shortest path, at most k of them (else k + 1)
Distance(n, m, k) ==
    LET Reach[i \in 0..k] ==
            IF i = 0 THEN {n}
            ELSE Reach[i-1] \cup UNION {Neighbours(x) : x \in Reach[i-1]}
    IN  IF m \in Reach[k] THEN CHOOSE i \in 0..k :
                                 m \in Reach[i] /\ (i = 0 \/ m \notin Reach[i-1])
        ELSE k + 1

Packet == [from: Nodes, to: Nodes \cup {Broadcast}, id: Nat, request: Nat,
           hopStart: Nat, hop: Nat, relay: Nodes \cup {None},
           nextHop: Nodes \cup {None}, wantAck: BOOLEAN, text: BOOLEAN,
           error: BOOLEAN]

Key(p) == <<p.from, p.id>>
Keys == Nodes \X Nat

HistoryRecord == [hop: Nat, ourTx: Nat, nextHop: Nodes \cup {None},
                  relayers: SUBSET Nodes]

NodeState == [seq: Nat,                    \* the last packet id it made up
              history: UNION {[K -> HistoryRecord] : K \in SUBSET Keys},
              pending: UNION {[K -> [packet: Packet, left: Nat]] :
                                 K \in SUBSET Keys},
              tx: Seq(Packet), inbox: Seq(Packet),
              route: [Nodes -> Nodes \cup {None}],  \* NodeInfoLite.next_hop
              draining: BOOLEAN]           \* Router::runOnce is in its loop

----------------------------------------------------------------------------
(* The history of packets seen: PacketHistory::wasSeenRecently *)

Seen(s, p) == Key(p) \in DOMAIN s.history
Mine(n, p) == p.from = n

NewRecord(n, p) ==
    [hop |-> p.hop, nextHop |-> p.nextHop,
     ourTx |-> IF p.relay = n THEN p.hop ELSE 0,
     relayers |-> {n} \cap {p.relay}]

\* p comes back from a node that heard our own transmission of it
HeardUs(n, r, p) == /\ p.relay # n /\ n \in r.relayers
                    /\ p.hop \in {r.ourTx, r.ourTx - 1}

Updated(n, r, p) ==
    [hop |-> IF r.hop > p.hop THEN r.hop ELSE p.hop, nextHop |-> r.nextHop,
     ourTx |-> IF p.relay = n THEN p.hop ELSE r.ourTx,
     relayers |-> r.relayers \cup
                  IF p.relay = n \/ HeardUs(n, r, p) THEN {p.relay} \ {None}
                  ELSE {}]

Remember(n, s, p) ==
    LET r == IF Seen(s, p) THEN Updated(n, s.history[Key(p)], p)
             ELSE NewRecord(n, p)
    IN  [s EXCEPT !.history = [k \in DOMAIN @ \cup {Key(p)} |->
                                 IF k = Key(p) THEN r ELSE @[k]]]

Relayers(s, key) ==
    IF key \in DOMAIN s.history THEN s.history[key].relayers ELSE {}

----------------------------------------------------------------------------
(* The queues *)

InTx(s, key) == \E i \in DOMAIN s.tx : Key(s.tx[i]) = key

\* PacketHistory::removeRelayer
RemoveRelayer(n, r) == [r EXCEPT !.relayers = @ \ {n}]

\* Router::cancelSending: the packet leaves the queue, and we relay it no more
Cancel(n, s, key) ==
    IF ~InTx(s, key) THEN s
    ELSE [s EXCEPT !.tx = RemoveAt(@, SelectInSeq(@, LAMBDA q : Key(q) = key)),
                   !.history = [k \in DOMAIN @ |->
                       IF k = key THEN RemoveRelayer(n, @[k]) ELSE @[k]]]

\* Router::enqueueReceivedMessage: a full queue discards its oldest packet
Enqueue(s, p) ==
    [s EXCEPT !.inbox = Append(IF Len(@) < MaxInbox THEN @ ELSE Tail(@), p)]

\* Router::send
Transmit(n, s, p) ==
    [s EXCEPT !.tx = Append(@,
        [p EXCEPT !.relay = n, !.wantAck = @ /\ p.to # Broadcast,
                  !.hopStart = IF Mine(n, p) THEN p.hop ELSE @])]

\* FloodingRouter::send
Flood(n, s, p) ==
    LET q == [p EXCEPT !.relay = n] IN Transmit(n, Remember(n, s, q), q)

----------------------------------------------------------------------------
(* Retransmissions: NextHopRouter *)

\* roleAllowsCancelingFromTxQueue, roleAllowsCancelingDupe
MayCancel(n) == n \notin net.routers

StopRetransmission(n, s, key) ==
    IF key \notin DOMAIN s.pending THEN s
    ELSE LET old == s.pending[key]
             t == IF /\ old.left < ReliableRetx - 1
                     /\ Mine(n, old.packet) \/ MayCancel(n)
                  THEN Cancel(n, s, key) ELSE s
         IN  [t EXCEPT !.pending = [k \in DOMAIN @ \ {key} |-> @[k]]]

StartRetransmission(n, s, p, tries) ==
    LET t == StopRetransmission(n, s, Key(p))
    IN  [t EXCEPT !.pending = [k \in DOMAIN @ \cup {Key(p)} |->
            IF k = Key(p) THEN [packet |-> p, left |-> tries - 1] ELSE @[k]]]

\* getNextHop: never back to the relay, which is n itself in send()
NextHop(n, s, to) ==
    IF to # Broadcast /\ s.route[to] # n THEN s.route[to] ELSE None

\* NextHopRouter::send
HopSend(n, s, p) ==
    LET q == [p EXCEPT !.relay = n]
        t == Remember(n, s, q)
        r == [q EXCEPT !.nextHop = NextHop(n, t, p.to)]
        guarded == /\ ~Mine(n, p) \/ ~p.wantAck
                   /\ r.nextHop # None
                   /\ p.hop > 0 \/ p.wantAck
    IN  Transmit(n, IF guarded THEN StartRetransmission(n, t, r, RelayRetx)
                    ELSE t, r)

\* ReliableRouter::send
ReliableSend(n, s, p) ==
    LET q == IF p.wantAck /\ p.hop = 0 THEN [p EXCEPT !.hop = HopLimit] ELSE p
        t == IF p.wantAck THEN StartRetransmission(n, s, q, ReliableRetx) ELSE s
    IN  IF p.to = Broadcast THEN Flood(n, t, q) ELSE HopSend(n, t, q)

\* RoutingModule::getHopLimitForResponse
ResponseHops(p) ==
    LET used == IF p.hopStart < p.hop THEN HopLimit ELSE p.hopStart - p.hop
    IN  CASE p.hopStart = 0        -> HopLimit
          [] p.hopStart # 0 /\ used > HopLimit     -> used
          [] p.hopStart # 0 /\ used + 2 < HopLimit -> used + 2
          [] OTHER                 -> HopLimit

\* RoutingModule::sendAckNak; to ourselves it comes in as if received
SendAckNak(n, s, to, request, hops, wantAck, error) ==
    LET p == [from |-> n, to |-> to, id |-> s.seq + 1, request |-> request,
              hopStart |-> 0, hop |-> hops, relay |-> None, nextHop |-> None,
              wantAck |-> wantAck, text |-> FALSE, error |-> error]
        t == [s EXCEPT !.seq = @ + 1]
    IN  IF to = n THEN Enqueue(t, p) ELSE ReliableSend(n, t, p)

----------------------------------------------------------------------------
(* A packet comes in: Router::perhapsHandleReceived *)

\* Mutant of Relayable: a packet without hops left is relayed.
RelayableAtZero(n, p) == p.to # n /\ ~Mine(n, p) /\ p.nextHop \in {None, n}

\* Mutant of Decremented: a favourite's packet keeps it on the first hop too.
KeptForFavourite(n, p) ==
    IF n \in net.routers /\ <<n, p.relay>> \in net.favourites
    THEN p ELSE [p EXCEPT !.hop = @ - 1]

IsRepeated(p) == p.hopStart > 0 /\ p.hopStart = p.hop

\* shouldDecrementHopLimit: a ROUTER keeps the hop limit of what a ROUTER among
\* its favourites has relayed, but never on the first hop
Decremented(n, p) ==
    IF /\ ~IsRepeated(p) /\ n \in net.routers
       /\ <<n, p.relay>> \in net.favourites
    THEN p ELSE [p EXCEPT !.hop = @ - 1]

Relayable(n, p) == /\ p.to # n /\ ~Mine(n, p) /\ p.hop > 0
                   /\ p.nextHop \in {None, n}

\* NextHopRouter::perhapsRebroadcast
Rebroadcast(n, s, p) ==
    IF ~Relayable(n, p) THEN s
    ELSE IF p.nextHop = None THEN Flood(n, s, Decremented(n, p))
    ELSE HopSend(n, s, Decremented(n, p))

\* Mutant of ImplicitAck: the repetitions stop, and nobody is told.
StoppedSilently(n, s, p) ==
    IF Mine(n, p) THEN StopRetransmission(n, s, Key(p)) ELSE s

\* ReliableRouter::shouldFilterReceived: a packet of ours is repeated by
\* another node, which is an implicit acknowledgement
ImplicitAck(n, s, p) ==
    IF Mine(n, p) /\ Key(p) \in DOMAIN s.pending
    THEN StopRetransmission(n, SendAckNak(n, s, n, p.id, 0, FALSE, FALSE),
                            Key(p))
    ELSE s

\* the queued copy that a copy with more hops left replaces
Worse(s, p) == SelectInSeq(s.tx, LAMBDA q : Key(q) = Key(p) /\ q.hop < p.hop)

\* both hop limits of a record share a byte, which is compared as a whole
PackedHops(r) == r.hop + 8 * r.ourTx

IsUpgrade(s, p) == /\ Seen(s, p)
                   /\ PackedHops(s.history[Key(p)]) < p.hop
                   /\ p.hop > 0
                   /\ Worse(s, p) # 0

\* the last relayer gave up on the next hop it had asked
IsFallback(n, r, p) ==
    /\ ~Mine(n, p)
    /\ r.nextHop \notin {None, n} /\ p.nextHop = None
    /\ p.relay \in r.relayers
    /\ {n, r.nextHop} \cap r.relayers = {}

\* perhapsCancelDupe
CancelDupe(n, s, p) == IF MayCancel(n) THEN Cancel(n, s, Key(p)) ELSE s

\* FloodingRouter::shouldFilterReceived, for a broadcast seen before
Duplicate(n, s, p) ==
    IF ~IsRepeated(p) THEN CancelDupe(n, s, p)
    ELSE IF InTx(s, Key(p)) THEN s ELSE Rebroadcast(n, s, p)

\* NextHopRouter::shouldFilterReceived, for a direct message seen before
DuplicateDM(n, s, r, p) ==
    LET t == StopRetransmission(n, s, Key(p))
    IN  IF IsFallback(n, r, p)
        THEN IF InTx(t, Key(p)) THEN t ELSE Rebroadcast(n, t, p)
        ELSE IF ~IsRepeated(p)
        THEN IF r.nextHop = n THEN t ELSE CancelDupe(n, t, p)
        ELSE IF InTx(t, Key(p)) THEN t
        ELSE IF p.to = n /\ p.wantAck
        THEN SendAckNak(n, t, p.from, p.id, 0, FALSE, FALSE)
        ELSE Rebroadcast(n, t, p)

\* shouldFilterReceived of a packet seen before; s is the state in which the
\* history holds it already, r the record it had
Filter(n, s, r, p) ==
    IF IsUpgrade([s EXCEPT !.history[Key(p)] = r], p)
    THEN Rebroadcast(n, [s EXCEPT !.tx = RemoveAt(@, Worse(s, p))], p)
    ELSE IF p.to = Broadcast THEN Duplicate(n, s, p)
    ELSE DuplicateDM(n, s, r, p)

\* Mutant of Answer: a packet on its way to another node is acknowledged.
AnswerForOthers(n, s, p) ==
    IF p.wantAck /\ p.request = 0 /\ p.to # Broadcast
    THEN SendAckNak(n, s, p.from, p.id, ResponseHops(p), FALSE, FALSE) ELSE s

\* ReliableRouter::sniffReceived: what we answer to a packet for us
Answer(n, s, p) ==
    IF p.to # n THEN s
    ELSE IF p.wantAck /\ ~Mine(n, p) /\ p.text
    THEN SendAckNak(n, s, p.from, p.id, ResponseHops(p), TRUE, FALSE)
    ELSE IF p.wantAck /\ p.request = 0
    THEN SendAckNak(n, s, p.from, p.id, ResponseHops(p), FALSE, FALSE)
    ELSE IF \/ p.wantAck /\ (IsRepeated(p) \/ p.nextHop # None)
            \/ ~p.wantAck /\ p.nextHop = n /\ p.hop > 0
    THEN SendAckNak(n, s, p.from, p.id, 0, FALSE, FALSE)
    ELSE s

\* Mutant of Acknowledged: the packet is looked up under the wrong sender.
AcknowledgedByFrom(n, s, p) ==
    IF p.to = n /\ p.request # 0
    THEN StopRetransmission(n, s, <<p.from, p.request>>) ELSE s

\* ... and the retransmission an acknowledgement for us stops
Acknowledged(n, s, p) ==
    IF p.to = n /\ p.request # 0 THEN StopRetransmission(n, s, <<n, p.request>>)
    ELSE s

\* Mutant of Learned: the next hop is noted for the wrong end.
LearnedForAsker(n, s, p) ==
    IF p.request # 0 /\ p.relay # None /\ n \in Relayers(s, <<p.to, p.request>>)
    THEN [s EXCEPT !.route[p.to] = p.relay] ELSE s

\* NextHopRouter::sniffReceived: the node that relayed both a packet and its
\* acknowledgement is the way to the node that acknowledged
Learned(n, s, p) ==
    LET rs == Relayers(s, <<p.to, p.request>>)
        onPath == \/ {n, p.relay} \subseteq rs
                  \/ IsRepeated(p) /\ rs = {n}
    IN  IF p.request # 0 /\ p.relay # None /\ onPath
        THEN [s EXCEPT !.route[p.from] = p.relay] ELSE s

\* an acknowledgement for another node ends our part in what it acknowledges
Overheard(n, s, p) ==
    IF p.request = 0 \/ p.to = n \/ p.to = Broadcast THEN s
    ELSE StopRetransmission(n, Cancel(n, s, <<p.to, p.request>>),
                            <<p.to, p.request>>)

\* sniffReceived of the three routers
Sniff(n, s, p) ==
    LET t == Acknowledged(n, Answer(n, s, p), p)
        u == IF p.to = Broadcast THEN t ELSE Learned(n, t, p)
    IN  Rebroadcast(n, Overheard(n, u, p), p)

\* the node after it took p from its inbox
Handled(n, s, p) ==
    LET t == ImplicitAck(n, s, p)
    IN  IF Seen(t, p)
        THEN Filter(n, Remember(n, t, p), t.history[Key(p)], p)
        ELSE Sniff(n, Remember(n, t, p), p)

----------------------------------------------------------------------------
(* The steps of a node *)

Awake(n) == ~node[n].draining

\* the phone sends a packet that wants an acknowledgement
Submit(n, to, text) ==
    /\ n \in Senders /\ to # n
    /\ Awake(n)
    /\ Cardinality(sent[n]) < MaxSends
    /\ LET s == node[n]
           p == [from |-> n, to |-> to, id |-> s.seq + 1, request |-> 0,
                 hopStart |-> 0, hop |-> HopLimit, relay |-> None,
                 nextHop |-> None, wantAck |-> TRUE, text |-> text,
                 error |-> FALSE]
       IN  /\ node' = [node EXCEPT ![n] =
                          ReliableSend(n, [s EXCEPT !.seq = @ + 1], p)]
           /\ sent' = [sent EXCEPT ![n] = @ \cup {p.id}]
    /\ UNCHANGED <<faults, got, told>>

Verdict(n, p) == IF p.error THEN "nak" ELSE IF Mine(n, p) THEN "implicit"
                 ELSE "ack"

\* Router::runOnce takes the next packet from the radio queue
Handle(n) ==
    LET s == node[n]
        p == Head(s.inbox)
        t == Handled(n, [s EXCEPT !.inbox = Tail(@)], p)
        fresh == ~Seen(s, p)
    IN  /\ s.inbox # <<>>
        /\ node' = [node EXCEPT ![n] =
                       [t EXCEPT !.draining = t.inbox # <<>>]]
        /\ got' = IF fresh /\ p.to \in {n, Broadcast}
                  THEN [got EXCEPT ![n] = @ \cup {Key(p)}] ELSE got
        /\ told' = IF fresh /\ p.to = n /\ p.request \in sent[n]
                   THEN [told EXCEPT ![n] = @ \cup {<<p.request, Verdict(n, p)>>}]
                   ELSE told
        /\ UNCHANGED <<faults, sent>>

\* nothing is queued anywhere: the answer a timer waits for does not come
InFlight == \E n \in Nodes : node[n].tx # <<>> \/ node[n].inbox # <<>>

Timeout == IF InFlight THEN faults < MaxFaults /\ faults' = faults + 1
           ELSE UNCHANGED faults

\* the packet goes out again; before the last try the next hop is forgotten
Repeat(n, s, key) ==
    LET p == s.pending[key].packet
        t == [s EXCEPT !.route[p.to] = None,
                       !.pending[key].packet.nextHop = None]
    IN  IF p.to = Broadcast THEN Flood(n, s, p)
        ELSE IF s.pending[key].left = 1
        THEN Flood(n, t, [p EXCEPT !.nextHop = None])
        ELSE HopSend(n, s, p)

\* Mutant of Retry: the last try is made again and again.
RetryForever(n, s, key) ==
    [Repeat(n, s, key) EXCEPT !.pending[key].left = IF @ > 1 THEN @ - 1 ELSE @]

Retry(n, s, key) == [Repeat(n, s, key) EXCEPT !.pending[key].left = @ - 1]

\* no try is left: the sender tells itself of the failure
GiveUp(n, s, key) ==
    LET p == s.pending[key].packet
        t == IF Mine(n, p)
             THEN SendAckNak(n, s, n, p.id, 0, FALSE, TRUE) ELSE s
    IN  StopRetransmission(n, t, key)

\* NextHopRouter::doRetransmissions, one pending packet whose time has come
Retransmit(n, key) ==
    /\ Awake(n) /\ key \in DOMAIN node[n].pending
    /\ node' = [node EXCEPT ![n] = IF @.pending[key].left = 0
                                   THEN GiveUp(n, @, key) ELSE Retry(n, @, key)]
    /\ Timeout
    /\ UNCHANGED <<sent, got, told>>

\* Router::runOnce begins to empty its queue only after the retransmissions
\* that are due; a node's radio sends while its router waits
OnAir(n, i, heard) ==
    /\ Awake(n)
    /\ i \in DOMAIN node[n].tx
    /\ heard \subseteq Neighbours(n)
    /\ faults' = faults + Cardinality(Neighbours(n) \ heard)
    /\ faults' <= MaxFaults
    /\ node' = [m \in Nodes |->
          IF m = n THEN [node[n] EXCEPT !.tx = RemoveAt(@, i)]
          ELSE IF m \in heard THEN Enqueue(node[m], node[n].tx[i])
          ELSE node[m]]
    /\ UNCHANGED <<sent, got, told>>

\* a next hop a node may have learned before: a neighbour nearer to d
KnownHops(n, d) ==
    {None} \cup {m \in Neighbours(n) :
        Distance(m, d, HopLimit) < Distance(n, d, HopLimit)}

Fresh(n, route) == [seq |-> 0, history |-> <<>>, pending |-> <<>>, tx |-> <<>>,
                    inbox |-> <<>>, route |-> route, draining |-> FALSE]

\* a node that has learned nothing, or a next hop for every destination
Learnt(n, all) == [d \in Nodes |-> IF all /\ KnownHops(n, d) # {None}
                                   THEN CHOOSE m \in KnownHops(n, d) : m # None
                                   ELSE None]

Init ==
    /\ net \in Networks
    /\ \E S \in SUBSET Nodes :
          node = [n \in Nodes |-> Fresh(n, Learnt(n, n \in S))]
    /\ faults = 0
    /\ sent = [n \in Nodes |-> {}]
    /\ got = [n \in Nodes |-> {}]
    /\ told = [n \in Nodes |-> {}]

\* everything is sent and settled
Quiet == \A n \in Nodes : /\ node[n].tx = <<>> /\ node[n].inbox = <<>>
                          /\ DOMAIN node[n].pending = {}

Rest == /\ Quiet /\ \A n \in Senders : Cardinality(sent[n]) = MaxSends
        /\ UNCHANGED vars

\* what the phone sends is text or not, which matters only to one who answers
Texts(to) == IF to = Broadcast THEN {FALSE} ELSE BOOLEAN

Work == \E n \in Nodes :
            \/ Handle(n)
            \/ \E key \in DOMAIN node[n].pending : Retransmit(n, key)
            \/ \E i \in DOMAIN node[n].tx, heard \in SUBSET Neighbours(n) :
                  OnAir(n, i, heard)

Next == /\ \/ \E n \in Nodes, to \in Dests : \E text \in Texts(to) :
                 Submit(n, to, text)
           \/ Work
           \/ Rest
        /\ UNCHANGED net

\* the main loops of the nodes keep running
Fairness == WF_vars(Work /\ UNCHANGED net)

Spec == Init /\ [][Next]_vars /\ Fairness

----------------------------------------------------------------------------
TypeOK ==
    \A n \in Nodes :
        LET s == node[n]
        IN  /\ DOMAIN s = DOMAIN Fresh(n, s.route)
            /\ Len(s.inbox) <= MaxInbox
            /\ \A i \in DOMAIN s.tx : s.tx[i] \in Packet
            /\ \A i \in DOMAIN s.inbox : s.inbox[i] \in Packet
            /\ \A k \in DOMAIN s.history : s.history[k] \in HistoryRecord
            /\ \A k \in DOMAIN s.pending :
                  /\ s.pending[k].packet \in Packet
                  /\ s.pending[k].left \in 0..(ReliableRetx - 1)
            /\ s.route \in [Nodes -> Nodes \cup {None}]

\* An acknowledgement is the truth: when the phone is told that a node
\* acknowledged its packet, the modules of the destination handled it.
AckIsTrue ==
    \A n \in Nodes : \A id \in sent[n] :
        <<id, "ack">> \in told[n] => \E m \in Nodes \ {n} : <<n, id>> \in got[m]

\* A packet whose hop limit is still the one it started with comes from its
\* sender itself: the routers answer it with zero hops and learn from it.
HeardDirectly ==
    \A n \in Nodes : \A i \in DOMAIN node[n].inbox :
        LET p == node[n].inbox[i] IN IsRepeated(p) => p.relay = p.from

\* The next hops that the nodes have learned for a destination form no loop.
NoRoutingLoop ==
    \A d \in Nodes : \A S \in SUBSET (Nodes \ {d}) \ {{}} :
        \E n \in S : node[n].route[d] \notin S

NaksFor(s, id) == {i \in DOMAIN s.inbox : s.inbox[i].error
                                          /\ s.inbox[i].request = id}

\* A node that knows of an acknowledgement does not report a failure.
NoNakOnceAcked ==
    [][\A n \in Nodes : \A id \in sent[n] :
          (\E v \in {"ack", "implicit"} : <<id, v>> \in told[n])
              => Cardinality(NaksFor(node'[n], id)) <=
                    Cardinality(NaksFor(node[n], id))]_vars

\* When all is settled, the phone was told what became of each packet.
VerdictReached ==
    Quiet => \A n \in Nodes : \A id \in sent[n] : \E v \in told[n] : v[1] = id

\* The mesh falls silent.
Settles == <>[]Quiet
=============================================================================
