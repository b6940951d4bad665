--------------------------- MODULE PacketHistory ---------------------------
(***************************************************************************)
(* The table of recently seen packets every router of the firmware is      *)
(* built on (class PacketHistory): a fixed array of records, one per       *)
(* (sender, packet id), with the hop limits seen and sent, and the last    *)
(* bytes of the nodes known to have relayed the packet.                    *)
(*                                                                         *)
(* wasSeenRecently() is called for a packet off the air (shouldFilter-     *)
(* Received) and for a packet this node is about to send, which carries    *)
(* our own relay byte (FloodingRouter::send, NextHopRouter::send).         *)
(***************************************************************************)
EXTENDS Integers, FiniteSets

CONSTANTS
    Us, Others,       \* our relay byte and those of the other nodes
    NoNode,           \* 0: no relayer, no next hop
    Senders, Ids,     \* NodeNums and non-zero packet ids
    OurNum,           \* our own NodeNum
    NoId,             \* 0, the id of a zeroed record
    Capacity,         \* recentPacketsCapacity
    NumRelayers,      \* NUM_RELAYERS (6)
    MaxHop,           \* largest hop limit on the air (at most 7)
    Wrap,             \* values of millis() before it starts again (2^32)
    Start, MaxTime    \* bounds of the model: milliseconds of uptime

ASSUME HistoryAssumption ==
    /\ Us \notin Others \cup {NoNode} /\ NoNode \notin Others
    /\ NoId \notin Ids
    /\ Capacity \in Nat \ {0} /\ NumRelayers \in Nat \ {0}
    /\ MaxHop \in 0 .. 7
    /\ Wrap \in Nat \ {0} /\ Start \in Nat /\ MaxTime \in Nat

VARIABLES
    recentPackets,  \* the array of PacketRecords
    now,            \* uptime; millis() is now % Wrap
    verdict,        \* what the last wasSeenRecently() of a heard packet said
    \* History, read by properties only.
    storedAt        \* uptime at which each slot was last written

vars == <<recentPackets, now, verdict, storedAt>>

Slots == 1 .. Capacity
Index == 0 .. NumRelayers - 1
Hops == 0 .. MaxHop
Nodes == Others \cup {Us, NoNode}
Clock == 0 .. Wrap        \* rxTimeMsec; it is 1 when millis() is 0

Records == [sender : Senders, id : Ids, rx : Clock, nextHop : Nodes,
            highest : Hops, ourTx : Hops, relayedBy : [Index -> Nodes]]
Free == [id |-> NoId]     \* a zeroed record
Packets == [from : Senders, id : Ids, relay : Nodes, nextHop : Nodes,
            hop : Hops]

Millis == now % Wrap
AgeByClock(i) == recentPackets[i].rx
Age(i) == (Millis - recentPackets[i].rx) % Wrap

-----------------------------------------------------------------------------
(* find() and insert(). *)

IsFree(i) == recentPackets[i] = Free
Matches(i, sender, id) ==
    /\ ~IsFree(i)
    /\ recentPackets[i].sender = sender /\ recentPackets[i].id = id

Found(sender, id) == {i \in Slots : Matches(i, sender, id)}
Record(sender, id) == recentPackets[CHOOSE i \in Found(sender, id) : TRUE]

StopsAt(i, r) == IsFree(i) \/ Matches(i, r.sender, r.id)

TargetIgnoresMatch(r) ==
    LET Stops == {i \in Slots : IsFree(i)}
    IN  IF Stops # {}
        THEN {i \in Stops : \A j \in Stops : i <= j}
        ELSE {i \in Slots : Age(i) > 0 /\ \A j \in Slots : Age(j) <= Age(i)}

\* insert() takes the first free or matching slot, else the oldest one; when
\* no record has an age it finds nothing and drops the new one.
Target(r) ==
    LET Stops == {i \in Slots : StopsAt(i, r)}
    IN  IF Stops # {}
        THEN {i \in Stops : \A j \in Stops : i <= j}
        ELSE {i \in Slots : /\ Age(i) > 0
                            /\ \A j \in Slots : \/ Age(j) < Age(i)
                                                \/ Age(j) = Age(i) /\ i <= j}

Insert(r) ==
    /\ recentPackets' = [i \in Slots |->
                            IF i \in Target(r) THEN r ELSE recentPackets[i]]
    /\ storedAt' = [i \in Slots |->
                            IF i \in Target(r) THEN now ELSE storedAt[i]]

-----------------------------------------------------------------------------
(* The relayers of a record. *)

WasRelayer(n, r) == \E k \in Index : r.relayedBy[k] = n
NoRelayers == [k \in Index |-> NoNode]

\* The relayers already known move start places up to make room for first;
\* what does not fit is lost, and so is the place of a second copy of first.
MergeRelayers(first, start, old) ==
    [k \in Index |->
        IF k < start THEN first
        ELSE IF start = 1 /\ old[k - start] = first THEN NoNode
        ELSE old[k - start]]

\* The neighbour p came from heard our own transmission of it.
HeardUsDirectly(p, r) ==
    WasRelayer(Us, r) /\ (p.hop = r.ourTx \/ p.hop = r.ourTx - 1)

MergedWithLatest(p, r) ==
    [r EXCEPT !.highest = p.hop, !.rx = IF Millis = 0 THEN 1 ELSE Millis]

\* The record wasSeenRecently() builds for p when r is the one it found.
Merged(p, r) ==
    LET weWillRelay == p.relay = Us
        start == IF weWillRelay \/ HeardUsDirectly(p, r) THEN 1 ELSE 0
    IN  [sender |-> p.from, id |-> p.id,
         rx |-> IF Millis = 0 THEN 1 ELSE Millis,
         nextHop |-> r.nextHop,
         highest |-> IF r.highest > p.hop THEN r.highest ELSE p.hop,
         ourTx |-> IF weWillRelay THEN p.hop ELSE r.ourTx,
         relayedBy |-> MergeRelayers(p.relay, start, r.relayedBy)]

Fresh(p) ==
    [sender |-> p.from, id |-> p.id,
     rx |-> IF Millis = 0 THEN 1 ELSE Millis,
     nextHop |-> p.nextHop, highest |-> p.hop,
     ourTx |-> IF p.relay = Us THEN p.hop ELSE 0,
     relayedBy |-> IF p.relay = Us THEN [NoRelayers EXCEPT ![0] = Us]
                   ELSE NoRelayers]

\* hop_limit packs the highest limit in bits 0-2 and ours in bits 3-5; the
\* upgrade test compares the whole byte.
PackedHopLimit(r) == r.highest + 8 * r.ourTx
IsUpgraded(p, r) == PackedHopLimit(r) < p.hop

\* A packet that was heard on its way to a next hop, not to us, and is now
\* flooded by a node that relayed it before; nobody waits for that of our own.
IsFallback(p, r) ==
    /\ r.sender # OurNum
    /\ r.nextHop \notin {NoNode, Us} /\ p.nextHop = NoNode
    /\ WasRelayer(p.relay, r)
    /\ ~WasRelayer(Us, r) /\ ~WasRelayer(r.nextHop, r)

-----------------------------------------------------------------------------
Unseen == [seen |-> FALSE, upgraded |-> FALSE, fallback |-> FALSE]

Init ==
    /\ recentPackets = [i \in Slots |-> Free]
    /\ now = Start
    /\ verdict = Unseen
    /\ storedAt = [i \in Slots |-> Start]

\* wasSeenRecently(p) writes an update of the record found, or a fresh one; a
\* record that loses its slot takes what was known of the packet with it.
Remember(p) == Insert(IF Found(p.from, p.id) = {} THEN Fresh(p)
                      ELSE Merged(p, Record(p.from, p.id)))

\* A packet off the air; nobody else carries our relay byte.
Hear(p) ==
    /\ p.relay # Us
    /\ Remember(p)
    /\ verdict' =
         IF Found(p.from, p.id) = {} THEN Unseen
         ELSE LET r == Record(p.from, p.id)
              IN  [seen |-> TRUE, upgraded |-> IsUpgraded(p, r),
                   fallback |-> IsFallback(p, r)]
    /\ UNCHANGED now

\* A packet of ours, or one that was heard and is passed on with at most the
\* hop limit it came with.
Send(p) ==
    /\ p.relay = Us
    /\ \A i \in Found(p.from, p.id) : p.hop <= recentPackets[i].highest
    /\ Remember(p)
    /\ UNCHANGED <<now, verdict>>

\* Router::cancelSending: our transmission was taken out of the TX queue.
RemoveRelayer(sender, id) ==
    /\ \E i \in Found(sender, id) :
         LET old == recentPackets[i].relayedBy
             Kept(k) == {j \in Index : old[j] # Us
                          /\ Cardinality({h \in 0 .. j - 1 : old[h] # Us}) = k}
             closed == [k \in Index |-> IF Kept(k) = {} THEN NoNode
                                        ELSE old[CHOOSE j \in Kept(k) : TRUE]]
         IN  recentPackets' = [recentPackets EXCEPT ![i].relayedBy = closed]
    /\ UNCHANGED <<now, verdict, storedAt>>

Tick ==
    /\ now < MaxTime
    /\ now' = now + 1
    /\ UNCHANGED <<recentPackets, verdict, storedAt>>

Next ==
    \/ \E p \in Packets : Hear(p) \/ Send(p)
    \/ \E s \in Senders, id \in Ids : RemoveRelayer(s, id)
    \/ Tick

Spec == Init /\ [][Next]_vars

-----------------------------------------------------------------------------
(* Properties. *)

Verdicts == [seen : BOOLEAN, upgraded : BOOLEAN, fallback : BOOLEAN]

\* The table holds zeroed or well-formed records (PacketRecord).
TypeOK ==
    /\ recentPackets \in [Slots -> Records \cup {Free}]
    /\ now \in Nat
    /\ verdict \in Verdicts
    /\ storedAt \in [Slots -> Nat]

\* find() returns only the first match, "so be careful not to create
\* duplicate entries": no (sender, id) is ever stored twice.
NoDuplicateEntries ==
    \A i, j \in Slots :
        ~IsFree(i) /\ ~IsFree(j)
            /\ recentPackets[i].sender = recentPackets[j].sender
            /\ recentPackets[i].id = recentPackets[j].id => i = j

\* insert() evicts the oldest record, whatever the order in which the slots
\* were filled: a record gives way to another packet only when none of the
\* others was written earlier.
OldestIsEvicted ==
    [][\A i \in Slots :
         ~IsFree(i) /\ ~Matches(i, recentPackets'[i].sender, recentPackets'[i].id)
           => \A j \in Slots : storedAt[i] <= storedAt[j]]_vars

\* The hop limits kept for upgrades never go down while the record lives
\* ("so upgrades aren't lost when a later copy has fewer hops remaining"),
\* whichever of our own or the neighbours' copies comes in between.
HighestIsKept ==
    [][\A i \in Slots :
         ~IsFree(i) /\ Matches(i, recentPackets'[i].sender, recentPackets'[i].id)
           => recentPackets'[i].highest >= recentPackets[i].highest
              /\ recentPackets'[i].nextHop = recentPackets[i].nextHop]_vars

=============================================================================
